----------------------------- MODULE RadarCapture -----------------------------
(***************************************************************************)
(* One radar capture (sensors/radar_capture.py) with the stream decoder    *)
(* (sensors/ti_mmwave.py) and the raw stream's index, up to what the       *)
(* inspector (sensors/raw_capture_index.py) says of the two files.         *)
(*                                                                         *)
(* The device numbers its frames modulo Counter and sends each as          *)
(* PacketLen pieces, of which the line may lose some; a piece <<f, i>> is  *)
(* the i-th of the f-th frame, the first one its header (magic word and    *)
(* length), and <<f, 0>> a header whose length is damaged.  The mission    *)
(* log's writer accepts or refuses a record (module MissionLog).  A signal *)
(* raises KeyboardInterrupt in any step of the loop.  A kill, or a writer  *)
(* that raises, is a behaviour that goes no further.                       *)
(***************************************************************************)
EXTENDS Naturals, Sequences, FiniteSets

CONSTANTS
  PacketLen, Counter,
  Starts,        \* the device's counter when the capture opens the port
  Chunks,        \* how many pieces one read may return
  WireRoom,      \* bound: pieces on the line when the device sends a frame
  MaxFrames,     \* bound: frames the device sends
  MaxHarm,       \* bound: pieces lost or damaged, bad frames
  MaxResets,     \* bound: resets of the device
  MaxRefusals,   \* bound: records the writer refuses
  MaxHealths     \* bound: periodic health records

ASSUME CaptureAssumption ==
  /\ PacketLen \in Nat \ {0, 1} /\ Counter \in Nat \ {0, 1}
  /\ Starts \subseteq 0..Counter - 1
  /\ {MaxFrames, MaxHarm, MaxResets, MaxRefusals, MaxHealths} \subseteq Nat

VARIABLES
  \* the device and the line
  numbers,       \* frame_number of each frame sent
  quality,       \* what its packet holds
  wire,          \* pieces not read yet
  budget,        \* what the environment may still do
  \* the raw stream and its index
  pc, stop,      \* where the loop is; why it ended
  chunk,         \* the pieces in hand
  raw, hashed, counted,    \* in the file, in raw_hasher, in raw_bytes
  chunkSeq, index, torn, footer,
  syncedRaw, syncedIndex,
  \* the decoder
  buffer, synchronized, startup,
  batch,         \* what one call of feed has decoded: packets, and how they parsed
  \* the loop's counters
  faults, lastFaults, frames, cloud, previous,
  epoch, seq, rec,         \* the numbers and the record accepted last
  kept                     \* the packets of all frame records accepted

device == <<numbers, quality, wire>>
rawFiles == <<raw, hashed, counted, chunkSeq, index, torn, footer>>
synced == <<syncedRaw, syncedIndex>>
decoder == <<buffer, synchronized, startup>>
stats == <<faults, frames, cloud, previous>>
log == <<epoch, seq, rec, kept>>
vars == <<device, budget, pc, stop, chunk, rawFiles, synced, decoder, batch, stats, lastFaults, log>>

None == Counter       \* previous_frame is None
NoFooter == [chunks |-> 0, bytes |-> 0, hashed |-> 0, there |-> FALSE]

Goto(p) == pc' = p
Spend(what) == budget[what] > 0 /\ budget' = [budget EXCEPT ![what] = @ - 1]

-----------------------------------------------------------------------------
(* The device.  Only a read looks at the line: the device's steps are put  *)
(* between the passes of the loop.                                         *)

\* classify_frame_transition
Delta(from, to) == (to + Counter - from) % Counter
Gap(from, to) ==
  IF from = None \/ Delta(from, to) = 0 \/ 2 * Delta(from, to) >= Counter
  THEN 0 ELSE Delta(from, to) - 1
Transition(from, to) ==
  CASE from = None -> "first"
    [] from # None /\ Delta(from, to) = 0 -> "duplicate"
    [] from # None /\ 2 * Delta(from, to) >= Counter -> "reset_or_out_of_order"
    [] OTHER -> IF to < from THEN "wrap"
                ELSE IF Gap(from, to) > 0 THEN "gap" ELSE "consecutive"

Latest == numbers[Len(numbers)]

\* What _parse_tlvs says of a packet whose points are not all there: fewer than
\* its header counts, or no point list that it knows.
Poor == {"incomplete", "none"}

Packet(f) == [i \in 1..PacketLen |-> <<f, i>>]

\* The packet of the f-th frame as a bad line delivers it: without a piece, cut
\* short, or with a damaged length.
Arrivals(f) ==
  LET whole == Packet(f)
      without(i) == SubSeq(whole, 1, i - 1) \o SubSeq(whole, i + 1, PacketLen)
  IN {without(i) : i \in 1..PacketLen} \cup {SubSeq(whole, 1, i) : i \in 0..PacketLen - 1}
       \cup {[whole EXCEPT ![1] = <<f, 0>>]}

Send(number, q, pieces) ==
  /\ pc = "read" /\ Len(numbers) < MaxFrames /\ Len(wire) <= WireRoom
  /\ numbers' = Append(numbers, number)
  /\ quality' = Append(quality, q)
  /\ wire' = wire \o pieces
  /\ UNCHANGED <<pc, stop, chunk, rawFiles, synced, decoder, batch, stats, lastFaults, log>>

NextNumber == IF numbers = <<>> THEN Starts ELSE {(Latest + 1) % Counter}

SendsWell == \E n \in NextNumber : Send(n, "points", Packet(Len(numbers) + 1)) /\ UNCHANGED budget
SendsBadly ==
  /\ Spend("harm")
  /\ \E n \in NextNumber :
       \/ \E q \in Poor : Send(n, q, Packet(Len(numbers) + 1))
       \/ \E a \in Arrivals(Len(numbers) + 1) : Send(n, "points", a)
Restarts ==
  /\ numbers # <<>> /\ 2 * Latest < Counter
  /\ Spend("resets") /\ Send(0, "points", Packet(Len(numbers) + 1))

-----------------------------------------------------------------------------
(* The loop: a chunk goes to the raw file and the index, then through the  *)
(* decoder, then its frames to the mission log.                            *)

\* Mutant of Hash: the chunk is decoded before its index line is written.
HashDecodesFirst ==
  /\ pc = "hash" /\ Goto("count")
  /\ hashed' = hashed + Len(chunk) /\ chunkSeq' = chunkSeq + 1
  /\ UNCHANGED <<raw, counted, index, torn, footer>>
  /\ UNCHANGED <<device, budget, stop, chunk, synced, decoder, batch, stats, lastFaults, log>>

Read ==
  /\ pc = "read" /\ wire # <<>>
  /\ \E n \in (Chunks \cap 1..Len(wire)) \cup {Len(wire)} :
       chunk' = SubSeq(wire, 1, n) /\ wire' = SubSeq(wire, n + 1, Len(wire))
  /\ Goto("store")
  /\ UNCHANGED <<numbers, quality, budget, stop, rawFiles, synced, decoder, batch, stats, lastFaults, log>>

\* Nothing arrived in time, or the loop's condition ends it.
ReadsNothing ==
  /\ pc = "read" /\ wire = <<>> /\ Goto("health")
  /\ UNCHANGED <<device, budget, stop, chunk, rawFiles, synced, decoder, batch, stats, lastFaults, log>>
Ends ==
  /\ pc = "read" /\ Goto("footer") /\ stop' = "requested"
  /\ UNCHANGED <<device, budget, chunk, rawFiles, synced, decoder, batch, stats, lastFaults, log>>

StoreRaw ==
  /\ pc = "store" /\ Goto("hash")
  /\ raw' = raw \o chunk
  /\ UNCHANGED <<hashed, counted, chunkSeq, index, torn, footer>>
  /\ UNCHANGED <<device, budget, stop, chunk, synced, decoder, batch, stats, lastFaults, log>>

Hash ==
  /\ pc = "hash" /\ Goto("index")
  /\ hashed' = hashed + Len(chunk) /\ chunkSeq' = chunkSeq + 1
  /\ UNCHANGED <<raw, counted, index, torn, footer>>
  /\ UNCHANGED <<device, budget, stop, chunk, synced, decoder, batch, stats, lastFaults, log>>

IndexLine ==
  /\ pc = "index" /\ Goto("count")
  /\ index' = [chunks |-> index.chunks + 1, bytes |-> index.bytes + Len(chunk),
               sound |-> index.sound /\ chunkSeq = index.chunks + 1 /\ counted = index.bytes]
  /\ UNCHANGED <<raw, hashed, counted, chunkSeq, torn, footer>>
  /\ UNCHANGED <<device, budget, stop, chunk, synced, decoder, batch, stats, lastFaults, log>>

Feed ==
  /\ pc = "count" /\ Goto("decode")
  /\ counted' = counted + Len(chunk)
  /\ buffer' = buffer \o chunk /\ chunk' = <<>>
  /\ UNCHANGED <<raw, hashed, chunkSeq, index, torn, footer, synchronized, startup>>
  /\ UNCHANGED <<device, budget, stop, synced, batch, stats, lastFaults, log>>

-----------------------------------------------------------------------------
(* TiMmwaveStreamDecoder.feed, one iteration at a time.                    *)

IsHeader(p) == p[2] \in {0, 1}
Rest == <<0, PacketLen>>      \* at most seven bytes that may begin a magic word

Headers == {i \in DOMAIN buffer : IsHeader(buffer[i])}
FirstHeader == CHOOSE i \in Headers : \A j \in Headers : i <= j

\* _find_next_plausible_magic
NextHeaders == {i \in Headers : i > 1 /\ buffer[i][2] = 1}
NextMagic == CHOOSE i \in NextHeaders : \A j \in NextHeaders : i <= j

From(i) == SubSeq(buffer, i, Len(buffer))

\* Bytes are thrown away; before the first frame that is the start-up's affair.
Discards(left) ==
  /\ pc = "decode" /\ Goto("decode")
  /\ buffer' = left
  /\ IF synchronized
     THEN faults' = faults + 1 /\ startup' = startup
     ELSE startup' = TRUE /\ faults' = faults
  /\ UNCHANGED <<synchronized, frames, cloud, previous>>
  /\ UNCHANGED <<device, budget, stop, chunk, rawFiles, synced, batch, lastFaults, log>>

SkipsNoise ==
  \/ Headers = {} /\ buffer \notin {<<>>, <<Rest>>} /\ Discards(<<Rest>>)
  \/ Headers # {} /\ FirstHeader > 1 /\ Discards(From(FirstHeader))

AtHeader == Headers # {} /\ FirstHeader = 1
Starved == Len(buffer) < PacketLen
Front == SubSeq(buffer, 1, PacketLen)

\* What parse_packet may make of a packet: of a whole one what its frame holds;
\* of one that foreign pieces complete, anything, for it has no checksum.
Readings(packet) ==
  LET f == packet[1][1] IN
  IF packet = Packet(f) THEN {quality[f]} ELSE {"points", "error"} \cup Poor

BadLength == AtHeader /\ buffer[1][2] = 0 /\ Discards(From(2))
Truncated ==
  /\ AtHeader /\ buffer[1][2] = 1 /\ Starved /\ NextHeaders # {}
  /\ Discards(From(NextMagic))
\* Mutant of ParseError: the bytes of the announced length go, not one.
ParseErrorEatsPacket ==
  /\ AtHeader /\ buffer[1][2] = 1 /\ ~Starved /\ "error" \in Readings(Front)
  /\ Discards(From(PacketLen + 1))

ParseError ==
  /\ AtHeader /\ buffer[1][2] = 1 /\ ~Starved /\ "error" \in Readings(Front)
  /\ Discards(From(2))

Decodes ==
  /\ pc = "decode" /\ AtHeader /\ buffer[1][2] = 1 /\ ~Starved
  /\ synchronized' = TRUE
  /\ buffer' = From(PacketLen + 1)
  /\ \E q \in Readings(Front) \ {"error"} :
       batch' = Append(batch, [packet |-> Front, quality |-> q])
  /\ UNCHANGED <<device, budget, pc, stop, chunk, rawFiles, synced, startup, stats, lastFaults, log>>

NeedsMore ==
  /\ pc = "decode"
  /\ \/ Headers = {} /\ buffer \in {<<>>, <<Rest>>}
     \/ AtHeader /\ buffer[1][2] = 1 /\ Starved /\ NextHeaders = {}
  /\ Goto("frames")
  /\ UNCHANGED <<device, budget, stop, chunk, rawFiles, synced, decoder, batch, stats, lastFaults, log>>

-----------------------------------------------------------------------------
(* The frames and the health records.                                      *)

\* The frame_number that a packet's header carries.
Number(d) == numbers[d.packet[1][1]]

\* What a frame says of the ones before it and of itself.
Harms(d) ==
  \/ Transition(previous, Number(d)) \in {"duplicate", "reset_or_out_of_order"}
  \/ Gap(previous, Number(d)) > 0
  \/ d.quality # "points"

\* The counters of one frame, up to its submission.
Counts(d, more) ==
  /\ faults' = faults + (IF Harms(d) THEN 1 ELSE 0) + more
  /\ previous' = Number(d) /\ frames' = TRUE
  /\ cloud' = (cloud \/ d.quality # "none")

\* A reset of the device starts an epoch, with numbers of its own.
NextHeader(d) ==
  IF Transition(previous, Number(d)) = "reset_or_out_of_order"
  THEN epoch' = epoch + 1 /\ seq' = 1
  ELSE epoch' = epoch /\ seq' = seq + 1

Record(d) ==
  [kind |-> "frame", epoch |-> epoch', seq |-> seq', dropped |-> Gap(previous, Number(d)),
   transition |-> Transition(previous, Number(d)), quality |-> d.quality]

SubmitFrame ==
  /\ pc = "frames" /\ batch # <<>> /\ batch' = Tail(batch)
  /\ NextHeader(Head(batch))
  /\ \/ /\ Counts(Head(batch), 0)
        /\ kept' = kept \cup {Head(batch).packet} /\ rec' = Record(Head(batch))
        /\ UNCHANGED budget
     \/ /\ Spend("refusals") /\ Counts(Head(batch), 1)
        /\ UNCHANGED <<kept, rec>>
  /\ UNCHANGED <<device, pc, stop, chunk, rawFiles, synced, decoder, lastFaults>>

FramesDone ==
  /\ pc = "frames" /\ batch = <<>> /\ Goto("health")
  /\ UNCHANGED <<device, budget, stop, chunk, rawFiles, synced, decoder, batch, stats, lastFaults, log>>

NotDue ==
  /\ pc = "health" /\ Goto("read")
  /\ UNCHANGED <<device, budget, stop, chunk, rawFiles, synced, decoder, batch, stats, lastFaults, log>>

PeriodicStatus ==
  IF faults > lastFaults THEN "degraded"
  ELSE IF ~frames THEN "starting"
  ELSE IF ~cloud THEN "degraded" ELSE "ok"

\* Mutant of EmitHealth: the faults count as reported though the record was refused.
EmitHealthForgets ==
  /\ pc = "health" /\ Goto("read")
  /\ \/ /\ Spend("healths") /\ UNCHANGED faults
        /\ rec' = [kind |-> "health", final |-> FALSE, status |-> PeriodicStatus]
     \/ Spend("refusals") /\ faults' = faults + 1 /\ UNCHANGED rec
  /\ lastFaults' = faults'
  /\ UNCHANGED <<device, stop, chunk, rawFiles, synced, decoder, batch, frames, cloud, previous,
                 epoch, seq, kept>>

EmitHealth ==
  /\ pc = "health" /\ Goto("read")
  /\ \/ /\ Spend("healths")
        /\ lastFaults' = faults /\ UNCHANGED faults
        /\ rec' = [kind |-> "health", final |-> FALSE, status |-> PeriodicStatus]
     \/ /\ Spend("refusals")
        /\ faults' = faults + 1 /\ UNCHANGED <<lastFaults, rec>>
  /\ UNCHANGED <<device, stop, chunk, rawFiles, synced, decoder, batch, frames, cloud, previous,
                 epoch, seq, kept>>

-----------------------------------------------------------------------------
(* The end.                                                                *)

Looping == pc \in {"read", "store", "hash", "index", "count", "decode", "frames", "health"}

\* KeyboardInterrupt: a write may be half done, and a frame counted.
Interrupt ==
  /\ Looping /\ Goto("footer") /\ stop' = "interrupt"
  /\ chunk' = <<>> /\ batch' = <<>>
  /\ \/ UNCHANGED <<raw, torn>>
     \/ /\ pc = "store" /\ UNCHANGED torn
        /\ raw' = raw \o SubSeq(chunk, 1, Len(chunk) - 1)
     \/ pc = "index" /\ torn' = TRUE /\ UNCHANGED raw
  /\ \/ UNCHANGED stats
     \/ pc = "frames" /\ batch # <<>> /\ Counts(Head(batch), 0)
  /\ UNCHANGED <<device, budget, hashed, counted, chunkSeq, index, footer, synced, decoder,
                 lastFaults, log>>

WriteFooter ==
  /\ pc = "footer" /\ Goto("sync")
  /\ footer' = [chunks |-> chunkSeq, bytes |-> counted, hashed |-> hashed, there |-> TRUE]
  /\ UNCHANGED <<raw, hashed, counted, chunkSeq, index, torn>>
  /\ UNCHANGED <<device, budget, stop, chunk, synced, decoder, batch, stats, lastFaults, log>>

SyncFiles ==
  /\ pc = "sync" /\ Goto("final")
  /\ syncedRaw' = Len(raw) /\ syncedIndex' = footer.there
  /\ UNCHANGED <<device, budget, stop, chunk, rawFiles, decoder, batch, stats, lastFaults, log>>

FinalStatus ==
  IF \/ faults > 0
     \/ ~synchronized /\ (startup \/ buffer # <<>>)
     \/ buffer # <<>>
  THEN "degraded"
  ELSE IF ~frames THEN "stale"
  ELSE IF ~cloud THEN "degraded" ELSE "ok"

WriteFinal ==
  /\ pc = "final" /\ Goto("ended")
  /\ rec' = [kind |-> "health", final |-> TRUE, status |-> FinalStatus]
  /\ UNCHANGED <<device, budget, stop, chunk, rawFiles, synced, decoder, batch, stats, lastFaults,
                 epoch, seq, kept>>

-----------------------------------------------------------------------------

Init ==
  /\ numbers = <<>> /\ quality = <<>> /\ wire = <<>>
  /\ budget = [harm |-> MaxHarm, resets |-> MaxResets, refusals |-> MaxRefusals,
               healths |-> MaxHealths]
  /\ pc = "read" /\ stop = "none" /\ chunk = <<>>
  /\ raw = <<>> /\ hashed = 0 /\ counted = 0
  /\ chunkSeq = 0 /\ index = [chunks |-> 0, bytes |-> 0, sound |-> TRUE] /\ torn = FALSE /\ footer = NoFooter
  /\ syncedRaw = 0 /\ syncedIndex = FALSE
  /\ buffer = <<>> /\ batch = <<>> /\ synchronized = FALSE /\ startup = FALSE
  /\ faults = 0 /\ lastFaults = 0 /\ frames = FALSE /\ cloud = FALSE /\ previous = None
  /\ epoch = 1 /\ seq = 0 /\ kept = {}
  /\ rec = [kind |-> "health", final |-> FALSE, status |-> "starting"]

Device == SendsWell \/ SendsBadly \/ Restarts
Decode == SkipsNoise \/ BadLength \/ Truncated \/ ParseError \/ Decodes \/ NeedsMore
Capture ==
  \/ Read \/ ReadsNothing \/ Ends
  \/ StoreRaw \/ Hash \/ IndexLine \/ Feed
  \/ Decode
  \/ SubmitFrame \/ FramesDone \/ NotDue \/ EmitHealth
  \/ WriteFooter \/ SyncFiles \/ WriteFinal

Next == Device \/ Capture \/ Interrupt

Spec == Init /\ [][Next]_vars

-----------------------------------------------------------------------------
(* Properties.                                                             *)

\* inspect_uart_chunk_index: what `radar-index` says of the raw stream and its
\* index.  Every line is whole, the chunks follow each other, the footer closes
\* them, and the raw file has the length and the hash that it names.
LinesHealthy == ~torn
ChunksHealthy == index.sound
FooterHealthy ==
  footer.there /\ footer.chunks = index.chunks /\ footer.bytes = index.bytes
StreamHealthy == Len(raw) = footer.bytes /\ footer.hashed = Len(raw)
IndexHealthy == LinesHealthy /\ ChunksHealthy /\ FooterHealthy /\ StreamHealthy

Finished == rec.kind = "health" /\ rec.final

\* What a decoder may cut out of a stream, and what it should: the packets that
\* the device sent.
Windows(s) == {SubSeq(s, k + 1, k + PacketLen) : k \in 0..Len(s) - PacketLen}
Sent == {Packet(f) : f \in DOMAIN numbers}

\* A run that ends by itself and says "ok" has left nothing out: the inspector
\* accepts its raw stream and index, and every whole packet of the stream is a
\* frame of the log, whatever noise came before and whatever the parser made of
\* it (the decoder of TiMmwaveStreamDecoder.feed resynchronises without eating
\* a packet, or counts what it threw away).
CleanEndIsWhole ==
  Finished /\ rec.status = "ok" /\ stop = "requested" =>
    IndexHealthy /\ Sent \cap Windows(raw) \subseteq kept

\* What the log holds can be decoded again: at every moment, so also in a run
\* that was killed, the raw stream of capture_radar_uart has the packet of each
\* logged frame and an index line covers it; and a final record stands for a
\* raw stream and an index that are on the disk to their ends.
LoggedIsRaw ==
  /\ kept \subseteq Windows(SubSeq(raw, 1, index.bytes))
  /\ Finished => syncedRaw = Len(raw) /\ syncedIndex

\* The mission log carries what its readers rely on (module RecordStream): an
\* "ok" of a periodic record means that every loss so far has been reported by
\* an accepted "degraded", and every reset opens an epoch.
Gaps == {g \in 0..Counter : 2 * g < Counter}
Stream == INSTANCE RecordStream
  WITH owed <- faults > lastFaults, faulty <- faults > 0
Implements == Stream!Spec
================================================================================
