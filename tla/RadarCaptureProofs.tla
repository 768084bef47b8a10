-------------------------- MODULE RadarCaptureProofs --------------------------
(***************************************************************************)
(* What a radar capture guarantees for every packet length, counter, read  *)
(* size and number of losses, and for a signal in any step.                *)
(***************************************************************************)
EXTENDS RadarCapture, Integers, SequenceTheorems,
  WellFoundedInduction, TLAPS

(***************************************************************************)
(* The pieces the decoder was fed are the first `counted` ones of the raw  *)
(* file.  Its buffer holds those after some position p, or the few bytes   *)
(* kept of what went before and those after p.                             *)
(***************************************************************************)
Pieces == (1..Len(numbers)) \X (0..PacketLen)
Cuts == {w \in Seq(Pieces) : Len(w) = PacketLen}
Decoded == [packet: Cuts, quality: Stream!Qualities]
Batch == {batch[j].packet : j \in DOMAIN batch}

\* The pieces w lie in the raw file after position k; and: nothing that was fed
\* so far rules out that the packet of frame f does.
Window(w, k) == \A i \in 1..PacketLen : raw[k + i] = w[i]
Opens(f, k) == \A i \in 1..PacketLen : k + i <= counted => raw[k + i] = <<f, i>>

Holds(p) ==
  /\ Len(buffer) = counted - p
  /\ \A j \in 1..Len(buffer) : buffer[j] = raw[p + j]
HoldsRest(p) ==
  /\ Len(buffer) = counted - p + 1
  /\ buffer[1] = Rest
  /\ \A j \in 2..Len(buffer) : buffer[j] = raw[p + j - 1]

\* Every packet that begins before p and may still be whole was decoded; or it
\* reaches beyond p, where foreign pieces were decoded with its first ones: then
\* what is left of it begins no packet, and throwing it away is a fault.
Passed(p) ==
  faults = 0 /\ stop # "interrupt" =>
    \A k \in 0..p - 1, f \in Nat :
      Opens(f, k) => Packet(f) \in kept \cup Batch \/ (synchronized /\ k + PacketLen > p)

\* A step that leaves p behind counts a fault once the decoder has synchronized,
\* or no packet reaches beyond p that began before it.
Resyncs(p) ==
  faults' = 0 /\ synchronized =>
    \A k \in 0..p - 1, f \in Nat : Opens(f, k) => k + PacketLen <= p

DecoderInv == \E p \in 0..counted : (Holds(p) \/ HoldsRest(p)) /\ Passed(p)

\* What was decoded is in the raw file, before what is still to be fed.
ReplayInv ==
  \A w \in kept \cup Batch :
    \E k \in Nat : k + PacketLen <= counted /\ Window(w, k)

(***************************************************************************)
(* The raw file, its hash, its count and its index grow one after the      *)
(* other: until a signal, the position in the loop says how far each is.   *)
(***************************************************************************)
InHand(positions) == IF pc \in positions THEN Len(chunk) ELSE 0

Lengths ==
  /\ ~torn
  /\ Len(raw) = counted + InHand({"hash", "index", "count"})
  /\ hashed = counted + InHand({"index", "count"})
  /\ index.bytes = counted + InHand({"count"})
  /\ chunkSeq = index.chunks + (IF pc = "index" THEN 1 ELSE 0)
  /\ pc \in {"hash", "index", "count"} =>
       \A j \in 1..Len(chunk) : raw[counted + j] = chunk[j]
  /\ pc \notin {"store", "hash", "index", "count"} => chunk = <<>>

Closing == {"footer", "sync", "final", "ended"}

FileInv ==
  /\ stop # "interrupt" => Lengths
  /\ index.sound
  /\ counted <= index.bytes /\ index.bytes <= Len(raw)
  /\ pc \notin Closing => stop = "none"
  /\ pc \notin {"decode", "frames"} => batch = <<>>
  /\ pc \in {"sync", "final", "ended"} =>
       footer = [chunks |-> chunkSeq, bytes |-> counted, hashed |-> hashed, there |-> TRUE]
  /\ pc \in {"final", "ended"} => syncedRaw = Len(raw) /\ syncedIndex

\* The health records.
HealthInv ==
  /\ lastFaults <= faults
  /\ cloud => frames
  /\ Finished <=> pc = "ended"
  /\ pc = "ended" => rec.status = FinalStatus

Type ==
  /\ numbers \in Seq(0..Counter - 1)
  /\ quality \in Seq(Stream!Qualities) /\ Len(quality) = Len(numbers)
  /\ wire \in Seq(Pieces) /\ chunk \in Seq(Pieces) /\ raw \in Seq(Pieces)
  /\ buffer \in Seq(Pieces \cup {Rest}) /\ batch \in Seq(Decoded)
  /\ pc \in Closing \cup {"read", "store", "hash", "index", "count", "decode", "frames", "health"}
  /\ stop \in {"none", "requested", "interrupt"}
  /\ hashed \in Nat /\ counted \in Nat /\ chunkSeq \in Nat
  /\ index \in [chunks: Nat, bytes: Nat, sound: BOOLEAN]
  /\ faults \in Nat /\ lastFaults \in Nat
  /\ frames \in BOOLEAN /\ cloud \in BOOLEAN /\ previous \in 0..Counter
  /\ synchronized \in BOOLEAN
  /\ epoch \in Nat /\ seq \in Nat
  /\ kept \subseteq Cuts

IInv == Type /\ FileInv /\ HealthInv /\ ReplayInv /\ DecoderInv

-----------------------------------------------------------------------------
(* What a step may do to the raw file and the logged frames.               *)

\* The frames that were decoded stay in a raw file that only grows.
LEMMA ReplayKept ==
  ASSUME ReplayInv, counted \in Nat, counted' \in Nat, counted <= counted',
         \A j \in 1..counted : raw'[j] = raw[j],
         kept' \cup Batch' \subseteq kept \cup Batch
  PROVE  ReplayInv'
<1>. SUFFICES ASSUME NEW w \in kept \cup Batch
              PROVE  \E k \in Nat : k + PacketLen <= counted' /\ Window(w, k)'
  BY DEF ReplayInv
<1>. PacketLen \in Nat
  BY CaptureAssumption
<1>1. PICK k \in Nat : k + PacketLen <= counted /\ Window(w, k)
  BY DEF ReplayInv
<1>2. Window(w, k)'
  <2>. SUFFICES ASSUME NEW i \in 1..PacketLen PROVE raw'[k + i] = w[i]
    BY DEF Window
  <2>1. k + i \in 1..counted
    BY <1>1
  <2>. QED
    BY <2>1, <1>1 DEF Window
<1>. QED
  BY <1>1, <1>2

\* A step of another part leaves the decoder where it is, if it reports every
\* frame that it takes from those decoded.
LEMMA DecoderKept ==
  ASSUME Type, DecoderInv, UNCHANGED <<buffer, counted, synchronized>>,
         \A j \in 1..counted : raw'[j] = raw[j],
         faults' = 0 /\ stop' # "interrupt" =>
           faults = 0 /\ stop # "interrupt" /\ kept \cup Batch \subseteq kept' \cup Batch'
  PROVE  DecoderInv'
<1>. counted \in Nat /\ PacketLen \in Nat
  BY CaptureAssumption DEF Type
<1>1. PICK p \in 0..counted : (Holds(p) \/ HoldsRest(p)) /\ Passed(p)
  BY DEF DecoderInv
<1>2. Len(buffer) \in Nat
  BY DEF Type
<1>3. Holds(p) => Holds(p)'
  BY <1>2 DEF Holds
<1>4. HoldsRest(p) => HoldsRest(p)'
  BY <1>2 DEF HoldsRest
<1>5. Passed(p)'
  <2>. SUFFICES ASSUME faults' = 0, stop' # "interrupt",
                       NEW k \in 0..p - 1, NEW f \in Nat, Opens(f, k)'
                PROVE  Packet(f) \in kept \cup Batch \/ (synchronized /\ k + PacketLen > p)
    BY DEF Passed, Packet
  <2>1. Opens(f, k)
    <3>. SUFFICES ASSUME NEW i \in 1..PacketLen, k + i <= counted PROVE raw[k + i] = <<f, i>>
      BY DEF Opens
    <3>1. k + i \in 1..counted
      OBVIOUS
    <3>. QED
      BY <3>1 DEF Opens
  <2>. QED
    BY <1>1, <2>1 DEF Passed
<1>. QED
  BY <1>1, <1>3, <1>4, <1>5 DEF DecoderInv

-----------------------------------------------------------------------------
(* The decoder.                                                            *)

LEMMA LeastNat ==
  ASSUME NEW S, S \subseteq Nat, S # {}
  PROVE  \E i \in S : \A j \in S : i <= j
<1>. DEFINE before == {ss \in Nat \X Nat : ss[1] < ss[2]}
<1>1. IsWellFoundedOn(before, Nat)
  BY NatLessThanWellFounded DEF OpToRel
<1>2. PICK i \in S : \A j \in S : <<j, i>> \notin before
  <2>. HIDE DEF before
  <2>. QED
    BY <1>1, WFMin
<1>3. \A j \in S : j < i => <<j, i>> \in before
  OBVIOUS
<1>4. \A j \in S : ~(j < i)
  <2>. HIDE DEF before
  <2>. QED
    BY <1>2, <1>3
<1>. QED
  BY <1>4

\* What the decoder's searches find.
LEMMA Found ==
  ASSUME buffer \in Seq(Pieces \cup {Rest})
  PROVE  /\ Headers # {} =>
              /\ FirstHeader \in Headers /\ FirstHeader \in 1..Len(buffer)
              /\ \A j \in 1..FirstHeader - 1 : ~IsHeader(buffer[j])
         /\ NextHeaders # {} =>
              /\ NextMagic \in NextHeaders /\ NextMagic \in 2..Len(buffer)
              /\ \A j \in 2..NextMagic - 1 : buffer[j][2] # 1
<1>. Len(buffer) \in Nat /\ DOMAIN buffer = 1..Len(buffer)
  OBVIOUS
<1>1. Headers \subseteq 1..Len(buffer) /\ NextHeaders \subseteq 2..Len(buffer)
  BY DEF Headers, NextHeaders
<1>2. ASSUME Headers # {} PROVE FirstHeader \in Headers /\ \A j \in Headers : FirstHeader <= j
  <2>1. \E i \in Headers : \A j \in Headers : i <= j
    <3>1. Headers \subseteq Nat
      BY <1>1
    <3>. QED
      BY <1>2, <3>1, LeastNat
  <2>. QED
    BY <2>1 DEF FirstHeader
<1>3. ASSUME NextHeaders # {} PROVE NextMagic \in NextHeaders /\ \A j \in NextHeaders : NextMagic <= j
  <2>1. \E i \in NextHeaders : \A j \in NextHeaders : i <= j
    <3>1. NextHeaders \subseteq Nat
      BY <1>1
    <3>. QED
      BY <1>3, <3>1, LeastNat
  <2>. QED
    BY <2>1 DEF NextMagic
<1>4. ASSUME Headers # {} PROVE \A j \in 1..FirstHeader - 1 : ~IsHeader(buffer[j])
  <2>1. FirstHeader \in 1..Len(buffer)
    BY <1>1, <1>2, <1>4
  <2>. SUFFICES ASSUME NEW j \in 1..FirstHeader - 1, IsHeader(buffer[j]) PROVE FALSE
    OBVIOUS
  <2>2. j \in Headers
    BY <2>1 DEF Headers
  <2>. QED
    BY <2>1, <2>2, <1>2, <1>4
<1>5. ASSUME NextHeaders # {} PROVE \A j \in 2..NextMagic - 1 : buffer[j][2] # 1
  <2>1. NextMagic \in 2..Len(buffer)
    BY <1>1, <1>3, <1>5
  <2>. SUFFICES ASSUME NEW j \in 2..NextMagic - 1, buffer[j][2] = 1 PROVE FALSE
    OBVIOUS
  <2>2. j \in NextHeaders
    BY <2>1 DEF NextHeaders, Headers, IsHeader
  <2>. QED
    BY <2>1, <2>2, <1>3, <1>5
<1>. QED
  BY <1>1, <1>2, <1>3, <1>4, <1>5

\* What is left of the buffer from its i-th piece on.
LEMMA Left ==
  ASSUME buffer \in Seq(Pieces \cup {Rest}), NEW i \in 1..Len(buffer) + 1
  PROVE  /\ From(i) \in Seq(Pieces \cup {Rest})
         /\ Len(From(i)) = Len(buffer) - i + 1
         /\ \A j \in 1..Len(From(i)) : From(i)[j] = buffer[i + j - 1]
<1>1. Len(buffer) \in Nat /\ \A j \in i..Len(buffer) : buffer[j] \in Pieces \cup {Rest}
  BY ElementOfSeq
<1>2. i \in Int /\ Len(buffer) \in Int
  BY <1>1
<1>. DEFINE n == Len(buffer)  T == Pieces \cup {Rest}
<1>3. /\ SubSeq(buffer, i, n) \in Seq(T)
      /\ Len(SubSeq(buffer, i, n)) = IF i <= n THEN n - i + 1 ELSE 0
      /\ \A j \in 1..n - i + 1 : SubSeq(buffer, i, n)[j] = buffer[i + j - 1]
  <2>. HIDE DEF n, T
  <2>1. \A j \in i..n : buffer[j] \in T
    BY <1>1 DEF n, T
  <2>2. i \in Int /\ n \in Int
    BY <1>2 DEF n
  <2>. QED
    BY <2>1, <2>2, SubSeqProperties
<1>4. Len(From(i)) = n - i + 1
  BY <1>1, <1>3 DEF From
<1>. QED
  BY <1>1, <1>3, <1>4 DEF From

\* The position moves on over pieces none of which begins a packet that was
\* not decoded, or that reaches beyond.
LEMMA Advance ==
  ASSUME NEW p \in Nat, NEW q \in Nat, p <= q, Passed(p),
         UNCHANGED <<raw, counted, stop>>, faults' = 0 => faults = 0,
         kept \cup Batch \subseteq kept' \cup Batch',
         Resyncs(p),
         \A k \in p..q - 1, f \in Nat :
           Opens(f, k) => Packet(f) \in kept' \cup Batch' \/ (synchronized' /\ k + PacketLen > q)
  PROVE  Passed(q)'
<1>. SUFFICES ASSUME faults' = 0, stop # "interrupt",
                     NEW k \in 0..q - 1, NEW f \in Nat, Opens(f, k)
              PROVE  Packet(f) \in kept' \cup Batch' \/ (synchronized' /\ k + PacketLen > q)
  BY DEF Passed, Opens, Packet
<1>1. CASE k < p
  <2>1. Packet(f) \in kept \cup Batch \/ (synchronized /\ k + PacketLen > p)
    BY <1>1 DEF Passed
  <2>2. ~(synchronized /\ k + PacketLen > p)
    <3>1. k \in 0..p - 1 /\ PacketLen \in Nat
      BY <1>1, CaptureAssumption
    <3>. QED
      BY <3>1 DEF Resyncs
  <2>. QED
    BY <2>1, <2>2
<1>2. CASE ~(k < p)
  BY <1>2
<1>. QED
  BY <1>1, <1>2

\* A packet that may begin after position k begins with a header.
LEMMA Begins ==
  ASSUME counted \in Nat, NEW k \in 0..counted - 1, NEW f \in Nat, Opens(f, k)
  PROVE  raw[k + 1] = <<f, 1>> /\ raw[k + 1][2] = 1 /\ IsHeader(raw[k + 1])
<1>1. 1 \in 1..PacketLen
  BY CaptureAssumption
<1>2. raw[k + 1] = <<f, 1>>
  BY <1>1 DEF Opens
<1>. QED
  BY <1>2 DEF IsHeader

LEMMA HoldsFrom ==
  ASSUME buffer \in Seq(Pieces \cup {Rest}), NEW i \in 1..Len(buffer) + 1,
         buffer' = From(i), UNCHANGED <<raw, counted>>, counted \in Nat, NEW p \in 0..counted
  PROVE  /\ Holds(p) => p + i - 1 \in p..counted /\ Holds(p + i - 1)'
         /\ HoldsRest(p) /\ i > 1 => p + i - 2 \in p..counted /\ Holds(p + i - 2)'
<1>0. /\ Len(From(i)) = Len(buffer) - i + 1
      /\ \A j \in 1..Len(From(i)) : From(i)[j] = buffer[i + j - 1]
  BY Left
<1>1. /\ Len(buffer) \in Nat
      /\ Len(buffer') = Len(buffer) - i + 1
      /\ \A j \in 1..Len(buffer') : buffer'[j] = buffer[i + j - 1]
  BY <1>0
<1>2. ASSUME Holds(p) PROVE p + i - 1 \in p..counted /\ Holds(p + i - 1)'
  <2>1. Len(buffer) = counted - p
    BY <1>2 DEF Holds
  <2>2. p + i - 1 \in p..counted /\ Len(buffer') = counted - (p + i - 1)
    BY <1>1, <2>1
  <2>3. ASSUME NEW j \in 1..Len(buffer') PROVE buffer'[j] = raw[(p + i - 1) + j]
    <3>1. i + j - 1 \in 1..Len(buffer) /\ p + (i + j - 1) = (p + i - 1) + j
      BY <1>1
    <3>2. buffer[i + j - 1] = raw[p + (i + j - 1)]
      BY <1>2, <3>1 DEF Holds
    <3>. QED
      BY <1>1, <3>1, <3>2
  <2>. QED
    BY <2>2, <2>3 DEF Holds
<1>3. ASSUME HoldsRest(p), i > 1 PROVE p + i - 2 \in p..counted /\ Holds(p + i - 2)'
  <2>1. Len(buffer) = counted - p + 1
    BY <1>3 DEF HoldsRest
  <2>2. p + i - 2 \in p..counted /\ Len(buffer') = counted - (p + i - 2)
    BY <1>1, <1>3, <2>1
  <2>3. ASSUME NEW j \in 1..Len(buffer') PROVE buffer'[j] = raw[(p + i - 2) + j]
    <3>1. i + j - 1 \in 2..Len(buffer) /\ p + (i + j - 1) - 1 = (p + i - 2) + j
      BY <1>1, <1>3
    <3>2. buffer[i + j - 1] = raw[p + (i + j - 1) - 1]
      BY <1>3, <3>1 DEF HoldsRest
    <3>. QED
      BY <1>1, <3>1, <3>2
  <2>. QED
    BY <2>2, <2>3 DEF Holds
<1>. QED
  BY <1>2, <1>3

\* A step of the decoder that drops i - 1 pieces, none of which begins a packet
\* that is not among those decoded after it, or reaches beyond them.
LEMMA Drops ==
  ASSUME Type, DecoderInv, NEW i \in 1..Len(buffer) + 1, buffer' = From(i),
         buffer[1] = Rest /\ Len(buffer) > 0 => i > 1,
         UNCHANGED <<raw, counted, stop>>, faults' = 0 => faults = 0,
         kept \cup Batch \subseteq kept' \cup Batch',
         \A p \in 0..counted : Holds(p) \/ HoldsRest(p) => Resyncs(p),
         \A p \in 0..counted, j \in 1..i - 1, f \in Nat :
           /\ Holds(p) /\ Opens(f, p + j - 1) =>
                Packet(f) \in kept' \cup Batch' \/ (synchronized' /\ j + PacketLen > i)
           /\ HoldsRest(p) /\ j > 1 => ~Opens(f, p + j - 2)
  PROVE  DecoderInv'
<1>. PacketLen \in Nat
  BY CaptureAssumption
<1>. counted \in Nat /\ buffer \in Seq(Pieces \cup {Rest}) /\ Len(buffer) \in Nat
  BY DEF Type
<1>1. PICK p \in 0..counted : (Holds(p) \/ HoldsRest(p)) /\ Passed(p)
  BY DEF DecoderInv
<1>2. CASE Holds(p)
  <2>. DEFINE q == p + i - 1
  <2>1. q \in Nat /\ p <= q /\ q \in 0..counted /\ Holds(q)'
    BY <1>2, HoldsFrom
  <2>2. ASSUME NEW k \in p..q - 1, NEW f \in Nat, Opens(f, k) 
        PROVE Packet(f) \in kept' \cup Batch' \/ (synchronized' /\ k + PacketLen > q)
    <3>. DEFINE j == k - p + 1
    <3>1. j \in 1..i - 1 /\ p + j - 1 = k /\ (j + PacketLen > i => k + PacketLen > q)
      OBVIOUS
    <3>. HIDE DEF j, q
    <3>. QED
      BY <1>2, <2>2, <3>1
  <2>3. Passed(q)'
    <3>. HIDE DEF q
    <3>. QED
      BY <1>1, <1>2, <2>1, <2>2, Advance
  <2>. QED
    BY <2>1, <2>3 DEF DecoderInv
<1>3. CASE HoldsRest(p)
  <2>. DEFINE q == p + i - 2
  <2>0. i > 1
    BY <1>3 DEF HoldsRest
  <2>1. q \in Nat /\ p <= q /\ q \in 0..counted /\ Holds(q)'
    BY <1>3, <2>0, HoldsFrom
  <2>2. ASSUME NEW k \in p..q - 1, NEW f \in Nat, Opens(f, k) 
        PROVE Packet(f) \in kept' \cup Batch' \/ (synchronized' /\ k + PacketLen > q)
    <3>1. k - p + 2 \in 1..i - 1 /\ k - p + 2 > 1 /\ p + (k - p + 2) - 2 = k
      OBVIOUS
    <3>. QED
      BY <1>3, <2>2, <3>1
  <2>3. Passed(q)'
    <3>. HIDE DEF q
    <3>. QED
      BY <1>1, <1>3, <2>1, <2>2, Advance
  <2>. QED
    BY <2>1, <2>3 DEF DecoderInv
<1>. QED
  BY <1>1, <1>2, <1>3

\* The j-th piece of the buffer, found again in the raw file.
LEMMA At ==
  ASSUME Type, NEW p \in 0..counted, NEW j \in 1..Len(buffer)
  PROVE  /\ Holds(p) => p + j - 1 \in 0..counted - 1 /\ raw[(p + j - 1) + 1] = buffer[j]
         /\ HoldsRest(p) /\ j > 1 => p + j - 2 \in 0..counted - 1 /\ raw[(p + j - 2) + 1] = buffer[j]
<1>. counted \in Nat /\ Len(buffer) \in Nat
  BY DEF Type
<1>1. ASSUME Holds(p) PROVE p + j - 1 \in 0..counted - 1 /\ raw[(p + j - 1) + 1] = buffer[j]
  <2>1. (p + j - 1) + 1 = p + j /\ p + j - 1 \in 0..counted - 1
    BY <1>1 DEF Holds
  <2>. QED
    BY <1>1, <2>1 DEF Holds
<1>2. ASSUME HoldsRest(p), j > 1 PROVE p + j - 2 \in 0..counted - 1 /\ raw[(p + j - 2) + 1] = buffer[j]
  <2>1. (p + j - 2) + 1 = p + j - 1 /\ p + j - 2 \in 0..counted - 1 /\ j \in 2..Len(buffer)
    BY <1>2 DEF HoldsRest
  <2>. QED
    BY <1>2, <2>1 DEF HoldsRest
<1>. QED
  BY <1>1, <1>2

\* A piece that is not a sound header begins no packet.
LEMMA BeginsNone ==
  ASSUME Type, NEW p \in 0..counted, NEW j \in 1..Len(buffer), buffer[j][2] # 1, NEW f \in Nat
  PROVE  /\ Holds(p) => ~Opens(f, p + j - 1)
         /\ HoldsRest(p) /\ j > 1 => ~Opens(f, p + j - 2)
<1>. counted \in Nat
  BY DEF Type
<1>1. Holds(p) => ~Opens(f, p + j - 1)
  BY At, Begins
<1>2. HoldsRest(p) /\ j > 1 => ~Opens(f, p + j - 2)
  BY At, Begins
<1>. QED
  BY <1>1, <1>2

\* What every step that throws bytes away leaves alone.
LEMMA DiscardsFrame ==
  ASSUME Type, NEW left, Discards(left)
  PROVE  /\ buffer' = left /\ pc = "decode" /\ pc' = "decode"
         /\ UNCHANGED <<device, rawFiles, synced, stop, chunk, batch, kept, raw, counted>>
         /\ UNCHANGED <<frames, cloud, previous, lastFaults, epoch, seq, rec, synchronized>>
         /\ Batch' = Batch
         /\ faults' \in {faults, faults + 1} /\ faults' \in Nat /\ faults <= faults'
         /\ faults' = 0 => faults = 0
         /\ \A p : Resyncs(p)
<1>1. faults \in Nat
  BY DEF Type
<1>2. batch' = batch
  BY DEF Discards
<1>3. synchronized => faults' = faults + 1
  BY DEF Discards
<1>4. synchronized => faults' # 0
  BY <1>1, <1>3
<1>5. \A p : Resyncs(p)
  BY <1>4 DEF Resyncs
<1>. QED
  BY <1>1, <1>2, <1>5 DEF Discards, rawFiles, log, device, Goto, Batch, synced

\* No packet is passed over by a search for the next header.
LEMMA NoiseKeeps == Type /\ DecoderInv /\ SkipsNoise => DecoderInv'
<1>. SUFFICES ASSUME Type, DecoderInv, SkipsNoise PROVE DecoderInv'
  OBVIOUS
<1>. counted \in Nat /\ buffer \in Seq(Pieces \cup {Rest}) /\ Len(buffer) \in Nat
  BY DEF Type
<1>1. CASE Headers = {} /\ Discards(<<Rest>>)
  <2>1. ASSUME NEW j \in 1..Len(buffer) PROVE buffer[j][2] # 1
    BY <1>1 DEF Headers, IsHeader
  <2>2. PICK p \in 0..counted : (Holds(p) \/ HoldsRest(p)) /\ Passed(p)
    BY DEF DecoderInv
  <2>3. ASSUME NEW k \in p..counted - 1, NEW f \in Nat PROVE ~Opens(f, k)
    <3>1. CASE Holds(p)
      <4>1. k - p + 1 \in 1..Len(buffer) /\ p + (k - p + 1) - 1 = k
        BY <3>1 DEF Holds
      <4>. QED
        BY <3>1, <4>1, <2>1, BeginsNone
    <3>2. CASE HoldsRest(p)
      <4>1. k - p + 2 \in 1..Len(buffer) /\ k - p + 2 > 1 /\ p + (k - p + 2) - 2 = k
        BY <3>2 DEF HoldsRest
      <4>. QED
        BY <3>2, <4>1, <2>1, BeginsNone
    <3>. QED
      BY <2>2, <3>1, <3>2
  <2>4. /\ buffer' = <<Rest>> /\ UNCHANGED <<raw, counted, stop, kept>> /\ Batch' = Batch
        /\ faults' = 0 => faults = 0
        /\ Resyncs(p)
    <3>. HIDE DEF Rest
    <3>. QED
      BY <1>1, DiscardsFrame
  <2>5. Passed(counted)'
    <3>1. p \in Nat /\ p <= counted
      OBVIOUS
    <3>2. kept \cup Batch \subseteq kept' \cup Batch'
      BY <2>4
    <3>. QED
      BY <2>2, <2>3, <2>4, <3>1, <3>2, Advance
  <2>6. HoldsRest(counted)'
    BY <2>4 DEF HoldsRest
  <2>. QED
    BY <2>4, <2>5, <2>6 DEF DecoderInv
<1>2. CASE Headers # {} /\ FirstHeader > 1 /\ Discards(From(FirstHeader))
  <2>. DEFINE i == FirstHeader
  <2>1. i \in 1..Len(buffer) + 1 /\ i > 1 /\ i \in 1..Len(buffer)
    BY <1>2, Found
  <2>2. ASSUME NEW j \in 1..i - 1 PROVE j \in 1..Len(buffer) /\ buffer[j][2] # 1
    BY <1>2, <2>1, Found DEF IsHeader
  <2>3. /\ buffer' = From(i) /\ UNCHANGED <<raw, counted, stop, kept>> /\ Batch' = Batch
        /\ faults' = 0 => faults = 0
        /\ \A p : Resyncs(p)
    <3>. HIDE DEF i
    <3>. QED
      BY <1>2, DiscardsFrame DEF i
  <2>4. ASSUME NEW p \in 0..counted, NEW j \in 1..i - 1, NEW f \in Nat
        PROVE  /\ Holds(p) => ~Opens(f, p + j - 1)
               /\ HoldsRest(p) /\ j > 1 => ~Opens(f, p + j - 2)
    BY <2>2, BeginsNone
  <2>. HIDE DEF i
  <2>. QED
    BY <2>1, <2>3, <2>4, Drops
<1>. QED
  BY <1>1, <1>2 DEF SkipsNoise

\* A header is no kept rest.
LEMMA HeaderIsFed ==
  ASSUME Type, AtHeader, NEW p \in 0..counted
  PROVE  ~HoldsRest(p) /\ Len(buffer) > 0 /\ buffer[1] # Rest
<1>1. 1 \in Headers /\ Len(buffer) \in Nat
  BY Found DEF AtHeader, Type
<1>2. IsHeader(buffer[1]) /\ Len(buffer) > 0
  BY <1>1 DEF Headers, Type
<1>3. Rest[2] \notin {0, 1}
  BY CaptureAssumption DEF Rest
<1>. QED
  BY <1>2, <1>3 DEF IsHeader, HoldsRest

\* A header with a damaged length begins no packet.
LEMMA BadLengthKeeps == Type /\ DecoderInv /\ BadLength => DecoderInv'
<1>. SUFFICES ASSUME Type, DecoderInv, BadLength PROVE DecoderInv'
  OBVIOUS
<1>. counted \in Nat /\ buffer \in Seq(Pieces \cup {Rest}) /\ Len(buffer) \in Nat /\ faults \in Nat
  BY DEF Type
<1>1. /\ buffer' = From(2) /\ UNCHANGED <<raw, counted, stop, kept>> /\ Batch' = Batch
      /\ faults' = 0 => faults = 0
      /\ \A p : Resyncs(p)
  BY DiscardsFrame DEF BadLength
<1>2. ASSUME NEW p \in 0..counted
      PROVE  ~HoldsRest(p) /\ Len(buffer) > 0 /\ buffer[1] # Rest
  BY HeaderIsFed DEF BadLength
<1>3. Len(buffer) > 0 /\ buffer[1] # Rest /\ 2 \in 1..Len(buffer) + 1 /\ buffer[1][2] # 1
  BY <1>2 DEF BadLength
<1>4. ASSUME NEW p \in 0..counted, NEW j \in 1..2 - 1, NEW f \in Nat
      PROVE  ~HoldsRest(p) /\ (Holds(p) => ~Opens(f, p + j - 1))
  BY <1>2, <1>3, BeginsNone
<1>. QED
  BY <1>1, <1>3, <1>4, Drops

\* A packet that breaks off before the next header is not whole, and no packet
\* begins before that header.
LEMMA TruncatedKeeps == Type /\ DecoderInv /\ Truncated => DecoderInv'
<1>. SUFFICES ASSUME Type, DecoderInv, Truncated PROVE DecoderInv'
  OBVIOUS
<1>. counted \in Nat /\ buffer \in Seq(Pieces \cup {Rest}) /\ Len(buffer) \in Nat /\ faults \in Nat
  BY DEF Type
<1>. DEFINE i == NextMagic
<1>1. /\ buffer' = From(i) /\ UNCHANGED <<raw, counted, stop, kept>> /\ Batch' = Batch
      /\ faults' = 0 => faults = 0
      /\ \A p : Resyncs(p)
  BY DiscardsFrame DEF Truncated
<1>2. i \in 2..Len(buffer) /\ buffer[i][2] = 1 /\ Len(buffer) < PacketLen /\ PacketLen \in Nat
  BY Found, CaptureAssumption DEF Truncated, NextHeaders, Starved
<1>3. ASSUME NEW p \in 0..counted
      PROVE  ~HoldsRest(p) /\ Len(buffer) > 0 /\ buffer[1] # Rest
  BY HeaderIsFed DEF Truncated
<1>4. Len(buffer) > 0 /\ buffer[1] # Rest
  BY <1>3
<1>5. ASSUME NEW p \in 0..counted, NEW f \in Nat, Holds(p) PROVE ~Opens(f, p + 1 - 1)
  <2>1. p + i - 1 \in 0..counted - 1 /\ raw[(p + i - 1) + 1] = buffer[i] /\ i \in 1..PacketLen
    BY <1>2, <1>5, At
  <2>2. p + i <= counted /\ raw[p + i] = buffer[i] /\ p + 1 - 1 = p
    BY <2>1, <1>2
  <2>3. Opens(f, p) => raw[p + i] = <<f, i>>
    BY <2>1, <2>2 DEF Opens
  <2>. QED
    BY <2>2, <2>3, <1>2
<1>6. ASSUME NEW p \in 0..counted, NEW j \in 1..i - 1, NEW f \in Nat
      PROVE  ~HoldsRest(p) /\ (Holds(p) => ~Opens(f, p + j - 1))
  <2>1. CASE j = 1
    BY <2>1, <1>3, <1>5
  <2>2. CASE j # 1
    <3>1. j \in 2..NextMagic - 1 /\ j \in 1..Len(buffer)
      BY <2>2, <1>2
    <3>2. buffer[j][2] # 1
      BY <3>1, Found DEF Truncated
    <3>. QED
      BY <3>1, <3>2, <1>3, BeginsNone
  <2>. QED
    BY <2>1, <2>2
<1>7. i \in 1..Len(buffer) + 1 /\ i > 1
  BY <1>2
<1>. HIDE DEF i
<1>. QED
  BY <1>1, <1>4, <1>6, <1>7, Drops

\* The pieces in front of the buffer are a cut of the raw file, from a header on.
LEMMA InFront ==
  ASSUME Type, FileInv, buffer[1][2] = 1, ~Starved, NEW p \in 0..counted, Holds(p)
  PROVE  /\ Front \in Cuts /\ Front[1] = raw[p + 1] /\ Front[1][1] \in 1..Len(numbers)
         /\ \A i \in 1..PacketLen : Front[i] = raw[p + i]
         /\ p + PacketLen <= counted /\ PacketLen + 1 \in 1..Len(buffer) + 1
         /\ raw[p + 1][2] = 1
<1>. /\ counted \in Nat /\ buffer \in Seq(Pieces \cup {Rest}) /\ Len(buffer) \in Nat
     /\ raw \in Seq(Pieces) /\ Len(raw) \in Nat /\ counted <= Len(raw)
  BY DEF Type, FileInv
<1>1. PacketLen \in Nat /\ PacketLen > 1 /\ Len(buffer) >= PacketLen
  BY CaptureAssumption DEF Starved
<1>2. p + PacketLen <= counted /\ PacketLen + 1 \in 1..Len(buffer) + 1
  BY <1>1 DEF Holds
<1>3. ASSUME NEW i \in 1..PacketLen PROVE buffer[i] = raw[p + i] /\ buffer[i] \in Pieces
  <2>1. i \in 1..Len(buffer) /\ p + i \in 1..Len(raw)
    BY <1>1, <1>2
  <2>2. raw[p + i] \in Pieces
    BY <2>1, ElementOfSeq
  <2>. QED
    BY <2>1, <2>2 DEF Holds
<1>4. /\ Front \in Seq(Pieces) /\ Len(Front) = PacketLen
      /\ \A i \in 1..PacketLen : Front[i] = buffer[i]
  <2>1. /\ SubSeq(buffer, 1, PacketLen) \in Seq(Pieces)
        /\ Len(SubSeq(buffer, 1, PacketLen)) = IF 1 <= PacketLen THEN PacketLen - 1 + 1 ELSE 0
        /\ \A i \in 1..PacketLen - 1 + 1 : SubSeq(buffer, 1, PacketLen)[i] = buffer[1 + i - 1]
    BY <1>1, <1>3, SubSeqProperties
  <2>2. /\ (IF 1 <= PacketLen THEN PacketLen - 1 + 1 ELSE 0) = PacketLen
        /\ \A i \in 1..PacketLen : i \in 1..PacketLen - 1 + 1 /\ 1 + i - 1 = i
    BY <1>1
  <2>. QED
    BY <2>1, <2>2 DEF Front
<1>5. 1 \in 1..PacketLen
  BY <1>1
<1>6. buffer[1][1] \in 1..Len(numbers)
  BY <1>3, <1>5 DEF Pieces
<1>. QED
  BY <1>2, <1>3, <1>4, <1>5, <1>6 DEF Cuts

\* A cut with the pieces of a packet is that packet.
LEMMA IsPacket ==
  ASSUME NEW w \in Cuts, NEW f, \A i \in 1..PacketLen : w[i] = <<f, i>>
  PROVE  w = Packet(f) /\ w[1][1] = f
<1>1. w \in Seq(Pieces) /\ Len(w) = PacketLen /\ 1 \in 1..PacketLen
  BY CaptureAssumption DEF Cuts
<1>2. DOMAIN w = 1..PacketLen /\ w = [i \in DOMAIN w |-> w[i]]
  BY <1>1
<1>3. w = [i \in 1..PacketLen |-> w[i]]
  BY <1>2
<1>. QED
  BY <1>1, <1>3 DEF Packet

\* A packet that lies in front is what the decoder sees there.
LEMMA OpenIsFront ==
  ASSUME Type, FileInv, buffer[1][2] = 1, ~Starved, NEW p \in 0..counted, Holds(p),
         NEW f \in Nat, Opens(f, p)
  PROVE  Front = Packet(f) /\ Front[1][1] = f
<1>1. /\ Front \in Cuts /\ p + PacketLen <= counted
      /\ \A i \in 1..PacketLen : Front[i] = raw[p + i]
  BY InFront
<1>2. ASSUME NEW i \in 1..PacketLen PROVE Front[i] = <<f, i>>
  <2>1. p + i <= counted
    BY <1>1, CaptureAssumption DEF Type
  <2>. QED
    BY <1>1, <2>1 DEF Opens
<1>. QED
  BY <1>1, <1>2, IsPacket

\* Where a whole packet lies, the decoder does not find an error.
LEMMA ParseErrorKeeps == Type /\ FileInv /\ DecoderInv /\ ParseError => DecoderInv'
<1>. SUFFICES ASSUME Type, FileInv, DecoderInv, ParseError PROVE DecoderInv'
  OBVIOUS
<1>. counted \in Nat /\ buffer \in Seq(Pieces \cup {Rest}) /\ Len(buffer) \in Nat /\ faults \in Nat
  BY DEF Type
<1>1. /\ buffer' = From(2) /\ UNCHANGED <<raw, counted, stop, kept>> /\ Batch' = Batch
      /\ faults' = 0 => faults = 0
      /\ \A p : Resyncs(p)
  BY DiscardsFrame DEF ParseError
<1>2. ASSUME NEW p \in 0..counted
      PROVE  ~HoldsRest(p) /\ Len(buffer) > 0 /\ buffer[1] # Rest
  BY HeaderIsFed DEF ParseError
<1>3. Len(buffer) > 0 /\ buffer[1] # Rest /\ 2 \in 1..Len(buffer) + 1
  BY <1>2
<1>4. ASSUME NEW p \in 0..counted, NEW f \in Nat, Holds(p), Opens(f, p) PROVE FALSE
  <2>1. Front = Packet(f) /\ Front[1][1] = f /\ f \in 1..Len(numbers)
    BY <1>4, InFront, OpenIsFront DEF ParseError
  <2>2. quality[f] # "error"
    <3>. DEFINE Q == Stream!Qualities
    <3>1. quality \in Seq(Q) /\ f \in 1..Len(quality)
      BY <2>1 DEF Type
    <3>. HIDE DEF Q
    <3>2. quality[f] \in Q
      BY <3>1, ElementOfSeq
    <3>. QED
      BY <3>2 DEF Q, Stream!Qualities
  <2>. QED
    BY <2>1, <2>2 DEF ParseError, Readings
<1>5. ASSUME NEW p \in 0..counted, NEW j \in 1..2 - 1, NEW f \in Nat
      PROVE  ~HoldsRest(p) /\ (Holds(p) => ~Opens(f, p + j - 1))
  <2>1. p + j - 1 = p
    OBVIOUS
  <2>. QED
    BY <1>2, <1>4, <2>1
<1>. QED
  BY <1>1, <1>3, <1>5, Drops

\* What Decodes does.
LEMMA DecodesFrame ==
  ASSUME Type, FileInv, DecoderInv, Decodes
  PROVE  /\ batch' \in Seq(Decoded) /\ Batch' = Batch \cup {Front}
         /\ buffer' = From(PacketLen + 1) /\ synchronized'
         /\ UNCHANGED <<raw, counted, stop, kept, faults>>
         /\ PacketLen + 1 \in 1..Len(buffer) + 1
         /\ Len(buffer) > 0 /\ buffer[1] # Rest /\ buffer[1][2] = 1 /\ ~Starved
         /\ \E p \in 0..counted : Holds(p)
<1>1. ASSUME NEW p \in 0..counted
      PROVE  ~HoldsRest(p) /\ Len(buffer) > 0 /\ buffer[1] # Rest
  BY HeaderIsFed DEF Decodes
<1>2. PICK p \in 0..counted : Holds(p)
  BY <1>1 DEF DecoderInv
<1>3. buffer[1][2] = 1 /\ ~Starved
  BY DEF Decodes
<1>4. Front \in Cuts /\ Front[1][1] \in 1..Len(numbers) /\ PacketLen + 1 \in 1..Len(buffer) + 1
  BY <1>2, <1>3, InFront
<1>5. Readings(Front) \ {"error"} \subseteq Stream!Qualities
  <2>. DEFINE Q == Stream!Qualities
              f == Front[1][1]
  <2>1. quality \in Seq(Q) /\ f \in 1..Len(quality)
    BY <1>4 DEF Type
  <2>. HIDE DEF Q, f
  <2>2. quality[f] \in Q
    BY <2>1, ElementOfSeq
  <2>. QED
    BY <2>2 DEF Q, f, Readings, Poor, Stream!Qualities
<1>6. PICK q \in Stream!Qualities : batch' = Append(batch, [packet |-> Front, quality |-> q])
  BY <1>5 DEF Decodes
<1>7. batch' \in Seq(Decoded) /\ Batch' = Batch \cup {Front}
  <2>. DEFINE x == [packet |-> Front, quality |-> q]
  <2>1. x \in Decoded /\ x.packet = Front /\ batch \in Seq(Decoded)
    BY <1>4 DEF Decoded, Type
  <2>2. /\ batch' \in Seq(Decoded) /\ DOMAIN batch' = 1..(Len(batch) + 1)
        /\ Len(batch) \in Nat /\ DOMAIN batch = 1..Len(batch)
        /\ \A j \in 1..Len(batch) : batch'[j] = batch[j]
        /\ batch'[Len(batch) + 1] = x
    <3>1. batch' = Append(batch, x)
      BY <1>6
    <3>. HIDE DEF x
    <3>. QED
      BY <2>1, <3>1, AppendProperties
  <2>3. \A j \in DOMAIN batch' : j \in DOMAIN batch \/ j = Len(batch) + 1
    BY <2>2
  <2>4. \A j \in DOMAIN batch : j \in DOMAIN batch' /\ batch'[j] = batch[j]
    BY <2>2
  <2>5. Len(batch) + 1 \in DOMAIN batch'
    BY <2>2
  <2>. HIDE DEF x
  <2>6. Batch' \subseteq Batch \cup {Front}
    BY <2>1, <2>2, <2>3 DEF Batch
  <2>7. Batch \subseteq Batch'
    BY <2>4 DEF Batch
  <2>8. Front \in Batch'
    BY <2>1, <2>2, <2>5 DEF Batch
  <2>. QED
    BY <2>2, <2>6, <2>7, <2>8
<1>8. /\ UNCHANGED <<raw, counted, stop, kept, faults>>
      /\ buffer' = From(PacketLen + 1) /\ synchronized'
  BY DEF Decodes, rawFiles, log, stats
<1>. QED
  BY <1>1, <1>2, <1>3, <1>4, <1>7, <1>8

\* Of the packets that may begin among the decoded pieces, the one in front is
\* decoded and the others reach beyond them; and none reaches over a header.
LEMMA DecodesKeeps == Type /\ FileInv /\ DecoderInv /\ Decodes => DecoderInv'
<1>. SUFFICES ASSUME Type, FileInv, DecoderInv, Decodes PROVE DecoderInv'
  OBVIOUS
<1>. counted \in Nat /\ Len(buffer) \in Nat
  BY DEF Type
<1>1. PacketLen \in Nat /\ PacketLen > 1
  BY CaptureAssumption
<1>2. /\ Batch' = Batch \cup {Front} /\ buffer' = From(PacketLen + 1) /\ synchronized'
      /\ UNCHANGED <<raw, counted, stop, kept, faults>>
      /\ PacketLen + 1 \in 1..Len(buffer) + 1
      /\ Len(buffer) > 0 /\ buffer[1] # Rest /\ buffer[1][2] = 1 /\ ~Starved
  BY DecodesFrame
<1>3. ASSUME NEW p \in 0..counted PROVE ~HoldsRest(p)
  BY HeaderIsFed DEF Decodes
<1>4. ASSUME NEW p \in 0..counted, Holds(p) PROVE Resyncs(p)
  <2>. SUFFICES ASSUME NEW k \in 0..p - 1, NEW f \in Nat, Opens(f, k), k + PacketLen > p
                PROVE  FALSE
    BY <1>1 DEF Resyncs
  <2>. DEFINE i == p + 1 - k
  <2>1. i \in 1..PacketLen /\ i # 1 /\ k + i = p + 1
    BY <1>1
  <2>2. raw[p + 1][2] = 1 /\ p + 1 <= counted
    BY <1>1, <1>2, <1>4, InFront
  <2>. HIDE DEF i
  <2>3. raw[p + 1] = <<f, i>>
    BY <2>1, <2>2 DEF Opens
  <2>. QED
    BY <2>1, <2>2, <2>3
<1>5. ASSUME NEW p \in 0..counted, NEW j \in 1..PacketLen, NEW f \in Nat, Holds(p), Opens(f, p + j - 1)
      PROVE  Packet(f) \in kept' \cup Batch' \/ (synchronized' /\ j + PacketLen > PacketLen + 1)
  <2>1. CASE j # 1
    BY <2>1, <1>1, <1>2
  <2>2. CASE j = 1
    <3>1. Opens(f, p)
      BY <2>2, <1>5
    <3>. QED
      BY <3>1, <1>2, <1>5, OpenIsFront
  <2>. QED
    BY <2>1, <2>2
<1>. DEFINE i == PacketLen + 1
<1>6. i \in 1..Len(buffer) + 1 /\ i > 1 /\ buffer' = From(i) /\ i - 1 = PacketLen
  BY <1>1, <1>2
<1>7. \A p \in 0..counted, j \in 1..i - 1, f \in Nat :
        /\ ~HoldsRest(p)
        /\ Holds(p) /\ Opens(f, p + j - 1) =>
             Packet(f) \in kept' \cup Batch' \/ (synchronized' /\ j + PacketLen > i)
  BY <1>3, <1>5, <1>6
<1>. HIDE DEF i
<1>8. kept \cup Batch \subseteq kept' \cup Batch'
  BY <1>2
<1>. QED
  BY <1>2, <1>3, <1>4, <1>6, <1>7, <1>8, Drops

\* What is fed was in the raw file already.
LEMMA FeedKeeps == Type /\ FileInv /\ DecoderInv /\ Feed => DecoderInv'
<1>. SUFFICES ASSUME Type, FileInv, DecoderInv, Feed PROVE DecoderInv'
  OBVIOUS
<1>. DEFINE n == Len(chunk)  T == Pieces \cup {Rest}
<1>1. /\ counted \in Nat /\ buffer \in Seq(T) /\ chunk \in Seq(T) /\ Len(buffer) \in Nat
      /\ n \in Nat
  <2>1. chunk \in Seq(Pieces) /\ Pieces \subseteq T
    BY DEF Type
  <2>2. chunk \in Seq(T)
    <3>. HIDE DEF T
    <3>. QED
      BY <2>1, SeqMonotonic
  <2>. QED
    BY <2>2 DEF Type
<1>2. \A j \in 1..n : raw[counted + j] = chunk[j]
  <2>1. pc = "count" /\ stop # "interrupt"
    BY DEF Feed, FileInv, Closing
  <2>. QED
    BY <2>1 DEF FileInv, Lengths
<1>3. /\ buffer' = buffer \o chunk /\ counted' = counted + n
      /\ UNCHANGED <<raw, stop, kept, batch, faults, synchronized>> /\ Batch' = Batch
  BY DEF Feed, log, stats, Batch
<1>4. /\ Len(buffer') = Len(buffer) + n
      /\ \A j \in 1..Len(buffer) : buffer'[j] = buffer[j]
      /\ \A j \in 1..n : buffer'[Len(buffer) + j] = chunk[j]
  <2>. HIDE DEF T
  <2>1. /\ Len(buffer \o chunk) = Len(buffer) + n
        /\ \A j \in 1..Len(buffer) + n :
             (buffer \o chunk)[j] = IF j <= Len(buffer) THEN buffer[j] ELSE chunk[j - Len(buffer)]
    BY <1>1, ConcatProperties
  <2>2. ASSUME NEW j \in 1..n PROVE (buffer \o chunk)[Len(buffer) + j] = chunk[j]
    <3>1. /\ Len(buffer) + j \in 1..Len(buffer) + n /\ ~(Len(buffer) + j <= Len(buffer))
          /\ (Len(buffer) + j) - Len(buffer) = j
      BY <1>1
    <3>. QED
      BY <2>1, <3>1
  <2>3. ASSUME NEW j \in 1..Len(buffer) PROVE (buffer \o chunk)[j] = buffer[j]
    <3>1. j \in 1..Len(buffer) + n /\ j <= Len(buffer)
      BY <1>1
    <3>. QED
      BY <2>1, <3>1
  <2>. QED
    BY <1>3, <2>1, <2>2, <2>3
<1>5. PICK p \in 0..counted : (Holds(p) \/ HoldsRest(p)) /\ Passed(p)
  BY DEF DecoderInv
<1>6. p \in 0..counted' /\ counted' \in Nat
  BY <1>1, <1>3
<1>7. Holds(p) => Holds(p)'
  <2>. SUFFICES ASSUME Holds(p) PROVE Holds(p)'
    OBVIOUS
  <2>1. Len(buffer) = counted - p
    BY DEF Holds
  <2>2. ASSUME NEW j \in 1..Len(buffer) + n PROVE buffer'[j] = raw[p + j]
    <3>1. CASE j <= Len(buffer)
      <4>1. j \in 1..Len(buffer)
        BY <3>1, <1>1
      <4>. QED
        BY <4>1, <1>4 DEF Holds
    <3>2. CASE ~(j <= Len(buffer))
      <4>. DEFINE i == j - Len(buffer)
      <4>1. i \in 1..n /\ counted + i = p + j /\ Len(buffer) + i = j
        BY <3>2, <2>1, <1>1
      <4>. HIDE DEF i
      <4>2. buffer'[Len(buffer) + i] = raw[counted + i]
        BY <4>1, <1>2, <1>4
      <4>. QED
        BY <4>1, <4>2
    <3>. QED
      BY <3>1, <3>2
  <2>3. Len(buffer') = counted' - p
    BY <2>1, <1>1, <1>3, <1>4
  <2>. QED
    BY <2>2, <2>3, <1>3, <1>4 DEF Holds
<1>8. HoldsRest(p) => HoldsRest(p)'
  <2>. SUFFICES ASSUME HoldsRest(p) PROVE HoldsRest(p)'
    OBVIOUS
  <2>1. Len(buffer) = counted - p + 1 /\ Len(buffer) >= 1
    BY <1>1 DEF HoldsRest
  <2>2. ASSUME NEW j \in 2..Len(buffer) + n PROVE buffer'[j] = raw[p + j - 1]
    <3>1. CASE j <= Len(buffer)
      <4>1. j \in 2..Len(buffer) /\ j \in 1..Len(buffer)
        BY <3>1, <1>1
      <4>. QED
        BY <4>1, <1>4 DEF HoldsRest
    <3>2. CASE ~(j <= Len(buffer))
      <4>. DEFINE i == j - Len(buffer)
      <4>1. i \in 1..n /\ counted + i = p + j - 1 /\ Len(buffer) + i = j
        BY <3>2, <2>1, <1>1
      <4>. HIDE DEF i
      <4>2. buffer'[Len(buffer) + i] = raw[counted + i]
        BY <4>1, <1>2, <1>4
      <4>. QED
        BY <4>1, <4>2
    <3>. QED
      BY <3>1, <3>2
  <2>3. Len(buffer') = counted' - p + 1
    BY <2>1, <1>1, <1>3, <1>4
  <2>4. buffer'[1] = Rest
    BY <2>1, <1>1, <1>4 DEF HoldsRest
  <2>. QED
    BY <2>2, <2>3, <2>4, <1>3, <1>4 DEF HoldsRest
<1>9. Passed(p)'
  <2>. SUFFICES ASSUME faults = 0, stop # "interrupt",
                       NEW k \in 0..p - 1, NEW f \in Nat, Opens(f, k)'
                PROVE  Packet(f) \in kept \cup Batch \/ (synchronized /\ k + PacketLen > p)
    BY <1>3 DEF Passed, Packet
  <2>1. Opens(f, k)
    <3>. SUFFICES ASSUME NEW i \in 1..PacketLen, k + i <= counted PROVE raw[k + i] = <<f, i>>
      BY DEF Opens
    <3>1. k + i <= counted'
      BY <1>1, <1>3, CaptureAssumption
    <3>. QED
      BY <3>1, <1>3 DEF Opens
  <2>. QED
    BY <1>5, <2>1 DEF Passed
<1>. QED
  BY <1>5, <1>6, <1>7, <1>8, <1>9 DEF DecoderInv

-----------------------------------------------------------------------------
(* The steps.                                                              *)

\* A step of the device.
LEMMA SendKeeps ==
  ASSUME IInv, NEW x \in 0..Counter - 1, NEW q \in Stream!Qualities,
         NEW pieces, pieces \in Seq((1..Len(numbers) + 1) \X (0..PacketLen)),
         Send(x, q, pieces)
  PROVE  IInv'
<1>. DEFINE n == Len(numbers)
<1>1. /\ pc = "read" /\ numbers' = Append(numbers, x) /\ quality' = Append(quality, q)
      /\ wire' = wire \o pieces
      /\ UNCHANGED <<pc, stop, chunk, raw, hashed, counted, chunkSeq, index, torn, footer,
                      syncedRaw, syncedIndex, buffer, synchronized, startup, batch, faults,
                      frames, cloud, previous, lastFaults, epoch, seq, rec, kept>>
  BY DEF Send, rawFiles, synced, decoder, stats, log
<1>2. /\ numbers' \in Seq(0..Counter - 1) /\ quality' \in Seq(Stream!Qualities)
      /\ n \in Nat /\ Len(numbers') = n + 1 /\ Len(quality') = n + 1
  <2>1. /\ numbers \in Seq(0..Counter - 1) /\ quality \in Seq(Stream!Qualities)
        /\ Len(quality) = n
    BY DEF IInv, Type
  <2>. HIDE DEF n
  <2>2. numbers' \in Seq(0..Counter - 1) /\ Len(numbers') = Len(numbers) + 1 /\ Len(numbers) \in Nat
    BY <2>1, <1>1
  <2>3. quality' \in Seq(Stream!Qualities) /\ Len(quality') = Len(quality) + 1
    <3>. DEFINE Q == Stream!Qualities
    <3>1. quality \in Seq(Q) /\ q \in Q
      BY <2>1
    <3>. HIDE DEF Q
    <3>2. Append(quality, q) \in Seq(Q) /\ Len(Append(quality, q)) = Len(quality) + 1
      BY <3>1, AppendProperties
    <3>. QED
      BY <3>2, <1>1 DEF Q
  <2>. QED
    BY <2>1, <2>2, <2>3 DEF n
<1>3. Pieces \subseteq Pieces' /\ Pieces' = (1..n + 1) \X (0..PacketLen) /\ 1..n \subseteq 1..Len(numbers')
  BY <1>2 DEF Pieces
<1>4. /\ wire \in Seq(Pieces') /\ chunk \in Seq(Pieces') /\ raw \in Seq(Pieces')
      /\ buffer \in Seq(Pieces' \cup {Rest}) /\ batch \in Seq(Decoded') /\ kept \subseteq Cuts'
  <2>1. /\ wire \in Seq(Pieces) /\ chunk \in Seq(Pieces) /\ raw \in Seq(Pieces)
        /\ buffer \in Seq(Pieces \cup {Rest}) /\ batch \in Seq(Decoded) /\ kept \subseteq Cuts
    BY DEF IInv, Type
  <2>2. Pieces \cup {Rest} \subseteq Pieces' \cup {Rest}
    BY <1>3
  <2>. DEFINE P1 == Pieces'  D == Decoded'
  <2>3. /\ Pieces \subseteq P1 /\ Pieces \cup {Rest} \subseteq P1 \cup {Rest}
        /\ Cuts \subseteq Cuts' /\ Decoded \subseteq D
    <3>1. Cuts \subseteq Cuts'
      BY <1>3, SeqMonotonic DEF Cuts
    <3>. QED
      BY <1>3, <2>2, <3>1 DEF Decoded
  <2>. HIDE DEF P1, D, n
  <2>4. wire \in Seq(P1) /\ chunk \in Seq(P1) /\ raw \in Seq(P1)
    BY <2>1, <2>3, SeqMonotonic
  <2>5. buffer \in Seq(P1 \cup {Rest})
    BY <2>1, <2>3, SeqMonotonic
  <2>6. batch \in Seq(D)
    BY <2>1, <2>3, SeqMonotonic
  <2>. QED
    BY <2>1, <2>3, <2>4, <2>5, <2>6 DEF P1, D
<1>5. wire' \in Seq(Pieces')
  <2>1. wire \o pieces \in Seq(Pieces')
    BY <1>3, <1>4, ConcatProperties
  <2>. QED
    BY <1>1, <2>1
<1>7. Type'
  BY <1>1, <1>2, <1>4, <1>5 DEF IInv, Type
<1>8. FileInv' /\ HealthInv'
  BY <1>1 DEF IInv, FileInv, Lengths, InHand, HealthInv, Finished, FinalStatus
<1>9. ReplayInv' /\ DecoderInv'
  <2>1. Batch' = Batch /\ counted \in Nat
    BY <1>1 DEF Batch, IInv, Type
  <2>. QED
    BY <1>1, <2>1, ReplayKept, DecoderKept DEF IInv
<1>. QED
  BY <1>7, <1>8, <1>9 DEF IInv

\* A packet, and what a bad line makes of it, are pieces of its frame.
LEMMA PacketPieces ==
  ASSUME NEW f \in Nat, f > 0
  PROVE  /\ Packet(f) \in Seq((1..f) \X (0..PacketLen)) /\ Len(Packet(f)) = PacketLen
         /\ \A i \in 1..PacketLen : Packet(f)[i] = <<f, i>>
         /\ Arrivals(f) \subseteq Seq((1..f) \X (0..PacketLen))
<1>. DEFINE P == (1..f) \X (0..PacketLen)  whole == Packet(f)
<1>1. PacketLen \in Nat /\ PacketLen > 1
  BY CaptureAssumption
<1>2. /\ whole \in [1..PacketLen -> P]
      /\ \A i \in 1..PacketLen : whole[i] = <<f, i>> /\ <<f, i>> \in P
  BY <1>1 DEF Packet
<1>3. whole \in Seq(P) /\ Len(whole) = PacketLen /\ <<f, 0>> \in P
  BY <1>1, <1>2
<1>4. ASSUME NEW m \in Int, NEW n \in Int, 1 <= m, n <= PacketLen
      PROVE  SubSeq(whole, m, n) \in Seq(P)
  <2>1. \A i \in m..n : whole[i] \in P
    BY <1>1, <1>2, <1>4
  <2>. HIDE DEF P, whole
  <2>. QED
    BY <2>1, SubSeqProperties
<1>5. ASSUME NEW i \in 1..PacketLen
      PROVE  SubSeq(whole, 1, i - 1) \o SubSeq(whole, i + 1, PacketLen) \in Seq(P)
  <2>1. i - 1 \in Int /\ i + 1 \in Int /\ PacketLen \in Int /\ 1 <= i + 1 /\ i - 1 <= PacketLen
    BY <1>1
  <2>2. SubSeq(whole, 1, i - 1) \in Seq(P) /\ SubSeq(whole, i + 1, PacketLen) \in Seq(P)
    BY <1>4, <2>1
  <2>. HIDE DEF P, whole
  <2>. QED
    BY <2>2, ConcatProperties
<1>6. ASSUME NEW i \in 0..PacketLen - 1 PROVE SubSeq(whole, 1, i) \in Seq(P)
  BY <1>1, <1>4
<1>7. [whole EXCEPT ![1] = <<f, 0>>] \in Seq(P)
  <2>. HIDE DEF P, whole
  <2>. QED
    BY <1>1, <1>3, ExceptSeq
<1>8. Arrivals(f) \subseteq Seq(P)
  <2>. HIDE DEF P
  <2>. QED
    BY <1>5, <1>6, <1>7 DEF Arrivals
<1>. QED
  BY <1>2, <1>3, <1>8

LEMMA DeviceKeeps == IInv /\ Device => IInv'
<1>. SUFFICES ASSUME IInv, Device PROVE IInv'
  OBVIOUS
<1>. DEFINE f == Len(numbers) + 1
<1>1. /\ f \in Nat /\ f > 0 /\ numbers \in Seq(0..Counter - 1)
      /\ Len(numbers) \in Nat
  BY DEF IInv, Type
<1>2. Counter \in Nat /\ Counter > 1 /\ Starts \subseteq 0..Counter - 1
  BY CaptureAssumption
<1>3. NextNumber \subseteq 0..Counter - 1
  <2>1. CASE numbers = <<>>
    BY <2>1, <1>2 DEF NextNumber
  <2>2. CASE numbers # <<>>
    <3>1. Latest \in 0..Counter - 1
      <4>1. Len(numbers) \in 1..Len(numbers)
        BY <2>2, <1>1, EmptySeq
      <4>. QED
        BY <4>1, <1>1, ElementOfSeq DEF Latest
    <3>2. (Latest + 1) % Counter \in 0..Counter - 1
      BY <3>1, <1>2
    <3>. QED
      BY <2>2, <3>2 DEF NextNumber
  <2>. QED
    BY <2>1, <2>2
<1>4. /\ Packet(f) \in Seq((1..Len(numbers) + 1) \X (0..PacketLen))
      /\ Arrivals(f) \subseteq Seq((1..Len(numbers) + 1) \X (0..PacketLen))
  BY <1>1, PacketPieces
<1>5. "points" \in Stream!Qualities /\ Poor \subseteq Stream!Qualities /\ 0 \in 0..Counter - 1
  BY <1>2 DEF Poor, Stream!Qualities
<1>. HIDE DEF f
<1>6. CASE SendsWell
  <2>1. PICK x \in NextNumber : Send(x, "points", Packet(f))
    BY <1>6 DEF SendsWell, f
  <2>. QED
    BY <2>1, <1>3, <1>4, <1>5, SendKeeps
<1>7. CASE SendsBadly
  <2>1. PICK x \in NextNumber :
          \/ \E q \in Poor : Send(x, q, Packet(f))
          \/ \E a \in Arrivals(f) : Send(x, "points", a)
    BY <1>7 DEF SendsBadly, f
  <2>2. CASE \E q \in Poor : Send(x, q, Packet(f))
    BY <2>2, <1>3, <1>4, <1>5, SendKeeps
  <2>3. CASE \E a \in Arrivals(f) : Send(x, "points", a)
    BY <2>3, <1>3, <1>4, <1>5, SendKeeps
  <2>. QED
    BY <2>1, <2>2, <2>3
<1>8. CASE Restarts
  BY <1>8, <1>4, <1>5, SendKeeps DEF Restarts, f
<1>. QED
  BY <1>6, <1>7, <1>8 DEF Device

\* The parts of the invariant that a step of the loop between the chunk and
\* the log leaves alone.
LEMMA LogKept ==
  ASSUME IInv, UNCHANGED <<buffer, synchronized, batch, kept, faults, stop>>,
         counted' = counted, \A j \in 1..counted : raw'[j] = raw[j]
  PROVE  ReplayInv' /\ DecoderInv'
<1>1. Batch' = Batch /\ counted \in Nat /\ counted' \in Nat /\ counted <= counted'
  BY DEF Batch, IInv, Type
<1>. QED
  BY <1>1, ReplayKept, DecoderKept DEF IInv

LEMMA ReadKeeps == IInv /\ Read => IInv'
<1>. SUFFICES ASSUME IInv, Read PROVE IInv'
  OBVIOUS
<1>1. PICK n \in (Chunks \cap 1..Len(wire)) \cup {Len(wire)} :
        chunk' = SubSeq(wire, 1, n) /\ wire' = SubSeq(wire, n + 1, Len(wire))
  BY DEF Read
<1>2. wire \in Seq(Pieces) /\ Len(wire) \in Nat
  BY DEF IInv, Type
<1>3. n \in 0..Len(wire)
  BY <1>2
<1>4. chunk' \in Seq(Pieces) /\ wire' \in Seq(Pieces)
  <2>1. \A i \in 1..Len(wire) : wire[i] \in Pieces
    BY <1>2
  <2>2. \A i \in 1..n : wire[i] \in Pieces
    BY <2>1, <1>2, <1>3
  <2>3. \A i \in n + 1..Len(wire) : wire[i] \in Pieces
    BY <2>1, <1>2, <1>3
  <2>4. SubSeq(wire, 1, n) \in Seq(Pieces) /\ SubSeq(wire, n + 1, Len(wire)) \in Seq(Pieces)
    BY <1>2, <1>3, <2>2, <2>3, SubSeqProperties
  <2>. QED
    BY <1>1, <2>4
<1>5. /\ pc = "read" /\ pc' = "store"
      /\ UNCHANGED <<numbers, quality, stop, raw, hashed, counted, chunkSeq, index, torn, footer,
                      syncedRaw, syncedIndex, buffer, synchronized, startup, batch, faults,
                      frames, cloud, previous, lastFaults, epoch, seq, rec, kept>>
  BY DEF Read, Goto, rawFiles, synced, decoder, stats, log
<1>6. Type'
  <2>1. Pieces' = Pieces /\ Cuts' = Cuts /\ Decoded' = Decoded
    BY <1>5 DEF Pieces, Cuts, Decoded
  <2>. QED
    BY <1>4, <1>5, <2>1 DEF IInv, Type
<1>7. FileInv' /\ HealthInv'
  BY <1>5 DEF IInv, FileInv, Lengths, InHand, HealthInv, Finished, FinalStatus, Closing
<1>8. ReplayInv' /\ DecoderInv'
  BY <1>5, LogKept
<1>. QED
  BY <1>6, <1>7, <1>8 DEF IInv

\* The raw file first: only its length changes, and the chunk is at its end.
LEMMA StoreKeeps == IInv /\ StoreRaw => IInv'
<1>. SUFFICES ASSUME IInv, StoreRaw PROVE IInv'
  OBVIOUS
<1>1. raw \in Seq(Pieces) /\ chunk \in Seq(Pieces) /\ counted \in Nat
  BY DEF IInv, Type
<1>2. /\ pc = "store" /\ pc' = "hash" /\ raw' = raw \o chunk
      /\ UNCHANGED <<numbers, quality, wire, stop, chunk, hashed, counted, chunkSeq, index, torn,
                      footer, syncedRaw, syncedIndex, buffer, synchronized, startup, batch,
                      faults, frames, cloud, previous, lastFaults, epoch, seq, rec, kept>>
  BY DEF StoreRaw, Goto, device, synced, decoder, stats, log
<1>3. /\ raw' \in Seq(Pieces) /\ Len(raw') = Len(raw) + Len(chunk)
      /\ Len(raw) \in Nat /\ Len(chunk) \in Nat
      /\ \A i \in 1..Len(raw) + Len(chunk) :
           raw'[i] = IF i <= Len(raw) THEN raw[i] ELSE chunk[i - Len(raw)]
  BY <1>1, <1>2, ConcatProperties
<1>4. /\ stop # "interrupt" /\ Lengths
      /\ Len(raw) = counted /\ hashed = counted /\ index.bytes = counted
      /\ index.chunks = chunkSeq
  <2>1. stop # "interrupt" /\ Lengths
    BY <1>2 DEF IInv, FileInv, Closing
  <2>2. chunkSeq = index.chunks + 0 /\ Len(raw) = counted + 0 /\ hashed = counted + 0
        /\ index.bytes = counted + 0
    BY <2>1, <1>2 DEF Lengths, InHand
  <2>3. index.chunks \in Nat /\ counted \in Nat
    BY DEF IInv, Type
  <2>. QED
    BY <2>1, <2>2, <2>3
<1>5. \A j \in 1..counted : raw'[j] = raw[j]
  BY <1>1, <1>3, <1>4
<1>6. \A j \in 1..Len(chunk) : raw'[counted + j] = chunk[j]
  <2>. SUFFICES ASSUME NEW j \in 1..Len(chunk) PROVE raw'[counted + j] = chunk[j]
    OBVIOUS
  <2>1. /\ counted + j \in 1..Len(raw) + Len(chunk) /\ ~(counted + j <= Len(raw))
        /\ (counted + j) - Len(raw) = j
    BY <1>1, <1>3, <1>4
  <2>. QED
    BY <2>1, <1>3
<1>7. Type'
  <2>1. Pieces' = Pieces /\ Cuts' = Cuts /\ Decoded' = Decoded
    BY <1>2 DEF Pieces, Cuts, Decoded
  <2>. QED
    BY <1>2, <1>3, <2>1 DEF IInv, Type
<1>8. FileInv'
  <2>1. Lengths'
    BY <1>1, <1>2, <1>3, <1>4, <1>6 DEF Lengths, InHand
  <2>2. counted' <= index'.bytes /\ index'.bytes <= Len(raw')
    BY <1>1, <1>2, <1>3, <1>4
  <2>. QED
    BY <1>2, <2>1, <2>2 DEF IInv, FileInv, Closing
<1>9. HealthInv'
  BY <1>2 DEF IInv, HealthInv, Finished, FinalStatus
<1>10. ReplayInv' /\ DecoderInv'
  BY <1>2, <1>5, LogKept
<1>. QED
  BY <1>7, <1>8, <1>9, <1>10 DEF IInv

\* Then the hash and the chunk's number.
LEMMA HashKeeps == IInv /\ Hash => IInv'
<1>. SUFFICES ASSUME IInv, Hash PROVE IInv'
  OBVIOUS
<1>1. /\ pc = "hash" /\ pc' = "index" /\ hashed' = hashed + Len(chunk) /\ chunkSeq' = chunkSeq + 1
      /\ UNCHANGED <<numbers, quality, wire, stop, chunk, raw, counted, index, torn,
                      footer, syncedRaw, syncedIndex, buffer, synchronized, startup, batch,
                      faults, frames, cloud, previous, lastFaults, epoch, seq, rec, kept>>
  BY DEF Hash, Goto, device, synced, decoder, stats, log
<1>2. Len(chunk) \in Nat /\ hashed \in Nat /\ counted \in Nat /\ chunkSeq \in Nat /\ index.chunks \in Nat
  BY DEF IInv, Type
<1>3. Type'
  <2>1. Pieces' = Pieces /\ Cuts' = Cuts /\ Decoded' = Decoded
    BY <1>1 DEF Pieces, Cuts, Decoded
  <2>2. hashed' \in Nat /\ chunkSeq' \in Nat
    BY <1>1, <1>2
  <2>. QED
    BY <1>1, <2>1, <2>2 DEF IInv, Type
<1>4. FileInv'
  <2>1. Lengths'
    <3>1. Lengths
      BY <1>1 DEF IInv, FileInv, Closing
    <3>2. hashed' = counted' + Len(chunk') /\ chunkSeq' = index'.chunks + 1
      BY <1>1, <1>2, <3>1 DEF Lengths, InHand
    <3>. QED
      BY <1>1, <3>1, <3>2 DEF Lengths, InHand
  <2>. QED
    BY <1>1, <2>1 DEF IInv, FileInv, Closing
<1>5. HealthInv'
  BY <1>1 DEF IInv, HealthInv, Finished, FinalStatus
<1>6. ReplayInv' /\ DecoderInv'
  BY <1>1, LogKept
<1>. QED
  BY <1>3, <1>4, <1>5, <1>6 DEF IInv

\* Then the line of the index, which finds its chunk in place.
LEMMA IndexKeeps == IInv /\ IndexLine => IInv'
<1>. SUFFICES ASSUME IInv, IndexLine PROVE IInv'
  OBVIOUS
<1>1. /\ pc = "index" /\ pc' = "count"
      /\ index' = [chunks |-> index.chunks + 1, bytes |-> index.bytes + Len(chunk),
                   sound |-> index.sound /\ chunkSeq = index.chunks + 1 /\ counted = index.bytes]
      /\ UNCHANGED <<numbers, quality, wire, stop, chunk, raw, hashed, counted, chunkSeq, torn,
                      footer, syncedRaw, syncedIndex, buffer, synchronized, startup, batch,
                      faults, frames, cloud, previous, lastFaults, epoch, seq, rec, kept>>
  BY DEF IndexLine, Goto, device, synced, decoder, stats, log
<1>2. /\ Len(chunk) \in Nat /\ hashed \in Nat /\ counted \in Nat /\ chunkSeq \in Nat
      /\ index.chunks \in Nat /\ index.bytes \in Nat
  BY DEF IInv, Type
<1>3. Lengths /\ index.sound /\ stop # "interrupt"
  BY <1>1 DEF IInv, FileInv, Closing
<1>4. /\ Len(raw) = counted + Len(chunk) /\ hashed = counted + Len(chunk)
      /\ index.bytes = counted /\ chunkSeq = index.chunks + 1 /\ ~torn
      /\ \A j \in 1..Len(chunk) : raw[counted + j] = chunk[j]
  BY <1>1, <1>2, <1>3 DEF Lengths, InHand
<1>5. /\ index'.chunks = index.chunks + 1 /\ index'.bytes = counted + Len(chunk) /\ index'.sound = TRUE
      /\ index' \in [chunks: Nat, bytes: Nat, sound: BOOLEAN]
  BY <1>1, <1>2, <1>3, <1>4
<1>6. Type'
  <2>1. Pieces' = Pieces /\ Cuts' = Cuts /\ Decoded' = Decoded
    BY <1>1 DEF Pieces, Cuts, Decoded
  <2>. QED
    BY <1>1, <1>5, <2>1 DEF IInv, Type
<1>7. FileInv'
  <2>1. Lengths'
    BY <1>1, <1>2, <1>4, <1>5 DEF Lengths, InHand
  <2>2. counted' <= index'.bytes /\ index'.bytes <= Len(raw')
    BY <1>1, <1>2, <1>4, <1>5
  <2>. QED
    BY <1>1, <1>5, <2>1, <2>2 DEF IInv, FileInv, Closing
<1>8. HealthInv'
  BY <1>1 DEF IInv, HealthInv, Finished, FinalStatus
<1>9. ReplayInv' /\ DecoderInv'
  BY <1>1, LogKept
<1>. QED
  BY <1>6, <1>7, <1>8, <1>9 DEF IInv

\* What is counted is hashed, indexed and in the file.
LEMMA FeedStep == IInv /\ Feed => IInv'
<1>. SUFFICES ASSUME IInv, Feed PROVE IInv'
  OBVIOUS
<1>1. /\ pc = "count" /\ pc' = "decode" /\ counted' = counted + Len(chunk)
      /\ buffer' = buffer \o chunk /\ chunk' = <<>>
      /\ UNCHANGED <<numbers, quality, wire, stop, raw, hashed, index, chunkSeq, torn,
                      footer, syncedRaw, syncedIndex, synchronized, startup, batch,
                      faults, frames, cloud, previous, lastFaults, epoch, seq, rec, kept>>
  BY DEF Feed, Goto, device, synced, stats, log
<1>2. /\ Len(chunk) \in Nat /\ hashed \in Nat /\ counted \in Nat /\ index.bytes \in Nat
      /\ chunkSeq \in Nat /\ index.chunks \in Nat
      /\ buffer \in Seq(Pieces \cup {Rest}) /\ chunk \in Seq(Pieces)
  BY DEF IInv, Type
<1>3. Lengths /\ stop # "interrupt"
  BY <1>1 DEF IInv, FileInv, Closing
<1>4. /\ Len(raw) = counted + Len(chunk) /\ hashed = counted + Len(chunk)
      /\ index.bytes = counted + Len(chunk) /\ chunkSeq = index.chunks /\ ~torn
  BY <1>1, <1>2, <1>3 DEF Lengths, InHand
<1>5. Pieces' = Pieces /\ Cuts' = Cuts /\ Decoded' = Decoded
  BY <1>1 DEF Pieces, Cuts, Decoded
<1>6. Type'
  <2>. DEFINE T == Pieces \cup {Rest}
  <2>1. buffer \o chunk \in Seq(T)
    <3>1. buffer \in Seq(T) /\ Pieces \subseteq T
      BY <1>2
    <3>. HIDE DEF T
    <3>. QED
      BY <1>2, <3>1, SeqMonotonic, ConcatProperties
  <2>2. counted' \in Nat /\ <<>> \in Seq(Pieces)
    BY <1>1, <1>2
  <2>. QED
    BY <1>1, <1>5, <2>1, <2>2 DEF IInv, Type
<1>7. FileInv'
  <2>1. Lengths'
    BY <1>1, <1>2, <1>4 DEF Lengths, InHand
  <2>2. counted' <= index'.bytes /\ index'.bytes <= Len(raw')
    BY <1>1, <1>2, <1>4
  <2>. QED
    BY <1>1, <2>1, <2>2 DEF IInv, FileInv, Closing
<1>8. HealthInv'
  BY <1>1 DEF IInv, HealthInv, Finished
<1>9. ReplayInv'
  <2>1. counted' \in Nat /\ counted <= counted' /\ Batch' = Batch
    BY <1>1, <1>2 DEF Batch
  <2>. QED
    BY <1>1, <1>2, <2>1, ReplayKept DEF IInv
<1>. QED
  BY <1>6, <1>7, <1>8, <1>9, FeedKeeps DEF IInv

\* What throwing bytes away leaves of the other parts.
LEMMA DiscardsKeep ==
  ASSUME IInv, NEW left \in Seq(Pieces \cup {Rest}), Discards(left), DecoderInv'
  PROVE  IInv'
<1>1. /\ pc = "decode" /\ pc' = "decode" /\ buffer' = left /\ Batch' = Batch
      /\ UNCHANGED <<numbers, quality, wire, stop, chunk, raw, hashed, counted, index, chunkSeq,
                      torn, footer, syncedRaw, syncedIndex, synchronized, batch,
                      frames, cloud, previous, lastFaults, epoch, seq, rec, kept>>
      /\ faults' \in Nat /\ faults <= faults'
  BY DiscardsFrame DEF IInv, device, rawFiles, synced
<1>2. Pieces' = Pieces /\ Cuts' = Cuts /\ Decoded' = Decoded
  BY <1>1 DEF Pieces, Cuts, Decoded
<1>3. Type'
  BY <1>1, <1>2 DEF IInv, Type
<1>4. FileInv'
  BY <1>1 DEF IInv, FileInv, Lengths, InHand, Closing
<1>5. HealthInv'
  <2>1. lastFaults \in Nat /\ faults \in Nat
    BY DEF IInv, Type
  <2>. QED
    BY <1>1, <2>1 DEF IInv, HealthInv, Finished
<1>6. ReplayInv'
  <2>1. counted \in Nat
    BY DEF IInv, Type
  <2>. QED
    BY <1>1, <2>1, ReplayKept DEF IInv
<1>. QED
  BY <1>3, <1>4, <1>5, <1>6 DEF IInv

LEMMA DecodeKeeps == IInv /\ Decode => IInv'
<1>. SUFFICES ASSUME IInv, Decode PROVE IInv'
  OBVIOUS
<1>. DEFINE T == Pieces \cup {Rest}
<1>0. buffer \in Seq(T) /\ Len(buffer) \in Nat /\ Type /\ FileInv /\ DecoderInv
  BY DEF IInv, Type
<1>1. CASE SkipsNoise
  <2>1. <<Rest>> \in Seq(T)
    <3>1. Rest \in T
      OBVIOUS
    <3>. HIDE DEF T, Rest
    <3>. QED
      BY <3>1
  <2>2. Headers # {} => From(FirstHeader) \in Seq(T)
    BY <1>0, Found, Left
  <2>3. DecoderInv'
    BY <1>0, <1>1, NoiseKeeps
  <2>. HIDE DEF T
  <2>. QED
    BY <1>1, <2>1, <2>2, <2>3, DiscardsKeep DEF SkipsNoise, T
<1>2. CASE BadLength \/ ParseError
  <2>1. DecoderInv'
    BY <1>0, <1>2, BadLengthKeeps, ParseErrorKeeps
  <2>2. AtHeader /\ Discards(From(2))
    BY <1>2 DEF BadLength, ParseError
  <2>3. 2 \in 1..Len(buffer) + 1
    BY <1>0, <2>2, Found DEF AtHeader
  <2>4. From(2) \in Seq(T)
    BY <1>0, <2>3, Left
  <2>. QED
    BY <2>1, <2>2, <2>4, DiscardsKeep
<1>3. CASE Truncated
  <2>1. DecoderInv'
    BY <1>0, <1>3, TruncatedKeeps
  <2>2. NextHeaders # {} /\ Discards(From(NextMagic))
    BY <1>3 DEF Truncated
  <2>3. NextMagic \in 1..Len(buffer) + 1
    BY <1>0, <2>2, Found
  <2>4. From(NextMagic) \in Seq(T)
    BY <1>0, <2>3, Left
  <2>. QED
    BY <2>1, <2>2, <2>4, DiscardsKeep
<1>4. CASE Decodes
  <2>1. /\ batch' \in Seq(Decoded) /\ Batch' = Batch \cup {Front} /\ synchronized'
        /\ buffer' = From(PacketLen + 1) /\ PacketLen + 1 \in 1..Len(buffer) + 1
        /\ buffer[1][2] = 1 /\ ~Starved
    BY <1>0, <1>4, DecodesFrame
  <2>2. /\ pc = "decode"
        /\ UNCHANGED <<numbers, quality, wire, pc, stop, chunk, raw, hashed, counted, index,
                        chunkSeq, torn, footer, syncedRaw, syncedIndex, startup, faults,
                        frames, cloud, previous, lastFaults, epoch, seq, rec, kept>>
        /\ synchronized' = TRUE
    BY <1>4 DEF Decodes, device, rawFiles, synced, stats, log
  <2>3. buffer' \in Seq(T) /\ Pieces' = Pieces /\ Cuts' = Cuts /\ Decoded' = Decoded
    BY <1>0, <2>1, <2>2, Left DEF Pieces, Cuts, Decoded
  <2>4. Type'
    BY <2>1, <2>2, <2>3 DEF IInv, Type
  <2>5. FileInv'
    BY <2>2 DEF IInv, FileInv, Lengths, InHand, Closing
  <2>6. HealthInv'
    BY <2>2 DEF IInv, HealthInv, Finished
  <2>7. ReplayInv'
    <3>. SUFFICES ASSUME NEW w \in kept' \cup Batch'
                  PROVE  \E k \in Nat : k + PacketLen <= counted' /\ Window(w, k)'
      BY DEF ReplayInv
    <3>1. CASE w = Front
      <4>1. PICK p \in 0..counted : Holds(p)
        BY <1>0, <1>4, DecodesFrame
      <4>2. p \in Nat /\ p + PacketLen <= counted /\ \A i \in 1..PacketLen : Front[i] = raw[p + i]
        <5>1. counted \in Nat
          BY <1>0 DEF Type
        <5>2. p + PacketLen <= counted /\ \A i \in 1..PacketLen : Front[i] = raw[p + i]
          BY <1>0, <2>1, <4>1, InFront
        <5>. QED
          BY <5>1, <5>2
      <4>3. \A i \in 1..PacketLen : raw'[p + i] = w[i]
        BY <2>2, <3>1, <4>2
      <4>. QED
        BY <2>2, <4>2, <4>3 DEF Window
    <3>2. CASE w # Front
      <4>1. w \in kept \cup Batch
        BY <2>1, <2>2, <3>2
      <4>. QED
        BY <4>1, <2>2 DEF IInv, ReplayInv, Window
    <3>. QED
      BY <3>1, <3>2
  <2>. QED
    BY <1>0, <1>4, <2>4, <2>5, <2>6, <2>7, DecodesKeeps DEF IInv
<1>5. CASE NeedsMore
  <2>1. /\ pc = "decode" /\ pc' = "frames"
        /\ UNCHANGED <<numbers, quality, wire, stop, chunk, raw, hashed, counted, index,
                        chunkSeq, torn, footer, syncedRaw, syncedIndex, buffer, synchronized,
                        startup, batch, faults,
                        frames, cloud, previous, lastFaults, epoch, seq, rec, kept>>
    BY <1>5 DEF NeedsMore, Goto, device, rawFiles, synced, decoder, stats, log
  <2>2. Pieces' = Pieces /\ Cuts' = Cuts /\ Decoded' = Decoded
    BY <2>1 DEF Pieces, Cuts, Decoded
  <2>3. Type'
    BY <2>1, <2>2 DEF IInv, Type
  <2>4. FileInv' /\ HealthInv'
    BY <2>1 DEF IInv, FileInv, Lengths, InHand, Closing, HealthInv, Finished
  <2>. QED
    BY <2>1, <2>3, <2>4, LogKept DEF IInv
<1>. QED
  BY <1>1, <1>2, <1>3, <1>4, <1>5 DEF Decode

\* A step that only goes on to another part of the loop, or ends it.
LEMMA QuietKeeps ==
  ASSUME IInv, ReadsNothing \/ Ends \/ FramesDone \/ NotDue
  PROVE  IInv'
<1>1. /\ pc \in {"read", "frames", "health"} /\ pc' \in {"read", "health", "footer"}
      /\ pc = "frames" => batch = <<>>
      /\ IF pc' = "footer" THEN stop' = "requested" ELSE stop' = stop
      /\ UNCHANGED <<numbers, quality, wire, chunk, raw, hashed, counted, index,
                      chunkSeq, torn, footer, syncedRaw, syncedIndex, buffer, synchronized,
                      startup, batch, faults,
                      frames, cloud, previous, lastFaults, epoch, seq, rec, kept>>
  BY DEF ReadsNothing, Ends, FramesDone, NotDue, Goto, device, rawFiles, synced, decoder,
         stats, log
<1>2. Pieces' = Pieces /\ Cuts' = Cuts /\ Decoded' = Decoded
  BY <1>1 DEF Pieces, Cuts, Decoded
<1>3. Type'
  BY <1>1, <1>2 DEF IInv, Type, Closing
<1>4. FileInv' /\ HealthInv'
  BY <1>1 DEF IInv, FileInv, Lengths, InHand, Closing, HealthInv, Finished
<1>5. ReplayInv' /\ DecoderInv'
  <2>1. Batch' = Batch /\ counted \in Nat /\ stop = "none"
    BY <1>1 DEF Batch, IInv, Type, FileInv, Closing
  <2>. QED
    BY <1>1, <2>1, ReplayKept, DecoderKept DEF IInv
<1>. QED
  BY <1>3, <1>4, <1>5 DEF IInv

\* The counters of a frame.
LEMMA Counting ==
  ASSUME IInv, NEW d \in Decoded, Number(d) \in 0..Counter - 1, NEW more \in Nat, Counts(d, more)
  PROVE  /\ faults' \in Nat /\ faults + more <= faults'
         /\ frames' = TRUE /\ cloud' \in BOOLEAN /\ previous' \in 0..Counter
<1>1. faults \in Nat /\ Counter \in Nat
  BY CaptureAssumption DEF IInv, Type
<1>2. faults' = faults + (IF Harms(d) THEN 1 ELSE 0) + more /\ frames' = TRUE
  BY DEF Counts
<1>3. faults' \in Nat /\ faults + more <= faults'
  BY <1>1, <1>2
<1>4. cloud' \in BOOLEAN
  BY DEF Counts
<1>5. previous' \in 0..Counter
  BY <1>1 DEF Counts
<1>. QED
  BY <1>2, <1>3, <1>4, <1>5

\* The first frame that was decoded.
LEMMA FirstOfBatch ==
  ASSUME Type, batch # <<>>
  PROVE  /\ Head(batch) \in Decoded /\ Tail(batch) \in Seq(Decoded)
         /\ Batch = {Head(batch).packet} \cup {Tail(batch)[j].packet : j \in DOMAIN Tail(batch)}
         /\ Number(Head(batch)) \in 0..Counter - 1
<1>. DEFINE D == Decoded
<1>1. batch \in Seq(D)
  BY DEF Type
<1>. HIDE DEF D
<1>2. /\ Head(batch) \in D /\ Tail(batch) \in Seq(D)
      /\ Len(Tail(batch)) = Len(batch) - 1
      /\ \A i \in 1..Len(Tail(batch)) : Tail(batch)[i] = batch[i + 1]
  BY <1>1, HeadTailProperties
<1>3. /\ Len(batch) \in Nat /\ Len(batch) > 0 /\ DOMAIN batch = 1..Len(batch)
      /\ DOMAIN Tail(batch) = 1..Len(Tail(batch)) /\ Head(batch) = batch[1]
  BY <1>1, <1>2, EmptySeq, LenProperties
<1>4. ASSUME NEW j \in DOMAIN batch
      PROVE  batch[j].packet
               \in {Head(batch).packet} \cup {Tail(batch)[i].packet : i \in DOMAIN Tail(batch)}
  <2>1. CASE j = 1
    BY <2>1, <1>3
  <2>2. CASE j # 1
    <3>1. j - 1 \in DOMAIN Tail(batch) /\ (j - 1) + 1 = j
      BY <2>2, <1>2, <1>3
    <3>2. Tail(batch)[j - 1] = batch[j]
      BY <1>2, <1>3, <3>1
    <3>. QED
      BY <3>1, <3>2
  <2>. QED
    BY <2>1, <2>2
<1>5. 1 \in DOMAIN batch
  BY <1>3
<1>6. ASSUME NEW i \in DOMAIN Tail(batch) PROVE i + 1 \in DOMAIN batch /\ Tail(batch)[i] = batch[i + 1]
  BY <1>2, <1>3
<1>. DEFINE R == {Tail(batch)[i].packet : i \in DOMAIN Tail(batch)}
<1>7. R \subseteq Batch /\ Head(batch).packet \in Batch
  BY <1>3, <1>5, <1>6 DEF Batch
<1>8. Batch \subseteq {Head(batch).packet} \cup R
  <2>. HIDE DEF R
  <2>1. \A j \in DOMAIN batch : batch[j].packet \in {Head(batch).packet} \cup R
    BY <1>4 DEF R
  <2>. QED
    BY <2>1 DEF Batch
<1>9. Batch = {Head(batch).packet} \cup R
  <2>. HIDE DEF R
  <2>. QED
    BY <1>7, <1>8
<1>10. Number(Head(batch)) \in 0..Counter - 1
  <2>. DEFINE w == Head(batch).packet
  <2>1. w \in Cuts /\ 1 \in 1..Len(w)
    BY <1>2, CaptureAssumption DEF D, Decoded, Cuts
  <2>2. w[1] \in Pieces
    BY <2>1, ElementOfSeq DEF Cuts
  <2>3. w[1][1] \in 1..Len(numbers) /\ numbers \in Seq(0..Counter - 1)
    BY <2>2 DEF Pieces, Type
  <2>. QED
    BY <2>3, ElementOfSeq DEF Number
<1>. QED
  BY <1>2, <1>9, <1>10 DEF D

\* What SubmitFrame does besides the records it writes.
LEMMA SubmitKeeps == IInv /\ SubmitFrame => IInv'
<1>. SUFFICES ASSUME IInv, SubmitFrame PROVE IInv'
  OBVIOUS
<1>. DEFINE f == Head(batch)
<1>1. /\ f \in Decoded /\ Number(f) \in 0..Counter - 1 /\ Tail(batch) \in Seq(Decoded)
      /\ Batch = {f.packet} \cup {Tail(batch)[j].packet : j \in DOMAIN Tail(batch)}
  BY FirstOfBatch DEF IInv, SubmitFrame
<1>2. /\ pc = "frames" /\ batch' = Tail(batch)
      /\ UNCHANGED <<numbers, quality, wire, pc, stop, chunk, raw, hashed, counted, index,
                      chunkSeq, torn, footer, syncedRaw, syncedIndex, buffer, synchronized,
                      startup, lastFaults>>
  BY DEF SubmitFrame, device, rawFiles, synced, decoder
<1>3. Batch = {f.packet} \cup Batch' /\ Pieces' = Pieces /\ Cuts' = Cuts /\ Decoded' = Decoded
  BY <1>1, <1>2 DEF Batch, Pieces, Cuts, Decoded
<1>4. epoch' \in Nat /\ seq' \in Nat
  <2>1. epoch \in Nat /\ seq \in Nat
    BY DEF IInv, Type
  <2>2. (epoch' = epoch + 1 /\ seq' = 1) \/ (epoch' = epoch /\ seq' = seq + 1)
    BY DEF SubmitFrame, NextHeader
  <2>. QED
    BY <2>1, <2>2
<1>5. PICK more \in {0, 1} :
        /\ Counts(f, more)
        /\ \/ more = 0 /\ kept' = kept \cup {f.packet} /\ rec' = Record(f)
           \/ more = 1 /\ kept' = kept /\ rec' = rec
  BY DEF SubmitFrame
<1>6. /\ faults' \in Nat /\ faults + more <= faults'
      /\ frames' = TRUE /\ cloud' \in BOOLEAN /\ previous' \in 0..Counter
  BY <1>1, <1>5, Counting
<1>. HIDE DEF f
<1>7. Type'
  <2>1. kept' \subseteq Cuts
    <3>1. f.packet \in Cuts
      BY <1>1 DEF Decoded
    <3>. QED
      BY <1>5, <3>1 DEF IInv, Type
  <2>. QED
    BY <1>1, <1>2, <1>3, <1>4, <1>6, <2>1 DEF IInv, Type
<1>8. FileInv'
  BY <1>2 DEF IInv, FileInv, Lengths, InHand, Closing
<1>9. HealthInv'
  <2>1. lastFaults' <= faults'
    <3>1. lastFaults \in Nat /\ faults \in Nat /\ lastFaults <= faults
      BY DEF IInv, Type, HealthInv
    <3>. QED
      BY <1>2, <1>6, <3>1
  <2>2. ~Finished'
    BY <1>2, <1>5 DEF IInv, HealthInv, Finished, Record
  <2>. QED
    BY <1>2, <1>6, <2>1, <2>2 DEF HealthInv
<1>10. ReplayInv'
  <2>1. counted \in Nat
    BY DEF IInv, Type
  <2>. QED
    BY <1>2, <1>3, <1>5, <2>1, ReplayKept DEF IInv
<1>11. DecoderInv'
  <2>1. faults' = 0 => faults = 0 /\ kept \cup Batch \subseteq kept' \cup Batch'
    <3>1. faults \in Nat
      BY DEF IInv, Type
    <3>. QED
      BY <1>3, <1>5, <1>6, <3>1
  <2>. QED
    BY <1>2, <2>1, DecoderKept DEF IInv
<1>. QED
  BY <1>7, <1>8, <1>9, <1>10, <1>11 DEF IInv

LEMMA HealthKeeps == IInv /\ EmitHealth => IInv'
<1>. SUFFICES ASSUME IInv, EmitHealth PROVE IInv'
  OBVIOUS
<1>1. /\ pc = "health" /\ pc' = "read"
      /\ UNCHANGED <<numbers, quality, wire, stop, chunk, raw, hashed, counted, index,
                      chunkSeq, torn, footer, syncedRaw, syncedIndex, buffer, synchronized,
                      startup, batch, frames, cloud, previous, epoch, seq, kept>>
      /\ \/ /\ lastFaults' = faults /\ faults' = faults
            /\ rec' = [kind |-> "health", final |-> FALSE, status |-> PeriodicStatus]
         \/ faults' = faults + 1 /\ lastFaults' = lastFaults /\ rec' = rec
  BY DEF EmitHealth, Goto, device, rawFiles, synced, decoder
<1>2. faults \in Nat /\ lastFaults \in Nat /\ lastFaults <= faults /\ ~Finished
  BY <1>1 DEF IInv, Type, HealthInv
<1>3. faults' \in Nat /\ lastFaults' \in Nat /\ lastFaults' <= faults' /\ (faults' = 0 => faults = 0)
  BY <1>1, <1>2
<1>4. Pieces' = Pieces /\ Cuts' = Cuts /\ Decoded' = Decoded /\ Batch' = Batch
  BY <1>1 DEF Pieces, Batch, Cuts, Decoded
<1>5. Type'
  BY <1>1, <1>3, <1>4 DEF IInv, Type
<1>6. FileInv'
  BY <1>1 DEF IInv, FileInv, Lengths, InHand, Closing
<1>7. HealthInv'
  <2>1. ~Finished'
    BY <1>1, <1>2 DEF Finished
  <2>. QED
    BY <1>1, <1>3, <2>1 DEF IInv, HealthInv
<1>8. ReplayInv' /\ DecoderInv'
  <2>1. counted \in Nat
    BY DEF IInv, Type
  <2>. QED
    BY <1>1, <1>3, <1>4, <2>1, ReplayKept, DecoderKept DEF IInv
<1>. QED
  BY <1>5, <1>6, <1>7, <1>8 DEF IInv

\* A signal: whatever it cuts off, what was counted stays where it was.
LEMMA InterruptKeeps == IInv /\ Interrupt => IInv'
<1>. SUFFICES ASSUME IInv, Interrupt PROVE IInv'
  OBVIOUS
<1>1. /\ Looping /\ pc' = "footer" /\ stop' = "interrupt" /\ chunk' = <<>> /\ batch' = <<>>
      /\ raw' = raw \/ raw' = raw \o SubSeq(chunk, 1, Len(chunk) - 1)
      /\ UNCHANGED <<numbers, quality, wire, hashed, counted, index, chunkSeq, footer,
                      syncedRaw, syncedIndex, buffer, synchronized, startup, lastFaults,
                      epoch, seq, rec, kept>>
  BY DEF Interrupt, Goto, device, synced, decoder, log
<1>2. Pieces' = Pieces /\ Cuts' = Cuts /\ Decoded' = Decoded /\ Batch' = {}
  BY <1>1 DEF Pieces, Batch, Cuts, Decoded
<1>3. /\ raw \in Seq(Pieces) /\ Len(raw) \in Nat /\ counted \in Nat /\ index.bytes \in Nat
      /\ counted <= index.bytes /\ index.bytes <= Len(raw)
  BY DEF IInv, Type, FileInv
<1>4. /\ raw' \in Seq(Pieces) /\ Len(raw') \in Nat /\ Len(raw) <= Len(raw')
      /\ \A j \in 1..Len(raw) : raw'[j] = raw[j]
  <2>. DEFINE part == SubSeq(chunk, 1, Len(chunk) - 1)
  <2>1. chunk \in Seq(Pieces) /\ Len(chunk) \in Nat
    BY DEF IInv, Type
  <2>2. \A i \in 1..Len(chunk) - 1 : chunk[i] \in Pieces
    BY <2>1
  <2>3. part \in Seq(Pieces)
    BY <2>1, <2>2, SubSeqProperties
  <2>. HIDE DEF part
  <2>4. /\ raw \o part \in Seq(Pieces) /\ Len(raw \o part) = Len(raw) + Len(part)
        /\ Len(part) \in Nat
        /\ \A i \in 1..Len(raw) + Len(part) :
             (raw \o part)[i] = IF i <= Len(raw) THEN raw[i] ELSE part[i - Len(raw)]
    BY <1>3, <2>3, ConcatProperties
  <2>5. \A i \in 1..Len(raw) : (raw \o part)[i] = raw[i]
    BY <1>3, <2>4
  <2>6. raw' = raw \/ raw' = raw \o part
    BY <1>1 DEF part
  <2>7. Len(raw) <= Len(raw \o part) /\ Len(raw \o part) \in Nat
    BY <1>3, <2>4
  <2>8. CASE raw' = raw
    BY <1>3, <2>8
  <2>9. CASE raw' = raw \o part
    BY <2>4, <2>5, <2>7, <2>9
  <2>. QED
    BY <2>6, <2>8, <2>9
<1>5. /\ faults' \in Nat /\ faults <= faults' /\ frames' \in BOOLEAN /\ cloud' \in BOOLEAN
      /\ previous' \in 0..Counter /\ (cloud' => frames')
  <2>1. CASE UNCHANGED stats
    BY <2>1 DEF stats, IInv, Type, HealthInv
  <2>2. CASE batch # <<>> /\ Counts(Head(batch), 0)
    <3>1. Head(batch) \in Decoded /\ Number(Head(batch)) \in 0..Counter - 1
      BY <2>2, FirstOfBatch DEF IInv
    <3>2. /\ faults + 0 <= faults' /\ faults' \in Nat
          /\ frames' = TRUE /\ cloud' \in BOOLEAN /\ previous' \in 0..Counter
      <4>1. 0 \in Nat
        OBVIOUS
      <4>. QED
        BY <2>2, <3>1, <4>1, Counting
    <3>3. faults <= faults'
      BY <3>2 DEF IInv, Type
    <3>. QED
      BY <3>2, <3>3
  <2>. QED
    BY <2>1, <2>2 DEF Interrupt
<1>6. Type'
  <2>1. <<>> \in Seq(Pieces) /\ <<>> \in Seq(Decoded)
    OBVIOUS
  <2>. QED
    BY <1>1, <1>2, <1>4, <1>5, <2>1 DEF IInv, Type, Closing
<1>7. FileInv'
  <2>1. counted' <= index'.bytes /\ index'.bytes <= Len(raw')
    BY <1>1, <1>3, <1>4
  <2>. QED
    BY <1>1, <2>1 DEF IInv, FileInv, Closing
<1>8. HealthInv'
  <2>1. lastFaults' <= faults'
    BY <1>1, <1>5 DEF IInv, Type, HealthInv
  <2>2. ~Finished'
    BY <1>1 DEF IInv, HealthInv, Finished, Looping
  <2>. QED
    BY <1>1, <1>5, <2>1, <2>2 DEF HealthInv
<1>9. ReplayInv' /\ DecoderInv'
  <2>1. /\ \A j \in 1..counted : raw'[j] = raw[j]
        /\ kept' \cup Batch' \subseteq kept \cup Batch /\ counted <= counted' /\ counted' \in Nat
    BY <1>1, <1>2, <1>3, <1>4
  <2>. QED
    BY <1>1, <1>3, <2>1, ReplayKept, DecoderKept DEF IInv
<1>. QED
  BY <1>6, <1>7, <1>8, <1>9 DEF IInv

\* The footer, the syncs and the last record.
LEMMA ClosingKeeps == IInv /\ (WriteFooter \/ SyncFiles \/ WriteFinal) => IInv'
<1>. SUFFICES ASSUME IInv, WriteFooter \/ SyncFiles \/ WriteFinal PROVE IInv'
  OBVIOUS
<1>1. /\ pc \in {"footer", "sync", "final"}
      /\ pc = "footer" => pc' = "sync"
      /\ pc = "sync" => pc' = "final"
      /\ pc = "final" => pc' = "ended"
      /\ UNCHANGED <<numbers, quality, wire, stop, chunk, raw, hashed, counted, index, chunkSeq,
                      torn, buffer, synchronized, startup, batch, faults, frames, cloud,
                      previous, lastFaults, epoch, seq, kept>>
  BY DEF WriteFooter, SyncFiles, WriteFinal, Goto, device, rawFiles, decoder, stats, log
<1>2. Pieces' = Pieces /\ Cuts' = Cuts /\ Decoded' = Decoded /\ FinalStatus' = FinalStatus
  BY <1>1 DEF Pieces, FinalStatus, Cuts, Decoded
<1>3. Type'
  BY <1>1, <1>2 DEF IInv, Type, Closing
<1>4. /\ pc' \in {"sync", "final", "ended"} =>
           footer' = [chunks |-> chunkSeq', bytes |-> counted', hashed |-> hashed', there |-> TRUE]
      /\ pc' \in {"final", "ended"} => syncedRaw' = Len(raw') /\ syncedIndex'
  BY <1>1 DEF WriteFooter, SyncFiles, WriteFinal, rawFiles, synced, Goto, IInv, FileInv
<1>5. FileInv'
  <2>1. stop' # "interrupt" => Lengths'
    BY <1>1 DEF IInv, FileInv, Lengths, InHand
  <2>. QED
    BY <1>1, <1>4, <2>1 DEF IInv, FileInv, Closing
<1>6. HealthInv'
  <2>1. ~Finished /\ lastFaults <= faults /\ (cloud => frames)
    BY <1>1 DEF IInv, HealthInv
  <2>2. CASE pc = "final"
    BY <2>1, <2>2, <1>1, <1>2 DEF WriteFooter, SyncFiles, WriteFinal, HealthInv, Finished
  <2>3. CASE pc # "final"
    <3>1. rec' = rec
      BY <2>3 DEF WriteFooter, SyncFiles, WriteFinal, log
    <3>. QED
      BY <2>1, <2>3, <3>1, <1>1 DEF HealthInv, Finished
  <2>. QED
    BY <2>2, <2>3
<1>7. ReplayInv' /\ DecoderInv'
  BY <1>1, LogKept
<1>. QED
  BY <1>3, <1>5, <1>6, <1>7 DEF IInv

LEMMA InitKeeps == Init => IInv
<1>. SUFFICES ASSUME Init PROVE IInv
  OBVIOUS
<1>. USE DEF Init
<1>1. \A S : <<>> \in Seq(S) /\ Len(<<>>) = 0 /\ DOMAIN <<>> = {}
  OBVIOUS
<1>2. None \in 0..Counter
  BY CaptureAssumption DEF None
<1>3. Type
  BY <1>1, <1>2 DEF Type
<1>4. FileInv /\ HealthInv
  BY DEF FileInv, Lengths, InHand, Closing, HealthInv, Finished
<1>5. Batch = {}
  BY DEF Batch
<1>6. ReplayInv
  BY <1>5 DEF ReplayInv
<1>7. Holds(0) /\ Passed(0)
  BY DEF Holds, Passed
<1>8. DecoderInv
  BY <1>7 DEF DecoderInv
<1>. QED
  BY <1>3, <1>4, <1>6, <1>8 DEF IInv

LEMMA StepKeeps == IInv /\ [Next]_vars => IInv'
<1>. SUFFICES ASSUME IInv, [Next]_vars PROVE IInv'
  OBVIOUS
<1>1. CASE UNCHANGED vars
  <2>1. /\ UNCHANGED <<numbers, quality, wire, pc, stop, chunk, raw, hashed, counted, index, chunkSeq,
                        torn, footer, syncedRaw, syncedIndex, buffer, synchronized, startup, batch,
                        faults, frames, cloud, previous, lastFaults, epoch, seq, rec, kept>>
    BY <1>1 DEF vars, device, rawFiles, synced, decoder, stats, log
  <2>2. Pieces' = Pieces /\ Cuts' = Cuts /\ Decoded' = Decoded /\ FinalStatus' = FinalStatus
    BY <2>1 DEF Pieces, FinalStatus, Cuts, Decoded
  <2>3. Type'
    BY <2>1, <2>2 DEF IInv, Type
  <2>4. FileInv' /\ HealthInv'
    BY <2>1, <2>2 DEF IInv, FileInv, Lengths, InHand, HealthInv, Finished
  <2>. QED
    BY <2>1, <2>3, <2>4, LogKept DEF IInv
<1>2. CASE Device
  BY <1>2, DeviceKeeps
<1>3. CASE Interrupt
  BY <1>3, InterruptKeeps
<1>4. CASE Capture
  BY <1>4, ReadKeeps, QuietKeeps, StoreKeeps, HashKeeps, IndexKeeps, FeedStep, DecodeKeeps,
     SubmitKeeps, HealthKeeps, ClosingKeeps
  DEF Capture
<1>. QED
  BY <1>1, <1>2, <1>3, <1>4 DEF Next

THEOREM Invariant == Spec => []IInv
  BY InitKeeps, StepKeeps, PTL DEF Spec

-----------------------------------------------------------------------------
(* What follows for a reader of the files.                                 *)

\* A cut whose pieces lie in a sequence is a part of it.
LEMMA PartIs ==
  ASSUME NEW s \in Seq(Pieces), NEW k \in Nat, NEW w \in Cuts, k + PacketLen <= Len(s)
  PROVE  SubSeq(s, k + 1, k + PacketLen) = w
           <=> \A i \in 1..PacketLen : s[k + i] = w[i]
<1>. DEFINE part == SubSeq(s, k + 1, k + PacketLen)
<1>1. PacketLen \in Nat /\ PacketLen > 1 /\ Len(s) \in Nat
  BY CaptureAssumption
<1>2. \A i \in k + 1..k + PacketLen : s[i] \in Pieces
  BY <1>1, ElementOfSeq
<1>3. /\ part \in Seq(Pieces) /\ Len(part) = PacketLen
      /\ \A i \in 1..PacketLen : part[i] = s[k + i]
  <2>1. /\ k + 1 \in Int /\ k + PacketLen \in Int /\ k + 1 <= k + PacketLen
        /\ (k + PacketLen) - (k + 1) + 1 = PacketLen
    BY <1>1
  <2>2. \A i \in 1..PacketLen : (k + 1) + i - 1 = k + i
    BY <1>1
  <2>3. /\ part \in Seq(Pieces)
        /\ Len(part) = (k + PacketLen) - (k + 1) + 1
        /\ \A i \in 1..(k + PacketLen) - (k + 1) + 1 : part[i] = s[(k + 1) + i - 1]
    BY <1>2, <2>1, SubSeqProperties
  <2>. HIDE DEF part
  <2>. QED
    BY <2>1, <2>2, <2>3
<1>4. w \in Seq(Pieces) /\ Len(w) = PacketLen
  BY DEF Cuts
<1>. HIDE DEF part
<1>5. ASSUME \A i \in 1..PacketLen : s[k + i] = w[i] PROVE part = w
  <2>1. \A i \in 1..Len(part) : part[i] = w[i]
    BY <1>3, <1>5
  <2>. QED
    BY <1>3, <1>4, <2>1, SeqEqual
<1>6. ASSUME part = w, NEW i \in 1..PacketLen PROVE s[k + i] = w[i]
  BY <1>3, <1>6
<1>. QED
  BY <1>5, <1>6 DEF part

\* A frame that was sent has a packet of known pieces.
LEMMA SentIsCut ==
  ASSUME Type, NEW f \in DOMAIN numbers
  PROVE  f \in Nat /\ Packet(f) \in Cuts /\ \A i \in 1..PacketLen : Packet(f)[i] = <<f, i>>
<1>. DEFINE P == (1..f) \X (0..PacketLen)
<1>1. numbers \in Seq(0..Counter - 1)
  BY DEF Type
<1>2. f \in Nat /\ f > 0 /\ f <= Len(numbers) /\ Len(numbers) \in Nat
  BY <1>1
<1>3. P \subseteq Pieces
  BY <1>2 DEF Pieces
<1>4. /\ Packet(f) \in Seq(P) /\ Len(Packet(f)) = PacketLen
      /\ \A i \in 1..PacketLen : Packet(f)[i] = <<f, i>>
  BY <1>2, PacketPieces
<1>5. Packet(f) \in Seq(Pieces)
  <2>. HIDE DEF P
  <2>. QED
    BY <1>3, <1>4, SeqMonotonic
<1>. QED
  BY <1>2, <1>4, <1>5 DEF Cuts

\* Every variable of the capture keeps its type.
THEOREM TypeCorrect == Spec => []Type
<1>1. IInv => Type
  BY DEF IInv
<1>. QED
  BY <1>1, Invariant, PTL

\* A run that ends by itself and says "ok" has left no whole packet out, and
\* its raw stream and index agree.
THEOREM CleanEnd == Spec => []CleanEndIsWhole
<1>1. ASSUME IInv PROVE CleanEndIsWhole
  <2>. SUFFICES ASSUME Finished, rec.status = "ok", stop = "requested"
                PROVE  IndexHealthy /\ Sent \cap Windows(raw) \subseteq kept
    BY DEF CleanEndIsWhole
  <2>1. /\ Type /\ FileInv /\ pc = "ended" /\ FinalStatus = "ok" /\ Lengths /\ batch = <<>>
        /\ footer = [chunks |-> chunkSeq, bytes |-> counted, hashed |-> hashed, there |-> TRUE]
    BY <1>1 DEF IInv, HealthInv, FileInv
  <2>2. faults = 0 /\ buffer = <<>>
    <3>1. ~(faults > 0) /\ buffer = <<>>
      BY <2>1 DEF FinalStatus
    <3>2. faults \in Nat
      BY <2>1 DEF Type
    <3>. QED
      BY <3>1, <3>2
  <2>3. /\ Len(raw) = counted /\ hashed = counted /\ index.bytes = counted
        /\ chunkSeq = index.chunks /\ ~torn /\ counted \in Nat
    <3>1. /\ Len(raw) = counted + 0 /\ hashed = counted + 0 /\ index.bytes = counted + 0
          /\ chunkSeq = index.chunks + 0 /\ ~torn
      BY <2>1 DEF Lengths, InHand
    <3>2. counted \in Nat /\ index.chunks \in Nat
      BY <2>1 DEF Type
    <3>. QED
      BY <3>1, <3>2
  <2>4. IndexHealthy
    BY <2>1, <2>3 DEF FileInv, IndexHealthy, LinesHealthy, ChunksHealthy, FooterHealthy, StreamHealthy
  <2>5. Passed(counted)
    <3>1. PICK p \in 0..counted : (Holds(p) \/ HoldsRest(p)) /\ Passed(p)
      BY <1>1 DEF IInv, DecoderInv
    <3>2. Len(buffer) = 0
      BY <2>2
    <3>3. p = counted
      BY <2>3, <3>1, <3>2 DEF Holds, HoldsRest
    <3>. QED
      BY <3>1, <3>3
  <2>6. ASSUME NEW w \in Sent \cap Windows(raw) PROVE w \in kept
    <3>1. PICK f \in DOMAIN numbers : w = Packet(f)
      BY DEF Sent
    <3>2. PICK k \in 0..Len(raw) - PacketLen : w = SubSeq(raw, k + 1, k + PacketLen)
      BY DEF Windows
    <3>3. f \in Nat /\ w \in Cuts /\ \A i \in 1..PacketLen : w[i] = <<f, i>>
      BY <2>1, <3>1, SentIsCut
    <3>4. PacketLen \in Nat /\ PacketLen > 1 /\ raw \in Seq(Pieces)
      BY <2>1, CaptureAssumption DEF Type
    <3>5. k \in Nat /\ k + PacketLen <= Len(raw) /\ k \in 0..counted - 1 /\ ~(k + PacketLen > counted)
      BY <2>3, <3>4
    <3>6. \A i \in 1..PacketLen : raw[k + i] = w[i]
      BY <3>2, <3>3, <3>4, <3>5, PartIs
    <3>7. Opens(f, k)
      BY <3>3, <3>6 DEF Opens
    <3>8. Packet(f) \in kept \cup Batch
      BY <2>1, <2>2, <2>5, <3>3, <3>5, <3>7 DEF Passed
    <3>9. Batch = {}
      BY <2>1 DEF Batch
    <3>. QED
      BY <3>1, <3>8, <3>9
  <2>. QED
    BY <2>4, <2>6
<1>. QED
  BY <1>1, Invariant, PTL

\* At every moment, the packet of every logged frame is in the raw file and
\* covered by its index; a final record finds both files on the disk.
THEOREM LogIsBacked == Spec => []LoggedIsRaw
<1>1. ASSUME IInv PROVE LoggedIsRaw
  <2>1. Finished => syncedRaw = Len(raw) /\ syncedIndex
    BY <1>1 DEF IInv, HealthInv, FileInv
  <2>. DEFINE s == SubSeq(raw, 1, index.bytes)
  <2>2. /\ raw \in Seq(Pieces) /\ Len(raw) \in Nat /\ counted \in Nat /\ index.bytes \in Nat
        /\ counted <= index.bytes /\ index.bytes <= Len(raw)
        /\ kept \subseteq Cuts
    BY <1>1 DEF IInv, Type, FileInv
  <2>3. /\ s \in Seq(Pieces) /\ Len(s) = index.bytes
        /\ \A i \in 1..index.bytes : s[i] = raw[i]
    <3>1. \A i \in 1..index.bytes : raw[i] \in Pieces
      BY <2>2
    <3>2. /\ SubSeq(raw, 1, index.bytes) \in Seq(Pieces)
          /\ Len(SubSeq(raw, 1, index.bytes))
               = IF 1 <= index.bytes THEN index.bytes - 1 + 1 ELSE 0
          /\ \A i \in 1..index.bytes - 1 + 1 : SubSeq(raw, 1, index.bytes)[i] = raw[1 + i - 1]
      BY <2>2, <3>1, SubSeqProperties
    <3>3. \A i \in 1..index.bytes : i \in 1..index.bytes - 1 + 1 /\ 1 + i - 1 = i
      BY <2>2
    <3>4. (IF 1 <= index.bytes THEN index.bytes - 1 + 1 ELSE 0) = index.bytes
      BY <2>2
    <3>. HIDE DEF s
    <3>. QED
      BY <3>2, <3>3, <3>4 DEF s
  <2>. HIDE DEF s
  <2>4. ASSUME NEW w \in kept PROVE w \in Windows(s)
    <3>1. PICK k \in Nat : k + PacketLen <= counted /\ Window(w, k)
      BY <1>1 DEF IInv, ReplayInv
    <3>2. w \in Cuts /\ PacketLen \in Nat
      BY <2>2, CaptureAssumption
    <3>3. k + PacketLen <= Len(s) /\ k \in 0..Len(s) - PacketLen
      BY <2>2, <2>3, <3>1, <3>2
    <3>4. ASSUME NEW i \in 1..PacketLen PROVE s[k + i] = w[i]
      <4>1. k + i \in 1..index.bytes
        BY <2>2, <3>1, <3>2
      <4>. QED
        BY <2>3, <3>1, <4>1 DEF Window
    <3>5. SubSeq(s, k + 1, k + PacketLen) = w
      BY <2>3, <3>2, <3>3, <3>4, PartIs
    <3>. QED
      BY <3>3, <3>5 DEF Windows
  <2>. QED
    BY <2>1, <2>4 DEF LoggedIsRaw, s
<1>. QED
  BY <1>1, Invariant, PTL

-----------------------------------------------------------------------------
(* The refinement of RecordStream: each step of the capture is one of its  *)
(* steps, or leaves its variables alone.                                   *)

\* What the readers of the log see of a state.
View == <<epoch, seq, faults, lastFaults, cloud, rec>>

\* The counter's arithmetic is that of the promise.
LEMMA Transitions ==
  ASSUME NEW from \in 0..Counter, NEW to \in 0..Counter - 1
  PROVE  Gap(from, to) \in Gaps /\ Transition(from, to) \in Stream!Transitions
<1>1. Counter \in Nat /\ Counter > 1 /\ None = Counter
  BY CaptureAssumption DEF None
<1>2. to + Counter - from \in Nat
  BY <1>1
<1>3. Delta(from, to) \in 0..Counter - 1
  BY <1>1, <1>2 DEF Delta
<1>4. Gap(from, to) \in Gaps
  <2>. DEFINE d == Delta(from, to)
  <2>. HIDE DEF d
  <2>1. d \in 0..Counter - 1
    BY <1>3 DEF d
  <2>2. Gap(from, to) = IF from = None \/ d = 0 \/ 2 * d >= Counter THEN 0 ELSE d - 1
    BY DEF Gap, d
  <2>3. Gap(from, to) \in 0..Counter /\ 2 * Gap(from, to) < Counter
    BY <1>1, <2>1, <2>2
  <2>. QED
    BY <2>3 DEF Gaps
<1>5. Transition(from, to) \in Stream!Transitions
  BY DEF Transition, Stream!Transitions, Stream!Broken
<1>. QED
  BY <1>4, <1>5

LEMMA InitRefines == Init => Stream!Init
  BY DEF Init, Stream!Init

\* A frame that was counted, and accepted or refused.
LEMMA FrameRefines == IInv /\ SubmitFrame => Stream!Next
<1>. SUFFICES ASSUME IInv, SubmitFrame PROVE Stream!Next
  OBVIOUS
<1>. DEFINE f == Head(batch)
            g == Gap(previous, Number(f))
            t == Transition(previous, Number(f))
            q == f.quality
<1>1. f \in Decoded /\ Number(f) \in 0..Counter - 1 /\ previous \in 0..Counter
  BY FirstOfBatch DEF IInv, SubmitFrame, Type
<1>2. g \in Gaps /\ t \in Stream!Transitions /\ q \in Stream!Qualities
  <2>1. q \in Stream!Qualities
    BY <1>1 DEF Decoded
  <2>. HIDE DEF f
  <2>. QED
    BY <1>1, <2>1, Transitions
<1>3. PICK more \in {0, 1} :
        /\ Counts(f, more)
        /\ \/ more = 0 /\ rec' = Record(f)
           \/ more = 1 /\ rec' = rec
  BY DEF SubmitFrame
<1>. DEFINE harm == g > 0 \/ t \in Stream!Broken \/ q # "points" \/ more = 1
<1>4. /\ Stream!Open
      /\ IF t = "reset_or_out_of_order"
         THEN epoch' = epoch + 1 /\ seq' = 1
         ELSE epoch' = epoch /\ seq' = seq + 1
      /\ cloud' = (cloud \/ q # "none")
  BY <1>3 DEF SubmitFrame, NextHeader, Counts, IInv, HealthInv, Finished, Stream!Open
<1>5. /\ (faults > lastFaults)' <=> (faults > lastFaults \/ harm)
      /\ (faults > 0)' <=> (faults > 0 \/ harm)
  <2>1. faults \in Nat /\ lastFaults \in Nat /\ lastFaults <= faults /\ lastFaults' = lastFaults
    BY DEF IInv, Type, HealthInv, SubmitFrame
  <2>2. faults' = faults + (IF Harms(f) THEN 1 ELSE 0) + more
    BY <1>3 DEF Counts
  <2>3. harm <=> Harms(f) \/ more = 1
    BY DEF Harms, Stream!Broken
  <2>. HIDE DEF harm, f
  <2>. QED
    BY <2>1, <2>2, <2>3
<1>6. rec' = IF more = 0
             THEN [kind |-> "frame", epoch |-> epoch', seq |-> seq',
                   dropped |-> g, transition |-> t, quality |-> q]
             ELSE rec
  BY <1>3 DEF Record
<1>. HIDE DEF f, g, t, q
<1>7. Stream!Frame(g, t, q, more = 0)
  BY <1>3, <1>4, <1>5, <1>6 DEF Stream!Frame
<1>8. (more = 0) \in BOOLEAN
  OBVIOUS
<1>. QED
  BY <1>2, <1>7, <1>8 DEF Stream!Next

\* A periodic record says what the counters deserve.
LEMMA HealthRefines == IInv /\ EmitHealth => Stream!Next
<1>. SUFFICES ASSUME IInv, EmitHealth PROVE Stream!Next
  OBVIOUS
<1>0. faults \in Nat /\ lastFaults \in Nat /\ lastFaults <= faults
  BY DEF IInv, Type, HealthInv
<1>1. (cloud => frames) /\ Stream!Open
  BY DEF IInv, HealthInv, EmitHealth, Finished, Stream!Open
<1>2. PeriodicStatus \in IF faults > lastFaults THEN {"degraded"}
                         ELSE IF cloud THEN {"ok"} ELSE {"starting", "degraded"}
  BY <1>1 DEF PeriodicStatus, IInv, HealthInv
<1>3. UNCHANGED <<epoch, seq, cloud>>
  BY DEF EmitHealth
<1>4. PeriodicStatus \in {"ok", "degraded", "starting"}
  BY DEF PeriodicStatus
<1>. HIDE DEF PeriodicStatus
<1>5. CASE /\ lastFaults' = faults /\ faults' = faults
           /\ rec' = [kind |-> "health", final |-> FALSE, status |-> PeriodicStatus]
  <2>1. (faults > lastFaults)' = FALSE /\ (faults > 0)' = (faults > 0)
    <3>1. ~(faults' > lastFaults')
      BY <1>0, <1>5
    <3>. QED
      BY <1>5, <3>1
  <2>2. Stream!Health(PeriodicStatus, TRUE)
    BY <1>1, <1>2, <1>3, <1>5, <2>1 DEF Stream!Health
  <2>. QED
    BY <1>4, <2>2 DEF Stream!Next
<1>6. CASE faults' = faults + 1 /\ lastFaults' = lastFaults /\ rec' = rec
  <2>1. (faults > lastFaults)' = TRUE /\ (faults > 0)' = TRUE
    <3>1. faults' > lastFaults' /\ faults' > 0
      BY <1>0, <1>6
    <3>. QED
      BY <3>1
  <2>2. Stream!Health(PeriodicStatus, FALSE)
    BY <1>1, <1>2, <1>3, <1>6, <2>1 DEF Stream!Health
  <2>. QED
    BY <1>4, <2>2 DEF Stream!Next
<1>. QED
  BY <1>5, <1>6 DEF EmitHealth

\* The last record says "ok" only of a run without a fault.
LEMMA FinalRefines == IInv /\ WriteFinal => Stream!Next
<1>. SUFFICES ASSUME IInv, WriteFinal PROVE Stream!Next
  OBVIOUS
<1>1. Stream!Open /\ (cloud => frames)
  BY DEF IInv, HealthInv, WriteFinal, Finished, Stream!Open
<1>2. FinalStatus \in {"ok", "degraded", "stale"} /\ (FinalStatus = "ok" => cloud /\ ~(faults > 0))
  BY DEF FinalStatus
<1>3. /\ rec' = [kind |-> "health", final |-> TRUE, status |-> FinalStatus]
      /\ UNCHANGED <<epoch, seq, faults, lastFaults, cloud>>
  BY DEF WriteFinal, stats
<1>4. (faults > lastFaults)' = (faults > lastFaults) /\ (faults > 0)' = (faults > 0)
  BY <1>3
<1>. HIDE DEF FinalStatus
<1>5. Stream!Final(FinalStatus)
  BY <1>1, <1>2, <1>3, <1>4 DEF Stream!Final
<1>. QED
  BY <1>2, <1>5 DEF Stream!Next

\* A loss that no record tells of yet.
LEMMA FaultRefines ==
  ASSUME IInv, pc # "ended", UNCHANGED <<epoch, seq, rec, lastFaults>>,
         faults' = faults \/ (faults' \in Nat /\ faults' > faults), cloud' \in {cloud, TRUE}
  PROVE  Stream!Next
<1>1. faults \in Nat /\ lastFaults \in Nat /\ lastFaults <= faults /\ Stream!Open
  BY DEF IInv, Type, HealthInv, Finished, Stream!Open
<1>2. \/ (faults > lastFaults)' = TRUE /\ (faults > 0)' = TRUE
      \/ (faults > lastFaults)' = (faults > lastFaults) /\ (faults > 0)' = (faults > 0)
  BY <1>1
<1>. QED
  BY <1>1, <1>2 DEF Stream!Next, Stream!Fault

LEMMA InterruptRefines == IInv /\ Interrupt => Stream!Next
<1>. SUFFICES ASSUME IInv, Interrupt PROVE Stream!Next
  OBVIOUS
<1>1. pc # "ended" /\ UNCHANGED <<epoch, seq, rec, lastFaults>>
  BY DEF Interrupt, Looping, log
<1>2. CASE UNCHANGED stats
  BY <1>1, <1>2, FaultRefines DEF stats
<1>3. CASE batch # <<>> /\ Counts(Head(batch), 0)
  <2>1. Head(batch) \in Decoded /\ Number(Head(batch)) \in 0..Counter - 1
    BY <1>3, FirstOfBatch DEF IInv
  <2>2. faults' \in Nat /\ faults + 0 <= faults'
    BY <1>3, <2>1, Counting
  <2>3. faults \in Nat
    BY DEF IInv, Type
  <2>4. cloud' \in {cloud, TRUE}
    BY <1>3 DEF Counts, IInv, Type
  <2>5. faults' = faults \/ (faults' \in Nat /\ faults' > faults)
    BY <2>2, <2>3
  <2>. QED
    BY <1>1, <2>4, <2>5, FaultRefines
<1>. QED
  BY <1>2, <1>3 DEF Interrupt

LEMMA DecodeRefines == IInv /\ Decode => Stream!Next \/ UNCHANGED View
<1>. SUFFICES ASSUME IInv, Decode PROVE Stream!Next \/ UNCHANGED View
  OBVIOUS
<1>1. ASSUME NEW left, Discards(left) PROVE Stream!Next
  <2>1. /\ pc # "ended" /\ UNCHANGED <<epoch, seq, rec, lastFaults, cloud>>
        /\ faults' \in {faults, faults + 1} /\ faults \in Nat
    BY <1>1, DiscardsFrame DEF IInv, Type
  <2>2. faults' = faults \/ (faults' \in Nat /\ faults' > faults)
    BY <2>1
  <2>. QED
    BY <2>1, <2>2, FaultRefines
<1>2. CASE SkipsNoise \/ BadLength \/ Truncated \/ ParseError
  BY <1>1, <1>2 DEF SkipsNoise, BadLength, Truncated, ParseError
<1>3. CASE Decodes \/ NeedsMore
  BY <1>3 DEF Decodes, NeedsMore, View, stats, log
<1>. QED
  BY <1>2, <1>3 DEF Decode

\* The other steps write nothing that the readers see.
LEMMA OthersStutter ==
  ASSUME \/ Device \/ Read \/ ReadsNothing \/ Ends \/ StoreRaw \/ Hash \/ IndexLine \/ Feed
         \/ FramesDone \/ NotDue \/ WriteFooter \/ SyncFiles \/ UNCHANGED vars
  PROVE  UNCHANGED View
<1>1. UNCHANGED <<stats, lastFaults, log>>
  BY DEF Device, SendsWell, SendsBadly, Restarts, Send, Read, ReadsNothing, Ends, StoreRaw, Hash,
         IndexLine, Feed, FramesDone, NotDue, WriteFooter, SyncFiles, vars
<1>. QED
  BY <1>1 DEF View, stats, log

\* What a step that leaves the view alone is to RecordStream.
LEMMA ViewIsAll == UNCHANGED View => UNCHANGED Stream!vars
<1>. SUFFICES ASSUME UNCHANGED View PROVE UNCHANGED Stream!vars
  OBVIOUS
<1>1. UNCHANGED <<epoch, seq, faults, lastFaults, cloud, rec>>
  BY DEF View
<1>2. (faults > lastFaults)' = (faults > lastFaults) /\ (faults > 0)' = (faults > 0)
  BY <1>1
<1>. QED
  BY <1>1, <1>2 DEF Stream!vars

LEMMA NextRefines == IInv /\ [Next]_vars => [Stream!Next]_Stream!vars
<1>1. ASSUME IInv, [Next]_vars PROVE Stream!Next \/ UNCHANGED View
  BY <1>1, FrameRefines, HealthRefines, FinalRefines, InterruptRefines, DecodeRefines, OthersStutter
  DEF Next, Capture
<1>. QED
  BY <1>1, ViewIsAll

\* The capture implements RecordStream: an "ok" of a periodic record means that
\* every loss so far was reported by an accepted "degraded", and every reset of
\* the device opens an epoch.
THEOREM KeepsItsPromise == Spec => Implements
<1>1. Spec => []IInv
  BY Invariant
<1>2. IInv /\ [Next]_vars => [Stream!Next]_Stream!vars
  BY NextRefines
<1>. QED
  BY <1>1, <1>2, InitRefines, PTL DEF Spec, Implements, Stream!Spec

===============================================================================
