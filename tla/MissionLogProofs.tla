--------------------------- MODULE MissionLogProofs ---------------------------
(***************************************************************************)
(* Both ends of the mission log: the safety of the recorder that writes it *)
(* (MissionLog), for every number of threads and queue length; and of the  *)
(* operator view that follows it (RadarView), for every sequence of        *)
(* frames, gaps and sightings, every lag and every age limit.              *)
(***************************************************************************)
EXTENDS MissionLog, RadarView, SequenceTheorems, FiniteSetTheorems,
        WellFoundedInduction, TLAPS

\* Numbers that a line, or a record the writer is about to write, has taken.
Taken == Len(lines) + (IF w = "write" THEN 1 ELSE 0)

\* The queue goes on where the file ends.
Numbers ==
  /\ w = "write" => active.seq = Taken
  /\ w \in {"sync", "finish"} => active.seq = Len(lines)
  /\ w # "failing" => \A i \in 1..Len(queue) : queue[i].seq = Taken + i
  /\ w # "failing" /\ Available => nextSeq = Taken + Len(queue) + 1

\* Where the writer has a record in hand, and why it ends.
Holding ==
  /\ w \in {"ready", "asleep", "last_sync", "shut", "gone"} => active = Nothing
  /\ w \in {"write", "sync", "finish"} => active.seq >= 1
  /\ w = "last_sync" => closing
  /\ w \in {"shut", "gone"} => closing \/ failed

\* What was answered without an error is on the disk.
Disk ==
  /\ w = "finish" /\ active.critical => active.seq <= durable
  /\ done \ errors \subseteq 1..durable

\* Only a sleeping writer waits, and only for the threads.
Sleeping ==
  /\ "writer" \in waiters => w = "asleep"
  /\ \A t \in Threads : t \in waiters => at[t] = "capacity"

IInv ==
  /\ TypeOK /\ Numbers /\ Holding /\ Disk /\ Sleeping
  /\ LogIsContiguous /\ AckedIsDurable /\ Answered /\ NoLostWakeup

-----------------------------------------------------------------------------

LEMMA Start == Init => IInv
<1>. SUFFICES ASSUME Init PROVE IInv
  OBVIOUS
<1>. USE LogAssumption DEF Init, Nothing
<1>1. TypeOK
  <2>1. Nothing \in Items /\ queue \in Seq(Items) /\ lines \in Seq(Nat) /\ Len(queue) = 0
    BY DEF Items
  <2>2. errors \subseteq done /\ acked \subseteq Nat /\ done \subseteq Nat
    OBVIOUS
  <2>3. /\ at \in [Threads -> {"idle", "capacity", "confirm", "join"}]
        /\ pending \in [Threads -> Nat]
    OBVIOUS
  <2>4. /\ closing \in BOOLEAN /\ closed \in BOOLEAN /\ failed \in BOOLEAN
        /\ torn \in BOOLEAN
    OBVIOUS
  <2>. QED
    BY <2>1, <2>2, <2>3, <2>4 DEF TypeOK
<1>2. Numbers /\ Holding /\ Disk /\ Sleeping
  BY DEF Numbers, Taken, Holding, Disk, Sleeping, Available
<1>3. LogIsContiguous /\ AckedIsDurable /\ Answered /\ NoLostWakeup
  BY DEF LogIsContiguous, AckedIsDurable, Answered, NoLostWakeup
<1>. QED
  BY <1>1, <1>2, <1>3 DEF IInv

\* A thread that waits has no room, so that one that is given room is awake;
\* and a writer that sleeps is the only one who waits.
LEMMA WakesWriter ==
  ASSUME IInv, Fits, NEW t \in Threads, Notify(waiters \ {t})
  PROVE  waiters' = {}
<1>1. waiters \cap Threads = {}
  BY DEF IInv, NoLostWakeup
<1>2. waiters \subseteq {"writer"}
  BY <1>1 DEF IInv, TypeOK
<1>. QED
  BY <1>2, LogAssumption DEF Notify, LogAssumption

\* What one more record in the queue means.
LEMMA Enqueued ==
  ASSUME IInv, Available, Fits, NEW t \in Threads, NEW c \in BOOLEAN,
         Enqueue(t, nextSeq, c),
         UNCHANGED <<flags, events, w, active, file>>
  PROVE  /\ queue' \in Seq(Items) /\ nextSeq' \in Nat /\ waiters' = {}
         /\ outstanding' = Len(queue') + (IF active' = Nothing THEN 0 ELSE 1)
         /\ Numbers' /\ Holding' /\ Disk' /\ LogIsContiguous'
         /\ Queued' = Queued \cup (IF c THEN {nextSeq} ELSE {})
<1>0. w' = w /\ active' = active /\ lines' = lines
  BY DEF file
<1>. DEFINE x == [seq |-> nextSeq, critical |-> c]
<1>1. x \in Items /\ x.seq = nextSeq /\ x.critical = c
  BY DEF IInv, TypeOK, Items
<1>2. queue \in Seq(Items) /\ queue' = Append(queue, x)
  BY DEF IInv, TypeOK, Enqueue
<1>3. /\ queue' \in Seq(Items) /\ Len(queue') = Len(queue) + 1
      /\ \A i \in 1..Len(queue) : queue'[i] = queue[i]
      /\ queue'[Len(queue) + 1] = x
      /\ DOMAIN queue = 1..Len(queue) /\ DOMAIN queue' = 1..(Len(queue) + 1)
      /\ Len(queue) \in Nat
  BY <1>1, <1>2
<1>3a. Len(queue') = Len(queue) + 1 /\ Len(queue) \in Nat
  BY <1>3
<1>4. waiters' = {}
  BY WakesWriter DEF Enqueue
<1>5. /\ nextSeq \in Nat /\ nextSeq' = nextSeq + 1 /\ outstanding' = outstanding + 1
      /\ outstanding = Len(queue) + (IF active = Nothing THEN 0 ELSE 1)
  BY DEF IInv, TypeOK, Enqueue
<1>5a. nextSeq' \in Nat /\ outstanding' = Len(queue') + (IF active' = Nothing THEN 0 ELSE 1)
  BY <1>0, <1>3a, <1>5
<1>6. Taken' = Taken /\ Taken \in Nat
  BY DEF Taken, file, IInv, TypeOK
<1>7. Numbers'
  <2>1. /\ w' = "write" => active'.seq = Taken'
        /\ w' \in {"sync", "finish"} => active'.seq = Len(lines')
    BY <1>6 DEF IInv, Numbers, file
  <2>2. w # "failing" => nextSeq = Taken + Len(queue) + 1
    BY DEF IInv, Numbers
  <2>3. w' # "failing" => \A i \in 1..Len(queue') : queue'[i].seq = Taken' + i
    BY <1>1, <1>3, <1>6, <2>2 DEF IInv, Numbers
  <2>4. w' # "failing" => nextSeq' = Taken' + Len(queue') + 1
    BY <1>0, <1>3a, <1>5, <1>6, <2>2
  <2>. QED
    BY <2>1, <2>3, <2>4 DEF Numbers
<1>8. Holding' /\ Disk' /\ LogIsContiguous'
  BY DEF IInv, Holding, Disk, LogIsContiguous, flags, file, events
<1>9. Queued' = Queued \cup (IF c THEN {nextSeq} ELSE {})
  BY <1>1, <1>3 DEF Queued
<1>. QED
  BY <1>3, <1>4, <1>5a, <1>7, <1>8, <1>9

-----------------------------------------------------------------------------
(* The calling threads.                                                    *)

\* The parts of TypeOK.
CallType ==
  /\ at \in [Threads -> {"idle", "capacity", "confirm", "join"}]
  /\ pending \in [Threads -> Nat]
  /\ acked \subseteq Nat /\ waiters \subseteq Threads \cup {"writer"}

RecordType ==
  /\ done \subseteq Nat /\ errors \subseteq done
  /\ queue \in Seq(Items) /\ nextSeq \in Nat
  /\ outstanding = Len(queue) + (IF active = Nothing THEN 0 ELSE 1)
  /\ active \in Items
  /\ lines \in Seq(Nat) /\ durable \in Nat

FlagType ==
  /\ closing \in BOOLEAN /\ closed \in BOOLEAN /\ failed \in BOOLEAN
  /\ torn \in BOOLEAN
  /\ w \in {"ready", "asleep", "write", "sync", "finish", "last_sync", "failing",
            "shut", "gone"}

LEMMA TypeParts ==
  /\ TypeOK <=> CallType /\ RecordType /\ FlagType
  /\ TypeOK' <=> CallType' /\ RecordType' /\ FlagType'
  BY DEF TypeOK, CallType, RecordType, FlagType

\* A step that leaves the records alone.
LEMMA CallsOnly ==
  ASSUME IInv, UNCHANGED <<buffer, flags, events, w, active, file>>
  PROVE  /\ RecordType' /\ FlagType'
         /\ Numbers' /\ Holding' /\ Disk' /\ LogIsContiguous'
         /\ Queued' = Queued /\ InHand' = InHand /\ done' = done
         /\ Fits' = Fits /\ Available' = Available
<1>. USE DEF buffer, flags, events, file
<1>1. RecordType' /\ FlagType'
  BY TypeParts DEF IInv, RecordType, FlagType
<1>2. Numbers' /\ Holding' /\ Disk' /\ LogIsContiguous'
  BY DEF IInv, Numbers, Taken, Holding, Disk, LogIsContiguous, Available
<1>3. Queued' = Queued /\ InHand' = InHand /\ done' = done
  BY DEF Queued, InHand
<1>. QED
  BY <1>1, <1>2, <1>3 DEF Fits, Available

\* A sample.
LEMMA SubmitKeeps ==
  ASSUME IInv, NEW t \in Threads, Submit(t)
  PROVE  IInv'
<1>1. Available /\ Fits /\ Enqueue(t, nextSeq, FALSE)
      /\ UNCHANGED <<flags, events, w, active, file>> /\ UNCHANGED calls
  BY DEF Submit
<1>2. /\ queue' \in Seq(Items) /\ nextSeq' \in Nat /\ waiters' = {}
      /\ outstanding' = Len(queue') + (IF active' = Nothing THEN 0 ELSE 1)
      /\ Numbers' /\ Holding' /\ Disk' /\ LogIsContiguous'
      /\ Queued' = Queued
  BY <1>1, Enqueued
<1>3. TypeOK'
  BY <1>1, <1>2, TypeParts DEF IInv, CallType, RecordType, FlagType, calls, flags, events, file
<1>4. Sleeping' /\ NoLostWakeup'
  BY <1>2 DEF Sleeping, NoLostWakeup
<1>5. AckedIsDurable' /\ Answered'
  BY <1>1, <1>2 DEF IInv, AckedIsDurable, Answered, InHand, calls, events, file
<1>. QED
  BY <1>2, <1>3, <1>4, <1>5 DEF IInv

\* A critical record that finds room.
LEMMA AcceptKeeps ==
  ASSUME IInv, Available, Fits, NEW t \in Threads, Accept(t),
         UNCHANGED <<acked, flags, events, w, active, file>>
  PROVE  IInv'
<1>1. /\ queue' \in Seq(Items) /\ nextSeq' \in Nat /\ waiters' = {}
      /\ outstanding' = Len(queue') + (IF active' = Nothing THEN 0 ELSE 1)
      /\ Numbers' /\ Holding' /\ Disk' /\ LogIsContiguous'
      /\ Queued' = Queued \cup {nextSeq}
  BY Enqueued DEF Accept
<1>2. /\ at' = [at EXCEPT ![t] = "confirm"]
      /\ pending' = [pending EXCEPT ![t] = nextSeq]
  BY DEF Accept, Moves
<1>3. CallType'
  BY <1>1, <1>2, TypeParts DEF IInv, TypeOK, CallType
<1>4. RecordType' /\ FlagType'
  BY <1>1, TypeParts DEF IInv, RecordType, FlagType, flags, events, file
<1>5. Sleeping' /\ NoLostWakeup'
  BY <1>1 DEF Sleeping, NoLostWakeup
<1>6. AckedIsDurable'
  BY DEF IInv, AckedIsDurable, file
<1>7. Answered'
  <2>. SUFFICES ASSUME NEW u \in Threads, at'[u] = "confirm"
                PROVE  pending'[u] \in done' \cup Queued' \cup InHand'
    BY DEF Answered
  <2>1. CASE u = t
    BY <1>1, <1>2, <2>1, TypeParts DEF IInv, CallType
  <2>2. CASE u # t
    <3>1. at[u] = "confirm" /\ pending'[u] = pending[u]
      BY <1>2, <2>2, TypeParts DEF IInv, CallType
    <3>. QED
      BY <1>1, <3>1 DEF IInv, Answered, InHand, events
  <2>. QED
    BY <2>1, <2>2
<1>. QED
  BY <1>1, <1>3, <1>4, <1>5, <1>6, <1>7, TypeParts DEF IInv

\* A step of one thread that is not, or no longer, waiting for its record.
LEMMA CallKeeps ==
  ASSUME IInv, NEW t \in Threads, NEW place \in {"idle", "capacity"}, NEW n \in Nat,
         Moves(t, place), pending' = [pending EXCEPT ![t] = n],
         UNCHANGED <<buffer, flags, events, w, active, file>>,
         \/ place = "capacity" /\ waiters' = waiters \cup {t} /\ ~Fits /\ Available
         \/ waiters' = waiters \ {t}
         \/ waiters' = waiters /\ t \notin waiters,
         acked' \subseteq 1..durable
  PROVE  IInv'
<1>1. /\ RecordType' /\ FlagType'
      /\ Numbers' /\ Holding' /\ Disk' /\ LogIsContiguous'
      /\ Queued' = Queued /\ InHand' = InHand /\ done' = done
      /\ Fits' = Fits /\ Available' = Available
  BY CallsOnly
<1>2. CallType /\ at' = [at EXCEPT ![t] = place]
  BY TypeParts DEF IInv, Moves
<1>3. durable' = durable /\ lines' = lines /\ closing' = closing /\ queue' = queue /\ w' = w
  BY DEF file, flags, buffer
<1>4. durable \in Nat
  BY DEF IInv, TypeOK
<1>5. CallType'
  BY <1>2, <1>4 DEF CallType
<1>6. Sleeping' /\ NoLostWakeup'
  BY <1>1, <1>2, <1>3, LogAssumption DEF IInv, Sleeping, NoLostWakeup, CallType, LogAssumption
<1>7. AckedIsDurable'
  BY <1>3 DEF IInv, AckedIsDurable
<1>8. Answered'
  BY <1>1, <1>2 DEF IInv, Answered, CallType
<1>. QED
  BY <1>1, <1>5, <1>6, <1>7, <1>8, TypeParts DEF IInv

LEMMA CloseKeeps ==
  ASSUME IInv, NEW t \in Threads, Close(t)
  PROVE  IInv'
<1>. USE DEF Close, file
<1>1. TypeOK /\ CallType /\ RecordType /\ FlagType
  BY TypeParts DEF IInv
<1>2. /\ closing' = TRUE /\ waiters' = {} /\ w' = w /\ active' = active
      /\ lines' = lines /\ durable' = durable /\ ~Available'
      /\ nextSeq' = nextSeq
  BY DEF NotifyAll, Available
<1>3. \/ queue' = queue /\ outstanding' = outstanding /\ done' = done /\ errors' = errors
      \/ /\ queue' = <<>> /\ outstanding' = outstanding - Len(queue)
         /\ done' = done \cup Queued /\ errors' = errors \cup Queued
  BY DEF events, Discard
<1>4. Queued \subseteq Nat
  <2>1. \A i \in DOMAIN queue : queue[i] \in Items
    BY <1>1 DEF RecordType
  <2>. QED
    BY <2>1 DEF Queued, Items
<1>5. RecordType'
  <2>1. /\ queue' \in Seq(Items)
        /\ outstanding' = Len(queue') + (IF active' = Nothing THEN 0 ELSE 1)
    <3>1. CASE queue' = queue /\ outstanding' = outstanding
      BY <1>1, <1>2, <3>1 DEF RecordType
    <3>2. CASE queue' = <<>> /\ outstanding' = outstanding - Len(queue)
      <4>1. Len(queue) \in Nat /\ Len(queue') = 0
        BY <1>1, <3>2 DEF RecordType
      <4>. QED
        BY <1>1, <1>2, <3>2, <4>1 DEF RecordType
    <3>. QED
      BY <1>3, <3>1, <3>2
  <2>2. done' \subseteq Nat /\ errors' \subseteq done'
    BY <1>1, <1>3, <1>4 DEF RecordType
  <2>. QED
    BY <1>1, <1>2, <2>1, <2>2 DEF RecordType
<1>6. CallType' /\ FlagType'
  BY <1>1, <1>2 DEF CallType, FlagType, Moves
<1>7. Numbers'
  <2>1. CASE queue' = queue
    BY <1>2, <2>1 DEF IInv, Numbers, Taken
  <2>2. CASE queue' = <<>>
    BY <1>2, <2>2 DEF IInv, Numbers, Taken
  <2>. QED
    BY <1>3, <2>1, <2>2
<1>8. Holding' /\ LogIsContiguous' /\ AckedIsDurable'
  BY <1>2 DEF IInv, Holding, LogIsContiguous, AckedIsDurable
<1>9. Disk'
  BY <1>2, <1>3 DEF IInv, Disk
<1>10. Sleeping' /\ NoLostWakeup'
  BY <1>2 DEF Sleeping, NoLostWakeup
<1>11. Answered'
  <2>1. InHand' = InHand
    BY <1>2 DEF InHand
  <2>2. done \cup Queued \subseteq done' \cup Queued'
    BY <1>3 DEF Queued
  <2>3. \A u \in Threads : at'[u] = "confirm" => at[u] = "confirm"
    BY <1>1 DEF Moves, CallType
  <2>. QED
    BY <2>1, <2>2, <2>3 DEF IInv, Answered
<1>. QED
  BY <1>5, <1>6, <1>7, <1>8, <1>9, <1>10, <1>11, TypeParts DEF IInv

LEMMA JoinedKeeps ==
  ASSUME IInv, NEW t \in Threads, Joined(t)
  PROVE  IInv'
<1>. USE DEF Joined, buffer, events, file
<1>1. TypeOK /\ CallType /\ RecordType /\ FlagType
  BY TypeParts DEF IInv
<1>2. CallType' /\ RecordType' /\ FlagType'
  BY <1>1 DEF CallType, RecordType, FlagType, Moves
<1>3. Available' => Available
  BY DEF Available
<1>4. w = "gone" => ~Available
  BY DEF IInv, Holding, Available
<1>5. Numbers' /\ Holding' /\ Disk' /\ LogIsContiguous' /\ AckedIsDurable'
  BY <1>3 DEF IInv, Numbers, Taken, Holding, Disk, LogIsContiguous, AckedIsDurable
<1>6. NoLostWakeup'
  <2>1. closed' = (closed \/ w = "gone")
    OBVIOUS
  <2>. QED
    BY <1>1, <1>4, <2>1 DEF IInv, NoLostWakeup, Available, Fits, FlagType
<1>7. \A u \in Threads : /\ at'[u] = "confirm" => at[u] = "confirm"
                         /\ at[u] = "capacity" => at'[u] = "capacity"
  BY <1>1 DEF CallType, Moves
<1>8. Sleeping' /\ Answered'
  BY <1>7 DEF IInv, Sleeping, Answered, Queued, InHand
<1>. QED
  BY <1>2, <1>5, <1>6, <1>8, TypeParts DEF IInv

LEMMA CallerKeeps ==
  ASSUME IInv, NEW t \in Threads, Caller(t)
  PROVE  IInv'
<1>0. at \in [Threads -> {"idle", "capacity", "confirm", "join"}] /\ nextSeq \in Nat
      /\ acked \subseteq 1..durable
  BY DEF IInv, TypeOK, AckedIsDurable
<1>1. CASE Submit(t)
  BY <1>1, SubmitKeeps
<1>2. ASSUME Available, ~Fits, Await(t), UNCHANGED <<acked, flags, events, w, active, file>>
      PROVE  IInv'
  BY <1>0, <1>2, CallKeeps DEF Await
<1>3. CASE WriteCritical(t)
  BY <1>2, <1>3, AcceptKeeps DEF WriteCritical
<1>4. CASE Recheck(t)
  <2>1. CASE Available /\ Fits /\ Accept(t)
    BY <1>4, <2>1, AcceptKeeps DEF Recheck
  <2>2. CASE Available /\ ~Fits /\ Await(t)
    BY <1>2, <1>4, <2>2 DEF Recheck
  <2>3. CASE Leaves(t) /\ waiters' = waiters \ {t} /\ UNCHANGED buffer
    BY <1>0, <1>4, <2>3, CallKeeps DEF Recheck, Leaves
  <2>. QED
    BY <1>4, <2>1, <2>2, <2>3 DEF Recheck
<1>5. at[t] = "confirm" => t \notin waiters
  BY DEF IInv, Sleeping
<1>6. CASE Confirm(t)
  <2>1. acked' \subseteq 1..durable
    BY <1>0, <1>6 DEF Confirm, IInv, Disk
  <2>. QED
    BY <1>5, <1>6, <2>1, CallKeeps DEF Confirm, Leaves
<1>7. CASE TimedOut(t)
  BY <1>0, <1>5, <1>7, CallKeeps DEF TimedOut, Leaves
<1>. QED
  BY <1>1, <1>3, <1>4, <1>6, <1>7, CloseKeeps, JoinedKeeps DEF Caller

-----------------------------------------------------------------------------
(* The writer thread.                                                      *)

\* The calls are where they were, and whoever was answered still is.
LEMMA WriterKeepsCalls ==
  ASSUME IInv, UNCHANGED calls, waiters' \subseteq waiters \cup {"writer"},
         done \cup Queued \cup InHand \subseteq done' \cup Queued' \cup InHand'
  PROVE  CallType' /\ Answered' /\ \A t \in Threads : t \in waiters' => at'[t] = "capacity"
<1>1. CallType
  BY TypeParts DEF IInv
<1>. QED
  BY <1>1, LogAssumption DEF IInv, CallType, Answered, Sleeping, calls, LogAssumption

\* Before it takes a record the writer has none.
LEMMA TakeKeeps ==
  ASSUME IInv, Take
  PROVE  IInv'
<1>. USE DEF Take, Writer, calls, flags, events, file
<1>1. TypeOK /\ CallType /\ RecordType /\ FlagType
  BY TypeParts DEF IInv
<1>2. active = Nothing /\ w \in {"ready", "asleep"} /\ "writer" \notin waiters
  BY DEF IInv, Holding, Sleeping
<1>3. InHand = {} /\ outstanding = Len(queue) /\ Taken = Len(lines)
  BY <1>1, <1>2 DEF InHand, Nothing, RecordType, Taken
<1>4. CASE queue # <<>>
  <2>1. /\ active' = Head(queue) /\ queue' = Tail(queue) /\ w' = "write"
        /\ waiters' = waiters /\ outstanding' = outstanding
    BY <1>4
  <2>2. /\ queue' \in Seq(Items) /\ active' = queue[1] /\ active' \in Items
        /\ Len(queue') = Len(queue) - 1 /\ Len(queue) \in Nat /\ Len(queue) >= 1
        /\ \A i \in 1..Len(queue') : queue'[i] = queue[i + 1]
    BY <1>1, <1>4, <2>1 DEF RecordType
  <2>3. /\ \A i \in 1..Len(queue) : queue[i].seq = Len(lines) + i
        /\ Available => nextSeq = Len(lines) + Len(queue) + 1
    BY <1>2, <1>3 DEF IInv, Numbers
  <2>4. Len(lines) \in Nat /\ Taken' = Len(lines) + 1
    BY <1>1, <2>1 DEF RecordType, Taken
  <2>5. active'.seq = Len(lines) + 1
    BY <2>2, <2>3
  <2>6. active' # Nothing
    BY <2>4, <2>5 DEF Nothing
  <2>7. Len(queue') \in Nat /\ Len(queue) = Len(queue') + 1
    BY <2>2
  <2>8. Numbers'
    <3>1. ASSUME NEW i \in 1..Len(queue')
          PROVE  queue'[i].seq = Taken' + i
      <4>1. i \in Nat /\ i + 1 \in 1..Len(queue) /\ queue'[i] = queue[i + 1]
        BY <2>2
      <4>2. queue[i + 1].seq = Len(lines) + (i + 1)
        BY <2>3, <4>1
      <4>3. Len(lines) \in Nat /\ Taken' = Len(lines) + 1 /\ i \in Nat
        BY <2>4, <4>1
      <4>4. Len(lines) + (i + 1) = Taken' + i
        BY <4>3
      <4>. QED
        BY <4>1, <4>2, <4>4
    <3>2. Available' => nextSeq' = Taken' + Len(queue') + 1
      BY <2>3, <2>4, <2>7 DEF Available
    <3>. QED
      BY <2>1, <2>4, <2>5, <3>1, <3>2 DEF Numbers
  <2>9. RecordType' /\ FlagType'
    BY <1>1, <1>3, <2>1, <2>2, <2>6, <2>7 DEF RecordType, FlagType
  <2>10. Queued \subseteq Queued' \cup InHand'
    <3>1. SUFFICES ASSUME NEW i \in 1..Len(queue), queue[i].critical
                   PROVE  queue[i].seq \in Queued' \cup InHand'
      BY <1>1 DEF Queued, RecordType
    <3>2. CASE i = 1
      BY <2>2, <3>1, <3>2 DEF InHand
    <3>3. CASE i # 1
      <4>1. i - 1 \in 1..Len(queue') /\ queue'[i - 1] = queue[i]
        BY <2>2, <3>3
      <4>. QED
        BY <2>2, <3>1, <4>1 DEF Queued
    <3>. QED
      BY <3>2, <3>3
  <2>11. CallType' /\ Answered' /\ \A t \in Threads : t \in waiters' => at'[t] = "capacity"
    BY <1>3, <2>1, <2>10, WriterKeepsCalls
  <2>12. Holding' /\ Disk' /\ Sleeping' /\ LogIsContiguous' /\ AckedIsDurable'
    BY <1>2, <2>1, <2>4, <2>5, <2>11 DEF IInv, Holding, Disk, Sleeping, LogIsContiguous, AckedIsDurable
  <2>13. NoLostWakeup'
    BY <1>2, <2>1 DEF IInv, NoLostWakeup, Fits, Available
  <2>. QED
    BY <2>8, <2>9, <2>11, <2>12, <2>13, TypeParts DEF IInv
<1>5. CASE queue = <<>>
  <2>1. /\ active' = active /\ queue' = queue /\ w' \in {"last_sync", "asleep"}
        /\ w' = "last_sync" => closing /\ waiters' = waiters
        /\ w' = "asleep" => ~closing /\ waiters' = waiters \cup {"writer"}
    BY <1>5
  <2>2. RecordType' /\ FlagType'
    BY <1>1, <2>1 DEF RecordType, FlagType
  <2>3. Queued' = Queued /\ InHand' = InHand
    BY <2>1 DEF Queued, InHand
  <2>4. CallType' /\ Answered' /\ \A t \in Threads : t \in waiters' => at'[t] = "capacity"
    BY <2>1, <2>3, WriterKeepsCalls
  <2>5. Numbers' /\ Holding' /\ Disk' /\ LogIsContiguous' /\ AckedIsDurable'
    BY <1>2, <2>1 DEF IInv, Numbers, Taken, Holding, Disk, LogIsContiguous, AckedIsDurable, Available
  <2>6. Sleeping' /\ NoLostWakeup'
    BY <1>2, <1>5, <2>1, <2>4, LogAssumption
       DEF IInv, Sleeping, NoLostWakeup, Fits, Available, LogAssumption
  <2>. QED
    BY <2>2, <2>4, <2>5, <2>6, TypeParts DEF IInv
<1>. QED
  BY <1>4, <1>5

\* A line.
LEMMA WriteKeeps ==
  ASSUME IInv, Write
  PROVE  IInv'
<1>. USE DEF Write, Writer, buffer, flags, events
<1>1. TypeOK /\ CallType /\ RecordType /\ FlagType
  BY TypeParts DEF IInv
<1>2. Queued' = Queued /\ InHand' = InHand
  BY DEF Queued, InHand
<1>3. CallType' /\ Answered' /\ \A t \in Threads : t \in waiters' => at'[t] = "capacity"
  BY <1>2, WriterKeepsCalls
<1>4. "writer" \notin waiters
  BY DEF IInv, Sleeping
<1>5. Sleeping' /\ NoLostWakeup'
  BY <1>3, <1>4 DEF IInv, Sleeping, NoLostWakeup, Fits, Available
<1>6. CASE lines' = Append(lines, active.seq) /\ UNCHANGED torn
           /\ w' = (IF active.critical THEN "sync" ELSE "finish")
  <2>1. Len(lines) \in Nat /\ active.seq \in Nat
    BY <1>1 DEF RecordType, Items
  <2>2. /\ lines' \in Seq(Nat) /\ Len(lines') = Len(lines) + 1
        /\ \A i \in 1..Len(lines) : lines'[i] = lines[i]
        /\ lines'[Len(lines) + 1] = active.seq
    BY <1>1, <1>6, <2>1 DEF RecordType
  <2>3. Len(lines') = Len(lines) + 1 /\ active.seq = Len(lines) + 1 /\ Taken = Len(lines) + 1
    BY <2>2 DEF IInv, Numbers, Taken
  <2>4. Taken' = Taken
    BY <1>6, <2>3 DEF Taken
  <2>5. Numbers'
    BY <1>6, <2>3, <2>4 DEF IInv, Numbers, Available
  <2>6. LogIsContiguous'
    BY <2>1, <2>2, <2>3 DEF IInv, LogIsContiguous
  <2>7. RecordType' /\ FlagType'
    BY <1>1, <1>6, <2>2 DEF RecordType, FlagType
  <2>8. Holding' /\ Disk'
    BY <1>6 DEF IInv, Holding, Disk
  <2>9. AckedIsDurable'
    BY <1>1, <2>1, <2>3 DEF IInv, AckedIsDurable, calls, RecordType
  <2>. QED
    BY <1>3, <1>5, <2>5, <2>6, <2>7, <2>8, <2>9, TypeParts DEF IInv
<1>7. CASE torn' \in BOOLEAN /\ w' = "failing" /\ UNCHANGED lines
  <2>1. RecordType' /\ FlagType'
    BY <1>1, <1>7 DEF RecordType, FlagType
  <2>2. Numbers' /\ Holding' /\ Disk' /\ LogIsContiguous' /\ AckedIsDurable'
    BY <1>7 DEF IInv, Numbers, Holding, Disk, LogIsContiguous, AckedIsDurable, calls
  <2>. QED
    BY <1>3, <1>5, <2>1, <2>2, TypeParts DEF IInv
<1>. QED
  BY <1>6, <1>7

\* An fsync.
LEMMA SyncKeeps ==
  ASSUME IInv, Sync
  PROVE  IInv'
<1>. USE DEF Sync, Writer, buffer, flags, events
<1>1. TypeOK /\ CallType /\ RecordType /\ FlagType
  BY TypeParts DEF IInv
<1>2. Queued' = Queued /\ InHand' = InHand
  BY DEF Queued, InHand
<1>3. CallType' /\ Answered' /\ \A t \in Threads : t \in waiters' => at'[t] = "capacity"
  BY <1>2, WriterKeepsCalls
<1>4. "writer" \notin waiters
  BY DEF IInv, Sleeping
<1>5. Sleeping' /\ NoLostWakeup'
  BY <1>3, <1>4 DEF IInv, Sleeping, NoLostWakeup, Fits, Available
<1>6. /\ Len(lines) \in Nat /\ durable \in Nat /\ durable <= Len(lines)
      /\ durable' \in {durable, Len(lines)}
      /\ w' = "finish" => w = "sync" /\ durable' = Len(lines)
      /\ w' = "shut" => w = "last_sync"
      /\ w' \in {"finish", "shut", "failing"} /\ lines' = lines /\ active' = active
  BY <1>1 DEF RecordType, IInv, AckedIsDurable
<1>7. RecordType' /\ FlagType'
  BY <1>1, <1>6 DEF RecordType, FlagType
<1>8. Numbers' /\ Holding' /\ LogIsContiguous'
  BY <1>6 DEF IInv, Numbers, Taken, Holding, LogIsContiguous, Available
<1>9. 1..durable \subseteq 1..durable' /\ durable' <= Len(lines')
  BY <1>6
<1>10. AckedIsDurable'
  BY <1>9 DEF IInv, AckedIsDurable, calls
<1>11. Disk'
  <2>1. w' = "finish" => active.seq = Len(lines)
    BY <1>6 DEF IInv, Numbers
  <2>. QED
    BY <1>6, <1>9, <2>1 DEF IInv, Disk
<1>. QED
  BY <1>3, <1>5, <1>7, <1>8, <1>10, <1>11, TypeParts DEF IInv

\* The record is accounted for.
LEMMA FinishKeeps ==
  ASSUME IInv, Finish
  PROVE  IInv'
<1>. USE DEF Finish, Writer, flags, file, NotifyAll
<1>1. TypeOK /\ CallType /\ RecordType /\ FlagType
  BY TypeParts DEF IInv
<1>2. active # Nothing /\ InHand \subseteq 1..durable /\ InHand \subseteq Nat
  BY <1>1 DEF IInv, Holding, Disk, Nothing, InHand, RecordType, Items
<1>3. Queued' = Queued
  BY DEF Queued
<1>4. CallType' /\ Answered' /\ \A t \in Threads : t \in waiters' => at'[t] = "capacity"
  BY <1>3, WriterKeepsCalls
<1>5. Sleeping' /\ NoLostWakeup'
  BY DEF Sleeping, NoLostWakeup
<1>6. Nothing \in Items /\ Len(queue) \in Nat
  BY <1>1 DEF Nothing, Items, RecordType
<1>7. RecordType' /\ FlagType'
  <2>1. outstanding' = Len(queue') + (IF active' = Nothing THEN 0 ELSE 1)
    BY <1>1, <1>2, <1>6 DEF RecordType
  <2>. QED
    BY <1>1, <1>2, <1>6, <2>1 DEF RecordType, FlagType
<1>8. Numbers' /\ Holding' /\ LogIsContiguous' /\ AckedIsDurable'
  BY DEF IInv, Numbers, Taken, Holding, LogIsContiguous, AckedIsDurable, Available, calls
<1>9. Disk'
  BY <1>2 DEF IInv, Disk
<1>. QED
  BY <1>4, <1>5, <1>7, <1>8, <1>9, TypeParts DEF IInv

\* The failure handler.
LEMMA FailKeeps ==
  ASSUME IInv, Fail
  PROVE  IInv'
<1>. USE DEF Fail, Writer, file, NotifyAll
<1>1. TypeOK /\ CallType /\ RecordType /\ FlagType
  BY TypeParts DEF IInv
<1>2. InHand \subseteq Nat /\ Queued \subseteq Nat
  <2>1. \A i \in DOMAIN queue : queue[i] \in Items
    BY <1>1 DEF RecordType
  <2>. QED
    BY <1>1, <2>1 DEF InHand, Queued, RecordType, Items
<1>3. CallType' /\ Answered' /\ \A t \in Threads : t \in waiters' => at'[t] = "capacity"
  BY WriterKeepsCalls
<1>4. Sleeping' /\ NoLostWakeup'
  BY DEF Sleeping, NoLostWakeup
<1>5. RecordType' /\ FlagType'
  <2>1. Nothing \in Items /\ <<>> \in Seq(Items) /\ Len(<<>>) = 0
    BY DEF Nothing, Items
  <2>2. queue' \in Seq(Items) /\ active' \in Items
        /\ outstanding' = Len(queue') + (IF active' = Nothing THEN 0 ELSE 1)
    BY <2>1
  <2>3. done' \subseteq Nat /\ errors' \subseteq done'
    BY <1>1, <1>2 DEF RecordType
  <2>. QED
    BY <1>1, <2>2, <2>3 DEF RecordType, FlagType
<1>6. Numbers'
  BY DEF Numbers, Available
<1>7. Holding' /\ Disk' /\ LogIsContiguous' /\ AckedIsDurable'
  BY DEF IInv, Holding, Disk, LogIsContiguous, AckedIsDurable, calls
<1>. QED
  BY <1>3, <1>4, <1>5, <1>6, <1>7, TypeParts DEF IInv

LEMMA ShutKeeps ==
  ASSUME IInv, Shut
  PROVE  IInv'
<1>. USE DEF Shut, Writer, file, NotifyAll, buffer, events
<1>1. TypeOK /\ CallType /\ RecordType /\ FlagType
  BY TypeParts DEF IInv
<1>2. Queued' = Queued /\ InHand' = InHand /\ waiters' \subseteq waiters
  BY DEF Queued, InHand
<1>3. CallType' /\ Answered' /\ \A t \in Threads : t \in waiters' => at'[t] = "capacity"
  BY <1>2, WriterKeepsCalls
<1>4. "writer" \notin waiters /\ ~Available
  BY DEF IInv, Sleeping, Holding, Available
<1>5. Sleeping' /\ NoLostWakeup'
  BY <1>2, <1>3, <1>4 DEF IInv, Sleeping, NoLostWakeup
<1>6. RecordType' /\ FlagType'
  BY <1>1 DEF RecordType, FlagType
<1>7. Numbers' /\ Holding' /\ Disk' /\ LogIsContiguous' /\ AckedIsDurable'
  BY <1>4 DEF IInv, Numbers, Taken, Holding, Disk, LogIsContiguous, AckedIsDurable, Available, calls
<1>. QED
  BY <1>3, <1>5, <1>6, <1>7, TypeParts DEF IInv

-----------------------------------------------------------------------------

LEMMA Step == IInv /\ [Next]_vars => IInv'
<1>. SUFFICES ASSUME IInv, [Next]_vars PROVE IInv'
  OBVIOUS
<1>1. CASE UNCHANGED vars
  <2>1. /\ RecordType' /\ FlagType'
        /\ Numbers' /\ Holding' /\ Disk' /\ LogIsContiguous'
        /\ Queued' = Queued /\ InHand' = InHand /\ done' = done
        /\ Fits' = Fits /\ Available' = Available
    BY <1>1, CallsOnly DEF vars
  <2>. QED
    BY <1>1, <2>1, TypeParts
       DEF IInv, vars, calls, buffer, flags, events, file, CallType, Sleeping, AckedIsDurable,
           Answered, NoLostWakeup
<1>2. ASSUME NEW t \in Threads, Caller(t) PROVE IInv'
  BY <1>2, CallerKeeps
<1>3. CASE WriterThread
  BY <1>3, TakeKeeps, WriteKeeps, SyncKeeps, FinishKeeps, FailKeeps, ShutKeeps
     DEF WriterThread
<1>. QED
  BY <1>1, <1>2, <1>3 DEF Next

LEMMA Invariance == Spec => []IInv
  BY Start, Step, PTL DEF Spec

\* Types, and that _outstanding_records counts the queue and the record being
\* written.
THEOREM TypeCorrect == Spec => []TypeOK
<1>1. IInv => TypeOK
  BY DEF IInv
<1>. QED
  BY <1>1, Invariance, PTL

\* The log has no gap and no number twice, whoever writes to it.
THEOREM NumbersHold == Spec => []LogIsContiguous
<1>1. IInv => LogIsContiguous
  BY DEF IInv
<1>. QED
  BY <1>1, Invariance, PTL

\* write_critical returns a number only after the fsync that covers its line.
THEOREM ReturnsDurable == Spec => []AckedIsDurable
<1>1. IInv => AckedIsDurable
  BY DEF IInv
<1>. QED
  BY <1>1, Invariance, PTL

\* No caller of write_critical is forgotten, by close or by a failure.
THEOREM NobodyForgotten == Spec => []Answered
<1>1. IInv => Answered
  BY DEF IInv
<1>. QED
  BY <1>1, Invariance, PTL

\* One condition variable for two purposes, and one notify per record, lose no
\* wake-up.
THEOREM WakeupsReach == Spec => []NoLostWakeup
<1>1. IInv => NoLostWakeup
  BY DEF IInv
<1>. QED
  BY <1>1, Invariance, PTL

-----------------------------------------------------------------------------
(* The view: what its state rests on.                                      *)

Track == [at: Nat, source: {"point", "heatmap"}, age: Nat, latched: BOOLEAN,
          hits: Seq(BOOLEAN), updated: BOOLEAN]
Seen == [at: SUBSET Nat, age: Nat]
Sights == [points: Seq(Nat), heat: Seq(Nat), bound: BOOLEAN]
Records == Capture!Frames \cup Capture!Healths
Entries == [record: Records, sight: Sights, nth: Nat, told: BOOLEAN]

\* The types, of the log with the capture that writes it and of the view.
LogType ==
  /\ epoch \in Nat /\ seq \in Nat /\ sent \in Nat /\ harms \in Nat
  /\ owed \in BOOLEAN /\ faulty \in BOOLEAN /\ cloud \in BOOLEAN
  /\ rec \in Records /\ unread \in Seq(Entries) /\ attached \in BOOLEAN
  /\ last \in [epoch: Nat, seq: Nat] /\ missed \in [nth: Nat, loss: BOOLEAN]

SceneType ==
  /\ age \in Nat \cup {None} /\ formatNone \in BOOLEAN /\ degraded \in BOOLEAN
  /\ sceneEpoch \in Nat \cup {None} /\ producer \in Nat \cup {None}
  /\ trusted \in BOOLEAN /\ tracks \in Seq(Track)
  /\ shown \in [status: {"waiting", "fault", "stale", "degraded", "live"},
                level: {"SENSOR_FAULT", "DANGER", "NORMAL", "UNKNOWN"}]
  /\ windows \in Seq(Seen) /\ alive \subseteq [at: Nat, age: Nat]
  /\ alone \in BOOLEAN /\ since \in [forgot: BOOLEAN, far: BOOLEAN, lapsed: BOOLEAN]

ViewType == LogType /\ SceneType

\* In every epoch the record numbers and the frame numbers go in step: a record
\* that is missing is missing in both.
InLog == {i \in DOMAIN unread : unread[i].record.kind = "frame"}
FrameNumbers ==
  {[epoch |-> unread[i].record.epoch, seq |-> unread[i].record.seq, nth |-> unread[i].nth] : i \in InLog}
  \cup {[epoch |-> last.epoch, seq |-> last.seq, nth |-> missed.nth],
        [epoch |-> epoch, seq |-> seq, nth |-> sent]}

Numbered ==
  \A a, b \in FrameNumbers :
    /\ a.epoch <= epoch
    /\ a.epoch = b.epoch => a.nth - a.seq = b.nth - b.seq

\* A record says "ok" only with nothing left to report, and a frame without a
\* point cloud shows nothing.
Honest ==
  /\ owed => faulty
  /\ \A i \in DOMAIN unread :
       /\ unread[i].record.kind = "health" /\ unread[i].record.status = "ok" => unread[i].told
       /\ unread[i].record.kind = "frame" /\ unread[i].record.quality # "points" =>
            unread[i].sight = NoSight

\* What is missing has degraded the view.
LossShows == missed.loss => degraded

\* The latest element, the one before it, and so on.
Ago(s, k) == s[Len(s) - k]

\* A track's windows are the latest frames.  Its latest hit is a return of that
\* frame, where the track is and as old as it; at the hit before that frame saw
\* something near enough.  Heatmap cells are no hits, and never hold a danger.
Earned(t, ws) ==
  /\ 1 <= Len(t.hits) /\ Len(t.hits) <= 3 /\ Len(t.hits) <= Len(ws)
  /\ \A k \in 0..Len(t.hits) - 1 :
       Ago(t.hits, k) /\ (\A m \in 0..k - 1 : ~Ago(t.hits, m)) =>
         t.at \in Ago(ws, k).at /\ Ago(ws, k).age = t.age
  /\ \A k, l \in 0..Len(t.hits) - 1 :
       /\ k < l /\ Ago(t.hits, k) /\ Ago(t.hits, l)
       /\ \A m \in 0..l - 1 : m # k => ~Ago(t.hits, m)
       => \E p \in Ago(ws, l).at : Distance(p, t.at) <= Association
  /\ t.source = "heatmap" => ~t.latched /\ \A k \in 0..Len(t.hits) - 1 : ~Ago(t.hits, k)

\* A track that lives was seen no longer ago than a track lives.
Lives(t, seen) == t.source = "point" /\ t.age < Ttl => [at |-> t.at, age |-> t.age] \in seen

\* A track rests on what was seen; and only a red view has one latched.
Sound(t, ws, seen, red) == Earned(t, ws) /\ Lives(t, seen) /\ (t.latched => red)

TracksEarned ==
  \A i \in DOMAIN tracks :
    Sound(tracks[i], windows, alive, shown.level = "DANGER" /\ ~since.forgot)

\* The tracks while a frame is being taken in.
InFrame(ws, seen, red) ==
  {ts \in Seq(Track) : \A i \in DOMAIN ts :
     Sound(ts[i], ws, seen, red) /\ (~ts[i].updated => ~Ago(ts[i].hits, 0))}

\* One object, and near: it is the only track, and the latest frame saw it.
OneOnly(ts, ws) ==
  /\ Len(ts) <= 1
  /\ \A i \in DOMAIN ts :
       /\ ts[i].source = "point" /\ ts[i].at <= Association
       /\ Ago(ws, 0).at # {} => ts[i].at \in Ago(ws, 0).at
  /\ ws # <<>> => \A p, q \in Ago(ws, 0).at : p = q
OneObject == alone => OneOnly(tracks, windows)

\* A red view has a track that still holds the danger, unless something
\* happened since that may end it.
HoldsRed(t) == t.latched /\ t.source = "point" /\ t.at < DangerExit /\ t.age < Ttl
RedHeld ==
  shown.level = "DANGER" /\ ~since.forgot /\ ~since.far /\ ~since.lapsed =>
    trusted /\ \E i \in DOMAIN tracks : HoldsRed(tracks[i])

\* The inductive invariant.
LogInv == LogType /\ Honest /\ Numbered
SceneInv == SceneType /\ LossShows /\ TracksEarned /\ OneObject /\ RedHeld
ViewInv == LogInv /\ SceneInv

-----------------------------------------------------------------------------
(* Recursion: the folds that expire tracks and take returns in.            *)

\* A step that holds at 0 and goes on holds everywhere.
LEMMA Steps ==
  ASSUME NEW n \in Nat, NEW Good, 0 \in Good,
         \A k \in 1..n : k - 1 \in Good => k \in Good
  PROVE  \A k \in 0..n : k \in Good
<1>. DEFINE before == {ss \in Nat \X Nat : ss[1] < ss[2]}
            Bad == {k \in 0..n : k \notin Good}
<1>1. IsWellFoundedOn(before, Nat)
  BY NatLessThanWellFounded DEF OpToRel
<1>. SUFFICES ASSUME Bad # {} PROVE FALSE
  OBVIOUS
<1>2. PICK k \in Bad : \A j \in Bad : <<j, k>> \notin before
  <2>1. Bad \subseteq Nat
    OBVIOUS
  <2>. HIDE DEF before, Bad
  <2>. QED
    BY <1>1, <2>1, WFMin
<1>3. k \in 1..n /\ k \notin Good
  OBVIOUS
<1>4. k - 1 \notin Good
  BY <1>3
<1>5. k - 1 \in Bad /\ <<k - 1, k>> \in before
  BY <1>3, <1>4
<1>. QED
  BY <1>2, <1>5

\* f goes from start through n steps.
Runs(f, start, step, n) == f[0] = start /\ \A k \in 1..n : f[k] = step[k][f[k - 1]]

\* A sequence of steps can be taken one after the other.
LEMMA Iterated ==
  ASSUME NEW n \in Nat, NEW S, NEW start \in S, NEW step \in [1..n -> [S -> S]]
  PROVE  \E f \in [0..n -> S] : Runs(f, start, step, n)
<1>. DEFINE Good == {m \in 0..n : \E f \in [0..m -> S] : Runs(f, start, step, m)}
<1>1. 0 \in Good
  <2>. DEFINE f == [k \in 0..0 |-> start]
  <2>1. f \in [0..0 -> S] /\ Runs(f, start, step, 0)
    BY DEF Runs
  <2>. HIDE DEF f
  <2>. QED
    BY <2>1
<1>2. ASSUME NEW m \in 1..n, m - 1 \in Good PROVE m \in Good
  <2>1. PICK g \in [0..m - 1 -> S] : Runs(g, start, step, m - 1)
    BY <1>2
  <2>. DEFINE f == [k \in 0..m |-> IF k = m THEN step[m][g[m - 1]] ELSE g[k]]
  <2>2. g[m - 1] \in S
    OBVIOUS
  <2>3. step[m][g[m - 1]] \in S
    BY <2>2
  <2>4. f \in [0..m -> S]
    BY <2>3
  <2>5. f[0] = start
    BY <2>1 DEF Runs
  <2>6. ASSUME NEW k \in 1..m PROVE f[k] = step[k][f[k - 1]]
    <3>1. k - 1 \in 0..m /\ k - 1 # m
      OBVIOUS
    <3>2. f[k - 1] = g[k - 1]
      BY <3>1
    <3>. QED
      BY <2>1, <3>2 DEF Runs
  <2>7. Runs(f, start, step, m)
    <3>. HIDE DEF f
    <3>. QED
      BY <2>5, <2>6 DEF Runs
  <2>. HIDE DEF f
  <2>. QED
    BY <2>4, <2>7
<1>3. n \in Good
  <2>. HIDE DEF Good
  <2>1. \A k \in 1..n : k - 1 \in Good => k \in Good
    BY <1>2
  <2>2. \A k \in 0..n : k \in Good
    BY ONLY n \in Nat, <1>1, <2>1, Steps
  <2>. QED
    BY <2>2
<1>. QED
  BY <1>3

\* What every step preserves holds in the end.
LEMMA Upserts ==
  ASSUME NEW S, NEW ts \in S, NEW T, NEW returns \in Seq(T), NEW source,
         \A k \in 1..Len(returns), x \in S : Upsert(x, returns[k], source) \in S
  PROVE  /\ UpsertAll(ts, returns, source) \in S
         /\ Len(returns) = 0 => UpsertAll(ts, returns, source) = ts
         /\ Len(returns) = 1 => UpsertAll(ts, returns, source) = Upsert(ts, returns[1], source)
<1>. DEFINE n == Len(returns)
            step == [k \in 1..n |-> [x \in S |-> Upsert(x, returns[k], source)]]
            Is(f) == f = [k \in 0..n |-> IF k = 0 THEN ts ELSE Upsert(f[k - 1], returns[k], source)]
            after == CHOOSE f : Is(f)
<1>1. n \in Nat
  OBVIOUS
<1>2. step \in [1..n -> [S -> S]]
  OBVIOUS
<1>3. PICK f \in [0..n -> S] : Runs(f, ts, step, n)
  <2>. HIDE DEF step, n
  <2>1. ts \in S
    OBVIOUS
  <2>. QED
    BY ONLY <1>1, <1>2, <2>1, Iterated
<1>4. ASSUME NEW k \in 1..n PROVE f[k - 1] \in S /\ f[k] = Upsert(f[k - 1], returns[k], source)
  <2>1. f[k - 1] \in S
    OBVIOUS
  <2>. QED
    BY <2>1, <1>3 DEF Runs
<1>5. Is(f)
  <2>1. \A k \in 0..n : f[k] = IF k = 0 THEN ts ELSE Upsert(f[k - 1], returns[k], source)
    BY <1>3, <1>4 DEF Runs
  <2>. HIDE DEF n, step
  <2>. QED
    BY <2>1, <1>1
<1>6. Is(after)
  BY <1>5
<1>7. UpsertAll(ts, returns, source) = after[n]
  BY DEF UpsertAll
<1>8. after[0] = ts /\ \A k \in 1..n : after[k] = Upsert(after[k - 1], returns[k], source)
  <2>. HIDE DEF after, n
  <2>. QED
    BY <1>6, <1>1
<1>9. after[n] \in S
  <2>. DEFINE Good == {k \in 0..n : after[k] \in S}
  <2>1. 0 \in Good
    BY <1>8, <1>1
  <2>2. ASSUME NEW k \in 1..n, k - 1 \in Good PROVE k \in Good
    <3>. HIDE DEF after, step
    <3>1. k \in 1..Len(returns) /\ after[k - 1] \in S
      BY <2>2
    <3>2. Upsert(after[k - 1], returns[k], source) \in S
      BY <3>1
    <3>. QED
      BY <1>8, <3>1, <3>2
  <2>3. n \in Good
    <3>. HIDE DEF Good, n, after, step
    <3>1. \A k \in 1..n : k - 1 \in Good => k \in Good
      BY <2>2
    <3>2. \A k \in 0..n : k \in Good
      BY ONLY <1>1, <2>1, <3>1, Steps
    <3>. QED
      BY <3>2, <1>1
  <2>. QED
    BY <2>3
<1>. QED
  <2>. HIDE DEF after
  <2>. QED
    BY <1>7, <1>8, <1>9

\* Without a return nothing changes.
LEMMA NoReturns ==
  ASSUME NEW ts, NEW T, NEW returns \in Seq(T), NEW source, Len(returns) = 0
  PROVE  UpsertAll(ts, returns, source) = ts
<1>. DEFINE S == {ts}
<1>1. ts \in S
  OBVIOUS
<1>2. ASSUME NEW k \in 1..Len(returns), NEW x \in S
      PROVE  Upsert(x, returns[k], source) \in S
  OBVIOUS
<1>. HIDE DEF S
<1>3. UpsertAll(ts, returns, source) \in S
  BY <1>1, <1>2, Upserts
<1>. QED
  BY <1>3 DEF S

\* Expiry leaves the tracks that are young enough, and every one of them.
LEMMA Kept ==
  ASSUME NEW T, NEW ts \in Seq(T)
  PROVE  /\ Unexpired(ts) \in Seq({ts[i] : i \in {i \in DOMAIN ts : ts[i].age < Ttl}})
         /\ Len(Unexpired(ts)) <= Len(ts)
         /\ \A i \in DOMAIN ts : ts[i].age < Ttl =>
              \E j \in DOMAIN Unexpired(ts) : Unexpired(ts)[j] = ts[i]
<1>. DEFINE n == Len(ts)
            S == Seq(T)
            Young == {ts[i] : i \in {i \in DOMAIN ts : ts[i].age < Ttl}}
            step == [k \in 1..n |-> [x \in S |-> IF ts[k].age < Ttl THEN Append(x, ts[k]) ELSE x]]
            Is(f) == f = [k \in 0..n |-> IF k = 0 THEN <<>>
                                         ELSE IF ts[k].age < Ttl THEN Append(f[k - 1], ts[k])
                                         ELSE f[k - 1]]
            kept == CHOOSE f : Is(f)
<1>1. n \in Nat /\ DOMAIN ts = 1..n /\ \A k \in 1..n : ts[k] \in T
  OBVIOUS
<1>2. step \in [1..n -> [S -> S]]
  BY <1>1
<1>3. PICK f \in [0..n -> S] : Runs(f, <<>>, step, n)
  <2>. HIDE DEF step, n, S
  <2>1. <<>> \in S
    BY DEF S
  <2>. QED
    BY ONLY <1>1, <1>2, <2>1, Iterated
<1>4. ASSUME NEW k \in 1..n
      PROVE  /\ f[k - 1] \in S
             /\ f[k] = IF ts[k].age < Ttl THEN Append(f[k - 1], ts[k]) ELSE f[k - 1]
  <2>1. f[k - 1] \in S
    <3>1. k - 1 \in 0..n
      BY <1>1
    <3>. HIDE DEF S
    <3>. QED
      BY <3>1, <1>3
  <2>2. f[k] = step[k][f[k - 1]]
    BY <1>3 DEF Runs
  <2>. HIDE DEF S
  <2>. QED
    BY <2>1, <2>2
<1>5. Is(f)
  <2>1. \A k \in 0..n : f[k] = IF k = 0 THEN <<>>
                               ELSE IF ts[k].age < Ttl THEN Append(f[k - 1], ts[k])
                               ELSE f[k - 1]
    <3>1. f[0] = <<>>
      BY <1>3 DEF Runs
    <3>2. \A k \in 0..n : k = 0 \/ k \in 1..n
      BY <1>1
    <3>. HIDE DEF step, n, S
    <3>. QED
      BY <3>1, <3>2, <1>4
  <2>. HIDE DEF n, step, S
  <2>. QED
    BY <2>1, <1>1
<1>6. Is(kept)
  BY <1>5
<1>7. Unexpired(ts) = kept[n]
  BY DEF Unexpired
<1>8. /\ kept[0] = <<>>
      /\ \A k \in 1..n : kept[k] = IF ts[k].age < Ttl THEN Append(kept[k - 1], ts[k]) ELSE kept[k - 1]
  <2>. HIDE DEF kept, n, step, S
  <2>1. 0 \in 0..n /\ \A k \in 1..n : k \in 0..n /\ k # 0
    BY <1>1
  <2>. QED
    BY <1>6, <2>1
<1>. DEFINE Fine(k, s) ==
       /\ s \in Seq(Young) /\ Len(s) <= k
       /\ \A i \in 1..k : ts[i].age < Ttl => \E j \in DOMAIN s : s[j] = ts[i]
            Good == {k \in 0..n : Fine(k, kept[k])}
<1>9. 0 \in Good
  <2>. HIDE DEF kept, Young, step, S, n
  <2>1. Fine(0, <<>>)
    OBVIOUS
  <2>2. Fine(0, kept[0])
    BY <2>1, <1>8
  <2>. HIDE DEF Fine
  <2>. QED
    BY <2>2, <1>1
<1>10. ASSUME NEW k \in 1..n, k - 1 \in Good PROVE k \in Good
  <2>. DEFINE s == kept[k - 1]
  <2>1. s \in Seq(Young) /\ Len(s) <= k - 1
        /\ \A i \in 1..k - 1 : ts[i].age < Ttl => \E j \in DOMAIN s : s[j] = ts[i]
    BY <1>10
  <2>2. kept[k] = IF ts[k].age < Ttl THEN Append(s, ts[k]) ELSE s
    BY <1>8
  <2>3. CASE ts[k].age < Ttl
    <3>. HIDE DEF s, kept, step
    <3>1. ts[k] \in Young
      BY <2>3, <1>1
    <3>. HIDE DEF Young
    <3>2. /\ kept[k] = Append(s, ts[k]) /\ kept[k] \in Seq(Young) /\ Len(kept[k]) = Len(s) + 1
          /\ DOMAIN kept[k] = 1..Len(s) + 1 /\ DOMAIN s = 1..Len(s)
      BY <2>1, <2>2, <2>3, <3>1
    <3>3. kept[k][Len(s) + 1] = ts[k] /\ \A j \in 1..Len(s) : kept[k][j] = s[j]
      BY <2>1, <3>1, <3>2
    <3>4. ASSUME NEW i \in 1..k, ts[i].age < Ttl
          PROVE  \E j \in DOMAIN kept[k] : kept[k][j] = ts[i]
      <4>1. CASE i = k
        <5>1. Len(s) + 1 \in DOMAIN kept[k]
          BY <2>1, <3>2
        <5>. QED
          BY <5>1, <4>1, <3>3
      <4>2. CASE i # k
        <5>1. PICK j \in DOMAIN s : s[j] = ts[i]
          <6>1. i \in 1..k - 1
            BY <4>2, <1>1
          <6>. QED
            BY <6>1, <2>1, <3>4
        <5>2. j \in DOMAIN kept[k] /\ kept[k][j] = s[j]
          BY <3>2, <3>3, <2>1
        <5>. QED
          BY <5>1, <5>2
      <4>. QED
        BY <4>1, <4>2
    <3>5. Len(kept[k]) <= k
      BY <3>2, <2>1
    <3>6. Fine(k, kept[k])
      BY <3>2, <3>4, <3>5
    <3>. HIDE DEF Fine
    <3>. QED
      BY <3>6
  <2>4. CASE ~(ts[k].age < Ttl)
    <3>. HIDE DEF s, kept, step, Young
    <3>1. kept[k] = s
      BY <2>2, <2>4
    <3>2. Len(s) <= k
      BY <2>1
    <3>3. \A i \in 1..k : ts[i].age < Ttl => \E j \in DOMAIN s : s[j] = ts[i]
      <4>1. \A i \in 1..k : i = k \/ i \in 1..k - 1
        OBVIOUS
      <4>. QED
        BY <4>1, <2>1, <2>4
    <3>4. Fine(k, kept[k])
      BY <3>1, <3>2, <3>3, <2>1
    <3>. HIDE DEF Fine
    <3>. QED
      BY <3>4
  <2>. QED
    BY <2>3, <2>4
<1>11. Fine(n, kept[n])
  <2>. HIDE DEF kept, step, n, Fine
  <2>1. \A k \in 1..n : k - 1 \in Good => k \in Good
    <3>. HIDE DEF Good
    <3>. QED
      BY <1>10
  <2>2. \A k \in 0..n : k \in Good
    <3>. HIDE DEF Good
    <3>. QED
      BY ONLY <1>1, <1>9, <2>1, Steps
  <2>. QED
    BY <2>2, <1>1
<1>. QED
  <2>. HIDE DEF kept, step
  <2>1. Fine(Len(ts), Unexpired(ts)) /\ DOMAIN ts = 1..Len(ts)
    BY <1>7, <1>11, <1>1
  <2>. HIDE DEF S
  <2>. QED
    BY <2>1

\* Only what is left of the three latest matters.
LEMMA Recent ==
  ASSUME NEW S, NEW s \in Seq(S)
  PROVE  /\ Shortened(s) \in Seq(S)
         /\ Len(Shortened(s)) = IF Len(s) > 3 THEN 3 ELSE Len(s)
         /\ \A k \in 0..Len(Shortened(s)) - 1 : Ago(Shortened(s), k) = Ago(s, k)
<1>1. Len(s) \in Nat /\ \A k \in 1..Len(s) : s[k] \in S
  OBVIOUS
<1>2. CASE Len(s) > 3
  <2>. DEFINE m == Len(s) - 2
  <2>1. m \in Int /\ m <= Len(s) + 1 /\ Len(s) \in Int /\ \A i \in m..Len(s) : s[i] \in S
    BY <1>1, <1>2
  <2>2. /\ LastThree(s) \in Seq(S) /\ Len(LastThree(s)) = 3
        /\ \A i \in 1..3 : LastThree(s)[i] = s[m + i - 1]
    BY <2>1, <1>1, <1>2, SubSeqProperties DEF LastThree
  <2>3. Shortened(s) = LastThree(s)
    BY <1>2 DEF Shortened
  <2>4. ASSUME NEW k \in 0..2 PROVE Ago(LastThree(s), k) = Ago(s, k)
    <3>1. 3 - k \in 1..3 /\ m + (3 - k) - 1 = Len(s) - k
      BY <1>1
    <3>. QED
      BY <3>1, <2>2 DEF Ago
  <2>5. Len(Shortened(s)) - 1 = 2
    BY <2>2, <2>3
  <2>. HIDE DEF m
  <2>. QED
    BY <2>2, <2>3, <2>4, <2>5, <1>2
<1>3. CASE ~(Len(s) > 3)
  BY <1>3 DEF Shortened
<1>. QED
  BY <1>2, <1>3

-----------------------------------------------------------------------------
(* Windows.                                                                *)

\* The latest of two sequences one after the other.
LEMMA Concatenated ==
  ASSUME NEW S, NEW s \in Seq(S), NEW r \in Seq(S)
  PROVE  /\ s \o r \in Seq(S) /\ Len(s \o r) = Len(s) + Len(r)
         /\ \A k \in 0..Len(r) - 1 : Ago(s \o r, k) = Ago(r, k)
         /\ \A k \in Len(r)..Len(s) + Len(r) - 1 : Ago(s \o r, k) = Ago(s, k - Len(r))
<1>1. /\ s \o r \in Seq(S) /\ Len(s \o r) = Len(s) + Len(r) /\ Len(s) \in Nat /\ Len(r) \in Nat
      /\ \A i \in 1..Len(s) + Len(r) :
           (s \o r)[i] = IF i <= Len(s) THEN s[i] ELSE r[i - Len(s)]
  OBVIOUS
<1>2. ASSUME NEW k \in 0..Len(r) - 1 PROVE Ago(s \o r, k) = Ago(r, k)
  <2>1. /\ Len(s) + Len(r) - k \in 1..Len(s) + Len(r) /\ ~(Len(s) + Len(r) - k <= Len(s))
        /\ Len(s) + Len(r) - k - Len(s) = Len(r) - k
    BY <1>1
  <2>. QED
    BY <1>1, <2>1 DEF Ago
<1>3. ASSUME NEW k \in Len(r)..Len(s) + Len(r) - 1 PROVE Ago(s \o r, k) = Ago(s, k - Len(r))
  <2>1. /\ Len(s) + Len(r) - k \in 1..Len(s) + Len(r) /\ Len(s) + Len(r) - k <= Len(s)
        /\ Len(s) + Len(r) - k = Len(s) - (k - Len(r))
    BY <1>1
  <2>. QED
    BY <1>1, <2>1 DEF Ago
<1>. QED
  BY <1>1, <1>2, <1>3

\* What NextWindows makes of one track, and what a frame adds to the windows.
Widened(t, n) == [t EXCEPT !.hits = Shortened(@ \o [k \in 1..n |-> FALSE]), !.updated = FALSE]
Empty == [at |-> {}, age |-> 0]
Extended(ws, d, now) ==
  Shortened((ws \o [k \in 1..d |-> Empty]) \o <<[at |-> now, age |-> 0]>>)

LEMMA NewWindow ==
  ASSUME NEW ws \in Seq(Seen), NEW d \in Nat, NEW now \in SUBSET Nat
  PROVE  /\ Extended(ws, d, now) \in Seq(Seen)
         /\ Len(Extended(ws, d, now)) = IF Len(ws) + d + 1 > 3 THEN 3 ELSE Len(ws) + d + 1
         /\ Ago(Extended(ws, d, now), 0) = [at |-> now, age |-> 0]
         /\ \A k \in 0..Len(Extended(ws, d, now)) - 1 : k >= d + 1 =>
              Ago(Extended(ws, d, now), k) = Ago(ws, k - (d + 1))
<1>. DEFINE e == [k \in 1..d |-> Empty]
            x == ws \o e
            one == <<[at |-> now, age |-> 0]>>
            y == x \o one
<1>1. Empty \in Seen /\ [at |-> now, age |-> 0] \in Seen
  BY DEF Empty, Seen
<1>2. e \in Seq(Seen) /\ Len(e) = d /\ one \in Seq(Seen) /\ Len(one) = 1 /\ Len(ws) \in Nat
      /\ one[1] = [at |-> now, age |-> 0]
  <2>. HIDE DEF Seen, Empty
  <2>. QED
    BY <1>1
<1>. HIDE DEF e, one
<1>3. x \in Seq(Seen) /\ Len(x) = Len(ws) + d
      /\ \A k \in d..Len(ws) + d - 1 : Ago(x, k) = Ago(ws, k - d)
  <2>1. /\ x \in Seq(Seen) /\ Len(x) = Len(ws) + Len(e)
        /\ \A k \in Len(e)..Len(ws) + Len(e) - 1 : Ago(x, k) = Ago(ws, k - Len(e))
    BY <1>2, Concatenated
  <2>. QED
    BY <2>1, <1>2
<1>. HIDE DEF x
<1>4. /\ y \in Seq(Seen) /\ Len(y) = Len(x) + Len(one)
      /\ \A k \in 0..Len(one) - 1 : Ago(y, k) = Ago(one, k)
      /\ \A k \in Len(one)..Len(x) + Len(one) - 1 : Ago(y, k) = Ago(x, k - Len(one))
  <2>1. x \in Seq(Seen) /\ one \in Seq(Seen)
    BY <1>2, <1>3
  <2>. QED
    BY ONLY <2>1, Concatenated
<1>5. Ago(y, 0) = [at |-> now, age |-> 0]
  <2>1. 0 \in 0..Len(one) - 1 /\ Ago(one, 0) = one[1]
    BY <1>2 DEF Ago
  <2>. HIDE DEF y
  <2>. QED
    BY <2>1, <1>4, <1>2
<1>6. \A k \in d + 1..Len(ws) + d : Ago(y, k) = Ago(ws, k - (d + 1))
  <2>. SUFFICES ASSUME NEW k \in d + 1..Len(ws) + d PROVE Ago(y, k) = Ago(ws, k - (d + 1))
    OBVIOUS
  <2>1. /\ k \in Len(one)..Len(x) + Len(one) - 1 /\ k - 1 \in d..Len(ws) + d - 1
        /\ (k - 1) - d = k - (d + 1) /\ k - Len(one) = k - 1
    BY <1>2, <1>3
  <2>. HIDE DEF y
  <2>. QED
    BY <2>1, <1>3, <1>4
<1>. HIDE DEF y
<1>7. /\ Shortened(y) \in Seq(Seen)
      /\ Len(Shortened(y)) = IF Len(y) > 3 THEN 3 ELSE Len(y)
      /\ \A k \in 0..Len(Shortened(y)) - 1 : Ago(Shortened(y), k) = Ago(y, k)
  BY <1>4, Recent
<1>8. Extended(ws, d, now) = Shortened(y)
  BY DEF Extended, y, x, e, one
<1>9. Len(y) = Len(ws) + d + 1
  BY <1>2, <1>3, <1>4
<1>10. Len(Shortened(y)) >= 1 /\ Len(Shortened(y)) <= Len(y) /\ Len(Shortened(y)) \in Nat
  BY <1>7, <1>9, <1>2
<1>11. Ago(Shortened(y), 0) = [at |-> now, age |-> 0]
  BY <1>5, <1>7, <1>10
<1>12. ASSUME NEW k \in 0..Len(Shortened(y)) - 1, k >= d + 1
       PROVE  Ago(Shortened(y), k) = Ago(ws, k - (d + 1))
  <2>1. k \in d + 1..Len(ws) + d
    BY <1>12, <1>9, <1>10, <1>2
  <2>. QED
    BY <2>1, <1>6, <1>7
<1>. QED
  BY <1>7, <1>8, <1>9, <1>11, <1>12

\* Frames without a hit do not change on what a track rests.
LEMMA StillEarned ==
  ASSUME NEW t \in Track, NEW ws \in Seq(Seen), Earned(t, ws),
         NEW d \in Nat, NEW now \in SUBSET Nat,
         NEW n \in Nat, 1 <= n, n <= 3, n <= d + 1, n = d + 1 \/ n = 3
  PROVE  /\ Widened(t, n) \in Track /\ Earned(Widened(t, n), Extended(ws, d, now))
         /\ ~Ago(Widened(t, n).hits, 0)
<1>. DEFINE f == [k \in 1..n |-> FALSE]
            h == t.hits \o f
            u == Widened(t, n)
            vs == Extended(ws, d, now)
<1>1. t.hits \in Seq(BOOLEAN) /\ Len(t.hits) \in Nat /\ Len(ws) \in Nat
      /\ 1 <= Len(t.hits) /\ Len(t.hits) <= 3 /\ Len(t.hits) <= Len(ws)
  BY DEF Track, Earned
<1>0. n \in Nat /\ 1 <= n /\ n <= 3 /\ n <= d + 1 /\ (n = d + 1 \/ n = 3)
  OBVIOUS
<1>2. f \in Seq(BOOLEAN) /\ Len(f) = n /\ \A k \in 0..n - 1 : Ago(f, k) = FALSE
  BY DEF Ago
<1>. HIDE DEF f
<1>3. /\ h \in Seq(BOOLEAN) /\ Len(h) = Len(t.hits) + n
      /\ \A k \in 0..n - 1 : Ago(h, k) = FALSE
      /\ \A k \in n..Len(t.hits) + n - 1 : Ago(h, k) = Ago(t.hits, k - n)
  <2>1. /\ h \in Seq(BOOLEAN) /\ Len(h) = Len(t.hits) + Len(f)
        /\ \A k \in 0..Len(f) - 1 : Ago(h, k) = Ago(f, k)
        /\ \A k \in Len(f)..Len(t.hits) + Len(f) - 1 : Ago(h, k) = Ago(t.hits, k - Len(f))
    BY <1>1, <1>2, Concatenated
  <2>. HIDE DEF h
  <2>. QED
    BY <2>1, <1>2
<1>. HIDE DEF h
<1>4. /\ Shortened(h) \in Seq(BOOLEAN)
      /\ Len(Shortened(h)) = IF Len(h) > 3 THEN 3 ELSE Len(h)
      /\ \A k \in 0..Len(Shortened(h)) - 1 : Ago(Shortened(h), k) = Ago(h, k)
  BY <1>3, Recent
<1>5. u = [t EXCEPT !.hits = Shortened(h), !.updated = FALSE]
  BY DEF Widened, h, f
<1>6. /\ u \in Track /\ u.hits = Shortened(h) /\ u.at = t.at /\ u.age = t.age
      /\ u.source = t.source /\ u.latched = t.latched
  BY <1>4, <1>5 DEF Track
<1>. HIDE DEF u
<1>7. /\ Len(u.hits) \in Nat /\ 1 <= Len(u.hits) /\ Len(u.hits) <= 3
      /\ Len(u.hits) <= Len(t.hits) + n
      /\ Len(u.hits) = 3 \/ Len(u.hits) = Len(t.hits) + n
  <2>1. Len(h) = Len(t.hits) + n
    BY <1>3
  <2>2. Len(u.hits) = IF Len(h) > 3 THEN 3 ELSE Len(h)
    BY <1>6, <1>4
  <2>. QED
    BY <2>1, <2>2, <1>1, <1>0
<1>8. /\ vs \in Seq(Seen)
      /\ Len(vs) = IF Len(ws) + d + 1 > 3 THEN 3 ELSE Len(ws) + d + 1
      /\ \A k \in 0..Len(vs) - 1 : k >= d + 1 => Ago(vs, k) = Ago(ws, k - (d + 1))
  BY NewWindow
<1>. HIDE DEF vs
<1>9. Len(u.hits) <= Len(vs) /\ Len(vs) \in Nat
  <2>1. Len(vs) = 3 \/ Len(vs) = Len(ws) + d + 1
    BY <1>8
  <2>2. Len(t.hits) + n <= Len(ws) + d + 1
    BY <1>1, <1>0
  <2>. QED
    <3>1. Len(vs) \in Nat
      BY <1>8
    <3>2. CASE Len(vs) = 3
      BY <3>1, <3>2, <1>7, <1>1
    <3>3. CASE Len(vs) = Len(ws) + d + 1
      BY <3>1, <3>3, <2>2, <1>7, <1>1
    <3>. QED
      BY <2>1, <3>2, <3>3
<1>10. \A k \in 0..n - 1 : k \in 0..Len(u.hits) - 1 => ~Ago(u.hits, k)
  BY <1>6, <1>4, <1>3
<1>11. ASSUME NEW k \in 0..Len(u.hits) - 1, k >= n
       PROVE  /\ k - n \in 0..Len(t.hits) - 1 /\ Ago(u.hits, k) = Ago(t.hits, k - n)
              /\ Ago(vs, k) = Ago(ws, k - n)
  <2>1. k <= 2 /\ n = d + 1 /\ k \in n..Len(t.hits) + n - 1 /\ k - n \in 0..Len(t.hits) - 1
    <3>1. k <= 2 /\ k \in Nat /\ n <= 2
      BY <1>11, <1>7, <1>1, <1>0
    <3>2. n = d + 1
      BY <3>1, <1>0
    <3>3. k < Len(t.hits) + n
      BY <3>1, <1>7, <1>1, <1>0
    <3>4. k >= n
      BY <1>11
    <3>5. k - n \in Nat /\ k - n < Len(t.hits)
      BY ONLY <3>1, <3>3, <3>4, <1>0, <1>1
    <3>6. k - n \in 0..Len(t.hits) - 1
      BY ONLY <3>5, <1>1
    <3>7. k \in n..Len(t.hits) + n - 1
      BY ONLY <3>1, <3>3, <3>4, <1>0, <1>1
    <3>. QED
      BY <3>1, <3>2, <3>6, <3>7
  <2>2. Ago(u.hits, k) = Ago(t.hits, k - n)
    <3>1. Ago(u.hits, k) = Ago(h, k)
      BY <1>6, <1>4
    <3>. QED
      BY <3>1, <2>1, <1>3
  <2>3. Ago(vs, k) = Ago(ws, k - n)
    <3>1. k \in 0..Len(vs) - 1 /\ k >= d + 1
      BY <2>1, <1>9, <1>7, <1>11
    <3>. QED
      BY <3>1, <2>1, <1>8
  <2>. QED
    BY <2>1, <2>2, <2>3
<1>12. ASSUME NEW k \in 0..Len(u.hits) - 1, Ago(u.hits, k) PROVE k >= n
  BY <1>10, <1>12, <1>0
<1>13. ASSUME NEW k \in 0..Len(u.hits) - 1, NEW m \in 0..k - n, k >= n
       PROVE  m + n \in 0..k /\ Ago(u.hits, m + n) = Ago(t.hits, m)
  <2>1. m + n \in 0..Len(u.hits) - 1 /\ m + n >= n /\ (m + n) - n = m /\ m + n \in 0..k
    BY <1>13, <1>7, <1>0
  <2>. QED
    BY <2>1, <1>11
<1>14. ASSUME NEW k \in 0..Len(u.hits) - 1, Ago(u.hits, k), \A m \in 0..k - 1 : ~Ago(u.hits, m)
       PROVE  u.at \in Ago(vs, k).at /\ Ago(vs, k).age = u.age
  <2>1. k >= n
    BY <1>12, <1>14
  <2>2. k - n \in 0..Len(t.hits) - 1 /\ Ago(t.hits, k - n) /\ Ago(vs, k) = Ago(ws, k - n)
    BY <2>1, <1>11, <1>14
  <2>3. ASSUME NEW m \in 0..(k - n) - 1 PROVE ~Ago(t.hits, m)
    <3>1. m + n \in 0..k - 1 /\ m \in 0..k - n
      BY <2>1
    <3>. QED
      BY <3>1, <1>13, <2>1, <1>14
  <2>4. t.at \in Ago(ws, k - n).at /\ Ago(ws, k - n).age = t.age
    BY <2>2, <2>3 DEF Earned
  <2>. QED
    BY <2>2, <2>4, <1>6
<1>15. ASSUME NEW k \in 0..Len(u.hits) - 1, NEW l \in 0..Len(u.hits) - 1,
              k < l, Ago(u.hits, k), Ago(u.hits, l),
              \A m \in 0..l - 1 : m # k => ~Ago(u.hits, m)
       PROVE  \E p \in Ago(vs, l).at : Distance(p, u.at) <= Association
  <2>1. k >= n /\ l >= n
    BY <1>12, <1>15
  <2>2. /\ k - n \in 0..Len(t.hits) - 1 /\ l - n \in 0..Len(t.hits) - 1 /\ k - n < l - n
        /\ Ago(t.hits, k - n) /\ Ago(t.hits, l - n) /\ Ago(vs, l) = Ago(ws, l - n)
    <3>1. k - n < l - n
      BY <1>15, <2>1
    <3>. QED
      BY <3>1, <2>1, <1>11, <1>15
  <2>3. ASSUME NEW m \in 0..(l - n) - 1, m # k - n PROVE ~Ago(t.hits, m)
    <3>1. m + n \in 0..l - 1 /\ m \in 0..l - n /\ m + n # k
      BY <2>1, <2>3
    <3>2. ~Ago(u.hits, m + n)
      BY <3>1, <1>15
    <3>. QED
      BY <3>1, <3>2, <1>13, <2>1
  <2>4. \E p \in Ago(ws, l - n).at : Distance(p, t.at) <= Association
    BY <2>2, <2>3 DEF Earned
  <2>. QED
    BY <2>2, <2>4, <1>6
<1>16. u.source = "heatmap" => ~u.latched /\ \A k \in 0..Len(u.hits) - 1 : ~Ago(u.hits, k)
  <2>. SUFFICES ASSUME u.source = "heatmap"
                PROVE  ~u.latched /\ \A k \in 0..Len(u.hits) - 1 : ~Ago(u.hits, k)
    OBVIOUS
  <2>1. ~t.latched /\ \A k \in 0..Len(t.hits) - 1 : ~Ago(t.hits, k)
    BY <1>6 DEF Earned
  <2>2. ASSUME NEW k \in 0..Len(u.hits) - 1, Ago(u.hits, k) PROVE FALSE
    <3>1. k >= n
      BY <1>12, <2>2
    <3>. QED
      BY <3>1, <2>2, <1>11, <2>1
  <2>. QED
    BY <2>1, <2>2, <1>6
<1>17. Earned(u, vs)
  BY <1>7, <1>9, <1>14, <1>15, <1>16 DEF Earned
<1>18. ~Ago(u.hits, 0)
  <2>1. 0 \in 0..n - 1 /\ 0 \in 0..Len(u.hits) - 1
    BY <1>7, <1>1, <1>0
  <2>. QED
    BY <2>1, <1>10
<1>. QED
  BY <1>6, <1>17, <1>18 DEF u, vs

-----------------------------------------------------------------------------
(* Returns.                                                                *)

\* A set of naturals has a least one.
LEMMA Least ==
  ASSUME NEW S, S \subseteq Nat, S # {}
  PROVE  \E i \in S : \A j \in S : i <= j
<1>. DEFINE before == {ss \in Nat \X Nat : ss[1] < ss[2]}
<1>1. IsWellFoundedOn(before, Nat)
  BY NatLessThanWellFounded DEF OpToRel
<1>2. PICK i \in S : \A j \in S : <<j, i>> \notin before
  <2>. HIDE DEF before
  <2>. QED
    BY <1>1, WFMin
<1>3. \A j \in S : j < i => <<j, i>> \in before
  OBVIOUS
<1>4. \A j \in S : ~(j < i)
  <2>. HIDE DEF before
  <2>. QED
    BY <1>2, <1>3
<1>. QED
  BY <1>4

\* A distance is the same both ways, and a near return does not lead far away.
LEMMA Near ==
  ASSUME NEW a \in Nat, NEW b \in Nat
  PROVE  Distance(a, b) \in Nat /\ Distance(a, b) = Distance(b, a)
         /\ (Distance(a, b) <= Association /\ a < DangerExit => b < DangerExit + Association)
BY DEF Distance, Association, DangerExit

\* Of several tracks one is the nearest.
LEMMA NearestIsOne ==
  ASSUME NEW ts \in Seq(Track), NEW place \in Nat, NEW C, C \subseteq DOMAIN ts, C # {}
  PROVE  Nearest(ts, place, C) \in C
<1>. DEFINE far(i) == Distance(ts[i].at, place)
            All == {far(i) : i \in C}
<1>1. \A i \in C : i \in Nat /\ far(i) \in Nat
  <2>. SUFFICES ASSUME NEW i \in C PROVE i \in Nat /\ far(i) \in Nat
    OBVIOUS
  <2>1. i \in Nat /\ ts[i] \in Track
    OBVIOUS
  <2>2. ts[i].at \in Nat
    BY <2>1 DEF Track
  <2>. QED
    BY <2>1, <2>2, Near
<1>2. PICK d \in All : \A e \in All : d <= e
  <2>1. All \subseteq Nat /\ All # {}
    BY <1>1
  <2>. HIDE DEF All
  <2>. QED
    BY <2>1, Least
<1>. DEFINE Closest == {i \in C : far(i) = d}
<1>3. PICK i \in Closest : \A j \in Closest : i <= j
  <2>1. Closest \subseteq Nat /\ Closest # {}
    BY <1>1
  <2>. HIDE DEF Closest
  <2>. QED
    BY <2>1, Least
<1>4. i \in C /\ \A j \in C : far(i) < far(j) \/ (far(i) = far(j) /\ i <= j)
  <2>1. i \in C /\ far(i) = d
    OBVIOUS
  <2>. SUFFICES ASSUME NEW j \in C PROVE far(i) < far(j) \/ (far(i) = far(j) /\ i <= j)
    BY <2>1
  <2>2. d <= far(j)
    BY <1>2
  <2>3. CASE far(j) = d
    BY <2>1, <2>3, <1>3
  <2>4. CASE far(j) # d
    <3>1. d \in Nat /\ far(j) \in Nat
      BY <1>1, <2>1
    <3>. HIDE DEF far
    <3>. QED
      BY <3>1, <2>1, <2>2, <2>4
  <2>. QED
    BY <2>3, <2>4
<1>. QED
  BY <1>4 DEF Nearest

\* A return of the latest frame keeps the tracks earned.
LEMMA UpsertPoint ==
  ASSUME NEW ws \in Seq(Seen), NEW seen, NEW red \in BOOLEAN, NEW ts \in InFrame(ws, seen, red),
         1 <= Len(ws), NEW p \in Nat, p \in Ago(ws, 0).at, Ago(ws, 0).age = 0,
         [at |-> p, age |-> 0] \in seen
  PROVE  Upsert(ts, p, "point") \in InFrame(ws, seen, red)
<1>. DEFINE C == Candidates(ts, p, "point")
            i == Nearest(ts, p, C)
            new == [at |-> p, source |-> "point", age |-> 0, latched |-> FALSE,
                    hits |-> <<TRUE>>, updated |-> TRUE]
            Suits(t) == t \in Track /\ Sound(t, ws, seen, red) /\ (~t.updated => ~Ago(t.hits, 0))
<1>1. ts \in Seq(Track) /\ \A j \in DOMAIN ts : Suits(ts[j])
  BY DEF InFrame
<1>2. ASSUME NEW us \in Seq(Track), \A j \in DOMAIN us : Suits(us[j])
      PROVE  us \in InFrame(ws, seen, red)
  BY <1>2 DEF InFrame
<1>3. CASE C = {}
  <2>1. Upsert(ts, p, "point") = Append(ts, new)
    BY <1>3 DEF Upsert
  <2>2. new \in Track /\ Len(new.hits) = 1 /\ new.hits[1] = TRUE
    BY DEF Track
  <2>3. new.at = p /\ new.age = 0 /\ new.source = "point" /\ new.latched = FALSE /\ new.updated = TRUE
    OBVIOUS
  <2>. HIDE DEF new
  <2>4. Earned(new, ws)
    <3>1. \A k \in 0..Len(new.hits) - 1 : k = 0
      BY <2>2
    <3>. QED
      BY <2>2, <2>3, <3>1 DEF Earned
  <2>5. Suits(new)
    BY <2>2, <2>3, <2>4 DEF Sound, Lives
  <2>. HIDE DEF Suits
  <2>6. Append(ts, new) \in Seq(Track) /\ \A j \in DOMAIN Append(ts, new) : Suits(Append(ts, new)[j])
    BY <1>1, <2>2, <2>5
  <2>. QED
    BY <2>1, <2>6, <1>2
<1>4. CASE C # {}
  <2>1. /\ C \subseteq DOMAIN ts
        /\ \A j \in C : ~ts[j].updated /\ Distance(ts[j].at, p) <= Association
    BY DEF Candidates
  <2>2. i \in C
    BY <2>1, <1>1, <1>4, NearestIsOne
  <2>. DEFINE t == ts[i]
              u == Hit(Moved(t, p, "point"))
  <2>3. Upsert(ts, p, "point") = [ts EXCEPT ![i] = u]
    BY <1>4 DEF Upsert
  <2>4. /\ i \in DOMAIN ts /\ t \in Track /\ Sound(t, ws, seen, red) /\ ~Ago(t.hits, 0)
        /\ ~t.updated /\ Distance(t.at, p) <= Association
    <3>. HIDE DEF i, C
    <3>. QED
      BY <1>1, <2>1, <2>2
  <2>. HIDE DEF i, C
  <2>5. /\ t.hits \in Seq(BOOLEAN) /\ Len(t.hits) \in Nat /\ 1 <= Len(t.hits) /\ Len(t.hits) <= 3
        /\ Len(t.hits) <= Len(ws) /\ t.at \in Nat
    BY <2>4 DEF Track, Sound, Earned
  <2>6. /\ u \in Track /\ u.at = p /\ u.age = 0 /\ u.source = "point" /\ u.updated = TRUE
        /\ u.latched = t.latched
        /\ u.hits = [t.hits EXCEPT ![Len(t.hits)] = TRUE]
    <3>. DEFINE h == [t.hits EXCEPT ![Len(t.hits)] = TRUE]
    <3>1. h \in Seq(BOOLEAN)
      BY <2>5
    <3>2. u = [t EXCEPT !.at = p, !.source = "point", !.age = 0, !.hits = h, !.updated = TRUE]
      <4>. HIDE DEF t
      <4>. QED
        BY <2>4 DEF Hit, Moved, Track
    <3>. HIDE DEF h, t, u
    <3>3. /\ u \in Track /\ u.at = p /\ u.age = 0 /\ u.source = "point" /\ u.updated = TRUE
          /\ u.latched = t.latched /\ u.hits = h
      BY <2>4, <3>1, <3>2 DEF Track
    <3>. QED
      BY <3>3 DEF h
  <2>7. Len(u.hits) = Len(t.hits) /\ Ago(u.hits, 0) = TRUE
    <3>. HIDE DEF t, u
    <3>1. Len(u.hits) = Len(t.hits) /\ Len(t.hits) \in 1..Len(t.hits)
      BY <2>5, <2>6
    <3>2. u.hits[Len(t.hits)] = TRUE
      BY <3>1, <2>5, <2>6
    <3>. QED
      BY <3>1, <3>2, <2>5 DEF Ago
  <2>8. \A k \in 1..Len(t.hits) - 1 : Ago(u.hits, k) = Ago(t.hits, k)
    <3>. SUFFICES ASSUME NEW k \in 1..Len(t.hits) - 1 PROVE Ago(u.hits, k) = Ago(t.hits, k)
      OBVIOUS
    <3>1. Len(t.hits) - k \in 1..Len(t.hits) /\ Len(t.hits) - k # Len(t.hits)
      BY <2>5
    <3>. QED
      BY <3>1, <2>5, <2>6, <2>7 DEF Ago
  <2>. HIDE DEF t, u
  <2>9. ASSUME NEW k \in 0..Len(u.hits) - 1, \A m \in 0..k - 1 : ~Ago(u.hits, m)
        PROVE  u.at \in Ago(ws, k).at /\ Ago(ws, k).age = u.age
    <3>1. k = 0
      <4>1. k > 0 => 0 \in 0..k - 1
        BY <2>5, <2>7
      <4>. QED
        BY <4>1, <2>7, <2>9, <2>5
    <3>. QED
      BY <3>1, <2>6
  <2>10. ASSUME NEW k \in 0..Len(u.hits) - 1, NEW l \in 0..Len(u.hits) - 1, k < l, Ago(u.hits, l),
                \A m \in 0..l - 1 : m # k => ~Ago(u.hits, m)
         PROVE  \E q \in Ago(ws, l).at : Distance(q, u.at) <= Association
    <3>1. k = 0
      <4>1. 0 \in 0..l - 1
        BY <2>5, <2>7, <2>10
      <4>. QED
        BY <4>1, <2>7, <2>10
    <3>2. l \in 1..Len(t.hits) - 1
      BY <3>1, <2>10, <2>5, <2>7
    <3>3. Ago(t.hits, l)
      BY <3>2, <2>8, <2>10
    <3>4. ASSUME NEW m \in 0..l - 1 PROVE ~Ago(t.hits, m)
      <4>1. CASE m = 0
        BY <4>1, <2>4 DEF t
      <4>2. CASE m # 0
        <5>1. m \in 1..Len(t.hits) - 1
          BY <4>2, <3>2, <2>5
        <5>. QED
          BY <5>1, <3>1, <4>2, <2>8, <2>10
      <4>. QED
        BY <4>1, <4>2
    <3>5. t.at \in Ago(ws, l).at
      <4>1. l \in 0..Len(t.hits) - 1
        BY <3>2, <2>5
      <4>. QED
        BY <4>1, <3>3, <3>4, <2>4 DEF Sound, Earned, t
    <3>. QED
      BY <3>5, <2>4, <2>6 DEF t
  <2>11. Earned(u, ws)
    BY <2>5, <2>6, <2>7, <2>9, <2>10 DEF Earned
  <2>12. Suits(u)
    <3>1. Lives(u, seen)
      BY <2>6 DEF Lives
    <3>2. u.latched => red
      BY <2>6, <2>4 DEF Sound, t
    <3>. QED
      BY <3>1, <3>2, <2>6, <2>11 DEF Sound
  <2>. HIDE DEF Suits
  <2>13. /\ [ts EXCEPT ![i] = u] \in Seq(Track)
         /\ \A j \in DOMAIN [ts EXCEPT ![i] = u] : Suits([ts EXCEPT ![i] = u][j])
    BY <1>1, <2>4, <2>6, <2>12
  <2>. QED
    BY <2>3, <2>13, <1>2 DEF u
<1>. QED
  BY <1>3, <1>4

\* Heatmap cells are no evidence.
LEMMA UpsertCell ==
  ASSUME NEW ws \in Seq(Seen), NEW seen, NEW red \in BOOLEAN, NEW ts \in InFrame(ws, seen, red),
         1 <= Len(ws), NEW p \in Nat
  PROVE  Upsert(ts, p, "heatmap") \in InFrame(ws, seen, red)
<1>. DEFINE C == Candidates(ts, p, "heatmap")
            i == Nearest(ts, p, C)
            new == [at |-> p, source |-> "heatmap", age |-> 0, latched |-> FALSE,
                    hits |-> <<FALSE>>, updated |-> FALSE]
            Suits(t) == t \in Track /\ Sound(t, ws, seen, red) /\ (~t.updated => ~Ago(t.hits, 0))
<1>1. ts \in Seq(Track) /\ \A j \in DOMAIN ts : Suits(ts[j])
  BY DEF InFrame
<1>2. ASSUME NEW us \in Seq(Track), \A j \in DOMAIN us : Suits(us[j])
      PROVE  us \in InFrame(ws, seen, red)
  BY <1>2 DEF InFrame
<1>3. CASE C = {}
  <2>1. Upsert(ts, p, "heatmap") = Append(ts, new)
    BY <1>3 DEF Upsert
  <2>2. new \in Track /\ Len(new.hits) = 1 /\ new.hits[1] = FALSE
    BY DEF Track
  <2>3. new.source = "heatmap" /\ new.latched = FALSE
    OBVIOUS
  <2>. HIDE DEF new
  <2>4. Ago(new.hits, 0) = FALSE /\ \A k \in 0..Len(new.hits) - 1 : Ago(new.hits, k) = FALSE
    BY <2>2 DEF Ago
  <2>5. Earned(new, ws)
    BY <2>2, <2>3, <2>4 DEF Earned
  <2>6. Suits(new)
    BY <2>2, <2>3, <2>4, <2>5 DEF Sound, Lives
  <2>. HIDE DEF Suits
  <2>7. Append(ts, new) \in Seq(Track) /\ \A j \in DOMAIN Append(ts, new) : Suits(Append(ts, new)[j])
    BY <1>1, <2>2, <2>6
  <2>. QED
    BY <2>1, <2>7, <1>2
<1>4. CASE C # {}
  <2>1. C \subseteq DOMAIN ts /\ \A j \in C : ts[j].source = "heatmap"
    BY DEF Candidates
  <2>2. i \in C
    BY <2>1, <1>1, <1>4, NearestIsOne
  <2>. DEFINE t == ts[i]
              u == Moved(t, p, "heatmap")
  <2>3. Upsert(ts, p, "heatmap") = [ts EXCEPT ![i] = u]
    BY <1>4 DEF Upsert
  <2>4. i \in DOMAIN ts /\ Suits(t) /\ t.source = "heatmap"
    <3>. HIDE DEF i, C, Suits
    <3>. QED
      BY <1>1, <2>1, <2>2
  <2>. HIDE DEF i, C
  <2>5. /\ u \in Track /\ u.source = "heatmap" /\ u.updated = t.updated
        /\ u.latched = t.latched /\ u.hits = t.hits
    BY <2>4 DEF Moved, Track
  <2>. HIDE DEF t, u
  <2>6. Earned(u, ws)
    BY <2>4, <2>5 DEF Sound, Earned
  <2>7. Suits(u)
    BY <2>4, <2>5, <2>6 DEF Sound, Lives
  <2>. HIDE DEF Suits
  <2>8. /\ [ts EXCEPT ![i] = u] \in Seq(Track)
        /\ \A j \in DOMAIN [ts EXCEPT ![i] = u] : Suits([ts EXCEPT ![i] = u][j])
    BY <1>1, <2>4, <2>5, <2>7
  <2>. QED
    BY <2>3, <2>8, <1>2 DEF u
<1>. QED
  BY <1>3, <1>4

-----------------------------------------------------------------------------
(* The log and its numbers.                                                *)

\* What the log holds, a record longer.
LEMMA LogGrows ==
  ASSUME LogType, NEW e \in Entries
  PROVE  /\ Append(unread, e) \in Seq(Entries)
         /\ DOMAIN Append(unread, e) = 1..Len(unread) + 1
         /\ Append(unread, e)[Len(unread) + 1] = e
         /\ DOMAIN unread = 1..Len(unread) /\ Len(unread) \in Nat
         /\ \A i \in DOMAIN unread : Append(unread, e)[i] = unread[i] /\ unread[i] \in Entries
<1>1. unread \in Seq(Entries)
  BY DEF LogType
<1>. QED
  BY <1>1

\* The numbers of a frame of the log.
Place(e) == [epoch |-> e.record.epoch, seq |-> e.record.seq, nth |-> e.nth]
Places == [epoch: Nat, seq: Nat, nth: Nat]

\* Every number that counts is one of them.
LEMMA Placed ==
  ASSUME LogType
  PROVE  /\ FrameNumbers \subseteq Places
         /\ [epoch |-> epoch, seq |-> seq, nth |-> sent] \in FrameNumbers
         /\ [epoch |-> last.epoch, seq |-> last.seq, nth |-> missed.nth] \in FrameNumbers
         /\ \A i \in InLog : Place(unread[i]) \in FrameNumbers
<1>1. ASSUME NEW i \in InLog PROVE Place(unread[i]) \in FrameNumbers /\ Place(unread[i]) \in Places
  <2>1. i \in DOMAIN unread /\ unread[i] \in Entries /\ unread[i].record.kind = "frame"
    BY DEF LogType, InLog
  <2>2. unread[i].record \in Capture!Frames /\ unread[i].nth \in Nat
    BY <2>1 DEF Entries, Records, Capture!Healths
  <2>3. unread[i].record.epoch \in Nat /\ unread[i].record.seq \in Nat
    BY <2>2 DEF Capture!Frames
  <2>. QED
    BY <2>2, <2>3 DEF Place, Places, FrameNumbers
<1>2. /\ [epoch |-> epoch, seq |-> seq, nth |-> sent] \in Places
      /\ [epoch |-> last.epoch, seq |-> last.seq, nth |-> missed.nth] \in Places
  BY DEF LogType, Places
<1>3. FrameNumbers \subseteq Places
  BY <1>1, <1>2 DEF FrameNumbers, Place
<1>. QED
  BY <1>1, <1>3 DEF FrameNumbers

\* A number that follows, or the first of an epoch, keeps the numbers in step.
LEMMA NextNumber ==
  ASSUME LogType, Numbered, NEW e \in Nat, NEW s \in Nat, NEW n \in Nat,
         FrameNumbers' \subseteq (FrameNumbers \cup {[epoch |-> e, seq |-> s, nth |-> n]}),
         epoch' = e,
         \/ e = epoch /\ n - s = sent - seq
         \/ e = epoch + 1
  PROVE  Numbered'
<1>. DEFINE new == [epoch |-> e, seq |-> s, nth |-> n]
            cur == [epoch |-> epoch, seq |-> seq, nth |-> sent]
<1>1. epoch \in Nat /\ seq \in Nat /\ sent \in Nat /\ cur \in FrameNumbers /\ FrameNumbers \subseteq Places
  BY Placed DEF LogType
<1>2. \A a \in FrameNumbers : a.epoch \in Nat /\ a.seq \in Nat /\ a.nth \in Nat /\ a.epoch <= epoch
  BY <1>1 DEF Numbered, Places
<1>3. new.epoch = e /\ new.seq = s /\ new.nth = n
  OBVIOUS
<1>4. \A a, b \in FrameNumbers : a.epoch = b.epoch => a.nth - a.seq = b.nth - b.seq
  BY DEF Numbered
<1>5. ASSUME NEW a \in FrameNumbers PROVE a.epoch <= e
  BY <1>1, <1>2
<1>6. ASSUME NEW a \in FrameNumbers, a.epoch = e PROVE a.nth - a.seq = n - s
  <2>1. e = epoch /\ n - s = sent - seq
    BY <1>1, <1>2, <1>6
  <2>2. a.nth - a.seq = cur.nth - cur.seq
    BY <1>1, <1>4, <1>6, <2>1
  <2>. QED
    BY <2>1, <2>2
<1>. HIDE DEF new, cur
<1>7. ASSUME NEW a \in FrameNumbers', NEW b \in FrameNumbers'
      PROVE  a.epoch <= epoch' /\ (a.epoch = b.epoch => a.nth - a.seq = b.nth - b.seq)
  <2>1. (a \in FrameNumbers \/ a = new) /\ (b \in FrameNumbers \/ b = new)
    BY DEF new
  <2>2. a.epoch <= e
    BY <2>1, <1>3, <1>5
  <2>3. CASE a \in FrameNumbers /\ b \in FrameNumbers
    BY <2>3, <2>2, <1>4
  <2>4. CASE a \in FrameNumbers /\ b = new
    BY <2>4, <2>2, <1>3, <1>6
  <2>5. CASE a = new /\ b \in FrameNumbers
    BY <2>5, <2>2, <1>3, <1>6
  <2>6. CASE a = new /\ b = new
    BY <2>6, <2>2
  <2>. QED
    BY <2>1, <2>3, <2>4, <2>5, <2>6
<1>. QED
  BY <1>7 DEF Numbered

\* What leaves numbers out keeps them in step.
LEMMA FewerNumbers ==
  ASSUME Numbered, FrameNumbers' \subseteq FrameNumbers, epoch' = epoch
  PROVE  Numbered'
BY DEF Numbered

\* What the capture's record adds to the log.
LEMMA LogsSound ==
  ASSUME LogInv, NEW accepted \in BOOLEAN, NEW sight \in Sights, NEW nth \in Nat,
         Logs(accepted, sight, nth), accepted => rec' \in Records,
         accepted /\ rec'.kind = "health" /\ rec'.status = "ok" => ~owed,
         accepted /\ rec'.kind = "frame" /\ rec'.quality # "points" => sight = NoSight,
         owed' => faulty', UNCHANGED <<last, missed>>
  PROVE  /\ unread' \in Seq(Entries) /\ Honest'
         /\ FrameNumbers' \subseteq (FrameNumbers \cup
              (IF accepted /\ rec'.kind = "frame"
               THEN {[epoch |-> rec'.epoch, seq |-> rec'.seq, nth |-> nth]} ELSE {})
              \cup {[epoch |-> epoch', seq |-> seq', nth |-> sent']})
<1>. DEFINE e == [record |-> rec', sight |-> sight, nth |-> nth, told |-> ~owed]
            cur == [epoch |-> epoch', seq |-> seq', nth |-> sent']
<1>1. unread \in Seq(Entries) /\ Honest /\ owed \in BOOLEAN
  BY DEF LogInv, LogType
<1>2. CASE ~accepted
  <2>1. unread' = unread
    BY <1>2 DEF Logs
  <2>2. Honest'
    BY <2>1, <1>1 DEF Honest
  <2>3. FrameNumbers' \subseteq (FrameNumbers \cup {cur})
    BY <2>1 DEF FrameNumbers, InLog
  <2>. QED
    BY <2>1, <2>2, <2>3, <1>1, <1>2
<1>3. CASE accepted
  <2>1. e \in Entries
    BY <1>1, <1>3 DEF Entries
  <2>2. unread' = Append(unread, e)
    BY <1>3 DEF Logs
  <2>3. /\ unread' \in Seq(Entries) /\ DOMAIN unread' = 1..Len(unread) + 1
        /\ unread'[Len(unread) + 1] = e /\ DOMAIN unread = 1..Len(unread) /\ Len(unread) \in Nat
        /\ \A i \in DOMAIN unread : unread'[i] = unread[i]
    <3>. HIDE DEF e
    <3>. QED
      BY <2>1, <2>2, LogGrows DEF LogInv
  <2>4. \A i \in DOMAIN unread' : i \in DOMAIN unread \/ i = Len(unread) + 1
    BY <2>3
  <2>5. /\ e.record = rec' /\ e.told = ~owed /\ e.sight = sight /\ e.nth = nth
    OBVIOUS
  <2>. HIDE DEF e
  <2>6. ASSUME NEW i \in DOMAIN unread'
        PROVE  /\ unread'[i].record.kind = "health" /\ unread'[i].record.status = "ok" => unread'[i].told
               /\ unread'[i].record.kind = "frame" /\ unread'[i].record.quality # "points" =>
                    unread'[i].sight = NoSight
    <3>1. CASE i \in DOMAIN unread
      BY <3>1, <2>3, <1>1 DEF Honest
    <3>2. CASE i = Len(unread) + 1
      BY <3>2, <2>3, <2>5, <1>3
    <3>. QED
      BY <2>4, <3>1, <3>2
  <2>7. Honest'
    BY <2>6 DEF Honest
  <2>8. ASSUME NEW i \in InLog'
        PROVE  \/ Place(unread'[i]) \in FrameNumbers
               \/ rec'.kind = "frame" /\ Place(unread'[i]) = [epoch |-> rec'.epoch, seq |-> rec'.seq, nth |-> nth]
    <3>1. i \in DOMAIN unread' /\ unread'[i].record.kind = "frame"
      BY DEF InLog
    <3>2. CASE i \in DOMAIN unread
      <4>1. i \in InLog /\ unread'[i] = unread[i]
        BY <3>1, <3>2, <2>3 DEF InLog
      <4>. QED
        BY <4>1, Placed DEF LogInv
    <3>3. CASE i = Len(unread) + 1
      BY <3>1, <3>3, <2>3, <2>5 DEF Place
    <3>. QED
      BY <3>1, <3>2, <3>3, <2>4
  <2>9. FrameNumbers' = {Place(unread'[i]) : i \in InLog'}
          \cup {[epoch |-> last.epoch, seq |-> last.seq, nth |-> missed.nth], cur}
    BY DEF FrameNumbers, Place
  <2>10. [epoch |-> last.epoch, seq |-> last.seq, nth |-> missed.nth] \in FrameNumbers
    BY Placed DEF LogInv
  <2>. HIDE DEF cur
  <2>11. FrameNumbers' \subseteq (FrameNumbers \cup
              (IF accepted /\ rec'.kind = "frame"
               THEN {[epoch |-> rec'.epoch, seq |-> rec'.seq, nth |-> nth]} ELSE {})
              \cup {cur})
    BY <2>8, <2>9, <2>10, <1>3
  <2>. QED
    BY <2>3, <2>7, <2>11 DEF cur
<1>. QED
  BY <1>2, <1>3

\* The log is sound at the start, and every step of the capture and of the
\* follower keeps it so.
LEMMA LogStart == ViewInit => LogInv
<1>. SUFFICES ASSUME ViewInit PROVE LogInv
  OBVIOUS
<1>1. /\ epoch = 1 /\ seq = 0 /\ sent = 0 /\ unread = <<>> /\ ~owed /\ harms = 0
      /\ last = [epoch |-> 0, seq |-> 0] /\ missed = [nth |-> 0, loss |-> FALSE]
  BY DEF ViewInit, Capture!Init
<1>2. LogType
  <2>1. rec \in Records
    BY DEF ViewInit, Capture!Init, Records, Capture!Healths
  <2>2. owed \in BOOLEAN /\ faulty \in BOOLEAN /\ cloud \in BOOLEAN /\ attached \in BOOLEAN
    BY DEF ViewInit, Capture!Init
  <2>. QED
    BY <1>1, <2>1, <2>2 DEF LogType
<1>3. Honest
  BY <1>1 DEF Honest
<1>4. Numbered
  <2>1. InLog = {}
    BY <1>1 DEF InLog
  <2>2. FrameNumbers = {[epoch |-> 0, seq |-> 0, nth |-> 0], [epoch |-> 1, seq |-> 0, nth |-> 0]}
    BY <1>1, <2>1 DEF FrameNumbers
  <2>. QED
    BY <1>1, <2>2 DEF Numbered
<1>. QED
  BY <1>2, <1>3, <1>4 DEF LogInv

LEMMA FrameStep ==
  ASSUME LogInv, CaptureFrame
  PROVE  LogInv'
<1>1. PICK d \in Gaps, q \in Capture!Qualities, a \in BOOLEAN,
           t \in {"first", "consecutive", "gap"} \cup Capture!Broken :
        /\ Costs(Harmful(d, t, q, a)) /\ Capture!Frame(d, t, q, a)
        /\ \E s \in IF a /\ q = "points" THEN Sightings ELSE {NoSight} : Logs(a, s, sent + 1)
  BY DEF CaptureFrame
<1>2. PICK s \in IF a /\ q = "points" THEN Sightings ELSE {NoSight} : Logs(a, s, sent + 1)
  BY <1>1
<1>3. /\ epoch \in Nat /\ seq \in Nat /\ sent \in Nat /\ harms \in Nat
      /\ owed \in BOOLEAN /\ faulty \in BOOLEAN /\ cloud \in BOOLEAN /\ (owed => faulty)
      /\ rec \in Records
  BY DEF LogInv, LogType, Honest
<1>4. /\ sent' = sent + 1 /\ UNCHANGED <<attached, last, missed>>
  BY DEF CaptureFrame, front, history
<1>5. harms' \in Nat
  BY <1>1, <1>3 DEF Costs
<1>6. /\ \/ epoch' = epoch + 1 /\ seq' = 1
         \/ epoch' = epoch /\ seq' = seq + 1
      /\ owed' \in BOOLEAN /\ faulty' \in BOOLEAN /\ cloud' \in BOOLEAN
      /\ (owed' => faulty')
      /\ rec' = IF a THEN [kind |-> "frame", epoch |-> epoch', seq |-> seq', dropped |-> d,
                           transition |-> t, quality |-> q] ELSE rec
  <2>1. \/ epoch' = epoch + 1 /\ seq' = 1
        \/ epoch' = epoch /\ seq' = seq + 1
    BY <1>1 DEF Capture!Frame
  <2>2. /\ owed' \in BOOLEAN /\ faulty' \in BOOLEAN /\ cloud' \in BOOLEAN /\ (owed' => faulty')
    BY <1>1, <1>3 DEF Capture!Frame
  <2>3. rec' = IF a THEN [kind |-> "frame", epoch |-> epoch', seq |-> seq', dropped |-> d,
                          transition |-> t, quality |-> q] ELSE rec
    BY <1>1 DEF Capture!Frame
  <2>. QED
    BY <2>1, <2>2, <2>3
<1>7. epoch' \in Nat /\ seq' \in Nat /\ sent' \in Nat
  BY <1>3, <1>4, <1>6
<1>8. rec' \in Records /\ (a => rec' \in Records)
  <2>1. t \in Capture!Transitions
    BY DEF Capture!Transitions
  <2>2. CASE a
    BY <2>1, <2>2, <1>6, <1>7 DEF Records, Capture!Frames
  <2>3. CASE ~a
    BY <2>3, <1>6, <1>3
  <2>. QED
    BY <2>2, <2>3
<1>9. s \in Sights /\ (q # "points" => s = NoSight)
  <2>1. NoSight \in Sights
    BY DEF NoSight, Sights
  <2>2. Sightings \subseteq Sights
    BY ViewAssumption DEF ViewAssumption, Sights
  <2>. QED
    BY <2>1, <2>2
<1>10. /\ unread' \in Seq(Entries) /\ Honest'
       /\ FrameNumbers' \subseteq (FrameNumbers \cup
            (IF a /\ rec'.kind = "frame"
             THEN {[epoch |-> rec'.epoch, seq |-> rec'.seq, nth |-> sent + 1]} ELSE {})
            \cup {[epoch |-> epoch', seq |-> seq', nth |-> sent']})
  <2>1. a => rec'.kind = "frame" /\ rec'.quality = q
    BY <1>6
  <2>2. sent + 1 \in Nat
    BY <1>3
  <2>. QED
    BY <2>1, <2>2, <1>2, <1>4, <1>6, <1>8, <1>9, LogsSound
<1>11. FrameNumbers' \subseteq (FrameNumbers \cup {[epoch |-> epoch', seq |-> seq', nth |-> sent']})
  <2>1. a => [epoch |-> rec'.epoch, seq |-> rec'.seq, nth |-> sent + 1]
               = [epoch |-> epoch', seq |-> seq', nth |-> sent']
    BY <1>4, <1>6
  <2>. QED
    BY <2>1, <1>10
<1>12. Numbered'
  <2>1. \/ epoch' = epoch /\ sent' - seq' = sent - seq
        \/ epoch' = epoch + 1
    BY <1>3, <1>4, <1>6
  <2>. QED
    BY <2>1, <1>7, <1>11, NextNumber DEF LogInv
<1>13. LogType'
  <2>1. attached' \in BOOLEAN /\ last' \in [epoch: Nat, seq: Nat] /\ missed' \in [nth: Nat, loss: BOOLEAN]
    BY <1>4 DEF LogInv, LogType
  <2>. QED
    BY <2>1, <1>5, <1>6, <1>7, <1>8, <1>10 DEF LogType
<1>. QED
  BY <1>10, <1>12, <1>13 DEF LogInv

\* What does not add a frame keeps the numbers.
LEMMA HealthLogged ==
  ASSUME LogInv, NEW accepted \in BOOLEAN, Logs(accepted, NoSight, sent),
         accepted => rec' \in Capture!Healths,
         accepted /\ rec'.status = "ok" => ~owed,
         owed' => faulty', UNCHANGED <<epoch, seq, sent, last, missed>>
  PROVE  unread' \in Seq(Entries) /\ Honest' /\ Numbered'
<1>1. sent \in Nat /\ NoSight \in Sights
  BY DEF LogInv, LogType, NoSight, Sights
<1>2. accepted => rec' \in Records /\ rec'.kind = "health"
  BY DEF Records, Capture!Healths
<1>3. /\ unread' \in Seq(Entries) /\ Honest'
      /\ FrameNumbers' \subseteq (FrameNumbers \cup
           (IF accepted /\ rec'.kind = "frame"
            THEN {[epoch |-> rec'.epoch, seq |-> rec'.seq, nth |-> sent]} ELSE {})
           \cup {[epoch |-> epoch', seq |-> seq', nth |-> sent']})
  BY <1>1, <1>2, LogsSound
<1>4. [epoch |-> epoch', seq |-> seq', nth |-> sent'] \in FrameNumbers
  BY Placed DEF LogInv
<1>5. FrameNumbers' \subseteq FrameNumbers
  BY <1>2, <1>3, <1>4
<1>. QED
  BY <1>3, <1>5, FewerNumbers DEF LogInv

LEMMA HealthStep ==
  ASSUME LogInv, NEW a \in BOOLEAN, CaptureHealth(a)
  PROVE  LogInv'
<1>1. PICK s \in {"ok", "degraded", "starting"} : Capture!Health(s, a)
  BY DEF CaptureHealth
<1>2. /\ owed \in BOOLEAN /\ faulty \in BOOLEAN /\ (owed => faulty) /\ harms \in Nat /\ rec \in Records
  BY DEF LogInv, LogType, Honest
<1>3. UNCHANGED <<epoch, seq, sent, attached, last, missed, cloud>>
  BY <1>1 DEF CaptureHealth, front, history, Capture!Health
<1>4. harms' \in Nat
  BY <1>2 DEF CaptureHealth, Costs
<1>5. /\ owed' \in BOOLEAN /\ faulty' \in BOOLEAN /\ (owed' => faulty')
  BY <1>1, <1>2 DEF Capture!Health
<1>6. /\ a => rec' \in Capture!Healths /\ (rec'.status = "ok" => ~owed)
      /\ ~a => rec' = rec
  <2>1. s = "ok" => ~owed
    BY <1>1 DEF Capture!Health
  <2>2. /\ a => rec' = [kind |-> "health", final |-> FALSE, status |-> s]
        /\ ~a => rec' = rec
    BY <1>1 DEF Capture!Health
  <2>3. [kind |-> "health", final |-> FALSE, status |-> s] \in Capture!Healths
    BY DEF Capture!Healths
  <2>4. [kind |-> "health", final |-> FALSE, status |-> s].status = s
    OBVIOUS
  <2>5. CASE a
    BY <2>1, <2>2, <2>3, <2>4, <2>5
  <2>6. CASE ~a
    BY <2>2, <2>6
  <2>. QED
    BY <2>5, <2>6
<1>7. rec' \in Records
  BY <1>2, <1>6 DEF Records
<1>8. unread' \in Seq(Entries) /\ Honest' /\ Numbered'
  <2>1. Logs(a, NoSight, sent)
    BY DEF CaptureHealth
  <2>. QED
    BY <2>1, <1>3, <1>5, <1>6, HealthLogged
<1>9. LogType'
  BY <1>3, <1>4, <1>5, <1>7, <1>8 DEF LogInv, LogType
<1>. QED
  BY <1>8, <1>9 DEF LogInv

LEMMA EndStep ==
  ASSUME LogInv, CaptureEnds
  PROVE  LogInv'
<1>1. PICK s \in {"ok", "degraded", "stale"} : Capture!Final(s)
  BY DEF CaptureEnds
<1>2. /\ owed \in BOOLEAN /\ faulty \in BOOLEAN /\ (owed => faulty)
  BY DEF LogInv, LogType, Honest
<1>3. UNCHANGED <<epoch, seq, sent, harms, attached, last, missed, cloud, owed, faulty>>
  BY <1>1 DEF CaptureEnds, front, history, Capture!Final
<1>4. rec' \in Capture!Healths /\ (rec'.status = "ok" => ~owed)
  BY <1>1, <1>2 DEF Capture!Final, Capture!Healths
<1>5. unread' \in Seq(Entries) /\ Honest' /\ Numbered'
  <2>1. Logs(TRUE, NoSight, sent) /\ (owed' => faulty')
    BY <1>2, <1>3 DEF CaptureEnds
  <2>. QED
    BY <2>1, <1>3, <1>4, HealthLogged
<1>6. LogType'
  BY <1>3, <1>4, <1>5 DEF LogInv, LogType, Records
<1>. QED
  BY <1>5, <1>6 DEF LogInv

LEMMA FaultStep ==
  ASSUME LogInv, CaptureFault
  PROVE  LogInv'
<1>1. /\ owed \in BOOLEAN /\ faulty \in BOOLEAN /\ (owed => faulty) /\ harms \in Nat /\ cloud \in BOOLEAN
  BY DEF LogInv, LogType, Honest
<1>2. UNCHANGED <<epoch, seq, sent, unread, attached, last, missed, rec>>
  <2>1. UNCHANGED <<sent, unread, attached, last, missed>>
    BY DEF CaptureFault, front, history
  <2>2. UNCHANGED <<epoch, seq, rec>>
    BY DEF CaptureFault, Capture!Fault
  <2>. QED
    BY <2>1, <2>2
<1>3. owed' \in BOOLEAN /\ faulty' \in BOOLEAN /\ (owed' => faulty') /\ cloud' \in BOOLEAN
  <2>1. cloud' \in {cloud, TRUE}
    BY DEF CaptureFault, Capture!Fault
  <2>2. \/ owed' = TRUE /\ faulty' = TRUE
        \/ owed' = owed /\ faulty' = faulty
    BY DEF CaptureFault, Capture!Fault
  <2>3. owed' \in BOOLEAN /\ faulty' \in BOOLEAN
    BY <1>1, <2>2
  <2>4. owed' => faulty'
    BY <1>1, <2>2
  <2>. QED
    BY <1>1, <2>1, <2>3, <2>4
<1>4. harms' \in Nat
  BY <1>1 DEF CaptureFault, Costs
<1>5. Honest'
  BY <1>2, <1>3 DEF LogInv, Honest
<1>6. FrameNumbers' = FrameNumbers
  BY <1>2 DEF FrameNumbers, InLog
<1>7. Numbered'
  BY <1>2, <1>6, FewerNumbers DEF LogInv
<1>8. LogType'
  BY <1>2, <1>3, <1>4 DEF LogInv, LogType
<1>. QED
  BY <1>5, <1>7, <1>8 DEF LogInv

LEMMA AttachStep ==
  ASSUME LogInv, Attach
  PROVE  LogInv'
<1>1. /\ unread' = <<>> /\ attached' = TRUE
      /\ UNCHANGED <<epoch, seq, owed, faulty, cloud, rec, sent, harms, last, missed>>
  BY DEF Attach, capture, history
<1>2. InLog' = {}
  BY <1>1 DEF InLog
<1>3. FrameNumbers' \subseteq FrameNumbers
  BY <1>1, <1>2 DEF FrameNumbers
<1>4. Numbered'
  BY <1>1, <1>3, FewerNumbers DEF LogInv
<1>5. Honest'
  BY <1>1 DEF LogInv, Honest
<1>6. LogType'
  BY <1>1 DEF LogInv, LogType
<1>. QED
  BY <1>4, <1>5, <1>6 DEF LogInv

\* The record that is taken in, and what stays behind it.
LEMMA HeadTaken ==
  ASSUME LogInv, unread # <<>>, unread' = Tail(unread),
         UNCHANGED <<epoch, seq, owed, faulty, sent>>
  PROVE  /\ Head(unread) \in Entries /\ unread' \in Seq(Entries) /\ Honest'
         /\ Head(unread).record.kind = "frame" => Place(Head(unread)) \in FrameNumbers
         /\ \A i \in InLog' : Place(unread'[i]) \in FrameNumbers
         /\ Head(unread).record.kind = "health" /\ Head(unread).record.status = "ok" =>
              Head(unread).told
         /\ Head(unread).record.kind = "frame" /\ Head(unread).record.quality # "points" =>
              Head(unread).sight = NoSight
<1>1. /\ unread \in Seq(Entries) /\ Len(unread) \in Nat /\ DOMAIN unread = 1..Len(unread)
      /\ 1 \in DOMAIN unread /\ Head(unread) = unread[1]
  BY DEF LogInv, LogType
<1>2. /\ unread' \in Seq(Entries) /\ DOMAIN unread' = 1..Len(unread) - 1
      /\ \A i \in 1..Len(unread) - 1 : unread'[i] = unread[i + 1]
  BY <1>1
<1>3. \A i \in DOMAIN unread' : i + 1 \in DOMAIN unread /\ unread'[i] = unread[i + 1]
  BY <1>1, <1>2
<1>4. Honest'
  BY <1>3 DEF LogInv, Honest
<1>5. \A i \in InLog' : i + 1 \in InLog /\ unread'[i] = unread[i + 1]
  BY <1>3 DEF InLog
<1>6. \A i \in InLog' : Place(unread'[i]) \in FrameNumbers
  BY <1>5, Placed DEF LogInv
<1>7. Head(unread).record.kind = "frame" => Place(Head(unread)) \in FrameNumbers
  <2>1. Head(unread).record.kind = "frame" => 1 \in InLog
    BY <1>1 DEF InLog
  <2>. QED
    BY <2>1, <1>1, Placed DEF LogInv
<1>8. /\ Head(unread).record.kind = "health" /\ Head(unread).record.status = "ok" => Head(unread).told
      /\ Head(unread).record.kind = "frame" /\ Head(unread).record.quality # "points" =>
           Head(unread).sight = NoSight
  BY <1>1 DEF LogInv, Honest
<1>9. Head(unread) \in Entries
  BY <1>1
<1>. QED
  BY <1>2, <1>4, <1>6, <1>7, <1>8, <1>9

LEMMA IngestStep ==
  ASSUME LogInv, Ingest
  PROVE  LogInv'
<1>. DEFINE e == Head(unread)
            r == e.record
            here == [epoch |-> last.epoch, seq |-> last.seq, nth |-> missed.nth]
            cur == [epoch |-> epoch, seq |-> seq, nth |-> sent]
<1>1. /\ unread # <<>> /\ unread' = Tail(unread)
      /\ UNCHANGED <<epoch, seq, owed, faulty, cloud, rec, sent, harms>>
  BY DEF Ingest, capture
<1>2. /\ e \in Entries /\ unread' \in Seq(Entries) /\ Honest'
      /\ r.kind = "frame" => Place(e) \in FrameNumbers
      /\ \A i \in InLog' : Place(unread'[i]) \in FrameNumbers
  BY <1>1, HeadTaken
<1>3. r \in Records /\ e.nth \in Nat
  BY <1>2 DEF Entries
<1>4. /\ attached' = attached
      /\ \/ /\ r.kind = "health" /\ last' = last /\ missed'.nth = missed.nth
            /\ missed' \in [nth: Nat, loss: BOOLEAN]
         \/ /\ r.kind = "frame" /\ last' = [epoch |-> r.epoch, seq |-> r.seq]
            /\ missed'.nth = e.nth /\ missed' \in [nth: Nat, loss: BOOLEAN]
  <2>1. missed \in [nth: Nat, loss: BOOLEAN]
    BY DEF LogInv, LogType
  <2>2. CASE r.kind = "health"
    <3>1. IngestHealth(r, e.told)
      BY <2>2 DEF Ingest
    <3>2. last' = last /\ attached' = attached
          /\ missed' = [missed EXCEPT !.loss = @ /\ ~(r.status = "ok" /\ e.told)]
      BY <3>1 DEF IngestHealth
    <3>. QED
      BY <2>1, <2>2, <3>2
  <2>3. CASE r.kind # "health"
    <3>1. r.kind = "frame"
      BY <2>3, <1>3 DEF Records, Capture!Frames, Capture!Healths
    <3>2. IngestFrame(r, e.sight) /\ Misses(r, e.nth)
      BY <2>3 DEF Ingest
    <3>3. last' = [epoch |-> r.epoch, seq |-> r.seq] /\ attached' = attached
      BY <3>2 DEF IngestFrame
    <3>4. missed'.nth = e.nth /\ missed' \in [nth: Nat, loss: BOOLEAN]
      BY <3>2, <1>3, <2>1 DEF Misses
    <3>. QED
      BY <3>1, <3>3, <3>4
  <2>. QED
    BY <2>2, <2>3
<1>5. here \in FrameNumbers /\ cur \in FrameNumbers
  BY Placed DEF LogInv
<1>6. [epoch |-> last'.epoch, seq |-> last'.seq, nth |-> missed'.nth] \in FrameNumbers
  <2>1. CASE r.kind = "health" /\ last' = last /\ missed'.nth = missed.nth
    BY <2>1, <1>5
  <2>2. CASE r.kind = "frame" /\ last' = [epoch |-> r.epoch, seq |-> r.seq] /\ missed'.nth = e.nth
    BY <2>2, <1>2 DEF Place
  <2>. QED
    BY <2>1, <2>2, <1>4
<1>7. FrameNumbers' \subseteq FrameNumbers
  <2>1. FrameNumbers' = {Place(unread'[i]) : i \in InLog'}
          \cup {[epoch |-> last'.epoch, seq |-> last'.seq, nth |-> missed'.nth],
                [epoch |-> epoch', seq |-> seq', nth |-> sent']}
    BY DEF FrameNumbers, Place
  <2>2. [epoch |-> epoch', seq |-> seq', nth |-> sent'] \in FrameNumbers
    BY <1>1, <1>5
  <2>. QED
    BY <2>1, <2>2, <1>2, <1>6
<1>8. Numbered'
  BY <1>1, <1>7, FewerNumbers DEF LogInv
<1>9. last' \in [epoch: Nat, seq: Nat]
  <2>1. r.kind = "frame" => r.epoch \in Nat /\ r.seq \in Nat
    BY <1>3 DEF Records, Capture!Frames, Capture!Healths
  <2>2. last \in [epoch: Nat, seq: Nat]
    BY DEF LogInv, LogType
  <2>. QED
    BY <2>1, <2>2, <1>4
<1>10. LogType'
  BY <1>1, <1>2, <1>4, <1>9 DEF LogInv, LogType
<1>. QED
  BY <1>2, <1>8, <1>10 DEF LogInv

-----------------------------------------------------------------------------
(* The tracks of a frame.                                                  *)

\* The last element of a sequence may be replaced.
LEMMA LastChanged ==
  ASSUME NEW S, NEW s \in Seq(S), NEW v \in S
  PROVE  [s EXCEPT ![Len(s)] = v] \in Seq(S)
<1>1. Len(s) \in Nat /\ s \in [1..Len(s) -> S]
  OBVIOUS
<1>2. [s EXCEPT ![Len(s)] = v] \in [1..Len(s) -> S]
  BY <1>1
<1>. QED
  BY <1>1, <1>2

\* A return makes a track, or moves one that may take it.
Makes(ts, p, src) ==
  /\ Candidates(ts, p, src) = {}
  /\ \E u \in Track : /\ u.at = p /\ u.source = src
                      /\ Upsert(ts, p, src) = Append(ts, u)
Shifts(ts, p, src) ==
  \E i \in Candidates(ts, p, src), u \in Track :
    /\ i \in DOMAIN ts /\ u.at = p /\ u.source = src /\ u.age = 0
    /\ u.latched = ts[i].latched
    /\ Upsert(ts, p, src) = [ts EXCEPT ![i] = u]

LEMMA UpsertShape ==
  ASSUME NEW ts \in Seq(Track), NEW p \in Nat, NEW src \in {"point", "heatmap"}
  PROVE  Upsert(ts, p, src) \in Seq(Track) /\ (Makes(ts, p, src) \/ Shifts(ts, p, src))
<1>. DEFINE C == Candidates(ts, p, src)
            i == Nearest(ts, p, C)
            new == [at |-> p, source |-> src, age |-> 0, latched |-> FALSE,
                    hits |-> <<src = "point">>, updated |-> src = "point"]
<1>1. CASE C = {}
  <2>1. Upsert(ts, p, src) = Append(ts, new)
    BY <1>1 DEF Upsert
  <2>2. new \in Track /\ new.at = p /\ new.source = src
    BY DEF Track
  <2>. HIDE DEF new
  <2>3. Append(ts, new) \in Seq(Track)
    BY <2>2
  <2>. QED
    BY <2>1, <2>2, <2>3, <1>1 DEF Makes
<1>2. CASE C # {}
  <2>1. C \subseteq DOMAIN ts
    BY DEF Candidates
  <2>2. i \in C
    BY <2>1, <1>2, NearestIsOne
  <2>. DEFINE t == ts[i]
              m == Moved(t, p, src)
              u == IF src = "point" THEN Hit(m) ELSE m
  <2>3. Upsert(ts, p, src) = [ts EXCEPT ![i] = u]
    BY <1>2 DEF Upsert
  <2>. HIDE DEF i, C
  <2>4. i \in DOMAIN ts /\ t \in Track
    BY <2>1, <2>2
  <2>. HIDE DEF t
  <2>5. /\ m \in Track /\ m.at = p /\ m.source = src /\ m.age = 0 /\ m.latched = t.latched
    BY <2>4 DEF Moved, Track
  <2>. HIDE DEF m
  <2>6. /\ u \in Track /\ u.at = p /\ u.source = src /\ u.age = 0 /\ u.latched = t.latched
    <3>1. CASE src = "point"
      <4>. DEFINE h == [m.hits EXCEPT ![Len(m.hits)] = TRUE]
      <4>1. h \in Seq(BOOLEAN)
        <5>. DEFINE g == m.hits
        <5>1. g \in Seq(BOOLEAN)
          BY <2>5 DEF Track
        <5>. HIDE DEF g
        <5>. QED
          BY <5>1, LastChanged DEF g
      <4>2. u = [m EXCEPT !.hits = h, !.updated = TRUE]
        BY <3>1, <2>5 DEF Hit, Track
      <4>. HIDE DEF h, u
      <4>. QED
        BY <4>1, <4>2, <2>5 DEF Track
    <3>2. CASE src # "point"
      BY <3>2, <2>5
    <3>. QED
      BY <3>1, <3>2
  <2>. HIDE DEF u
  <2>7. [ts EXCEPT ![i] = u] \in Seq(Track)
    BY <2>4, <2>6
  <2>. QED
    BY <2>2, <2>3, <2>4, <2>6, <2>7 DEF C, t, Shifts
<1>. QED
  BY <1>1, <1>2

\* Frames that the device dropped are windows without a hit: at most three count.
LEMMA Widths ==
  ASSUME NEW ts \in Seq(Track), NEW d \in Nat
  PROVE  \E n \in Nat : /\ 1 <= n /\ n <= 3 /\ n <= d + 1 /\ (n = d + 1 \/ n = 3)
                        /\ NextWindows(ts, d) = [i \in DOMAIN ts |-> Widened(ts[i], n)]
<1>. DEFINE n == IF d + 1 < 3 THEN d + 1 ELSE 3
<1>1. n \in Nat /\ 1 <= n /\ n <= 3 /\ n <= d + 1 /\ (n = d + 1 \/ n = 3)
  OBVIOUS
<1>2. NextWindows(ts, d) = [i \in DOMAIN ts |-> Widened(ts[i], n)]
  BY DEF NextWindows, Widened
<1>. QED
  <2>. HIDE DEF n
  <2>. QED
    BY <1>1, <1>2

\* Windows leave a track where it is.
LEMMA WidenedType ==
  ASSUME NEW t \in Track, NEW n \in Nat
  PROVE  /\ Widened(t, n) \in Track /\ Widened(t, n).at = t.at /\ Widened(t, n).age = t.age
         /\ Widened(t, n).source = t.source /\ Widened(t, n).latched = t.latched
         /\ Widened(t, n).updated = FALSE
<1>. DEFINE f == [k \in 1..n |-> FALSE]
            h == t.hits \o f
<1>1. h \in Seq(BOOLEAN)
  <2>1. f \in Seq(BOOLEAN) /\ t.hits \in Seq(BOOLEAN)
    BY DEF Track
  <2>. HIDE DEF f
  <2>. QED
    BY <2>1
<1>. HIDE DEF h
<1>2. Shortened(h) \in Seq(BOOLEAN)
  BY <1>1, Recent
<1>3. Widened(t, n) = [t EXCEPT !.hits = Shortened(h), !.updated = FALSE]
  BY DEF Widened, h
<1>. QED
  BY <1>2, <1>3 DEF Track

\* The tracks a frame begins with, each in its new window.
Begun(ts, d) == NextWindows(Unexpired(ts), d)

\* They are those that are young enough, and all of those.
LEMMA Began ==
  ASSUME NEW ts \in Seq(Track), NEW d \in Nat
  PROVE  /\ Begun(ts, d) \in Seq(Track) /\ Len(Begun(ts, d)) <= Len(ts)
         /\ \A j \in DOMAIN Begun(ts, d) : \E i \in DOMAIN ts, n \in Nat :
              /\ ts[i].age < Ttl /\ Begun(ts, d)[j] = Widened(ts[i], n)
              /\ 1 <= n /\ n <= 3 /\ n <= d + 1 /\ (n = d + 1 \/ n = 3)
         /\ \A i \in DOMAIN ts : ts[i].age < Ttl =>
              \E j \in DOMAIN Begun(ts, d), n \in Nat : Begun(ts, d)[j] = Widened(ts[i], n)
<1>. DEFINE x == Unexpired(ts)
            Young == {ts[i] : i \in {i \in DOMAIN ts : ts[i].age < Ttl}}
<1>1. /\ x \in Seq(Young) /\ Len(x) <= Len(ts)
      /\ \A i \in DOMAIN ts : ts[i].age < Ttl => \E j \in DOMAIN x : x[j] = ts[i]
  BY Kept
<1>. HIDE DEF x
<1>2. Young \subseteq Track
  OBVIOUS
<1>3. x \in Seq(Track) /\ DOMAIN x = 1..Len(x) /\ Len(x) \in Nat
      /\ \A j \in DOMAIN x : x[j] \in Young /\ x[j] \in Track
  <2>. HIDE DEF Young
  <2>. QED
    BY <1>1, <1>2
<1>4. PICK n \in Nat : /\ 1 <= n /\ n <= 3 /\ n <= d + 1 /\ (n = d + 1 \/ n = 3)
                       /\ NextWindows(x, d) = [j \in DOMAIN x |-> Widened(x[j], n)]
  BY <1>3, Widths
<1>. DEFINE y == [j \in DOMAIN x |-> Widened(x[j], n)]
<1>5. Begun(ts, d) = y
  BY <1>4 DEF Begun, x
<1>6. y \in Seq(Track) /\ Len(y) = Len(x)
  <2>1. \A j \in 1..Len(x) : Widened(x[j], n) \in Track
    BY <1>3, WidenedType
  <2>. QED
    BY <2>1, <1>3
<1>7. ASSUME NEW j \in DOMAIN y
      PROVE  \E i \in DOMAIN ts : ts[i].age < Ttl /\ y[j] = Widened(ts[i], n)
  BY <1>3
<1>8. ASSUME NEW i \in DOMAIN ts, ts[i].age < Ttl
      PROVE  \E j \in DOMAIN y : y[j] = Widened(ts[i], n)
  <2>1. PICK j \in DOMAIN x : x[j] = ts[i]
    BY <1>1, <1>8
  <2>. QED
    BY <2>1
<1>. HIDE DEF y
<1>9. \A j \in DOMAIN y : \E i \in DOMAIN ts, m \in Nat :
        /\ ts[i].age < Ttl /\ y[j] = Widened(ts[i], m)
        /\ 1 <= m /\ m <= 3 /\ m <= d + 1 /\ (m = d + 1 \/ m = 3)
  BY <1>4, <1>7
<1>10. \A i \in DOMAIN ts : ts[i].age < Ttl =>
         \E j \in DOMAIN y, m \in Nat : y[j] = Widened(ts[i], m)
  BY <1>8
<1>11. Len(y) <= Len(ts)
  BY <1>1, <1>6
<1>. QED
  BY <1>5, <1>6, <1>9, <1>10, <1>11

\* What the latest frame saw, and what was seen of late.
Latest(seen, sight) == seen \cup {[at |-> p, age |-> 0] : p \in Returns(sight)}

\* A frame keeps the tracks earned.
LEMMA SceneSound ==
  ASSUME NEW ts \in Seq(Track), NEW ws \in Seq(Seen), NEW seen, NEW red \in BOOLEAN,
         NEW d \in Nat, NEW sight \in Sights,
         \A i \in DOMAIN ts : Sound(ts[i], ws, seen, red)
  PROVE  Scene(ts, d, sight)
           \in InFrame(Extended(ws, d, Returns(sight)), Latest(seen, sight), red)
<1>. DEFINE y == Begun(ts, d)
            vs == Extended(ws, d, Returns(sight))
            al == Latest(seen, sight)
            S == InFrame(vs, al, red)
<1>1. /\ sight.points \in Seq(Nat) /\ sight.heat \in Seq(Nat) /\ Returns(sight) \subseteq Nat
      /\ \A k \in 1..Len(sight.points) : sight.points[k] \in Returns(sight) /\ sight.points[k] \in Nat
      /\ \A k \in 1..Len(sight.heat) : sight.heat[k] \in Nat
  <2>1. sight.points \in Seq(Nat) /\ sight.heat \in Seq(Nat)
    BY DEF Sights
  <2>2. \A k \in DOMAIN sight.points : sight.points[k] \in Nat
    BY <2>1
  <2>3. Returns(sight) \subseteq Nat
    BY <2>2 DEF Returns
  <2>4. \A k \in 1..Len(sight.points) : sight.points[k] \in Returns(sight)
    BY <2>1 DEF Returns
  <2>5. \A k \in 1..Len(sight.heat) : sight.heat[k] \in Nat
    BY <2>1
  <2>. QED
    BY <2>1, <2>3, <2>4, <2>5
<1>2. /\ vs \in Seq(Seen) /\ 1 <= Len(vs) /\ Ago(vs, 0) = [at |-> Returns(sight), age |-> 0]
  <2>1. /\ vs \in Seq(Seen) /\ Ago(vs, 0) = [at |-> Returns(sight), age |-> 0]
        /\ Len(vs) = IF Len(ws) + d + 1 > 3 THEN 3 ELSE Len(ws) + d + 1
    BY <1>1, NewWindow
  <2>2. Len(ws) \in Nat
    OBVIOUS
  <2>. HIDE DEF vs
  <2>. QED
    BY <2>1, <2>2
<1>3. seen \subseteq al /\ \A p \in Returns(sight) : [at |-> p, age |-> 0] \in al
  BY DEF Latest
<1>4. y \in S
  <2>1. /\ y \in Seq(Track)
        /\ \A j \in DOMAIN y : \E i \in DOMAIN ts, n \in Nat :
             /\ ts[i].age < Ttl /\ y[j] = Widened(ts[i], n)
             /\ 1 <= n /\ n <= 3 /\ n <= d + 1 /\ (n = d + 1 \/ n = 3)
    BY Began
  <2>. HIDE DEF y, al
  <2>2. ASSUME NEW j \in DOMAIN y
        PROVE  Sound(y[j], vs, al, red) /\ (~y[j].updated => ~Ago(y[j].hits, 0))
    <3>1. PICK i \in DOMAIN ts, n \in Nat :
            /\ ts[i].age < Ttl /\ y[j] = Widened(ts[i], n)
            /\ 1 <= n /\ n <= 3 /\ n <= d + 1 /\ (n = d + 1 \/ n = 3)
      BY <2>1
    <3>2. ts[i] \in Track /\ Sound(ts[i], ws, seen, red)
      OBVIOUS
    <3>. DEFINE t == ts[i]
                u == Widened(t, n)
    <3>. HIDE DEF t
    <3>3. t \in Track /\ Sound(t, ws, seen, red) /\ y[j] = u
      BY <3>1, <3>2 DEF t
    <3>4. Earned(u, vs) /\ ~Ago(u.hits, 0)
      BY <3>1, <3>3, <1>1, StillEarned DEF Sound
    <3>5. u.at = t.at /\ u.age = t.age /\ u.source = t.source /\ u.latched = t.latched
      BY <3>3, WidenedType
    <3>. HIDE DEF u
    <3>6. Lives(u, al) /\ (u.latched => red)
      BY <3>3, <3>5, <1>3 DEF Sound, Lives
    <3>. QED
      BY <3>3, <3>4, <3>6 DEF Sound
  <2>. QED
    BY <2>1, <2>2 DEF InFrame
<1>5. UpsertAll(y, sight.points, "point") \in S
  <2>1. ASSUME NEW k \in 1..Len(sight.points), NEW x \in S
        PROVE  Upsert(x, sight.points[k], "point") \in S
    <3>. DEFINE p == sight.points[k]
    <3>1. p \in Nat /\ p \in Ago(vs, 0).at /\ Ago(vs, 0).age = 0 /\ [at |-> p, age |-> 0] \in al
      BY <1>1, <1>2, <1>3
    <3>. HIDE DEF p, vs, al
    <3>2. Upsert(x, p, "point") \in InFrame(vs, al, red)
      BY <3>1, <1>2, UpsertPoint
    <3>. QED
      BY <3>2 DEF p
  <2>. HIDE DEF S, y
  <2>. QED
    BY <2>1, <1>1, <1>4, Upserts
<1>6. UpsertAll(UpsertAll(y, sight.points, "point"), sight.heat, "heatmap") \in S
  <2>1. ASSUME NEW k \in 1..Len(sight.heat), NEW x \in S
        PROVE  Upsert(x, sight.heat[k], "heatmap") \in S
    <3>. HIDE DEF vs, al
    <3>. QED
      BY <1>1, <1>2, UpsertCell
  <2>. DEFINE z == UpsertAll(y, sight.points, "point")
  <2>2. z \in S
    BY <1>5
  <2>. HIDE DEF S, y, z
  <2>3. UpsertAll(z, sight.heat, "heatmap") \in S
    BY <2>1, <2>2, <1>1, Upserts
  <2>. QED
    BY <2>3 DEF z
<1>. QED
  BY <1>6 DEF Scene, Begun

\* A frame without a return that could lead it away leaves the red track near.
LEMMA SceneRed ==
  ASSUME NEW ts \in Seq(Track), NEW d \in Nat, NEW sight \in Sights,
         NEW i \in DOMAIN ts, HoldsRed(ts[i]),
         \A p \in Returns(sight) : ~(DangerExit <= p /\ p < DangerExit + Association)
  PROVE  \E j \in DOMAIN Scene(ts, d, sight) : HoldsRed(Scene(ts, d, sight)[j])
<1>. DEFINE y == Begun(ts, d)
            S == {x \in Seq(Track) : \E j \in DOMAIN x : HoldsRed(x[j])}
<1>1. /\ sight.points \in Seq(Nat) /\ sight.heat \in Seq(Nat)
      /\ \A k \in 1..Len(sight.points) : sight.points[k] \in Returns(sight) /\ sight.points[k] \in Nat
      /\ \A k \in 1..Len(sight.heat) : sight.heat[k] \in Nat
  <2>1. sight.points \in Seq(Nat) /\ sight.heat \in Seq(Nat)
    BY DEF Sights
  <2>. QED
    BY <2>1 DEF Returns
<1>2. y \in S
  <2>1. y \in Seq(Track) /\ \E j \in DOMAIN y, n \in Nat : y[j] = Widened(ts[i], n)
    <3>1. ts[i].age < Ttl
      BY DEF HoldsRed
    <3>. QED
      BY <3>1, Began
  <2>. HIDE DEF y
  <2>2. PICK j \in DOMAIN y, n \in Nat : y[j] = Widened(ts[i], n)
    BY <2>1
  <2>3. ts[i] \in Track
    OBVIOUS
  <2>4. HoldsRed(y[j])
    <3>. DEFINE t == ts[i]
                u == Widened(t, n)
    <3>1. t \in Track /\ HoldsRed(t) /\ y[j] = u
      BY <2>2, <2>3
    <3>. HIDE DEF t
    <3>2. u.at = t.at /\ u.age = t.age /\ u.source = t.source /\ u.latched = t.latched
      BY <3>1, WidenedType
    <3>. HIDE DEF u
    <3>. QED
      BY <3>1, <3>2 DEF HoldsRed
  <2>. QED
    BY <2>1, <2>4
<1>3. ASSUME NEW x \in S, NEW p \in Nat, NEW src \in {"point", "heatmap"},
             src = "point" => ~(DangerExit <= p /\ p < DangerExit + Association)
      PROVE  Upsert(x, p, src) \in S
  <2>1. PICK j \in DOMAIN x : HoldsRed(x[j])
    OBVIOUS
  <2>2. x \in Seq(Track) /\ x[j] \in Track
    BY <2>1
  <2>3. Upsert(x, p, src) \in Seq(Track)
    BY <2>2, UpsertShape
  <2>4. CASE Makes(x, p, src)
    <3>1. j \in DOMAIN Upsert(x, p, src) /\ Upsert(x, p, src)[j] = x[j]
      BY <2>1, <2>2, <2>4 DEF Makes
    <3>. QED
      BY <3>1, <2>1, <2>3
  <2>5. CASE Shifts(x, p, src)
    <3>1. PICK k \in Candidates(x, p, src), u \in Track :
               /\ k \in DOMAIN x /\ u.at = p /\ u.source = src /\ u.age = 0
               /\ u.latched = x[k].latched /\ Upsert(x, p, src) = [x EXCEPT ![k] = u]
      BY <2>5 DEF Shifts
    <3>2. j \in DOMAIN Upsert(x, p, src)
          /\ Upsert(x, p, src)[j] = IF j = k THEN u ELSE x[j]
      BY <2>1, <2>2, <3>1
    <3>3. CASE j # k
      BY <3>2, <3>3, <2>1, <2>3
    <3>4. CASE j = k
      <4>1. src = "point" /\ Distance(x[j].at, p) <= Association
        BY <3>1, <3>4, <2>1 DEF Candidates, HoldsRed
      <4>2. p < DangerExit + Association
        <5>1. x[j].at \in Nat /\ x[j].at < DangerExit
          BY <2>1, <2>2 DEF Track, HoldsRed
        <5>. QED
          BY <5>1, <4>1, Near
      <4>3. p < DangerExit
        BY <4>1, <4>2, <1>3 DEF DangerExit, Association
      <4>4. HoldsRed(u)
        <5>1. 0 < Ttl
          BY ViewAssumption DEF ViewAssumption
        <5>. QED
          BY <5>1, <4>1, <4>3, <3>1, <3>4, <2>1 DEF HoldsRed
      <4>. QED
        BY <4>4, <3>2, <3>4, <2>3
    <3>. QED
      BY <3>3, <3>4
  <2>6. Makes(x, p, src) \/ Shifts(x, p, src)
    <3>1. x \in Seq(Track) /\ p \in Nat /\ src \in {"point", "heatmap"}
      BY <2>2
    <3>. QED
      BY ONLY <3>1, UpsertShape
  <2>. QED
    BY <2>4, <2>5, <2>6
<1>4. UpsertAll(y, sight.points, "point") \in S
  <2>1. ASSUME NEW k \in 1..Len(sight.points), NEW x \in S
        PROVE  Upsert(x, sight.points[k], "point") \in S
    <3>. HIDE DEF S
    <3>. QED
      BY <1>1, <1>3
  <2>. HIDE DEF S, y
  <2>. QED
    BY <2>1, <1>1, <1>2, Upserts
<1>5. UpsertAll(UpsertAll(y, sight.points, "point"), sight.heat, "heatmap") \in S
  <2>1. ASSUME NEW k \in 1..Len(sight.heat), NEW x \in S
        PROVE  Upsert(x, sight.heat[k], "heatmap") \in S
    <3>. HIDE DEF S
    <3>. QED
      BY <1>1, <1>3
  <2>. DEFINE z == UpsertAll(y, sight.points, "point")
  <2>2. z \in S
    BY <1>4
  <2>. HIDE DEF S, y, z
  <2>3. UpsertAll(z, sight.heat, "heatmap") \in S
    BY <2>1, <2>2, <1>1, Upserts
  <2>. QED
    BY <2>3 DEF z
<1>6. Scene(ts, d, sight) \in S
  BY <1>5 DEF Scene, Begun
<1>. QED
  BY <1>6

\* One return, and near: it continues the only track.
LEMMA SceneOne ==
  ASSUME NEW ts \in Seq(Track), NEW ws \in Seq(Seen), OneOnly(ts, ws),
         NEW d \in Nat, NEW sight \in Sights, Single(sight)
  PROVE  OneOnly(Scene(ts, d, sight), Extended(ws, d, Returns(sight)))
<1>. DEFINE y == Begun(ts, d)
            vs == Extended(ws, d, Returns(sight))
            z == UpsertAll(y, sight.points, "point")
<1>1. /\ sight.points \in Seq(Nat) /\ sight.heat = <<>> /\ Len(sight.points) <= 1
      /\ Len(sight.points) \in Nat
      /\ \A p \in Returns(sight) : p \in Nat /\ p <= Association
  <2>1. sight.points \in Seq(Nat) /\ sight.heat = <<>> /\ Len(sight.points) <= 1
    BY DEF Sights, Single
  <2>2. \A p \in Returns(sight) : p \in Nat /\ p <= Association
    BY <2>1 DEF Returns, Single
  <2>. QED
    BY <2>1, <2>2
<1>2. Ago(vs, 0).at = Returns(sight)
  <2>1. Returns(sight) \in SUBSET Nat
    BY <1>1
  <2>2. Ago(vs, 0) = [at |-> Returns(sight), age |-> 0]
    BY <2>1, NewWindow
  <2>. QED
    BY <2>2
<1>3. /\ y \in Seq(Track) /\ Len(y) <= 1 /\ DOMAIN y = 1..Len(y) /\ Len(y) \in Nat
      /\ \A j \in DOMAIN y : /\ y[j] \in Track /\ y[j].source = "point" /\ y[j].at <= Association
                             /\ y[j].updated = FALSE
  <2>1. /\ y \in Seq(Track) /\ Len(y) <= Len(ts)
        /\ \A j \in DOMAIN y : \E i \in DOMAIN ts, n \in Nat : y[j] = Widened(ts[i], n)
    BY Began
  <2>. HIDE DEF y
  <2>2. DOMAIN y = 1..Len(y) /\ Len(y) \in Nat /\ \A j \in DOMAIN y : y[j] \in Track
    BY <2>1
  <2>3. Len(y) <= 1
    <3>1. Len(ts) <= 1 /\ Len(ts) \in Nat
      BY DEF OneOnly
    <3>. QED
      BY <3>1, <2>1, <2>2
  <2>4. ASSUME NEW j \in DOMAIN y
        PROVE  y[j].source = "point" /\ y[j].at <= Association /\ y[j].updated = FALSE
    <3>1. PICK i \in DOMAIN ts, n \in Nat : y[j] = Widened(ts[i], n)
      BY <2>1
    <3>. DEFINE t == ts[i]
                u == Widened(t, n)
    <3>2. t \in Track /\ t.source = "point" /\ t.at <= Association /\ y[j] = u
      BY <3>1 DEF OneOnly
    <3>. HIDE DEF t
    <3>3. u.at = t.at /\ u.source = t.source /\ u.updated = FALSE
      BY <3>2, WidenedType
    <3>. HIDE DEF u
    <3>. QED
      BY <3>2, <3>3
  <2>. QED
    BY <2>1, <2>2, <2>3, <2>4
<1>. HIDE DEF y
<1>4. Scene(ts, d, sight) = z /\ (Len(sight.points) = 0 => z = y)
      /\ (Len(sight.points) = 1 => z = Upsert(y, sight.points[1], "point"))
  <2>1. ASSUME NEW k \in 1..Len(sight.points), NEW x \in Seq(Track)
        PROVE  Upsert(x, sight.points[k], "point") \in Seq(Track)
    <3>1. sight.points[k] \in Nat
      BY <1>1
    <3>. QED
      BY <3>1, UpsertShape
  <2>2. z \in Seq(Track) /\ (Len(sight.points) = 0 => z = y)
        /\ (Len(sight.points) = 1 => z = Upsert(y, sight.points[1], "point"))
    BY <2>1, <1>1, <1>3, Upserts
  <2>. HIDE DEF z
  <2>3. UpsertAll(z, sight.heat, "heatmap") = z
    <3>1. sight.heat \in Seq(Nat) /\ Len(sight.heat) = 0
      BY <1>1
    <3>. QED
      BY <3>1, NoReturns
  <2>. QED
    BY <2>2, <2>3 DEF Scene, Begun, y, z
<1>. HIDE DEF z, vs
<1>5. CASE Len(sight.points) = 0
  <2>1. Returns(sight) = {}
    BY <1>1, <1>5 DEF Returns
  <2>2. Scene(ts, d, sight) = y /\ Ago(vs, 0).at = {}
    BY <2>1, <1>2, <1>4, <1>5
  <2>3. OneOnly(y, vs)
    BY <2>2, <1>3 DEF OneOnly
  <2>. QED
    BY <2>2, <2>3 DEF vs
<1>6. CASE Len(sight.points) = 1
  <2>. DEFINE p == sight.points[1]
  <2>1. Returns(sight) = {p} /\ p \in Nat /\ p <= Association
    <3>1. DOMAIN sight.points = {1}
      BY <1>1, <1>6
    <3>2. Returns(sight) = {p}
      BY <3>1 DEF Returns
    <3>. QED
      BY <3>2, <1>1
  <2>. HIDE DEF p
  <2>2. z = Upsert(y, p, "point")
    BY <1>4, <1>6 DEF p
  <2>3. Len(z) = 1 /\ DOMAIN z = {1} /\ z[1].source = "point" /\ z[1].at = p
    <3>1. CASE Makes(y, p, "point")
      <4>1. DOMAIN y = {}
        <5>1. ASSUME NEW j \in DOMAIN y PROVE FALSE
          <6>1. /\ y[j].at \in Nat /\ y[j].at <= Association /\ ~y[j].updated
            BY <1>3 DEF Track
          <6>2. Distance(y[j].at, p) <= Association
            BY <6>1, <2>1 DEF Distance, Association
          <6>. QED
            BY <6>1, <6>2, <3>1 DEF Candidates, Makes
        <5>. QED
          BY <5>1
      <4>2. Len(y) = 0
        BY <4>1, <1>3
      <4>3. PICK u \in Track : u.at = p /\ u.source = "point" /\ z = Append(y, u)
        BY <2>2, <3>1 DEF Makes
      <4>4. Len(z) = 1 /\ z[1] = u /\ DOMAIN z = 1..1
        BY <4>2, <4>3, <1>3
      <4>5. 1..1 = {1}
        OBVIOUS
      <4>. QED
        BY <4>3, <4>4, <4>5
    <3>2. CASE Shifts(y, p, "point")
      <4>1. PICK k \in DOMAIN y, u \in Track :
                 u.at = p /\ u.source = "point" /\ z = [y EXCEPT ![k] = u]
        BY <2>2, <3>2 DEF Shifts
      <4>2. k = 1 /\ Len(y) = 1
        BY <1>3
      <4>3. Len(z) = 1 /\ z[1] = u /\ DOMAIN z = 1..1
        BY <4>1, <4>2, <1>3
      <4>4. 1..1 = {1}
        OBVIOUS
      <4>. QED
        BY <4>1, <4>3, <4>4
    <3>3. Makes(y, p, "point") \/ Shifts(y, p, "point")
      <4>1. y \in Seq(Track) /\ p \in Nat /\ "point" \in {"point", "heatmap"}
        BY <2>1, <1>3
      <4>. QED
        BY ONLY <4>1, UpsertShape
    <3>. QED
      BY <2>2, <3>1, <3>2, <3>3
  <2>4. OneOnly(z, vs)
    <3>1. Ago(vs, 0).at = {p}
      BY <2>1, <1>2
    <3>. QED
      BY <2>1, <2>3, <3>1 DEF OneOnly
  <2>. QED
    BY <2>4, <1>4 DEF vs
<1>. QED
  <2>. DEFINE n == Len(sight.points)
  <2>2. n \in Nat /\ n <= 1
    BY <1>1
  <2>. HIDE DEF n
  <2>3. n = 0 \/ n = 1
    BY <2>2
  <2>1. Len(sight.points) = 0 \/ Len(sight.points) = 1
    BY <2>3 DEF n
  <2>. QED
    BY <2>1, <1>5, <1>6

-----------------------------------------------------------------------------
(* A record is taken in.                                                   *)

\* The view has seen nothing of a step of the capture.
LEMMA SceneStill ==
  ASSUME SceneInv,
         UNCHANGED <<age, formatNone, degraded, sceneEpoch, scene, shown, history>>
  PROVE  SceneInv'
<1>1. UNCHANGED <<age, formatNone, degraded, sceneEpoch, producer, trusted, tracks, shown,
                  windows, alive, alone, since, missed>>
  BY DEF scene, history
<1>2. SceneType'
  BY <1>1 DEF SceneInv, SceneType
<1>3. LossShows'
  BY <1>1 DEF SceneInv, LossShows
<1>4. TracksEarned'
  BY <1>1 DEF SceneInv, TracksEarned
<1>5. OneObject'
  BY <1>1 DEF SceneInv, OneObject
<1>6. RedHeld'
  BY <1>1 DEF SceneInv, RedHeld
<1>. QED
  BY <1>2, <1>3, <1>4, <1>5, <1>6 DEF SceneInv

\* A record that is missing leaves a gap in the record numbers of its epoch.
LEMMA LossStep ==
  ASSUME LogInv, LossShows, degraded \in BOOLEAN, Ingest
  PROVE  LossShows' /\ degraded' \in BOOLEAN
<1>. DEFINE e == Head(unread)
            r == e.record
            here == [epoch |-> last.epoch, seq |-> last.seq, nth |-> missed.nth]
<1>1. /\ unread # <<>> /\ unread' = Tail(unread)
      /\ UNCHANGED <<epoch, seq, owed, faulty, cloud, rec, sent, harms>>
  BY DEF Ingest, capture
<1>2. /\ e \in Entries
      /\ r.kind = "frame" => Place(e) \in FrameNumbers
      /\ r.kind = "health" /\ r.status = "ok" => e.told
  BY <1>1, HeadTaken
<1>3. r \in Records /\ e.nth \in Nat
  BY <1>2 DEF Entries
<1>4. missed \in [nth: Nat, loss: BOOLEAN] /\ last \in [epoch: Nat, seq: Nat]
  BY DEF LogInv, LogType
<1>5. CASE r.kind = "health"
  <2>1. IngestHealth(r, e.told)
    BY <1>5 DEF Ingest
  <2>2. /\ degraded' = IF r.status = "ok" THEN FALSE ELSE degraded \/ r.status # "starting"
        /\ missed' = [missed EXCEPT !.loss = @ /\ ~(r.status = "ok" /\ e.told)]
    BY <2>1 DEF IngestHealth
  <2>3. missed'.loss = (missed.loss /\ ~(r.status = "ok" /\ e.told))
    BY <2>2, <1>4
  <2>4. CASE r.status = "ok"
    BY <2>2, <2>3, <2>4, <1>2, <1>5 DEF LossShows
  <2>5. CASE r.status # "ok"
    <3>1. degraded' = (degraded \/ r.status # "starting")
      BY <2>2, <2>5
    <3>2. missed'.loss => missed.loss
      BY <2>3
    <3>. QED
      BY <3>1, <3>2 DEF LossShows
  <2>. QED
    BY <2>4, <2>5
<1>6. CASE r.kind # "health"
  <2>1. r.kind = "frame" /\ r.epoch \in Nat /\ r.seq \in Nat
    BY <1>3, <1>6 DEF Records, Capture!Frames, Capture!Healths
  <2>2. IngestFrame(r, e.sight) /\ Misses(r, e.nth)
    BY <1>6 DEF Ingest
  <2>3. degraded' = (degraded \/ r.transition \in Capture!Broken \/ ~(r.quality # "incomplete")
                     \/ r.dropped > 0 \/ SequenceIssue(r))
    BY <2>2 DEF IngestFrame
  <2>4. missed'.loss => \/ missed.loss \/ r.dropped > 0 \/ r.quality = "incomplete"
                        \/ last.epoch = r.epoch /\ e.nth # missed.nth + 1
    BY <2>2 DEF Misses
  <2>5. last.epoch = r.epoch /\ e.nth # missed.nth + 1 => SequenceIssue(r)
    <3>1. here \in FrameNumbers /\ Place(e) \in FrameNumbers
      BY <2>1, <1>2, Placed DEF LogInv
    <3>2. last.epoch = r.epoch => missed.nth - last.seq = e.nth - r.seq
      <4>1. here.epoch = Place(e).epoch => here.nth - here.seq = Place(e).nth - Place(e).seq
        BY <3>1 DEF LogInv, Numbered
      <4>. QED
        BY <4>1 DEF Place
    <3>3. missed.nth \in Nat /\ last.seq \in Nat
      BY <1>4
    <3>. QED
      BY <3>2, <3>3, <2>1, <1>3 DEF SequenceIssue
  <2>. QED
    BY <2>3, <2>4, <2>5 DEF LossShows
<1>. QED
  BY <1>5, <1>6

\* A health record changes nothing of the scene.
LEMMA SceneHealth ==
  ASSUME SceneInv, NEW r, NEW told, IngestHealth(r, told), UNCHANGED shown,
         LossShows', degraded' \in BOOLEAN
  PROVE  SceneInv'
<1>1. UNCHANGED <<age, formatNone, sceneEpoch, producer, trusted, tracks, shown,
                  windows, alive, alone, since>>
  BY DEF IngestHealth, scene
<1>2. SceneType'
  BY <1>1 DEF SceneInv, SceneType
<1>4. TracksEarned'
  BY <1>1 DEF SceneInv, TracksEarned
<1>5. OneObject'
  BY <1>1 DEF SceneInv, OneObject
<1>6. RedHeld'
  BY <1>1 DEF SceneInv, RedHeld
<1>. QED
  BY <1>2, <1>4, <1>5, <1>6 DEF SceneInv


\* What is left when the view has to forget, or has not.
LeftBy(forget, ts, ws, seen) ==
  \/ forget /\ ts = <<>> /\ ws = <<>> /\ seen = {}
  \/ ~forget /\ ts = tracks /\ ws = windows /\ seen = alive

\* A red view that had nothing to forget.
Red == shown.level = "DANGER" /\ ~since.forgot

\* What is left is sound.
LEMMA LeftSound ==
  ASSUME SceneInv, NEW forget \in BOOLEAN, NEW ts, NEW ws, NEW seen, LeftBy(forget, ts, ws, seen)
  PROVE  /\ ts \in Seq(Track) /\ ws \in Seq(Seen) /\ seen \subseteq [at: Nat, age: Nat]
         /\ \A i \in DOMAIN ts : Sound(ts[i], ws, seen, Red /\ ~forget)
         /\ alone \/ forget => OneOnly(ts, ws)
         /\ Red /\ ~forget /\ ~since.far /\ ~since.lapsed =>
              trusted /\ \E i \in DOMAIN ts : HoldsRed(ts[i])
<1>1. CASE forget /\ ts = <<>> /\ ws = <<>> /\ seen = {}
  <2>1. ts \in Seq(Track) /\ ws \in Seq(Seen) /\ DOMAIN ts = {} /\ Len(ts) = 0
    BY <1>1
  <2>2. OneOnly(ts, ws)
    BY <2>1, <1>1 DEF OneOnly
  <2>. QED
    BY <2>1, <2>2, <1>1
<1>2. CASE ~forget /\ ts = tracks /\ ws = windows /\ seen = alive
  <2>1. ts \in Seq(Track) /\ ws \in Seq(Seen) /\ seen \subseteq [at: Nat, age: Nat]
    BY <1>2 DEF SceneInv, SceneType
  <2>2. \A i \in DOMAIN ts : Sound(ts[i], ws, seen, Red)
    BY <1>2 DEF SceneInv, TracksEarned, Red
  <2>3. alone => OneOnly(ts, ws)
    BY <1>2 DEF SceneInv, OneObject
  <2>4. Red /\ ~since.far /\ ~since.lapsed => trusted /\ \E i \in DOMAIN ts : HoldsRed(ts[i])
    BY <1>2 DEF SceneInv, RedHeld, Red
  <2>5. (Red /\ ~forget) = Red
    BY <1>2 DEF Red
  <2>6. \A i \in DOMAIN ts : Sound(ts[i], ws, seen, Red /\ ~forget)
    BY <2>2, <2>5
  <2>. QED
    BY <2>1, <2>3, <2>4, <2>6, <1>2
<1>. QED
  BY <1>1, <1>2 DEF LeftBy

\* The tracks hold what a view needs.
Holds(ts, ws, seen, red, one, held) ==
  /\ ts \in Seq(Track) /\ ws \in Seq(Seen) /\ seen \subseteq [at: Nat, age: Nat]
  /\ \A i \in DOMAIN ts : Sound(ts[i], ws, seen, red)
  /\ one => OneOnly(ts, ws)
  /\ held => \E i \in DOMAIN ts : HoldsRed(ts[i])

\* A frame keeps it so.
LEMMA SceneHolds ==
  ASSUME NEW ts, NEW ws, NEW seen, NEW red \in BOOLEAN, NEW one \in BOOLEAN, NEW held \in BOOLEAN,
         Holds(ts, ws, seen, red, one, held),
         NEW d \in Nat, NEW sight \in Sights, one => Single(sight),
         held => \A p \in Returns(sight) : ~(DangerExit <= p /\ p < DangerExit + Association)
  PROVE  Holds(Scene(ts, d, sight), Extended(ws, d, Returns(sight)), Latest(seen, sight),
               red, one, held)
<1>1. /\ ts \in Seq(Track) /\ ws \in Seq(Seen) /\ seen \subseteq [at: Nat, age: Nat]
      /\ \A i \in DOMAIN ts : Sound(ts[i], ws, seen, red)
  BY DEF Holds
<1>2. Returns(sight) \in SUBSET Nat
  <2>1. sight.points \in Seq(Nat)
    BY DEF Sights
  <2>. QED
    BY <2>1 DEF Returns
<1>3. Extended(ws, d, Returns(sight)) \in Seq(Seen)
  BY <1>1, <1>2, NewWindow
<1>4. Latest(seen, sight) \subseteq [at: Nat, age: Nat]
  BY <1>1, <1>2 DEF Latest
<1>5. Scene(ts, d, sight) \in InFrame(Extended(ws, d, Returns(sight)), Latest(seen, sight), red)
  BY <1>1, SceneSound
<1>6. /\ Scene(ts, d, sight) \in Seq(Track)
      /\ \A i \in DOMAIN Scene(ts, d, sight) :
           Sound(Scene(ts, d, sight)[i], Extended(ws, d, Returns(sight)), Latest(seen, sight), red)
  BY <1>5 DEF InFrame
<1>7. ASSUME one
      PROVE  OneOnly(Scene(ts, d, sight), Extended(ws, d, Returns(sight)))
  <2>1. OneOnly(ts, ws) /\ Single(sight)
    BY <1>7 DEF Holds
  <2>. QED
    BY <2>1, <1>1, SceneOne
<1>8. ASSUME held
      PROVE  \E i \in DOMAIN Scene(ts, d, sight) : HoldsRed(Scene(ts, d, sight)[i])
  <2>1. PICK i \in DOMAIN ts : HoldsRed(ts[i])
    BY <1>8 DEF Holds
  <2>. QED
    BY <2>1, <1>1, <1>8, SceneRed
<1>. QED
  BY <1>3, <1>4, <1>6, <1>7, <1>8 DEF Holds

\* What a frame does: it joins the tracks, or the view has no use for the scene,
\* or it has nothing to show.
Joins(r, sight, forget) ==
  \E ts, ws, seen :
    /\ LeftBy(forget, ts, ws, seen)
    /\ tracks' = Scene(ts, r.dropped, sight)
    /\ windows' = Extended(ws, r.dropped, Returns(sight))
    /\ alive' = Latest(seen, sight)
    /\ alone' = ((alone \/ forget) /\ Single(sight))
    /\ trusted' = TRUE
    /\ since' = [since EXCEPT
         !.forgot = @ \/ forget,
         !.far = @ \/ \E p \in Returns(sight) : DangerExit <= p /\ p < DangerExit + Association]
Clears ==
  /\ tracks' = <<>> /\ windows' = <<>> /\ alive' = {} /\ alone' = TRUE
  /\ trusted' \in BOOLEAN
  /\ \E far \in BOOLEAN : since' = [since EXCEPT !.forgot = TRUE, !.far = far]
Passes(forget) ==
  /\ LeftBy(forget, tracks', windows', alive')
  /\ alone' = (alone \/ forget) /\ trusted' = trusted
  /\ since' = [since EXCEPT !.forgot = @ \/ forget]

\* Those are all the effects a frame may have.
LEMMA FrameEffect ==
  ASSUME SceneInv, NEW r \in Capture!Frames, NEW sight \in Sights,
         r.quality # "points" => sight = NoSight, IngestFrame(r, sight)
  PROVE  (\E forget \in BOOLEAN : Joins(r, sight, forget) \/ Passes(forget)) \/ Clears
<1>. DEFINE broken == r.transition \in Capture!Broken
            complete == r.quality # "incomplete"
            foreign == sceneEpoch # None /\ sceneEpoch # r.epoch
            estranged == foreign \/ broken \/ (producer # None /\ producer # r.epoch)
            forget == IF complete THEN estranged ELSE foreign \/ broken
            left == IF forget THEN <<>> ELSE tracks
            old == IF forget \/ ~sight.bound THEN <<>> ELSE windows
            seen == complete /\ sight.bound
            now == IF seen THEN Returns(sight) ELSE {}
            gone == forget \/ ~sight.bound
            skipped == [k \in 1..r.dropped |-> [at |-> {}, age |-> 0]]
<1>1. /\ windows' = IF seen THEN Shortened((old \o skipped) \o <<[at |-> now, age |-> 0]>>) ELSE old
      /\ alive' = (IF gone THEN {} ELSE alive) \cup {[at |-> p, age |-> 0] : p \in now}
      /\ alone' = ((alone \/ gone) /\ (seen => Single(sight)))
      /\ since' = [since EXCEPT
           !.forgot = @ \/ gone,
           !.far = @ \/ \E p \in now : DangerExit <= p /\ p < DangerExit + Association]
  BY DEF IngestFrame, Remember
<1>2. IF complete
      THEN /\ trusted' = sight.bound
           /\ tracks' = IF sight.bound THEN Scene(left, r.dropped, sight) ELSE <<>>
      ELSE tracks' = left /\ trusted' = trusted
  BY DEF IngestFrame
<1>3. forget \in BOOLEAN /\ sight.bound \in BOOLEAN /\ alone \in BOOLEAN /\ complete \in BOOLEAN
      /\ since \in [forgot: BOOLEAN, far: BOOLEAN, lapsed: BOOLEAN]
  BY DEF SceneInv, SceneType, Sights
<1>. HIDE DEF forget, complete
<1>4. CASE seen
  <2>. DEFINE ws0 == IF forget THEN <<>> ELSE windows
              al0 == IF forget THEN {} ELSE alive
  <2>1. LeftBy(forget, left, ws0, al0)
    BY <1>3 DEF LeftBy
  <2>2. tracks' = Scene(left, r.dropped, sight) /\ trusted' = TRUE
    BY <1>2, <1>4
  <2>3. windows' = Extended(ws0, r.dropped, Returns(sight))
    <3>1. old = ws0 /\ now = Returns(sight)
      BY <1>4
    <3>2. windows' = Shortened((ws0 \o skipped) \o <<[at |-> Returns(sight), age |-> 0]>>)
      BY <1>1, <1>4, <3>1
    <3>. QED
      BY <3>2 DEF Extended, Empty
  <2>4. alive' = Latest(al0, sight)
    BY <1>1, <1>4 DEF Latest
  <2>5. alone' = ((alone \/ forget) /\ Single(sight))
    BY <1>1, <1>4
  <2>6. since' = [since EXCEPT
           !.forgot = @ \/ forget,
           !.far = @ \/ \E p \in Returns(sight) : DangerExit <= p /\ p < DangerExit + Association]
    <3>1. gone = forget /\ now = Returns(sight)
      BY <1>3, <1>4
    <3>. HIDE DEF gone, now
    <3>. QED
      BY <1>1, <3>1
  <2>. HIDE DEF left, ws0, al0
  <2>7. Joins(r, sight, forget)
    BY <2>1, <2>2, <2>3, <2>4, <2>5, <2>6 DEF Joins
  <2>. QED
    BY <2>7, <1>3
<1>5. CASE ~sight.bound
  <2>1. tracks' = <<>> /\ trusted' \in BOOLEAN
    <3>1. complete = TRUE
      <4>1. NoSight.bound = TRUE
        BY DEF NoSight
      <4>2. sight # NoSight
        BY <4>1, <1>5
      <4>3. r.quality = "points"
        BY <4>2
      <4>. QED
        BY <4>3 DEF complete
    <3>. QED
      BY <3>1, <1>2, <1>3, <1>5
  <2>2. windows' = <<>> /\ alive' = {} /\ alone' = TRUE
    <3>1. gone = TRUE /\ seen = FALSE /\ now = {} /\ old = <<>>
      BY <1>3, <1>5
    <3>. HIDE DEF gone, seen, now, old
    <3>. QED
      BY <1>1, <3>1
  <2>3. \E far \in BOOLEAN : since' = [since EXCEPT !.forgot = TRUE, !.far = far]
    <3>1. gone /\ (since.forgot \/ gone) = TRUE
      BY <1>3, <1>5
    <3>. DEFINE far == since.far \/ \E p \in now : DangerExit <= p /\ p < DangerExit + Association
    <3>2. far \in BOOLEAN
      OBVIOUS
    <3>3. since' = [since EXCEPT !.forgot = TRUE, !.far = far]
      <4>. HIDE DEF gone, now
      <4>. QED
        BY <1>1, <3>1
    <3>. HIDE DEF far
    <3>. QED
      BY <3>2, <3>3
  <2>4. Clears
    BY <2>1, <2>2, <2>3 DEF Clears
  <2>. QED
    BY <2>4
<1>6. CASE ~complete /\ sight.bound
  <2>1. tracks' = left /\ trusted' = trusted
    BY <1>2, <1>6
  <2>2. now = {} /\ gone = forget /\ ~seen
    BY <1>3, <1>6
  <2>3. windows' = IF forget THEN <<>> ELSE windows
    BY <1>1, <1>6, <2>2
  <2>4. alive' = IF forget THEN {} ELSE alive
    BY <1>1, <1>6, <2>2
  <2>5. alone' = (alone \/ forget)
    BY <1>1, <1>3, <1>6, <2>2
  <2>6. since' = [since EXCEPT !.forgot = @ \/ forget]
    <3>1. since' = [since EXCEPT
            !.forgot = @ \/ forget,
            !.far = @ \/ \E p \in {} : DangerExit <= p /\ p < DangerExit + Association]
      <4>. HIDE DEF gone, now
      <4>. QED
        BY <1>1, <2>2
    <3>2. (since.far \/ \E p \in {} : DangerExit <= p /\ p < DangerExit + Association) = since.far
      BY <1>3
    <3>. QED
      BY <3>1, <3>2, <1>3
  <2>7. LeftBy(forget, tracks', windows', alive')
    BY <2>1, <2>3, <2>4, <1>3 DEF LeftBy
  <2>8. Passes(forget)
    BY <2>1, <2>5, <2>6, <2>7 DEF Passes
  <2>. QED
    BY <2>8, <1>3
<1>. QED
  BY <1>3, <1>4, <1>5, <1>6

\* Whatever a frame does, it keeps the scene sound.
LEMMA FrameScene ==
  ASSUME SceneInv, NEW r \in Capture!Frames, NEW sight \in Sights,
         r.quality # "points" => sight = NoSight, IngestFrame(r, sight), UNCHANGED shown,
         LossShows', degraded' \in BOOLEAN
  PROVE  SceneInv'
<1>1. /\ age \in Nat \cup {None} /\ formatNone \in BOOLEAN /\ producer \in Nat \cup {None}
      /\ trusted \in BOOLEAN /\ alone \in BOOLEAN
      /\ since \in [forgot: BOOLEAN, far: BOOLEAN, lapsed: BOOLEAN]
  BY DEF SceneInv, SceneType
<1>2. r.epoch \in Nat /\ r.dropped \in Nat
  BY ViewAssumption DEF ViewAssumption, Capture!Frames
<1>3. /\ age' \in Nat \cup {None} /\ formatNone' \in BOOLEAN
      /\ sceneEpoch' \in Nat \cup {None} /\ producer' \in Nat \cup {None}
  <2>1. sceneEpoch' = r.epoch
    BY DEF IngestFrame
  <2>2. CASE r.quality # "incomplete"
    <3>1. age' = 0 /\ formatNone' = (r.quality = "none") /\ producer' = r.epoch
      BY <2>2 DEF IngestFrame
    <3>. QED
      BY <3>1, <2>1, <1>2
  <2>3. CASE r.quality = "incomplete"
    <3>1. age' = age /\ formatNone' = formatNone /\ (producer' = None \/ producer' = producer)
      BY <2>3 DEF IngestFrame
    <3>. QED
      BY <3>1, <2>1, <1>1, <1>2
  <2>. QED
    BY <2>2, <2>3
<1>4. shown \in [status: {"waiting", "fault", "stale", "degraded", "live"},
                 level: {"SENSOR_FAULT", "DANGER", "NORMAL", "UNKNOWN"}]
  BY DEF SceneInv, SceneType
<1>5. ASSUME /\ trusted' \in BOOLEAN /\ tracks' \in Seq(Track) /\ windows' \in Seq(Seen)
             /\ alive' \subseteq [at: Nat, age: Nat] /\ alone' \in BOOLEAN
             /\ since' \in [forgot: BOOLEAN, far: BOOLEAN, lapsed: BOOLEAN],
             TracksEarned', OneObject', RedHeld'
      PROVE  SceneInv'
  <2>1. SceneType'
    BY <1>3, <1>4, <1>5 DEF SceneType
  <2>. QED
    BY <2>1, <1>5 DEF SceneInv
<1>6. CASE Clears
  <2>1. PICK far \in BOOLEAN : since' = [since EXCEPT !.forgot = TRUE, !.far = far]
    BY <1>6 DEF Clears
  <2>2. since' \in [forgot: BOOLEAN, far: BOOLEAN, lapsed: BOOLEAN] /\ since'.forgot
    BY <2>1, <1>1
  <2>3. /\ tracks' = <<>> /\ windows' = <<>> /\ alive' = {} /\ alone' = TRUE /\ trusted' \in BOOLEAN
    BY <1>6 DEF Clears
  <2>4. TracksEarned' /\ RedHeld' /\ OneObject'
    <3>1. DOMAIN tracks' = {} /\ Len(tracks') = 0
      BY <2>3
    <3>. QED
      BY <2>2, <2>3, <3>1 DEF TracksEarned, RedHeld, OneObject, OneOnly
  <2>. QED
    BY <2>2, <2>3, <2>4, <1>5
<1>7. ASSUME NEW forget \in BOOLEAN, Joins(r, sight, forget)
      PROVE  SceneInv'
  <2>1. PICK ts, ws, seen :
          /\ LeftBy(forget, ts, ws, seen)
          /\ tracks' = Scene(ts, r.dropped, sight)
          /\ windows' = Extended(ws, r.dropped, Returns(sight))
          /\ alive' = Latest(seen, sight)
          /\ alone' = ((alone \/ forget) /\ Single(sight))
          /\ trusted' = TRUE
          /\ since' = [since EXCEPT
               !.forgot = @ \/ forget,
               !.far = @ \/ \E p \in Returns(sight) : DangerExit <= p /\ p < DangerExit + Association]
    BY <1>7 DEF Joins
  <2>. DEFINE red == Red /\ ~forget
              one == alone'
              held == shown'.level = "DANGER" /\ ~since'.forgot /\ ~since'.far /\ ~since'.lapsed
  <2>2. /\ since' \in [forgot: BOOLEAN, far: BOOLEAN, lapsed: BOOLEAN]
        /\ since'.forgot = (since.forgot \/ forget)
        /\ since'.lapsed = since.lapsed
        /\ since'.far = (since.far \/ \E p \in Returns(sight) :
                                        DangerExit <= p /\ p < DangerExit + Association)
    BY <2>1, <1>1
  <2>3. /\ red = (shown'.level = "DANGER" /\ ~since'.forgot)
        /\ red \in BOOLEAN /\ one \in BOOLEAN /\ held \in BOOLEAN
    BY <2>1, <2>2 DEF Red
  <2>4. held => Red /\ ~forget /\ ~since.far /\ ~since.lapsed
    BY <2>2 DEF Red
  <2>5. held => \A p \in Returns(sight) : ~(DangerExit <= p /\ p < DangerExit + Association)
    BY <2>2
  <2>6. one => (alone \/ forget) /\ Single(sight)
    BY <2>1
  <2>. HIDE DEF red, one, held
  <2>7. Holds(ts, ws, seen, red, one, held)
    <3>1. /\ ts \in Seq(Track) /\ ws \in Seq(Seen) /\ seen \subseteq [at: Nat, age: Nat]
          /\ \A i \in DOMAIN ts : Sound(ts[i], ws, seen, Red /\ ~forget)
          /\ alone \/ forget => OneOnly(ts, ws)
          /\ Red /\ ~forget /\ ~since.far /\ ~since.lapsed =>
               trusted /\ \E i \in DOMAIN ts : HoldsRed(ts[i])
      BY <2>1, LeftSound
    <3>. QED
      BY <3>1, <2>4, <2>6 DEF Holds, red
  <2>8. Holds(tracks', windows', alive', red, one, held)
    <3>. DEFINE d == r.dropped
    <3>1. d \in Nat
      BY <1>2
    <3>2. one => Single(sight)
      BY <2>6
    <3>. HIDE DEF d
    <3>3. Holds(Scene(ts, d, sight), Extended(ws, d, Returns(sight)), Latest(seen, sight),
                red, one, held)
      BY <3>1, <3>2, <2>3, <2>5, <2>7, SceneHolds
    <3>. QED
      BY <3>3, <2>1 DEF d
  <2>9. /\ tracks' \in Seq(Track) /\ windows' \in Seq(Seen) /\ alive' \subseteq [at: Nat, age: Nat]
        /\ \A i \in DOMAIN tracks' : Sound(tracks'[i], windows', alive', red)
        /\ one => OneOnly(tracks', windows')
        /\ held => \E i \in DOMAIN tracks' : HoldsRed(tracks'[i])
    BY <2>8 DEF Holds
  <2>10. TracksEarned'
    BY <2>3, <2>9 DEF TracksEarned
  <2>11. OneObject'
    BY <2>9 DEF OneObject, one
  <2>12. RedHeld'
    BY <2>1, <2>9 DEF RedHeld, held
  <2>13. trusted' \in BOOLEAN /\ alone' \in BOOLEAN
    BY <2>1, <2>3 DEF one
  <2>. QED
    BY <2>2, <2>9, <2>10, <2>11, <2>12, <2>13, <1>5
<1>8. ASSUME NEW forget \in BOOLEAN, Passes(forget)
      PROVE  SceneInv'
  <2>1. /\ LeftBy(forget, tracks', windows', alive')
        /\ alone' = (alone \/ forget) /\ trusted' = trusted
        /\ since' = [since EXCEPT !.forgot = @ \/ forget]
    BY <1>8 DEF Passes
  <2>2. /\ tracks' \in Seq(Track) /\ windows' \in Seq(Seen) /\ alive' \subseteq [at: Nat, age: Nat]
        /\ \A i \in DOMAIN tracks' : Sound(tracks'[i], windows', alive', Red /\ ~forget)
        /\ alone \/ forget => OneOnly(tracks', windows')
        /\ Red /\ ~forget /\ ~since.far /\ ~since.lapsed =>
             trusted /\ \E i \in DOMAIN tracks' : HoldsRed(tracks'[i])
    BY <2>1, LeftSound
  <2>3. /\ since' \in [forgot: BOOLEAN, far: BOOLEAN, lapsed: BOOLEAN]
        /\ since'.forgot = (since.forgot \/ forget)
        /\ since'.lapsed = since.lapsed /\ since'.far = since.far
    BY <2>1, <1>1
  <2>4. (Red /\ ~forget) = (shown'.level = "DANGER" /\ ~since'.forgot)
    BY <2>3 DEF Red
  <2>5. TracksEarned'
    BY <2>2, <2>4 DEF TracksEarned
  <2>6. OneObject'
    BY <2>1, <2>2 DEF OneObject
  <2>7. RedHeld'
    BY <2>1, <2>2, <2>3, <2>4 DEF RedHeld
  <2>8. alone' \in BOOLEAN /\ trusted' \in BOOLEAN
    BY <2>1, <1>1
  <2>. QED
    BY <2>2, <2>3, <2>5, <2>6, <2>7, <2>8, <1>5
<1>. QED
  BY <1>6, <1>7, <1>8, FrameEffect

\* So does every record that is taken in.
LEMMA SceneIngest ==
  ASSUME LogInv, SceneInv, Ingest
  PROVE  SceneInv'
<1>. DEFINE e == Head(unread)
            r == e.record
<1>1. /\ unread # <<>> /\ unread' = Tail(unread)
      /\ UNCHANGED <<epoch, seq, owed, faulty, cloud, rec, sent, harms>> /\ UNCHANGED shown
  BY DEF Ingest, capture
<1>2. e \in Entries /\ (r.kind = "frame" /\ r.quality # "points" => e.sight = NoSight)
  BY <1>1, HeadTaken
<1>3. LossShows' /\ degraded' \in BOOLEAN
  <2>1. LossShows /\ degraded \in BOOLEAN
    BY DEF SceneInv, SceneType
  <2>. QED
    BY <2>1, LossStep
<1>4. CASE r.kind = "health"
  <2>1. IngestHealth(r, e.told)
    BY <1>4 DEF Ingest
  <2>. QED
    BY <2>1, <1>1, <1>3, SceneHealth
<1>5. CASE r.kind # "health"
  <2>1. r \in Capture!Frames /\ r.kind = "frame" /\ e.sight \in Sights
    BY <1>2, <1>5 DEF Entries, Records, Capture!Frames, Capture!Healths
  <2>2. IngestFrame(r, e.sight)
    BY <1>5 DEF Ingest
  <2>. QED
    BY <2>1, <2>2, <1>1, <1>2, <1>3, FrameScene
<1>. QED
  BY <1>4, <1>5

-----------------------------------------------------------------------------
(* Polls and ticks.                                                        *)

\* The tracks with one of them, or none, that holds the danger.
Marked(ts, S) == [i \in DOMAIN ts |-> [ts[i] EXCEPT !.latched = i \in S]]

\* The track that holds the danger is a near one.
LEMMA HolderIsNear ==
  ASSUME NEW ts \in Seq(Track)
  PROVE  /\ Holder(ts) \subseteq PointTracks(ts)
         /\ \A i \in Holder(ts) : ts[i].at < DangerExit
         /\ Holder(ts) = {} <=> StillNear(ts) = {} /\ Entering(ts) = {}
         /\ StillNear(ts) = {} => Holder(ts) \subseteq Entering(ts)
<1>1. /\ StillNear(ts) \subseteq PointTracks(ts) /\ Entering(ts) \subseteq PointTracks(ts)
      /\ PointTracks(ts) \subseteq DOMAIN ts
      /\ \A i \in DOMAIN ts : ts[i] \in Track /\ ts[i].at \in Nat
  <2>1. PointTracks(ts) \subseteq DOMAIN ts
    BY DEF PointTracks
  <2>2. StillNear(ts) \subseteq PointTracks(ts) /\ Entering(ts) \subseteq PointTracks(ts)
    BY DEF StillNear, Entering
  <2>3. \A i \in DOMAIN ts : ts[i] \in Track
    OBVIOUS
  <2>. QED
    BY <2>1, <2>2, <2>3 DEF Track
<1>2. \A i \in StillNear(ts) : ts[i].at < DangerExit
  BY DEF StillNear
<1>3. \A i \in Entering(ts) : ts[i].at < DangerExit
  BY <1>1 DEF Entering, DangerEnter, DangerExit
<1>4. CASE StillNear(ts) # {}
  BY <1>1, <1>2, <1>4 DEF Holder
<1>5. CASE StillNear(ts) = {} /\ Entering(ts) = {}
  BY <1>5 DEF Holder
<1>6. CASE StillNear(ts) = {} /\ Entering(ts) # {}
  <2>. DEFINE C == Entering(ts)
              h == Nearest(ts, 0, C)
  <2>1. C \subseteq DOMAIN ts /\ C # {}
    BY <1>1, <1>6
  <2>2. h \in C
    <3>. HIDE DEF C
    <3>. QED
      BY <2>1, NearestIsOne
  <2>3. Holder(ts) = {h}
    BY <1>6 DEF Holder
  <2>. HIDE DEF h
  <2>. QED
    BY <2>2, <2>3, <1>1, <1>3, <1>6
<1>. QED
  BY <1>4, <1>5, <1>6

\* What a poll does with the tracks that are young enough.
Shows(x, S) ==
  /\ S \subseteq PointTracks(x) /\ \A i \in S : x[i].at < DangerExit
  /\ tracks' = Marked(x, S)
  /\ shown'.level = "DANGER" <=> S # {}
  /\ S # {} => trusted
  /\ UNCHANGED <<sceneEpoch, producer, windows, alive, alone>>

\* A poll forgets the scene, or shows it.
LEMMA PollEffect ==
  ASSUME SceneType, NEW running \in BOOLEAN, Poll(running)
  PROVE  /\ since' = NothingYet /\ UNCHANGED <<age, formatNone, degraded, trusted, missed>>
         /\ shown' \in [status: {"waiting", "fault", "stale", "degraded", "live"},
                        level: {"SENSOR_FAULT", "DANGER", "NORMAL", "UNKNOWN"}]
         /\ \/ /\ sceneEpoch' = None /\ producer' = None /\ tracks' = <<>>
               /\ windows' = <<>> /\ alive' = {} /\ alone' = TRUE
               /\ shown'.level = "SENSOR_FAULT"
            \/ \E S \in SUBSET PointTracks(Unexpired(tracks)) : Shows(Unexpired(tracks), S)
<1>. DEFINE status == Status(running)
            x == Unexpired(tracks)
            now == Snapshot(x)
<1>1. since' = NothingYet /\ UNCHANGED <<age, formatNone, degraded, trusted, missed>>
  BY DEF Poll
<1>2. status \in {"waiting", "fault", "stale", "degraded", "live"}
  BY DEF Status, FrameStatus
<1>3. CASE Blocked(status)
  <2>1. /\ sceneEpoch' = None /\ producer' = None /\ tracks' = <<>>
        /\ windows' = <<>> /\ alive' = {} /\ alone' = TRUE
        /\ shown' = [status |-> status, level |-> "SENSOR_FAULT"]
    BY <1>3 DEF Poll
  <2>. HIDE DEF status
  <2>. QED
    BY <2>1, <1>1, <1>2
<1>4. CASE ~Blocked(status)
  <2>1. /\ tracks' = now.tracks /\ shown' = [status |-> status, level |-> now.level]
        /\ UNCHANGED <<sceneEpoch, producer, windows, alive, alone>>
    BY <1>4 DEF Poll
  <2>2. x \in Seq(Track)
    <3>. DEFINE Young == {tracks[i] : i \in {i \in DOMAIN tracks : tracks[i].age < Ttl}}
    <3>1. tracks \in Seq(Track)
      BY DEF SceneType
    <3>2. x \in Seq(Young)
      BY <3>1, Kept
    <3>3. Young \subseteq Track
      BY <3>1
    <3>. HIDE DEF x, Young
    <3>. QED
      BY <3>2, <3>3
  <2>. HIDE DEF x, status
  <2>3. CASE trusted
    <3>. DEFINE S == Holder(x)
    <3>1. now.tracks = Marked(x, S) /\ now.level = Level(x)
      BY <2>3 DEF Snapshot, Latch, Marked
    <3>2. /\ S \subseteq PointTracks(x) /\ \A i \in S : x[i].at < DangerExit
          /\ S = {} <=> StillNear(x) = {} /\ Entering(x) = {}
      BY <2>2, HolderIsNear
    <3>3. Level(x) \in {"SENSOR_FAULT", "DANGER", "NORMAL", "UNKNOWN"}
          /\ (Level(x) = "DANGER" <=> StillNear(x) # {} \/ Entering(x) # {})
      BY DEF Level
    <3>. HIDE DEF S, now
    <3>4. Shows(x, S)
      BY <2>1, <2>3, <3>1, <3>2, <3>3 DEF Shows
    <3>. QED
      BY <1>1, <1>2, <2>1, <3>1, <3>2, <3>3, <3>4 DEF x
  <2>4. CASE ~trusted
    <3>1. now.tracks = Unlatch(x) /\ now.level = "UNKNOWN"
      BY <2>4 DEF Snapshot
    <3>5. Unlatch(x) = Marked(x, {})
      <4>1. ASSUME NEW i
            PROVE  [x[i] EXCEPT !.latched = FALSE] = [x[i] EXCEPT !.latched = i \in {}]
        <5>1. FALSE = (i \in {})
          OBVIOUS
        <5>. DEFINE b == i \in {}
        <5>2. b = FALSE
          BY <5>1
        <5>. HIDE DEF b
        <5>3. [x[i] EXCEPT !.latched = FALSE] = [x[i] EXCEPT !.latched = b]
          BY <5>2
        <5>. QED
          BY <5>3 DEF b
      <4>. QED
        BY <4>1 DEF Unlatch, Marked
    <3>. HIDE DEF now
    <3>2. Shows(x, {})
      BY <2>1, <3>1, <3>5 DEF Shows
    <3>. QED
      BY <1>1, <1>2, <2>1, <3>1, <3>2 DEF x
  <2>. QED
    BY <2>3, <2>4
<1>. QED
  BY <1>3, <1>4

\* The mark says nothing about what a track was seen by.
AllSound(ts, ws, seen, red) == \A i \in DOMAIN ts : Sound(ts[i], ws, seen, red)

LEMMA MarkedSound ==
  ASSUME NEW ts \in Seq(Track), NEW ws, NEW seen, NEW red, AllSound(ts, ws, seen, red),
         NEW S, S \subseteq PointTracks(ts)
  PROVE  /\ Marked(ts, S) \in Seq(Track) /\ DOMAIN Marked(ts, S) = DOMAIN ts
         /\ Len(Marked(ts, S)) = Len(ts)
         /\ \A i \in DOMAIN ts : /\ Sound(Marked(ts, S)[i], ws, seen, S # {})
                                 /\ Marked(ts, S)[i] = [ts[i] EXCEPT !.latched = i \in S]
<1>1. DOMAIN ts = 1..Len(ts) /\ Len(ts) \in Nat /\ \A i \in DOMAIN ts : ts[i] \in Track
  OBVIOUS
<1>2. ASSUME NEW i \in DOMAIN ts
      PROVE  Sound(Marked(ts, S)[i], ws, seen, S # {}) /\ Marked(ts, S)[i] \in Track
             /\ Marked(ts, S)[i] = [ts[i] EXCEPT !.latched = i \in S]
  <2>. DEFINE t == ts[i]
              b == i \in S
              u == [t EXCEPT !.latched = b]
  <2>1. t \in Track /\ Sound(t, ws, seen, red) /\ Marked(ts, S)[i] = u
    BY <1>1 DEF Marked, AllSound
  <2>2. b \in BOOLEAN /\ (b => t.source = "point" /\ S # {})
    BY DEF PointTracks
  <2>. HIDE DEF t, b
  <2>3. /\ u.at = t.at /\ u.age = t.age /\ u.hits = t.hits /\ u.source = t.source /\ u.latched = b
        /\ u \in Track
    BY <2>1, <2>2 DEF Track
  <2>. HIDE DEF u
  <2>4. Earned(u, ws)
    <3>1. Earned(t, ws)
      BY <2>1 DEF Sound
    <3>2. u.source = "heatmap" => ~u.latched
      BY <2>2, <2>3
    <3>. QED
      BY <3>1, <3>2, <2>3 DEF Earned
  <2>5. Lives(u, seen)
    BY <2>1, <2>3 DEF Sound, Lives
  <2>6. u.latched => S # {}
    BY <2>2, <2>3
  <2>. QED
    BY <2>1, <2>3, <2>4, <2>5, <2>6 DEF Sound, t, b, u
<1>3. Marked(ts, S) \in Seq(Track) /\ DOMAIN Marked(ts, S) = DOMAIN ts /\ Len(Marked(ts, S)) = Len(ts)
  <2>. DEFINE m == [i \in 1..Len(ts) |-> [ts[i] EXCEPT !.latched = i \in S]]
  <2>1. Marked(ts, S) = m
    BY <1>1 DEF Marked
  <2>2. \A i \in 1..Len(ts) : m[i] \in Track
    BY <1>1, <1>2, <2>1
  <2>3. m \in Seq(Track) /\ Len(m) = Len(ts) /\ DOMAIN m = 1..Len(ts)
    BY <1>1, <2>2
  <2>. QED
    BY <2>1, <2>3, <1>1
<1>. QED
  BY <1>2, <1>3

\* The tracks that are young enough are as sound as all of them.
LEMMA YoungSound ==
  ASSUME SceneInv
  PROVE  /\ Unexpired(tracks) \in Seq(Track) /\ Len(Unexpired(tracks)) <= Len(tracks)
         /\ \A j \in DOMAIN Unexpired(tracks) :
              /\ Sound(Unexpired(tracks)[j], windows, alive, Red)
              /\ Unexpired(tracks)[j].age < Ttl
              /\ \E i \in DOMAIN tracks : Unexpired(tracks)[j] = tracks[i]
         /\ \A i \in DOMAIN tracks : tracks[i].age < Ttl =>
              \E j \in DOMAIN Unexpired(tracks) : Unexpired(tracks)[j] = tracks[i]
<1>. DEFINE Young == {tracks[i] : i \in {i \in DOMAIN tracks : tracks[i].age < Ttl}}
            x == Unexpired(tracks)
<1>1. tracks \in Seq(Track) /\ \A i \in DOMAIN tracks : Sound(tracks[i], windows, alive, Red)
  BY DEF SceneInv, SceneType, TracksEarned, Red
<1>2. /\ x \in Seq(Young) /\ Len(x) <= Len(tracks)
      /\ \A i \in DOMAIN tracks : tracks[i].age < Ttl => \E j \in DOMAIN x : x[j] = tracks[i]
  BY <1>1, Kept
<1>3. Young \subseteq Track
  BY <1>1
<1>. HIDE DEF x
<1>4. x \in Seq(Track) /\ \A j \in DOMAIN x : x[j] \in Young
  <2>. HIDE DEF Young
  <2>. QED
    BY <1>2, <1>3
<1>5. \A j \in DOMAIN x : /\ Sound(x[j], windows, alive, Red) /\ x[j].age < Ttl
                          /\ \E i \in DOMAIN tracks : x[j] = tracks[i]
  BY <1>1, <1>4
<1>. QED
  BY <1>2, <1>4, <1>5 DEF x

\* A poll keeps the scene sound.
LEMMA PollStep ==
  ASSUME SceneInv, NEW running \in BOOLEAN, Poll(running)
  PROVE  SceneInv'
<1>. DEFINE x == Unexpired(tracks)
<1>1. /\ since' = NothingYet /\ UNCHANGED <<age, formatNone, degraded, trusted, missed>>
      /\ shown' \in [status: {"waiting", "fault", "stale", "degraded", "live"},
                     level: {"SENSOR_FAULT", "DANGER", "NORMAL", "UNKNOWN"}]
      /\ \/ /\ sceneEpoch' = None /\ producer' = None /\ tracks' = <<>>
            /\ windows' = <<>> /\ alive' = {} /\ alone' = TRUE
            /\ shown'.level = "SENSOR_FAULT"
         \/ \E S \in SUBSET PointTracks(x) : Shows(x, S)
  <2>1. SceneType
    BY DEF SceneInv
  <2>. QED
    BY <2>1, PollEffect
<1>2. LossShows'
  BY <1>1 DEF SceneInv, LossShows
<1>3. /\ age' \in Nat \cup {None} /\ formatNone' \in BOOLEAN /\ degraded' \in BOOLEAN /\ trusted' \in BOOLEAN
      /\ since' \in [forgot: BOOLEAN, far: BOOLEAN, lapsed: BOOLEAN]
  BY <1>1 DEF SceneInv, SceneType, NothingYet
<1>4. CASE /\ sceneEpoch' = None /\ producer' = None /\ tracks' = <<>>
           /\ windows' = <<>> /\ alive' = {} /\ alone' = TRUE
           /\ shown'.level = "SENSOR_FAULT"
  <2>1. SceneType'
    BY <1>1, <1>3, <1>4 DEF SceneType
  <2>2. TracksEarned' /\ OneObject' /\ RedHeld'
    <3>1. DOMAIN tracks' = {} /\ Len(tracks') = 0
      BY <1>4
    <3>. QED
      BY <1>4, <3>1 DEF TracksEarned, OneObject, OneOnly, RedHeld
  <2>. QED
    BY <1>2, <2>1, <2>2 DEF SceneInv
<1>5. ASSUME NEW S \in SUBSET PointTracks(x), Shows(x, S)
      PROVE  SceneInv'
  <2>1. /\ S \subseteq PointTracks(x) /\ \A i \in S : x[i].at < DangerExit
        /\ tracks' = Marked(x, S)
        /\ shown'.level = "DANGER" <=> S # {}
        /\ S # {} => trusted
        /\ UNCHANGED <<sceneEpoch, producer, windows, alive, alone>>
    BY <1>5 DEF Shows
  <2>2. /\ x \in Seq(Track) /\ Len(x) <= Len(tracks)
        /\ \A j \in DOMAIN x : /\ Sound(x[j], windows, alive, Red) /\ x[j].age < Ttl
                               /\ \E i \in DOMAIN tracks : x[j] = tracks[i]
    BY YoungSound
  <2>. HIDE DEF x
  <2>3. \A j \in DOMAIN x : Sound(x[j], windows, alive, Red)
    BY <2>2
  <2>4. /\ Marked(x, S) \in Seq(Track) /\ DOMAIN Marked(x, S) = DOMAIN x
        /\ Len(Marked(x, S)) = Len(x)
        /\ \A i \in DOMAIN x : /\ Sound(Marked(x, S)[i], windows, alive, S # {})
                               /\ Marked(x, S)[i] = [x[i] EXCEPT !.latched = i \in S]
    <3>1. S \subseteq PointTracks(x) /\ x \in Seq(Track)
      BY <2>1, <2>2
    <3>. DEFINE red == Red
    <3>2. AllSound(x, windows, alive, red)
      BY <2>3 DEF AllSound
    <3>. HIDE DEF red
    <3>. QED
      BY ONLY <3>1, <3>2, MarkedSound
  <2>5. SceneType'
    <3>1. /\ sceneEpoch' \in Nat \cup {None} /\ producer' \in Nat \cup {None} /\ windows' \in Seq(Seen)
          /\ alive' \subseteq [at: Nat, age: Nat] /\ alone' \in BOOLEAN
      BY <2>1 DEF SceneInv, SceneType
    <3>. QED
      BY <3>1, <2>1, <2>4, <1>1, <1>3 DEF SceneType
  <2>6. since'.forgot = FALSE /\ trusted' = trusted
    BY <1>1 DEF NothingYet
  <2>7. TracksEarned'
    <3>1. (shown'.level = "DANGER" /\ ~since'.forgot) = (S # {})
      BY <2>1, <2>6
    <3>2. \A i \in DOMAIN tracks' : Sound(tracks'[i], windows', alive', S # {})
      BY <2>1, <2>4
    <3>. QED
      BY <3>1, <3>2 DEF TracksEarned
  <2>8. ASSUME alone'
        PROVE  OneOnly(tracks', windows')
    <3>1. OneOnly(tracks, windows)
      BY <2>1, <2>8 DEF SceneInv, OneObject
    <3>2. Len(tracks') <= 1
      <4>1. Len(tracks) <= 1 /\ Len(tracks) \in Nat /\ Len(x) \in Nat
        BY <3>1, <2>2 DEF OneOnly, SceneInv, SceneType
      <4>. QED
        BY <4>1, <2>1, <2>2, <2>4
    <3>3. ASSUME NEW j \in DOMAIN tracks'
          PROVE  /\ tracks'[j].source = "point" /\ tracks'[j].at <= Association
                 /\ Ago(windows, 0).at # {} => tracks'[j].at \in Ago(windows, 0).at
      <4>1. PICK i \in DOMAIN tracks : x[j] = tracks[i]
        BY <2>1, <2>2, <2>4
      <4>2. tracks'[j] = [x[j] EXCEPT !.latched = j \in S] /\ x[j] \in Track
        BY <2>1, <2>2, <2>4
      <4>3. tracks'[j].source = x[j].source /\ tracks'[j].at = x[j].at
        BY <4>2 DEF Track
      <4>. QED
        BY <4>1, <4>3, <3>1 DEF OneOnly
    <3>4. windows' = windows
      BY <2>1
    <3>. QED
      BY <3>1, <3>2, <3>3, <3>4 DEF OneOnly
  <2>9. OneObject'
    BY <2>8 DEF OneObject
  <2>10. RedHeld'
    <3>1. ASSUME shown'.level = "DANGER"
          PROVE  trusted' /\ \E i \in DOMAIN tracks' : HoldsRed(tracks'[i])
      <4>1. PICK i : i \in S
        BY <2>1, <3>1
      <4>2. /\ i \in DOMAIN x /\ x[i].source = "point" /\ x[i].at < DangerExit /\ x[i].age < Ttl
            /\ x[i] \in Track
        BY <4>1, <2>1, <2>2 DEF PointTracks
      <4>3. tracks'[i] = [x[i] EXCEPT !.latched = i \in S] /\ i \in DOMAIN tracks'
        BY <4>2, <2>1, <2>4
      <4>4. /\ tracks'[i].latched /\ tracks'[i].source = "point" /\ tracks'[i].at < DangerExit
            /\ tracks'[i].age < Ttl
        BY <4>1, <4>2, <4>3 DEF Track
      <4>. QED
        BY <4>1, <4>3, <4>4, <2>1, <2>6 DEF HoldsRed
    <3>. QED
      BY <3>1 DEF RedHeld
  <2>. QED
    BY <1>2, <2>5, <2>7, <2>9, <2>10 DEF SceneInv
<1>. QED
  BY <1>1, <1>4, <1>5

\* Time passes for the tracks and for what was seen alike.
LEMMA OlderIsOne ==
  ASSUME NEW n \in Nat, NEW limit \in Nat
  PROVE  /\ Older(n, limit) \in Nat
         /\ Older(n, limit) < limit => n < limit /\ n + 1 < limit /\ Older(n, limit) = n + 1
         /\ n + 1 < limit => Older(n, limit) = n + 1
BY DEF Older

Aged(t) == [t EXCEPT !.age = Older(@, Ttl)]
AgedAll(s) == [i \in DOMAIN s |-> [s[i] EXCEPT !.age = Older(@, Ttl)]]

\* Ageing changes nothing but the age.
LEMMA TickedTracks ==
  ASSUME NEW S, \A t \in S : Aged(t) \in S, NEW s \in Seq(S)
  PROVE  /\ AgedAll(s) \in Seq(S) /\ Len(AgedAll(s)) = Len(s) /\ DOMAIN AgedAll(s) = DOMAIN s
         /\ \A i \in DOMAIN s : AgedAll(s)[i] = Aged(s[i])
         /\ \A k \in 0..Len(s) - 1 : Ago(AgedAll(s), k) = Aged(Ago(s, k))
<1>1. DOMAIN s = 1..Len(s) /\ Len(s) \in Nat /\ \A i \in 1..Len(s) : s[i] \in S
  OBVIOUS
<1>. DEFINE m == [i \in 1..Len(s) |-> Aged(s[i])]
<1>2. AgedAll(s) = m
  BY <1>1 DEF AgedAll, Aged
<1>3. m \in Seq(S) /\ Len(m) = Len(s) /\ DOMAIN m = 1..Len(s)
  BY <1>1
<1>4. \A k \in 0..Len(s) - 1 : Len(s) - k \in 1..Len(s)
  BY <1>1
<1>5. \A k \in 0..Len(s) - 1 : Ago(m, k) = Aged(Ago(s, k))
  BY <1>3, <1>4 DEF Ago
<1>. QED
  BY <1>1, <1>2, <1>3, <1>5

\* A tick keeps the scene sound.
LEMMA TickStep ==
  ASSUME SceneInv, Tick
  PROVE  SceneInv'
<1>1. /\ tracks' = AgedAll(tracks) /\ windows' = AgedAll(windows)
      /\ age' = IF age = None THEN None ELSE Older(age, FaultAfter + 1)
      /\ alive' = {[s EXCEPT !.age = @ + 1] : s \in {s \in alive : s.age + 1 < Ttl}}
      /\ since' = [since EXCEPT
           !.lapsed = @ \/ \E s \in alive : s.at < DangerExit /\ s.age + 1 >= Ttl]
      /\ UNCHANGED <<formatNone, degraded, sceneEpoch, producer, trusted, shown, alone, missed>>
  BY DEF Tick, AgedAll
<1>2. /\ tracks \in Seq(Track) /\ windows \in Seq(Seen) /\ alive \subseteq [at: Nat, age: Nat]
      /\ since \in [forgot: BOOLEAN, far: BOOLEAN, lapsed: BOOLEAN] /\ age \in Nat \cup {None}
  BY DEF SceneInv, SceneType
<1>3. Ttl \in Nat /\ FaultAfter \in Nat
  BY ViewAssumption DEF ViewAssumption
<1>4. ASSUME NEW t \in Track
      PROVE  /\ Aged(t) \in Track /\ Aged(t).at = t.at /\ Aged(t).age = Older(t.age, Ttl)
             /\ Aged(t).source = t.source /\ Aged(t).latched = t.latched /\ Aged(t).hits = t.hits
  <2>1. t.age \in Nat
    BY DEF Track
  <2>2. Older(t.age, Ttl) \in Nat
    BY <2>1, <1>3, OlderIsOne
  <2>. QED
    BY <2>2 DEF Track, Aged
<1>5. ASSUME NEW s \in Seen
      PROVE  Aged(s) \in Seen /\ Aged(s).at = s.at /\ Aged(s).age = Older(s.age, Ttl)
  <2>1. s.age \in Nat
    BY DEF Seen
  <2>2. Older(s.age, Ttl) \in Nat
    BY <2>1, <1>3, OlderIsOne
  <2>. QED
    BY <2>2 DEF Seen, Aged
<1>6. /\ tracks' \in Seq(Track) /\ Len(tracks') = Len(tracks) /\ DOMAIN tracks' = DOMAIN tracks
      /\ \A i \in DOMAIN tracks : tracks'[i] = Aged(tracks[i])
  <2>1. \A t \in Track : Aged(t) \in Track
    BY <1>4
  <2>. QED
    BY <2>1, <1>1, <1>2, TickedTracks
<1>7. /\ windows' \in Seq(Seen) /\ Len(windows') = Len(windows) /\ DOMAIN windows' = DOMAIN windows
      /\ \A k \in 0..Len(windows) - 1 : Ago(windows', k) = Aged(Ago(windows, k))
  <2>1. \A t \in Seen : Aged(t) \in Seen
    BY <1>5
  <2>. QED
    BY <2>1, <1>1, <1>2, TickedTracks
<1>8. \A k \in 0..Len(windows) - 1 :
        Ago(windows', k).at = Ago(windows, k).at /\ Ago(windows', k).age = Older(Ago(windows, k).age, Ttl)
  <2>1. ASSUME NEW k \in 0..Len(windows) - 1
        PROVE  Ago(windows, k) \in Seen
    <3>1. Len(windows) \in Nat /\ Len(windows) - k \in 1..Len(windows)
      BY <1>2
    <3>. QED
      BY <3>1, <1>2 DEF Ago
  <2>. QED
    BY <2>1, <1>5, <1>7
<1>9. \A s \in alive : s.age + 1 < Ttl => [at |-> s.at, age |-> s.age + 1] \in alive'
  <2>1. ASSUME NEW s \in alive, s.age + 1 < Ttl
        PROVE  [at |-> s.at, age |-> s.age + 1] \in alive'
    <3>1. [s EXCEPT !.age = @ + 1] = [at |-> s.at, age |-> s.age + 1]
      BY <1>2
    <3>. QED
      BY <1>1, <2>1, <3>1
  <2>. QED
    BY <2>1
<1>10. alive' \subseteq [at: Nat, age: Nat]
  BY <1>1, <1>2
<1>11. SceneType'
  <2>1. age' \in Nat \cup {None}
    <3>1. age \in Nat => Older(age, FaultAfter + 1) \in Nat
      BY <1>3, OlderIsOne
    <3>. QED
      BY <3>1, <1>1, <1>2
  <2>2. since' \in [forgot: BOOLEAN, far: BOOLEAN, lapsed: BOOLEAN]
    BY <1>1, <1>2
  <2>. QED
    BY <2>1, <2>2, <1>1, <1>6, <1>7, <1>10 DEF SceneInv, SceneType
<1>12. LossShows'
  BY <1>1 DEF SceneInv, LossShows
<1>13. since'.forgot = since.forgot /\ since'.far = since.far
       /\ since'.lapsed = (since.lapsed \/ \E s \in alive : s.at < DangerExit /\ s.age + 1 >= Ttl)
  BY <1>1, <1>2
<1>14. \A i \in DOMAIN tracks : /\ tracks[i] \in Track
                                /\ Earned(tracks[i], windows) /\ Lives(tracks[i], alive)
                                /\ tracks[i].latched => Red
  BY <1>2 DEF SceneInv, TracksEarned, Sound, Red
<1>15. TracksEarned'
  <2>1. ASSUME NEW i \in DOMAIN tracks
        PROVE  Earned(Aged(tracks[i]), windows')
    <3>. DEFINE t == tracks[i]
                u == Aged(t)
    <3>1. t \in Track /\ Earned(t, windows)
      BY <1>14
    <3>. HIDE DEF t
    <3>2. /\ u.at = t.at /\ u.age = Older(t.age, Ttl) /\ u.source = t.source
          /\ u.latched = t.latched /\ u.hits = t.hits
      BY <3>1, <1>4
    <3>. HIDE DEF u
    <3>3. /\ 1 <= Len(t.hits) /\ Len(t.hits) <= 3 /\ Len(t.hits) <= Len(windows)
          /\ Len(t.hits) \in Nat /\ Len(windows) \in Nat
      BY <3>1, <1>2 DEF Earned, Track
    <3>4. \A k \in 0..Len(t.hits) - 1 : k \in 0..Len(windows) - 1
      BY <3>3
    <3>5. \A k \in 0..Len(u.hits) - 1 :
            Ago(u.hits, k) /\ (\A m \in 0..k - 1 : ~Ago(u.hits, m)) =>
              u.at \in Ago(windows', k).at /\ Ago(windows', k).age = u.age
      BY <3>1, <3>2, <3>4, <1>8 DEF Earned
    <3>6. \A k, l \in 0..Len(u.hits) - 1 :
            /\ k < l /\ Ago(u.hits, k) /\ Ago(u.hits, l)
            /\ \A m \in 0..l - 1 : m # k => ~Ago(u.hits, m)
            => \E p \in Ago(windows', l).at : Distance(p, u.at) <= Association
      BY <3>1, <3>2, <3>4, <1>8 DEF Earned
    <3>7. u.source = "heatmap" => ~u.latched /\ \A k \in 0..Len(u.hits) - 1 : ~Ago(u.hits, k)
      BY <3>1, <3>2 DEF Earned
    <3>. QED
      BY <3>2, <3>3, <3>5, <3>6, <3>7, <1>7 DEF Earned, t, u
  <2>2. ASSUME NEW i \in DOMAIN tracks
        PROVE  Lives(Aged(tracks[i]), alive')
    <3>. DEFINE t == tracks[i]
                u == Aged(t)
    <3>1. t \in Track /\ Lives(t, alive)
      BY <1>14
    <3>. HIDE DEF t
    <3>2. u.at = t.at /\ u.age = Older(t.age, Ttl) /\ u.source = t.source
      BY <3>1, <1>4
    <3>. HIDE DEF u
    <3>3. ASSUME u.source = "point", u.age < Ttl
          PROVE  [at |-> u.at, age |-> u.age] \in alive'
      <4>1. t.age \in Nat
        BY <3>1 DEF Track
      <4>2. t.age < Ttl /\ t.age + 1 < Ttl /\ u.age = t.age + 1
        BY <4>1, <3>2, <3>3, <1>3, OlderIsOne
      <4>. DEFINE s == [at |-> t.at, age |-> t.age]
      <4>3. s \in alive /\ s.at = t.at /\ s.age = t.age
        BY <3>1, <3>2, <3>3, <4>2 DEF Lives
      <4>. HIDE DEF s
      <4>. QED
        BY <4>2, <4>3, <3>2, <1>9
    <3>. QED
      BY <3>3 DEF Lives, t, u
  <2>3. \A i \in DOMAIN tracks : Aged(tracks[i]).latched => Red
    BY <1>4, <1>14
  <2>4. Red = (shown'.level = "DANGER" /\ ~since'.forgot)
    BY <1>1, <1>13 DEF Red
  <2>. QED
    BY <2>1, <2>2, <2>3, <2>4, <1>6 DEF TracksEarned, Sound
<1>16. ASSUME alone'
       PROVE  OneOnly(tracks', windows')
  <2>1. OneOnly(tracks, windows)
    BY <1>1, <1>16 DEF SceneInv, OneObject
  <2>2. windows # <<>> => Ago(windows', 0).at = Ago(windows, 0).at
    <3>1. windows # <<>> => 0 \in 0..Len(windows) - 1
      BY <1>2
    <3>. QED
      BY <3>1, <1>8
  <2>3. ASSUME NEW i \in DOMAIN tracks
        PROVE  windows # <<>>
    <3>1. 1 <= Len(tracks[i].hits) /\ Len(tracks[i].hits) <= Len(windows)
          /\ Len(tracks[i].hits) \in Nat /\ Len(windows) \in Nat
      BY <1>14, <1>2 DEF Earned, Track
    <3>. QED
      BY <3>1
  <2>4. windows' # <<>> => windows # <<>>
    BY <1>2, <1>7
  <2>. QED
    BY <2>1, <2>2, <2>3, <2>4, <1>4, <1>6, <1>14 DEF OneOnly
<1>17. OneObject'
  BY <1>16 DEF OneObject
<1>18. RedHeld'
  <2>1. ASSUME shown'.level = "DANGER" /\ ~since'.forgot /\ ~since'.far /\ ~since'.lapsed
        PROVE  trusted' /\ \E i \in DOMAIN tracks' : HoldsRed(tracks'[i])
    <3>1. trusted /\ \E i \in DOMAIN tracks : HoldsRed(tracks[i])
      BY <2>1, <1>1, <1>13 DEF SceneInv, RedHeld
    <3>2. PICK i \in DOMAIN tracks : HoldsRed(tracks[i])
      BY <3>1
    <3>. DEFINE t == tracks[i]
                u == Aged(t)
    <3>3. t \in Track /\ Lives(t, alive) /\ HoldsRed(t) /\ tracks'[i] = u /\ i \in DOMAIN tracks'
      BY <3>2, <1>6, <1>14
    <3>. HIDE DEF t
    <3>4. u.at = t.at /\ u.age = Older(t.age, Ttl) /\ u.source = t.source /\ u.latched = t.latched
      BY <3>3, <1>4
    <3>. HIDE DEF u
    <3>5. t.age + 1 < Ttl
      <4>1. t.age \in Nat
        BY <3>3 DEF Track
      <4>. DEFINE s == [at |-> t.at, age |-> t.age]
      <4>4. t.source = "point" /\ t.age < Ttl /\ t.at < DangerExit
        BY <3>3 DEF HoldsRed
      <4>2. s \in alive /\ s.at = t.at /\ s.age = t.age
        BY <3>3, <4>4 DEF Lives
      <4>. HIDE DEF s
      <4>3. ~(t.age + 1 >= Ttl)
        BY <4>2, <4>4, <2>1, <1>13
      <4>. QED
        BY <4>1, <4>3, <1>3
    <3>6. u.age < Ttl
      <4>1. t.age \in Nat
        BY <3>3 DEF Track
      <4>. DEFINE n == t.age
      <4>2. n \in Nat /\ n + 1 < Ttl
        BY <4>1, <3>5
      <4>. HIDE DEF n
      <4>3. Older(n, Ttl) = n + 1
        BY <4>2, <1>3, OlderIsOne
      <4>. QED
        BY <4>2, <4>3, <3>4 DEF n
    <3>7. HoldsRed(u)
      BY <3>3, <3>4, <3>6 DEF HoldsRed
    <3>. QED
      BY <3>1, <3>3, <3>7, <1>1
  <2>. QED
    BY <2>1 DEF RedHeld
<1>. QED
  BY <1>11, <1>12, <1>15, <1>17, <1>18 DEF SceneInv

-----------------------------------------------------------------------------
(* The invariant of the view.                                              *)

\* The scene is sound at the start.
LEMMA SceneStart == ViewInit => SceneInv
<1>. SUFFICES ASSUME ViewInit PROVE SceneInv
  OBVIOUS
<1>1. /\ age = None /\ formatNone = FALSE /\ degraded = FALSE
      /\ sceneEpoch = None /\ producer = None /\ trusted = TRUE /\ tracks = <<>>
      /\ shown = [status |-> "waiting", level |-> "SENSOR_FAULT"]
      /\ windows = <<>> /\ alive = {} /\ alone = TRUE
      /\ since = [forgot |-> FALSE, far |-> FALSE, lapsed |-> FALSE]
      /\ missed = [nth |-> 0, loss |-> FALSE]
  BY DEF ViewInit, NothingYet
<1>2. SceneType
  <2>1. tracks \in Seq(Track) /\ windows \in Seq(Seen) /\ alive \subseteq [at: Nat, age: Nat]
    BY <1>1
  <2>2. since \in [forgot: BOOLEAN, far: BOOLEAN, lapsed: BOOLEAN]
    BY <1>1
  <2>3. shown \in [status: {"waiting", "fault", "stale", "degraded", "live"},
                  level: {"SENSOR_FAULT", "DANGER", "NORMAL", "UNKNOWN"}]
    BY <1>1
  <2>. QED
    BY <1>1, <2>1, <2>2, <2>3 DEF SceneType
<1>3. DOMAIN tracks = {} /\ Len(tracks) = 0
  BY <1>1
<1>4. LossShows /\ TracksEarned /\ OneObject /\ RedHeld
  BY <1>1, <1>3 DEF LossShows, TracksEarned, OneObject, OneOnly, RedHeld
<1>. QED
  BY <1>2, <1>4 DEF SceneInv

\* Every step keeps the invariant.
LEMMA ViewStep ==
  ASSUME ViewInv, [ViewNext]_viewVars
  PROVE  ViewInv'
<1>1. LogInv /\ SceneInv
  BY DEF ViewInv
<1>2. CASE CaptureFrame
  <2>1. SceneInv'
    BY <1>1, <1>2, SceneStill DEF CaptureFrame, front
  <2>. QED
    BY <2>1, <1>1, <1>2, FrameStep DEF ViewInv
<1>3. CASE CaptureFault
  <2>1. SceneInv'
    BY <1>1, <1>3, SceneStill DEF CaptureFault, front
  <2>. QED
    BY <2>1, <1>1, <1>3, FaultStep DEF ViewInv
<1>4. CASE CaptureEnds
  <2>1. SceneInv'
    BY <1>1, <1>4, SceneStill DEF CaptureEnds, front
  <2>. QED
    BY <2>1, <1>1, <1>4, EndStep DEF ViewInv
<1>5. ASSUME NEW a \in BOOLEAN, CaptureHealth(a)
      PROVE  ViewInv'
  <2>1. SceneInv'
    BY <1>1, <1>5, SceneStill DEF CaptureHealth, front
  <2>. QED
    BY <2>1, <1>1, <1>5, HealthStep DEF ViewInv
<1>6. CASE Attach
  <2>1. SceneInv'
    BY <1>1, <1>6, SceneStill DEF Attach
  <2>. QED
    BY <2>1, <1>1, <1>6, AttachStep DEF ViewInv
<1>7. CASE Ingest
  BY <1>1, <1>7, IngestStep, SceneIngest DEF ViewInv
<1>8. ASSUME UNCHANGED <<capture, sent, harms, unread, attached, last>>, missed' = missed
      PROVE  LogInv'
  <2>1. UNCHANGED <<epoch, seq, owed, faulty, cloud, rec, sent, harms, unread, attached, last, missed>>
    BY <1>8 DEF capture
  <2>2. LogType'
    BY <2>1, <1>1 DEF LogInv, LogType
  <2>3. Honest'
    BY <2>1, <1>1 DEF LogInv, Honest
  <2>4. Numbered'
    BY <2>1, <1>1 DEF LogInv, Numbered, FrameNumbers, InLog
  <2>. QED
    BY <2>2, <2>3, <2>4 DEF LogInv
<1>9. ASSUME NEW running \in BOOLEAN, Poll(running)
      PROVE  ViewInv'
  <2>1. LogInv'
    BY <1>8, <1>9 DEF Poll
  <2>. QED
    BY <2>1, <1>1, <1>9, PollStep DEF ViewInv
<1>10. CASE Tick
  <2>1. LogInv'
    BY <1>8, <1>10 DEF Tick
  <2>. QED
    BY <2>1, <1>1, <1>10, TickStep DEF ViewInv
<1>11. CASE UNCHANGED viewVars
  <2>1. UNCHANGED <<capture, sent, harms, unread, attached, last>> /\ missed' = missed
        /\ UNCHANGED <<age, formatNone, degraded, sceneEpoch, scene, shown, history>>
    BY <1>11 DEF viewVars, front, history
  <2>2. LogInv'
    BY <2>1, <1>8
  <2>3. SceneInv'
    BY <2>1, <1>1, SceneStill
  <2>. QED
    BY <2>2, <2>3 DEF ViewInv
<1>. QED
  BY <1>2, <1>3, <1>4, <1>5, <1>6, <1>7, <1>9, <1>10, <1>11 DEF ViewNext

\* Tracks, windows, log and levels agree in every reachable state of the view.
THEOREM ViewInvariant == ViewSpec => []ViewInv
<1>1. ViewInit => ViewInv
  BY LogStart, SceneStart DEF ViewInv
<1>2. ViewInv /\ [ViewNext]_viewVars => ViewInv'
  BY ViewStep
<1>. QED
  BY <1>1, <1>2, PTL DEF ViewSpec


-----------------------------------------------------------------------------
(* What a poll shows.                                                      *)

\* The level that a view without a block shows.
LEMMA PollLevel ==
  ASSUME NEW running \in BOOLEAN, Poll(running), shown'.level # "SENSOR_FAULT"
  PROVE  IF trusted THEN shown'.level = Level(Unexpired(tracks)) ELSE shown'.level = "UNKNOWN"
<1>. DEFINE x == Unexpired(tracks)
<1>1. ~Blocked(Status(running))
  BY DEF Poll
<1>2. shown'.level = Snapshot(x).level
  BY <1>1 DEF Poll
<1>. HIDE DEF x
<1>3. Snapshot(x).level = IF trusted THEN Level(x) ELSE "UNKNOWN"
  BY DEF Snapshot
<1>. QED
  BY <1>2, <1>3 DEF x

\* A confirmed track has two hits: a latest one and one before it.
LEMMA TwoHits ==
  ASSUME NEW t \in Track, Confirmed(t)
  PROVE  \E k, l \in 0..Len(t.hits) - 1 :
           /\ k < l /\ Ago(t.hits, k) /\ Ago(t.hits, l)
           /\ \A m \in 0..l - 1 : m # k => ~Ago(t.hits, m)
<1>. DEFINE s == t.hits
            n == Len(s)
            H == {i \in DOMAIN s : s[i]}
            K == {k \in 0..n - 1 : Ago(s, k)}
<1>1. s \in Seq(BOOLEAN) /\ n \in Nat /\ DOMAIN s = 1..n
  BY DEF Track
<1>2. Cardinality(H) >= 2
  BY DEF Confirmed
<1>. HIDE DEF s, n
<1>3. \A i \in H : n - i \in K
  BY <1>1 DEF Ago, n
<1>4. IsFiniteSet(H)
  <2>1. IsFiniteSet(1..n)
    BY <1>1, FS_Interval
  <2>2. H \subseteq 1..n
    BY <1>1
  <2>. QED
    BY <2>1, <2>2, FS_Subset
<1>5. ASSUME NEW a, H \subseteq {a}
      PROVE  FALSE
  <2>. HIDE DEF H
  <2>1. IsFiniteSet({a}) /\ Cardinality({a}) = 1
    BY FS_Singleton
  <2>2. Cardinality(H) <= 1 /\ Cardinality(H) \in Nat
    BY <2>1, <1>4, <1>5, FS_Subset, FS_CardinalityType
  <2>. QED
    BY <2>2, <1>2
<1>6. K \subseteq Nat /\ K \subseteq 0..n - 1
  BY <1>1
<1>7. K # {}
  <2>1. H # {}
    BY <1>5
  <2>. QED
    BY <2>1, <1>3
<1>8. PICK k \in K : \A j \in K : k <= j
  BY <1>6, <1>7, Least
<1>9. K \ {k} # {}
  <2>1. PICK i \in H : i # n - k
    BY <1>5
  <2>2. n - i # k /\ n - i \in K
    BY <2>1, <1>1, <1>3, <1>6
  <2>. QED
    BY <2>2
<1>10. PICK l \in K \ {k} : \A j \in K \ {k} : l <= j
  <2>1. K \ {k} \subseteq Nat
    BY <1>6
  <2>. QED
    BY <2>1, <1>9, Least
<1>11. k \in Nat /\ l \in Nat /\ k < l /\ k \in 0..n - 1 /\ l \in 0..n - 1 /\ Ago(s, k) /\ Ago(s, l)
  <2>1. k \in Nat /\ l \in Nat /\ k <= l /\ k # l
    BY <1>6, <1>8, <1>10
  <2>. QED
    BY <2>1, <1>6
<1>12. ASSUME NEW m \in 0..l - 1, m # k, Ago(s, m)
       PROVE  FALSE
  <2>1. m \in 0..n - 1 /\ m < l /\ m \in Nat
    BY <1>1, <1>11
  <2>2. m \in K \ {k}
    BY <2>1, <1>12
  <2>. QED
    BY <2>1, <2>2, <1>10, <1>11
<1>. QED
  BY <1>11, <1>12 DEF s, n

\* What is confirmed was seen twice.
LEMMA ConfirmedSeen ==
  ASSUME NEW t \in Track, SceneType, Earned(t, windows), Confirmed(t), t.age < Ttl,
         NEW near \in BOOLEAN, near => t.at <= DangerEnter
  PROVE  SeenTwice(near)
<1>. DEFINE n == Len(windows)
<1>1. PICK k, l \in 0..Len(t.hits) - 1 :
        /\ k < l /\ Ago(t.hits, k) /\ Ago(t.hits, l)
        /\ \A m \in 0..l - 1 : m # k => ~Ago(t.hits, m)
  BY TwoHits
<1>2. Len(t.hits) \in Nat /\ n \in Nat /\ Len(t.hits) <= n /\ DOMAIN windows = 1..n
  BY DEF Earned, SceneType, Track
<1>3. k \in Int /\ l \in Int /\ 0 <= k /\ k < l /\ l < n /\ n - l \in 1..n /\ n - k \in 1..n /\ n - l < n - k
  BY <1>1, <1>2
<1>4. t.at \in Ago(windows, k).at /\ Ago(windows, k).age = t.age
  <2>1. \A m \in 0..k - 1 : ~Ago(t.hits, m)
    <3>1. ASSUME NEW m \in 0..k - 1
          PROVE  m \in 0..l - 1 /\ m # k
      BY <1>3
    <3>. QED
      BY <3>1, <1>1
  <2>. QED
    BY <2>1, <1>1 DEF Earned
<1>5. PICK p \in Ago(windows, l).at : Distance(p, t.at) <= Association
  BY <1>1 DEF Earned
<1>. DEFINE i == n - l
            j == n - k
<1>6. Ago(windows, l) = windows[i] /\ Ago(windows, k) = windows[j]
  BY DEF Ago
<1>7. i \in DOMAIN windows /\ j \in DOMAIN windows /\ i < j
  BY <1>2, <1>3
<1>. HIDE DEF i, j
<1>8. windows[j].age < Ttl /\ t.at \in windows[j].at /\ p \in windows[i].at
  BY <1>4, <1>5, <1>6
<1>. QED
  BY <1>5, <1>7, <1>8 DEF SeenTwice

\* A level that a poll shows is earned: normal,
LEMMA NormalEarned ==
  ASSUME SceneInv, NEW running \in BOOLEAN, Poll(running), shown'.level = "NORMAL"
  PROVE  SeenTwice(FALSE) /\ ~(alone /\ NearNow)
<1>. DEFINE x == Unexpired(tracks)
<1>1. trusted /\ Level(x) = "NORMAL"
  BY PollLevel
<1>2. /\ x \in Seq(Track)
      /\ \A j \in DOMAIN x : /\ Sound(x[j], windows, alive, Red) /\ x[j].age < Ttl
                             /\ \E i \in DOMAIN tracks : x[j] = tracks[i]
  BY YoungSound
<1>. HIDE DEF x
<1>3. Entering(x) = {} /\ \E i \in PointTracks(x) : Confirmed(x[i])
  BY <1>1 DEF Level
<1>4. PICK i \in PointTracks(x) : Confirmed(x[i])
  BY <1>3
<1>5. i \in DOMAIN x /\ x[i] \in Track /\ x[i].age < Ttl /\ Earned(x[i], windows)
  BY <1>2 DEF PointTracks, Sound
<1>6. SeenTwice(FALSE)
  <2>. DEFINE t == x[i]
  <2>1. t \in Track /\ t.age < Ttl /\ Earned(t, windows) /\ Confirmed(t)
    BY <1>4, <1>5
  <2>2. SceneType
    BY DEF SceneInv
  <2>. HIDE DEF t
  <2>. QED
    BY <2>1, <2>2, ConfirmedSeen
<1>7. ASSUME alone, NearNow
      PROVE  FALSE
  <2>1. OneOnly(tracks, windows)
    BY <1>7 DEF SceneInv, OneObject
  <2>2. windows # <<>> /\ \E p \in Ago(windows, 0).at : p <= DangerEnter
    <3>1. Len(windows) - 0 = Len(windows)
      BY DEF SceneInv, SceneType
    <3>. QED
      BY <3>1, <1>7 DEF NearNow, Ago
  <2>3. PICK p \in Ago(windows, 0).at : p <= DangerEnter
    BY <2>2
  <2>4. PICK m \in DOMAIN tracks : x[i] = tracks[m]
    BY <1>2, <1>5
  <2>5. x[i].at \in Ago(windows, 0).at
    BY <2>1, <2>3, <2>4 DEF OneOnly
  <2>6. x[i].at <= DangerEnter
    BY <2>1, <2>2, <2>3, <2>5 DEF OneOnly
  <2>7. i \in Entering(x)
    BY <2>6, <1>4 DEF Entering
  <2>. QED
    BY <2>7, <1>3
<1>. QED
  BY <1>6, <1>7

\* and danger;
LEMMA DangerEarned ==
  ASSUME SceneInv, NEW running \in BOOLEAN, Poll(running), shown'.level = "DANGER"
  PROVE  \/ SeenTwice(TRUE)
         \/ /\ shown.level = "DANGER" /\ ~since.forgot
            /\ \E s \in alive : s.at < DangerExit
<1>. DEFINE x == Unexpired(tracks)
<1>1. trusted /\ Level(x) = "DANGER"
  BY PollLevel
<1>2. /\ x \in Seq(Track)
      /\ \A j \in DOMAIN x : Sound(x[j], windows, alive, Red) /\ x[j].age < Ttl
  BY YoungSound
<1>. HIDE DEF x
<1>3. StillNear(x) # {} \/ Entering(x) # {}
  BY <1>1 DEF Level
<1>4. CASE Entering(x) # {}
  <2>1. PICK i \in PointTracks(x) : Confirmed(x[i]) /\ x[i].at <= DangerEnter
    BY <1>4 DEF Entering
  <2>. DEFINE t == x[i]
  <2>2. /\ t \in Track /\ t.age < Ttl /\ Earned(t, windows) /\ Confirmed(t) /\ t.at <= DangerEnter
    BY <2>1, <1>2 DEF PointTracks, Sound
  <2>3. SceneType
    BY DEF SceneInv
  <2>. HIDE DEF t
  <2>4. SeenTwice(TRUE)
    BY <2>2, <2>3, ConfirmedSeen
  <2>. QED
    BY <2>4
<1>5. CASE StillNear(x) # {}
  <2>1. PICK i \in PointTracks(x) : x[i].latched /\ x[i].at < DangerExit
    BY <1>5 DEF StillNear
  <2>. DEFINE t == x[i]
  <2>2. /\ t.source = "point" /\ t.age < Ttl /\ t.latched /\ t.at < DangerExit
        /\ Sound(t, windows, alive, Red)
    BY <2>1, <1>2 DEF PointTracks
  <2>. HIDE DEF t
  <2>3. Red
    BY <2>2 DEF Sound
  <2>. DEFINE s == [at |-> t.at, age |-> t.age]
  <2>4. s \in alive /\ s.at = t.at
    BY <2>2 DEF Sound, Lives
  <2>. HIDE DEF s
  <2>. QED
    BY <2>2, <2>3, <2>4 DEF Red
<1>. QED
  BY <1>3, <1>4, <1>5

\* a red view stays red;
LEMMA RedPoll ==
  ASSUME SceneInv, NEW running \in BOOLEAN, Poll(running),
         shown.level = "DANGER", shown'.level \in {"NORMAL", "UNKNOWN"}
  PROVE  since.forgot \/ since.far \/ since.lapsed
<1>. SUFFICES ASSUME ~since.forgot, ~since.far, ~since.lapsed
              PROVE  FALSE
  OBVIOUS
<1>. DEFINE x == Unexpired(tracks)
<1>1. trusted /\ \E i \in DOMAIN tracks : HoldsRed(tracks[i])
  BY DEF SceneInv, RedHeld
<1>2. PICK i \in DOMAIN tracks : HoldsRed(tracks[i])
  BY <1>1
<1>3. shown'.level = Level(x)
  BY <1>1, PollLevel
<1>4. \E j \in DOMAIN x : x[j] = tracks[i]
  <2>1. tracks[i].age < Ttl
    BY <1>2 DEF HoldsRed
  <2>. QED
    BY <2>1, YoungSound
<1>. HIDE DEF x
<1>5. PICK j \in DOMAIN x : x[j] = tracks[i]
  BY <1>4
<1>6. j \in StillNear(x)
  BY <1>2, <1>5 DEF StillNear, PointTracks, HoldsRed
<1>7. Level(x) = "DANGER"
  BY <1>6 DEF Level
<1>. QED
  BY <1>3, <1>7

\* and a live one is degraded by nothing.
LEMMA LivePoll ==
  ASSUME SceneInv, NEW running \in BOOLEAN, Poll(running), shown'.status = "live"
  PROVE  ~missed.loss
<1>1. shown'.status = Status(running)
  BY DEF Poll
<1>2. Status(running) = "live" => ~degraded
  BY DEF Status, FrameStatus
<1>. QED
  BY <1>1, <1>2 DEF SceneInv, LossShows

\* The types of the log, the follower, the tracks and the history
\* (RadarFrontState, RadarSceneEstimator).
THEOREM ViewTypeCorrect == ViewSpec => []ViewType
<1>1. ViewInv => ViewType
  BY DEF ViewInv, LogInv, SceneInv, ViewType
<1>. QED
  BY <1>1, ViewInvariant, PTL

\* NORMAL and DANGER rest on two of the three latest frames, DANGER on a later
\* one within 10 cm or on the danger that is still near, for every sequence of
\* frames, sightings, gaps, ages and polls (RadarSceneEstimator.ingest and
\* RadarHazardEvaluator).
THEOREM LevelEarned == ViewSpec => LevelIsEarned
<1>1. ASSUME ViewInv, [ViewNext]_viewVars
      PROVE  [\A running \in BOOLEAN : Poll(running) =>
                /\ shown'.level = "NORMAL" => SeenTwice(FALSE) /\ ~(alone /\ NearNow)
                /\ shown'.level = "DANGER" =>
                     \/ SeenTwice(TRUE)
                     \/ /\ shown.level = "DANGER" /\ ~since.forgot
                        /\ \E s \in alive : s.at < DangerExit]_viewVars
  <2>1. SceneInv
    BY <1>1 DEF ViewInv
  <2>. QED
    BY <2>1, NormalEarned, DangerEarned
<1>. QED
  BY <1>1, ViewInvariant, PTL DEF ViewSpec, LevelIsEarned

\* A red view ends only when the view had to forget, when a return beyond 13 cm
\* was near enough to lead the track away, or when the near return is too old
\* (RadarHazardEvaluator's hysteresis and _upsert_track).
THEOREM RedStaysRed == ViewSpec => RedStays
<1>1. ASSUME ViewInv, [ViewNext]_viewVars
      PROVE  [\A running \in BOOLEAN : Poll(running) =>
                (shown.level = "DANGER" /\ shown'.level \in {"NORMAL", "UNKNOWN"} =>
                   since.forgot \/ since.far \/ since.lapsed)]_viewVars
  <2>1. SceneInv
    BY <1>1 DEF ViewInv
  <2>. QED
    BY <2>1, RedPoll
<1>. QED
  BY <1>1, ViewInvariant, PTL DEF ViewSpec, RedStays

\* A live view misses no frame that the capture has numbered and not yet
\* reported, however far the follower lags (RadarFrontState.ingest).
THEOREM LiveWhole == ViewSpec => LiveIsWhole
<1>1. ASSUME ViewInv, [ViewNext]_viewVars
      PROVE  [\A running \in BOOLEAN : Poll(running) =>
                (shown'.status = "live" => ~missed.loss)]_viewVars
  <2>1. SceneInv
    BY <1>1 DEF ViewInv
  <2>. QED
    BY <2>1, LivePoll
<1>. QED
  BY <1>1, ViewInvariant, PTL DEF ViewSpec, LiveIsWhole
=============================================================================
