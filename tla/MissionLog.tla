------------------------------ MODULE MissionLog ------------------------------
(***************************************************************************)
(* The mission recorder (sensors/mission_log.py, MissionLogWriter):        *)
(* threads that submit samples and critical records, a bounded queue under *)
(* one condition variable, and a writer thread that owns the file.         *)
(*                                                                         *)
(* A section under the condition's lock is one action.  `waiters` are the  *)
(* threads in condition.wait() that nobody has notified; one that times    *)
(* out takes itself out when it has the lock again.  All records have the  *)
(* same size, so that one bound stands for records and bytes.              *)
(***************************************************************************)
EXTENDS Naturals, Sequences

CONSTANTS
  Threads,      \* threads that call the recorder
  MaxQueue,     \* max_queue_records
  MaxRecords    \* bound: records that are accepted

ASSUME LogAssumption ==
  /\ "writer" \notin Threads
  /\ MaxQueue \in Nat \ {0} /\ MaxRecords \in Nat

VARIABLES
  at,           \* [Threads -> where in write_critical or close]
  pending,      \* [Threads -> log_seq of the critical record, or 0]
  acked,        \* every log_seq that a write_critical returned
  waiters,      \* who waits for _condition
  queue,        \* _queue
  outstanding,  \* _outstanding_records
  nextSeq,      \* _next_log_seq
  closing, closed,
  failed,       \* _failure is set
  done, errors, \* log_seq whose event is set; those with an error
  w,            \* where the writer thread is
  active,       \* the record in its hands
  lines,        \* log_seq of each complete line of the file
  torn,         \* an incomplete line follows
  durable       \* how many lines an fsync has covered

calls == <<at, pending, acked>>
buffer == <<queue, outstanding, nextSeq>>
flags == <<closing, closed, failed>>
events == <<done, errors>>
file == <<lines, torn, durable>>
vars == <<calls, waiters, buffer, flags, events, w, active, file>>

Items == [seq: Nat, critical: BOOLEAN]
Nothing == [seq |-> 0, critical |-> FALSE]

Available == ~failed /\ ~closing /\ ~closed
Fits == outstanding < MaxQueue

\* Whose event has still to be set.
Queued == {queue[i].seq : i \in {j \in DOMAIN queue : queue[j].critical}}
InHand == IF active.critical THEN {active.seq} ELSE {}

\* Condition.notify wakes one of them, notify_all everybody.
Notify(sleepers) ==
  \/ sleepers = {} /\ waiters' = {}
  \/ \E x \in sleepers : waiters' = sleepers \ {x}
NotifyAll == waiters' = {}

Moves(t, place) == at' = [at EXCEPT ![t] = place]
Writer(place) == w' = place

-----------------------------------------------------------------------------
(* The calling threads.                                                    *)

\* _enqueue, with the number the caller has encoded.
Enqueue(t, seq, critical) ==
  /\ nextSeq <= MaxRecords
  /\ queue' = Append(queue, [seq |-> seq, critical |-> critical])
  /\ outstanding' = outstanding + 1
  /\ nextSeq' = nextSeq + 1
  /\ Notify(waiters \ {t})

\* A sample that finds no room, or no recorder, is refused at once.
Submit(t) ==
  /\ at[t] = "idle" /\ Available /\ Fits
  /\ Enqueue(t, nextSeq, FALSE)
  /\ UNCHANGED <<calls, flags, events, w, active, file>>

\* Variant: the number that was encoded before the wait is kept.
AcceptEncoded(t) ==
  LET seq == IF at[t] = "capacity" THEN pending[t] ELSE nextSeq
  IN /\ Enqueue(t, seq, TRUE)
     /\ pending' = [pending EXCEPT ![t] = seq]
     /\ Moves(t, "confirm")

\* The record is encoded with the number that is the next one now.
Accept(t) ==
  /\ Enqueue(t, nextSeq, TRUE)
  /\ pending' = [pending EXCEPT ![t] = nextSeq]
  /\ Moves(t, "confirm")

Await(t) ==
  /\ waiters' = waiters \cup {t}
  /\ pending' = [pending EXCEPT ![t] = nextSeq]
  /\ Moves(t, "capacity")
  /\ UNCHANGED buffer

WriteCritical(t) ==
  /\ at[t] = "idle" /\ Available
  /\ \/ Fits /\ Accept(t)
     \/ ~Fits /\ Await(t)
  /\ UNCHANGED <<acked, flags, events, w, active, file>>

\* The call returns or raises.
Leaves(t) == Moves(t, "idle") /\ pending' = [pending EXCEPT ![t] = 0]

\* After the wait, notified or timed out: the recorder is gone, there is room,
\* or there is none and the thread waits again or, out of time, gives up.
Recheck(t) ==
  /\ at[t] = "capacity"
  /\ \/ Available /\ Fits /\ Accept(t)
     \/ Available /\ ~Fits /\ t \notin waiters /\ Await(t)
     \/ /\ ~(Available /\ Fits)
        /\ Leaves(t) /\ waiters' = waiters \ {t} /\ UNCHANGED buffer
  /\ UNCHANGED <<acked, flags, events, w, active, file>>

\* The event is set: the record failed, the recorder has, or it is written.
Confirm(t) ==
  /\ at[t] = "confirm" /\ pending[t] \in done
  /\ acked' = IF pending[t] \in errors \/ failed THEN acked ELSE acked \cup {pending[t]}
  /\ Leaves(t)
  /\ UNCHANGED <<waiters, buffer, flags, events, w, active, file>>

TimedOut(t) ==
  /\ at[t] = "confirm"
  /\ Leaves(t)
  /\ UNCHANGED <<acked, waiters, buffer, flags, events, w, active, file>>

\* close(drain=False): what is queued is dropped, and who waits for it is told.
Discard ==
  /\ queue' = <<>> /\ outstanding' = outstanding - Len(queue)
  /\ done' = done \cup Queued /\ errors' = errors \cup Queued

\* Variant: nobody is woken.
CloseQuietly(t) ==
  /\ at[t] = "idle" /\ ~closed
  /\ closing' = TRUE
  /\ (UNCHANGED <<queue, outstanding, events>> \/ Discard)
  /\ Moves(t, "join")
  /\ UNCHANGED <<waiters, pending, acked, nextSeq, closed, failed, w, active, file>>

Close(t) ==
  /\ at[t] = "idle" /\ ~closed
  /\ closing' = TRUE
  /\ (UNCHANGED <<queue, outstanding, events>> \/ Discard)
  /\ NotifyAll
  /\ Moves(t, "join")
  /\ UNCHANGED <<pending, acked, nextSeq, closed, failed, w, active, file>>

\* The writer thread has ended, or the join timed out.
Joined(t) ==
  /\ at[t] = "join"
  /\ closed' = (closed \/ w = "gone")
  /\ Moves(t, "idle")
  /\ UNCHANGED <<pending, acked, waiters, buffer, closing, failed, events, w, active, file>>

-----------------------------------------------------------------------------
(* The writer thread.                                                      *)

\* The next record, the end, or sleep.
Take ==
  /\ w = "ready" \/ (w = "asleep" /\ "writer" \notin waiters)
  /\ \/ /\ queue # <<>>
        /\ active' = Head(queue) /\ queue' = Tail(queue)
        /\ Writer("write") /\ UNCHANGED waiters
     \/ /\ queue = <<>> /\ closing
        /\ Writer("last_sync") /\ UNCHANGED <<active, queue, waiters>>
     \/ /\ queue = <<>> /\ ~closing
        /\ waiters' = waiters \cup {"writer"}
        /\ Writer("asleep") /\ UNCHANGED <<active, queue>>
  /\ UNCHANGED <<calls, outstanding, nextSeq, flags, events, file>>

\* Variant: a critical record is not synced either.
WriteOnly ==
  /\ w = "write"
  /\ \/ lines' = Append(lines, active.seq) /\ Writer("finish") /\ UNCHANGED torn
     \/ torn' \in BOOLEAN /\ Writer("failing") /\ UNCHANGED lines
  /\ UNCHANGED <<calls, waiters, buffer, flags, events, active, durable>>

\* The data and the newline; either write may fail halfway.
Write ==
  /\ w = "write"
  /\ \/ /\ lines' = Append(lines, active.seq)
        /\ Writer(IF active.critical THEN "sync" ELSE "finish") /\ UNCHANGED torn
     \/ torn' \in BOOLEAN /\ Writer("failing") /\ UNCHANGED lines
  /\ UNCHANGED <<calls, waiters, buffer, flags, events, active, durable>>

Sync ==
  /\ w \in {"sync", "last_sync"}
  /\ \/ durable' = Len(lines) /\ Writer(IF w = "sync" THEN "finish" ELSE "shut")
     \/ Writer("failing") /\ UNCHANGED durable
  /\ UNCHANGED <<calls, waiters, buffer, flags, events, active, lines, torn>>

\* Variant: one waiter is woken for the room that one record leaves.
FinishNotifies ==
  /\ w = "finish"
  /\ outstanding' = outstanding - 1
  /\ done' = done \cup InHand
  /\ Notify(waiters)
  /\ active' = Nothing /\ Writer("ready")
  /\ UNCHANGED <<calls, queue, nextSeq, flags, errors, file>>

Finish ==
  /\ w = "finish"
  /\ outstanding' = outstanding - 1
  /\ done' = done \cup InHand
  /\ NotifyAll
  /\ active' = Nothing /\ Writer("ready")
  /\ UNCHANGED <<calls, queue, nextSeq, flags, errors, file>>

\* Variant: only the record in hand is answered.
FailActive ==
  /\ w = "failing"
  /\ failed' = TRUE
  /\ done' = done \cup InHand /\ errors' = errors \cup InHand
  /\ queue' = <<>> /\ outstanding' = 0 /\ active' = Nothing
  /\ NotifyAll
  /\ Writer("shut")
  /\ UNCHANGED <<calls, nextSeq, closing, closed, file>>

\* Everybody who waits for a record is told.
Fail ==
  /\ w = "failing"
  /\ failed' = TRUE
  /\ done' = done \cup InHand \cup Queued
  /\ errors' = errors \cup InHand \cup Queued
  /\ queue' = <<>> /\ outstanding' = 0 /\ active' = Nothing
  /\ NotifyAll
  /\ Writer("shut")
  /\ UNCHANGED <<calls, nextSeq, closing, closed, file>>

\* The file is closed, which may fail too.
Shut ==
  /\ w = "shut"
  /\ \/ UNCHANGED <<failed, waiters>>
     \/ failed' = TRUE /\ NotifyAll
  /\ Writer("gone")
  /\ UNCHANGED <<calls, buffer, closing, closed, events, active, file>>

-----------------------------------------------------------------------------

Init ==
  /\ at = [t \in Threads |-> "idle"] /\ pending = [t \in Threads |-> 0]
  /\ acked = {} /\ waiters = {}
  /\ queue = <<>> /\ outstanding = 0 /\ nextSeq = 1
  /\ closing = FALSE /\ closed = FALSE /\ failed = FALSE
  /\ done = {} /\ errors = {}
  /\ w = "ready" /\ active = Nothing
  /\ lines = <<>> /\ torn = FALSE /\ durable = 0

WriterThread == Take \/ Write \/ Sync \/ Finish \/ Fail \/ Shut

Caller(t) ==
  \/ Submit(t) \/ WriteCritical(t) \/ Recheck(t) \/ Confirm(t) \/ TimedOut(t)
  \/ Close(t) \/ Joined(t)

Next == WriterThread \/ \E t \in Threads : Caller(t)

Spec == Init /\ [][Next]_vars

\* The writer thread goes on while it can.
FairSpec == Spec /\ WF_vars(WriterThread)

-----------------------------------------------------------------------------
(* Properties.                                                             *)

\* Type, with what the counters count: the queue and the record in hand.
TypeOK ==
  /\ at \in [Threads -> {"idle", "capacity", "confirm", "join"}]
  /\ pending \in [Threads -> Nat]
  /\ acked \subseteq Nat /\ done \subseteq Nat /\ errors \subseteq done
  /\ waiters \subseteq Threads \cup {"writer"}
  /\ queue \in Seq(Items) /\ nextSeq \in Nat
  /\ outstanding = Len(queue) + (IF active = Nothing THEN 0 ELSE 1)
  /\ closing \in BOOLEAN /\ closed \in BOOLEAN /\ failed \in BOOLEAN
  /\ w \in {"ready", "asleep", "write", "sync", "finish", "last_sync", "failing",
            "shut", "gone"}
  /\ active \in Items
  /\ lines \in Seq(Nat) /\ torn \in BOOLEAN /\ durable \in Nat

\* The complete lines of the file are numbered from 1 without a gap, however
\* samples and critical records of several threads overtake each other; the
\* readers refuse any other file.
LogIsContiguous == \A i \in 1..Len(lines) : lines[i] = i

\* A critical record whose number was returned is on the disk.
AckedIsDurable == acked \subseteq 1..durable /\ durable <= Len(lines)

\* Who waits for a critical record will be told: it is queued or being written,
\* or its event is set.
Answered ==
  \A t \in Threads : at[t] = "confirm" => pending[t] \in done \cup Queued \cup InHand

\* Nobody sleeps through what it waits for: the writer has nothing to do, and
\* for the others there is no room.
NoLostWakeup ==
  /\ "writer" \in waiters => queue = <<>> /\ ~closing
  /\ \A t \in Threads \cap waiters : ~Fits /\ Available

\* A recorder that is told to close comes to its end, whatever fails.
Drains == closing ~> w = "gone"

================================================================================
