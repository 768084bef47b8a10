-------------------------- MODULE ControlProtocol --------------------------
(***************************************************************************)
(* The freshness and ordering gate of one robot control endpoint           *)
(* (common/control_protocol.py, class ProtocolValidator), fed by operator  *)
(* sessions over UDP.  A datagram, once sent, may be delivered at any      *)
(* later time, any number of times and in any order, or never: `sent`      *)
(* keeps every datagram and Deliver picks any of them.  The receiver       *)
(* process may restart, which empties its table of sessions.               *)
(*                                                                         *)
(* `clock` is real time.  Each session's sender counts from its own        *)
(* origin, so that the receiver sees the constant Origin[k] in every       *)
(* recv - sent difference; it never sees a delay directly.                 *)
(***************************************************************************)
EXTENDS Integers, FiniteSets, Sequences

CONSTANTS
  Sessions,     \* the (source_id, session_id) keys that ever talk
  MaxSessions,  \* ProtocolValidator.max_sessions
  TTL,          \* ttl_ms of the datagrams, in clock units
  Origin,       \* [Sessions -> Int], receiver clock minus sender clock
  MaxSeq,       \* bound: datagrams each session sends
  MaxClock      \* bound: real time explored

ASSUME ProtocolAssumption ==
  /\ MaxSessions \in Nat \ {0}
  /\ TTL \in Nat
  /\ Origin \in [Sessions -> Int]
  /\ MaxSeq \in [Sessions -> Nat]
  /\ MaxClock \in Nat

VARIABLES
  clock,
  sent,      \* every datagram ever sent
  nextSeq,   \* [Sessions -> Nat], ControlTransport.seq of each sender
  sessions,  \* ProtocolValidator._sessions; Absent for a key not in the dict
  history    \* [Sessions -> sequence of what the gate remembered since the
             \*  key last entered the table], for the properties only

vars == <<clock, sent, nextSeq, sessions, history>>

Commands == {"stop", "motion"}

\* `valid` abstracts the field checks: version, type, target, command,
\* session_id, seq, sent_monotonic_ns, ttl_ms and speed.
Datagrams == [key: Sessions, seq: Nat \ {0}, cmd: Commands, at: Nat, valid: BOOLEAN]

SessionState == [seq: Nat, best: Int, seen: Nat]

\* The state of a key the table does not hold.  A remembered session has
\* seq >= 1, because the field checks refuse seq < 1.
Absent == [seq |-> 0, best |-> 0, seen |-> 0]

Known(k) == sessions[k].seq # 0

-----------------------------------------------------------------------------
(* What validate() computes about datagram m before it decides.            *)

Smaller(a, b) == IF a <= b THEN a ELSE b

IsStop(m) == m.cmd = "stop"

\* Variant: an off-by-one that lets the last number through again.
DuplicateMissesLast(m) == m.seq < sessions[m.key].seq

Duplicate(m) == m.seq <= sessions[m.key].seq

\* recv_monotonic_ns - sent_monotonic_ns, as the receiver computes it.
Offset(m) == Origin[m.key] + (clock - m.at)

\* Variant: the baseline follows the last datagram instead of the fastest.
BestOffsetIsLast(m) == Offset(m)

BestOffset(m) ==
  IF Known(m.key) THEN Smaller(sessions[m.key].best, Offset(m)) ELSE Offset(m)

\* Variant: a datagram exactly TTL slower than the baseline is refused.
ExpiredAtTTL(m) == Offset(m) - BestOffset(m) >= TTL

Expired(m) == Offset(m) - BestOffset(m) > TTL

\* What accepting m leaves in the table for its key.
Remembered(m) == [seq |-> m.seq, best |-> BestOffset(m), seen |-> clock]

\* The keys _remember may drop: the least recently seen of the others (the
\* key just written is the newest entry, so min() never picks it).
Oldest(k) ==
  {v \in Sessions \ {k} :
     /\ Known(v)
     /\ \A w \in Sessions \ {k} : Known(w) => sessions[v].seen <= sessions[w].seen}

KnownWith(k) == {w \in Sessions : Known(w)} \cup {k}

-----------------------------------------------------------------------------
(* Outcomes of validate() for a delivered datagram.                        *)

\* What a history entry records of an accepted datagram.
Entry(m) == [seq |-> m.seq, cmd |-> m.cmd, delay |-> clock - m.at]

\* Lines 239-257.  Writing key m.key may push the table over its limit, and
\* then one other key is forgotten with all that was known of it.
Remember(m) ==
  \/ /\ Cardinality(KnownWith(m.key)) <= MaxSessions
     /\ sessions' = [sessions EXCEPT ![m.key] = Remembered(m)]
     /\ history' = [history EXCEPT ![m.key] = Append(@, Entry(m))]
  \/ /\ Cardinality(KnownWith(m.key)) > MaxSessions
     /\ \E v \in Oldest(m.key) :
          /\ sessions' = [sessions EXCEPT ![m.key] = Remembered(m), ![v] = Absent]
          /\ history' = [history EXCEPT ![m.key] = Append(@, Entry(m)), ![v] = <<>>]

\* Variant: any first datagram starts a session.
RejectedWithoutBaseline(m) ==
  \/ ~m.valid
  \/ ~IsStop(m) /\ (Duplicate(m) \/ Expired(m))

\* An early return that leaves the table alone: a field check failed, the
\* session has no baseline yet, or the datagram is out of order or too late.
Rejected(m) ==
  \/ ~m.valid
  \/ ~Known(m.key) /\ ~IsStop(m)
  \/ ~IsStop(m) /\ (Duplicate(m) \/ Expired(m))

Reject(m) ==
  /\ Rejected(m)
  /\ UNCHANGED <<sessions, history>>

\* Lines 212-224: a late or repeated stop is applied all the same, and moves
\* the watermark only forwards.
AcceptLateStop(m) ==
  /\ ~Rejected(m)
  /\ IsStop(m) /\ (Duplicate(m) \/ Expired(m))
  /\ IF Duplicate(m) THEN UNCHANGED <<sessions, history>> ELSE Remember(m)

\* Lines 231-237: verdict "ok".
AcceptFresh(m) ==
  /\ ~Rejected(m)
  /\ ~Duplicate(m) /\ ~Expired(m)
  /\ Remember(m)

-----------------------------------------------------------------------------

Init ==
  /\ clock = 0
  /\ sent = {}
  /\ nextSeq = [k \in Sessions |-> 0]
  /\ sessions = [k \in Sessions |-> Absent]
  /\ history = [k \in Sessions |-> <<>>]

\* ControlTransport.send_one: the next number of the session, stamped now.
Send(k, cmd, valid) ==
  /\ nextSeq[k] < MaxSeq[k]
  /\ nextSeq' = [nextSeq EXCEPT ![k] = @ + 1]
  /\ sent' = sent \cup {[key |-> k, seq |-> nextSeq[k] + 1, cmd |-> cmd,
                         at |-> clock, valid |-> valid]}
  /\ UNCHANGED <<clock, sessions, history>>

\* One call of validate(): exactly one of the three outcomes is enabled.
Deliver(m) ==
  /\ \/ Reject(m)
     \/ AcceptLateStop(m)
     \/ AcceptFresh(m)
  /\ UNCHANGED <<clock, sent, nextSeq>>

\* The control service is restarted: a new ProtocolValidator, lines 114-121.
Restart ==
  /\ sessions' = [k \in Sessions |-> Absent]
  /\ history' = [k \in Sessions |-> <<>>]
  /\ UNCHANGED <<clock, sent, nextSeq>>

Tick ==
  /\ clock < MaxClock
  /\ clock' = clock + 1
  /\ UNCHANGED <<sent, nextSeq, sessions, history>>

Next ==
  \/ \E k \in Sessions, cmd \in Commands, valid \in BOOLEAN : Send(k, cmd, valid)
  \/ \E m \in sent : Deliver(m)
  \/ Restart
  \/ Tick

Spec == Init /\ [][Next]_vars

-----------------------------------------------------------------------------
(* Properties.                                                             *)

HistoryEntry == [seq: Nat \ {0}, cmd: Commands, delay: Nat]

\* Every variable keeps its type.
TypeOK ==
  /\ clock \in 0..MaxClock
  /\ sent \in SUBSET Datagrams
  /\ nextSeq \in [Sessions -> Nat] /\ \A k \in Sessions : nextSeq[k] <= MaxSeq[k]
  /\ sessions \in [Sessions -> SessionState]
  /\ history \in [Sessions -> Seq(HistoryEntry)]

\* Ordering (lines 202, 226): as long as the receiver remembers a session, a
\* motion command is applied only if its number exceeds that of everything
\* applied before, whatever the network repeated or reordered.  So no motion
\* is applied twice, and none is applied after a stop that was sent later.
AppliedInOrder ==
  \A k \in Sessions : \A i, j \in DOMAIN history[k] :
    i < j => history[k][i].seq < history[k][j].seq

\* Freshness (lines 198-210, 228): a motion command is never applied more
\* than TTL later, relative to when it was sent, than the fastest datagram of
\* the session so far, although the receiver sees neither clock origin.
AppliedFresh ==
  \A k \in Sessions : \A i, j \in DOMAIN history[k] :
    (i < j /\ history[k][j].cmd = "motion") =>
      history[k][j].delay <= history[k][i].delay + TTL

\* Lines 187-196: the first datagram that counts for a session is a stop,
\* also after the session was forgotten or the receiver restarted.
BaselineIsStop ==
  \A k \in Sessions :
    history[k] # <<>> => history[k][1].cmd = "stop"

\* The converse of freshness: a motion that is in order and was carried no
\* more than TTL slower than the fastest datagram of its session is not
\* refused.  A late first stop or a late stop never makes the gate stricter.
PromptNotRefused ==
  \A m \in sent :
    LET h == history[m.key] IN
      ( /\ m.valid /\ h # <<>>
        /\ \A i \in DOMAIN h : h[i].seq < m.seq
        /\ \E i \in DOMAIN h : \A j \in DOMAIN h :
             h[i].delay <= h[j].delay /\ clock - m.at <= h[i].delay + TTL )
      => ~Rejected(m)

=============================================================================
