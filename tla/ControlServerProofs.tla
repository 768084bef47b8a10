------------------------ MODULE ControlServerProofs ------------------------
(***************************************************************************)
(* The control server: what the gate of ControlProtocol guarantees for     *)
(* every number of sessions, every table size, every TTL and every clock   *)
(* origin, and what the latch of DriveLatch keeps through crashes.         *)
(***************************************************************************)
EXTENDS ControlProtocol, DriveLatch, SequenceTheorems, TLAPS

(***************************************************************************)
(* The inductive invariant ties the table to what was applied: for a key   *)
(* in the table, the watermark is the largest number applied, and the best *)
(* offset is the smallest delay applied, seen from the receiver's clock.   *)
(* That both are reached by a datagram that was applied, and not only      *)
(* bounds, is what keeps the gate from refusing too much.                  *)
(***************************************************************************)
Watermark(k) ==
  /\ \A i \in DOMAIN history[k] : history[k][i].seq <= sessions[k].seq
  /\ \E i \in DOMAIN history[k] : history[k][i].seq = sessions[k].seq

Baseline(k) ==
  /\ \A i \in DOMAIN history[k] : sessions[k].best <= Origin[k] + history[k][i].delay
  /\ \E i \in DOMAIN history[k] : sessions[k].best = Origin[k] + history[k][i].delay

Ordered(k) ==
  \A i, j \in DOMAIN history[k] : i < j => history[k][i].seq < history[k][j].seq

Fresh(k) ==
  \A i, j \in DOMAIN history[k] :
    (i < j /\ history[k][j].cmd = "motion") =>
      history[k][j].delay <= history[k][i].delay + TTL

SessionInv(k) ==
  IF Known(k)
  THEN /\ history[k] # <<>>
       /\ history[k][1].cmd = "stop"
       /\ Watermark(k)
       /\ Baseline(k)
       /\ Ordered(k)
       /\ Fresh(k)
  ELSE history[k] = <<>>

SentInPast == \A m \in sent : m.at <= clock

IInv ==
  /\ TypeOK
  /\ SentInPast
  /\ \A k \in Sessions : SessionInv(k)

-----------------------------------------------------------------------------

\* No slower than the fastest by more than ttl is no slower than any by more.
LEMMA Slower ==
  ASSUME NEW offset \in Int, NEW best \in Int, NEW origin \in Int, NEW delay \in Int,
         NEW ttl \in Int, offset - best <= ttl, best <= origin + delay
  PROVE  offset <= origin + delay + ttl
OBVIOUS

LEMMA SameOrigin ==
  ASSUME NEW origin \in Int, NEW late \in Int, NEW delay \in Int, NEW ttl \in Int,
         origin + late <= origin + delay + ttl
  PROVE  late <= delay + ttl
OBVIOUS

(* The initial states satisfy the inductive invariant.                     *)
LEMMA InitInv == Init => IInv
  BY ProtocolAssumption
  DEF Init, IInv, TypeOK, SentInPast, SessionInv, Known, Absent, SessionState,
      HistoryEntry, Datagrams

(* What validate() computes has the right type.                            *)
LEMMA RememberedType ==
  ASSUME IInv, NEW m \in sent
  PROVE  /\ m.key \in Sessions
         /\ m.seq \in Nat \ {0}
         /\ Offset(m) \in Int
         /\ BestOffset(m) \in Int
         /\ BestOffset(m) <= Offset(m)
         /\ Remembered(m) \in SessionState
         /\ Entry(m) \in HistoryEntry
<1>1. /\ m \in Datagrams
      /\ m.key \in Sessions
      /\ m.seq \in Nat \ {0}
      /\ m.cmd \in Commands
      /\ m.at \in Nat
      /\ clock \in Nat
      /\ m.at <= clock
  BY ProtocolAssumption DEF IInv, TypeOK, SentInPast, Datagrams
<1>2. sessions[m.key] \in SessionState /\ Origin[m.key] \in Int
  BY <1>1, ProtocolAssumption DEF IInv, TypeOK
<1>3. Offset(m) \in Int
  BY <1>1, <1>2 DEF Offset
<1>4. BestOffset(m) \in Int /\ BestOffset(m) <= Offset(m)
  BY <1>2, <1>3 DEF BestOffset, Smaller, SessionState
<1>5. Remembered(m) \in SessionState
  BY <1>1, <1>4 DEF Remembered, SessionState
<1>6. Entry(m) \in HistoryEntry
  BY <1>1 DEF Entry, HistoryEntry
<1>7. QED
  BY <1>1, <1>3, <1>4, <1>5, <1>6

(* Entering an accepted datagram in the table keeps the invariant of its   *)
(* own key: the watermark and the baseline move together with history.     *)
LEMMA RememberOwnKey ==
  ASSUME IInv, NEW m \in sent, m.valid, ~Duplicate(m), ~Rejected(m),
         sessions'[m.key] = Remembered(m),
         history'[m.key] = Append(history[m.key], Entry(m))
  PROVE  SessionInv(m.key)'
<1> DEFINE k == m.key
           h == history[k]
           n == Len(h)
           e == Entry(m)
<1>1. /\ k \in Sessions
      /\ m.seq \in Nat \ {0}
      /\ Offset(m) \in Int
      /\ BestOffset(m) \in Int
      /\ BestOffset(m) <= Offset(m)
      /\ Remembered(m) \in SessionState
      /\ e \in HistoryEntry
  BY RememberedType
<1>2. h \in Seq(HistoryEntry) /\ n \in Nat /\ DOMAIN h = 1..n
  BY <1>1 DEF IInv, TypeOK
<1>3. /\ history'[k] = Append(h, e)
      /\ DOMAIN history'[k] = 1..(n + 1)
      /\ history'[k][n + 1] = e
      /\ \A i \in 1..n : history'[k][i] = h[i]
  BY <1>1, <1>2
<1>4. /\ sessions'[k].seq = m.seq
      /\ sessions'[k].best = BestOffset(m)
      /\ e.seq = m.seq /\ e.cmd = m.cmd /\ e.delay = clock - m.at
  BY DEF Remembered, Entry
<1>5. Offset(m) = Origin[k] + e.delay /\ Origin[k] \in Int /\ TTL \in Int
  BY <1>1, <1>4, ProtocolAssumption DEF Offset
<1>6. \A i \in 1..n : h[i].seq \in Nat /\ h[i].delay \in Nat
  <2>1. \A i \in 1..n : h[i] \in HistoryEntry
    BY <1>2, ElementOfSeq
  <2>2. QED
    BY <2>1 DEF HistoryEntry
<1>7. sessions[k] \in SessionState /\ sessions[k].seq \in Nat /\ sessions[k].best \in Int
  BY <1>1 DEF IInv, TypeOK, SessionState
<1>8. sessions[k].seq < m.seq
  BY <1>1, <1>7 DEF Duplicate
<1>9. e.delay \in Nat
  BY <1>1 DEF HistoryEntry
<1>10. Offset(m) \in Int /\ BestOffset(m) \in Int /\ e.delay \in Int /\ m.seq \in Int
  BY <1>1, <1>9
<1>11. Known(k)'
  BY <1>1, <1>4 DEF Known
<1>12. CASE ~Known(k)
  <2>1. h = <<>> /\ n = 0 /\ m.cmd = "stop"
    BY <1>12, <1>1, <1>2 DEF IInv, SessionInv, Rejected, IsStop
  <2>2. BestOffset(m) = Offset(m)
    BY <1>12 DEF BestOffset
  <2>3. Baseline(k)'
    BY <2>1, <2>2, <1>1, <1>3, <1>4, <1>5, <1>9 DEF Baseline
  <2>4. Watermark(k)' /\ Ordered(k)' /\ Fresh(k)'
    BY <2>1, <1>1, <1>3, <1>4 DEF Watermark, Ordered, Fresh
  <2>5. QED
    BY <2>1, <2>3, <2>4, <1>11, <1>3, <1>4 DEF SessionInv
<1>13. CASE Known(k)
  <2>1. /\ h # <<>> /\ n # 0
        /\ h[1].cmd = "stop"
        /\ Watermark(k) /\ Baseline(k) /\ Ordered(k) /\ Fresh(k)
    BY <1>13, <1>1, <1>2 DEF IInv, SessionInv
  <2>2. BestOffset(m) = Smaller(sessions[k].best, Offset(m))
    BY <1>13 DEF BestOffset
  <2>3. ASSUME NEW i \in 1..n
        PROVE  h[i].seq < m.seq
    <3>1. h[i].seq <= sessions[k].seq
      BY <2>1, <1>2 DEF Watermark
    <3>2. h[i].seq \in Int /\ sessions[k].seq \in Int
      BY <1>6, <1>7
    <3>3. QED
      BY <3>1, <3>2, <1>8, <1>10
  <2>4. Watermark(k)'
    <3>1. ASSUME NEW i \in 1..(n + 1)
          PROVE  history'[k][i].seq <= m.seq
      <4>1. CASE i = n + 1
        BY <4>1, <1>1, <1>3, <1>4
      <4>2. CASE i # n + 1
        <5>1. i \in 1..n
          BY <4>2, <1>2
        <5>2. QED
          BY <5>1, <2>3, <1>1, <1>3, <1>6
      <4>3. QED
        BY <4>1, <4>2
    <3>2. n + 1 \in DOMAIN history'[k] /\ history'[k][n + 1].seq = m.seq
      BY <1>2, <1>3, <1>4
    <3>3. QED
      BY <3>1, <3>2, <1>3, <1>4 DEF Watermark
  <2>5. Ordered(k)'
    <3>1. ASSUME NEW i \in 1..(n + 1), NEW j \in 1..(n + 1), i < j
          PROVE  history'[k][i].seq < history'[k][j].seq
      <4>1. i \in 1..n /\ history'[k][i] = h[i]
        BY <3>1, <1>2, <1>3
      <4>2. CASE j = n + 1
        BY <4>1, <4>2, <2>3, <1>3, <1>4
      <4>3. CASE j # n + 1
        <5>1. j \in 1..n /\ history'[k][j] = h[j]
          BY <4>3, <1>2, <1>3
        <5>2. QED
          BY <5>1, <4>1, <3>1, <2>1, <1>2 DEF Ordered
      <4>4. QED
        BY <4>2, <4>3
    <3>2. QED
      BY <3>1, <1>3 DEF Ordered
  <2>6. Baseline(k)'
    <3>1. ASSUME NEW i \in 1..n
          PROVE  BestOffset(m) <= Origin[k] + h[i].delay
      <4>1. sessions[k].best <= Origin[k] + h[i].delay
        BY <2>1, <1>2 DEF Baseline
      <4>2. h[i].delay \in Int
        BY <1>6
      <4>3. QED
        BY <4>1, <4>2, <2>2, <1>1, <1>5, <1>7 DEF Smaller
    <3>2. ASSUME NEW i \in 1..(n + 1)
          PROVE  BestOffset(m) <= Origin[k] + history'[k][i].delay
      <4>1. CASE i = n + 1
        BY <4>1, <1>1, <1>3, <1>5
      <4>2. CASE i # n + 1
        BY <4>2, <3>1, <1>2, <1>3
      <4>3. QED
        BY <4>1, <4>2
    <3>3. \E i \in 1..(n + 1) : BestOffset(m) = Origin[k] + history'[k][i].delay
      <4>1. CASE BestOffset(m) = Offset(m)
        BY <4>1, <1>2, <1>3, <1>5
      <4>2. CASE BestOffset(m) = sessions[k].best
        <5>1. PICK i \in 1..n : sessions[k].best = Origin[k] + h[i].delay
          BY <2>1, <1>2 DEF Baseline
        <5>2. i \in 1..(n + 1) /\ history'[k][i] = h[i]
          BY <1>2, <1>3
        <5>3. QED
          BY <4>2, <5>1, <5>2
      <4>3. QED
        BY <4>1, <4>2, <2>2 DEF Smaller
    <3>4. QED
      BY <3>2, <3>3, <1>3, <1>4 DEF Baseline
  <2>7. Fresh(k)'
    <3>1. ASSUME m.cmd = "motion", NEW i \in 1..n
          PROVE  e.delay <= h[i].delay + TTL
      <4>1. Offset(m) - BestOffset(m) <= TTL
        BY <3>1, <1>1, <1>5 DEF Rejected, IsStop, Expired
      <4>2. BestOffset(m) <= Origin[k] + h[i].delay
        <5>1. i \in DOMAIN history'[k] /\ history'[k][i] = h[i]
          BY <1>2, <1>3
        <5>2. QED
          BY <5>1, <2>6, <1>4 DEF Baseline
      <4>3. h[i].delay \in Int
        BY <1>6
      <4>4. Offset(m) <= Origin[k] + h[i].delay + TTL
        BY <4>1, <4>2, <4>3, <1>5, <1>10, Slower
      <4>5. Origin[k] + e.delay <= Origin[k] + h[i].delay + TTL
        BY <4>4, <1>5
      <4>6. QED
        BY <4>3, <4>5, <1>5, <1>10, SameOrigin
    <3>2. ASSUME NEW i \in 1..(n + 1), NEW j \in 1..(n + 1), i < j,
                 history'[k][j].cmd = "motion"
          PROVE  history'[k][j].delay <= history'[k][i].delay + TTL
      <4>1. i \in 1..n /\ history'[k][i] = h[i]
        BY <3>2, <1>2, <1>3
      <4>2. CASE j = n + 1
        BY <4>1, <4>2, <3>1, <3>2, <1>3, <1>4
      <4>3. CASE j # n + 1
        <5>1. j \in 1..n /\ history'[k][j] = h[j]
          BY <4>3, <1>2, <1>3
        <5>2. QED
          BY <5>1, <4>1, <3>2, <2>1, <1>2 DEF Fresh
      <4>4. QED
        BY <4>2, <4>3
    <3>3. QED
      BY <3>2, <1>3 DEF Fresh
  <2>8. QED
    BY <2>1, <2>4, <2>5, <2>6, <2>7, <1>2, <1>3, <1>11 DEF SessionInv
<1>14. QED
  BY <1>12, <1>13

(* A datagram that enters the table keeps the whole invariant: its own key *)
(* by the lemma above, every other key is as it was or is forgotten with   *)
(* its history.                                                            *)
LEMMA RememberInv ==
  ASSUME IInv, NEW m \in sent, m.valid, ~Duplicate(m), ~Rejected(m),
         Remember(m), UNCHANGED <<clock, sent, nextSeq>>
  PROVE  IInv'
<1>1. /\ m.key \in Sessions
      /\ Remembered(m) \in SessionState
      /\ Entry(m) \in HistoryEntry
  BY RememberedType
<1>2. sessions \in [Sessions -> SessionState] /\ history \in [Sessions -> Seq(HistoryEntry)]
  BY DEF IInv, TypeOK
<1>3. Append(history[m.key], Entry(m)) \in Seq(HistoryEntry)
  BY <1>1, <1>2, AppendProperties
<1>4. Absent \in SessionState /\ Absent.seq = 0 /\ <<>> \in Seq(HistoryEntry)
  BY DEF Absent, SessionState
<1>5. /\ sessions' \in [Sessions -> SessionState]
      /\ history' \in [Sessions -> Seq(HistoryEntry)]
      /\ sessions'[m.key] = Remembered(m)
      /\ history'[m.key] = Append(history[m.key], Entry(m))
      /\ \A k \in Sessions \ {m.key} :
           \/ sessions'[k] = sessions[k] /\ history'[k] = history[k]
           \/ sessions'[k] = Absent /\ history'[k] = <<>>
  <2>1. CASE /\ sessions' = [sessions EXCEPT ![m.key] = Remembered(m)]
             /\ history' = [history EXCEPT ![m.key] = Append(@, Entry(m))]
    BY <2>1, <1>1, <1>2, <1>3
  <2>2. CASE \E v \in Oldest(m.key) :
               /\ sessions' = [sessions EXCEPT ![m.key] = Remembered(m), ![v] = Absent]
               /\ history' = [history EXCEPT ![m.key] = Append(@, Entry(m)), ![v] = <<>>]
    <3>1. PICK v \in Oldest(m.key) :
               /\ sessions' = [sessions EXCEPT ![m.key] = Remembered(m), ![v] = Absent]
               /\ history' = [history EXCEPT ![m.key] = Append(@, Entry(m)), ![v] = <<>>]
      BY <2>2
    <3>2. v \in Sessions /\ v # m.key
      BY DEF Oldest
    <3>3. QED
      BY <3>1, <3>2, <1>1, <1>2, <1>3, <1>4
  <2>3. QED
    BY <2>1, <2>2 DEF Remember
<1>6. SessionInv(m.key)'
  BY <1>5, RememberOwnKey
<1>7. ASSUME NEW k \in Sessions \ {m.key}
      PROVE  SessionInv(k)'
  <2>1. CASE sessions'[k] = sessions[k] /\ history'[k] = history[k]
    BY <2>1 DEF IInv, SessionInv, Known, Watermark, Baseline, Ordered, Fresh
  <2>2. CASE sessions'[k] = Absent /\ history'[k] = <<>>
    BY <2>2, <1>4 DEF SessionInv, Known
  <2>3. QED
    BY <2>1, <2>2, <1>5
<1>8. TypeOK' /\ SentInPast'
  BY <1>5 DEF IInv, TypeOK, SentInPast
<1>9. QED
  BY <1>6, <1>7, <1>8 DEF IInv

(* The invariant is inductive.                                             *)
LEMMA StepInv == IInv /\ [Next]_vars => IInv'
<1> SUFFICES ASSUME IInv, [Next]_vars
             PROVE  IInv'
  OBVIOUS
<1> USE ProtocolAssumption
<1>1. ASSUME UNCHANGED <<sessions, history>>,
             TypeOK', SentInPast'
      PROVE  IInv'
  BY <1>1 DEF IInv, SessionInv, Known, Watermark, Baseline, Ordered, Fresh
<1>2. ASSUME NEW k \in Sessions, NEW cmd \in Commands, NEW valid \in BOOLEAN,
             Send(k, cmd, valid)
      PROVE  IInv'
  <2> DEFINE d == [key |-> k, seq |-> nextSeq[k] + 1, cmd |-> cmd,
                   at |-> clock, valid |-> valid]
  <2>1. nextSeq[k] \in Nat /\ nextSeq[k] < MaxSeq[k] /\ MaxSeq[k] \in Nat /\ clock \in Nat
    BY <1>2 DEF IInv, TypeOK, Send
  <2>2. d \in Datagrams /\ d.at = clock
    BY <2>1 DEF Datagrams
  <2>3. nextSeq' \in [Sessions -> Nat] /\ \A q \in Sessions : nextSeq'[q] <= MaxSeq[q]
    BY <2>1, <1>2 DEF IInv, TypeOK, Send
  <2>4. sent' = sent \cup {d} /\ UNCHANGED <<clock, sessions, history>>
    BY <1>2 DEF Send
  <2>5. TypeOK' /\ SentInPast'
    BY <2>1, <2>2, <2>3, <2>4 DEF IInv, TypeOK, SentInPast
  <2>6. QED
    BY <2>4, <2>5, <1>1
<1>3. ASSUME NEW m \in sent, Deliver(m)
      PROVE  IInv'
  <2>1. UNCHANGED <<clock, sent, nextSeq>>
    BY <1>3 DEF Deliver
  <2>2. CASE UNCHANGED <<sessions, history>>
    BY <2>1, <2>2, <1>1 DEF IInv, TypeOK, SentInPast
  <2>3. CASE ~Rejected(m) /\ ~Duplicate(m) /\ Remember(m)
    BY <2>1, <2>3, RememberInv DEF Rejected
  <2>4. QED
    BY <2>2, <2>3, <1>3 DEF Deliver, Reject, AcceptLateStop, AcceptFresh
<1>4. ASSUME Restart
      PROVE  IInv'
  BY <1>4 DEF Restart, IInv, TypeOK, SentInPast, SessionInv, Known, Absent, SessionState
<1>5. ASSUME Tick
      PROVE  IInv'
  <2>1. /\ clock' \in 0..MaxClock /\ clock <= clock'
        /\ UNCHANGED <<sent, nextSeq, sessions, history>>
        /\ clock \in Nat
    BY <1>5 DEF Tick, IInv, TypeOK
  <2>2. \A m \in sent : m.at \in Nat
    BY DEF IInv, TypeOK, Datagrams
  <2>3. TypeOK' /\ SentInPast'
    BY <2>1, <2>2 DEF IInv, TypeOK, SentInPast
  <2>4. QED
    BY <2>1, <2>3, <1>1
<1>6. CASE UNCHANGED vars
  BY <1>6, <1>1 DEF vars, IInv, TypeOK, SentInPast
<1>7. QED
  BY <1>2, <1>3, <1>4, <1>5, <1>6 DEF Next

THEOREM Invariant == Spec => []IInv
  BY InitInv, StepInv, PTL DEF Spec

-----------------------------------------------------------------------------

(* The state of the gate keeps its type in every reachable state.          *)
THEOREM TypeCorrect == Spec => []TypeOK
<1>1. IInv => TypeOK
  BY DEF IInv
<1>2. QED
  BY <1>1, Invariant, PTL

(* Whatever the network repeats, delays or reorders, a session's commands  *)
(* are applied in the order they were sent, each at most once, and none    *)
(* after a stop that was sent later.                                       *)
THEOREM OrderPreserved == Spec => []AppliedInOrder
<1>1. IInv => AppliedInOrder
  BY DEF IInv, AppliedInOrder, SessionInv, Ordered
<1>2. QED
  BY <1>1, Invariant, PTL

(* A motion is applied at most TTL later, relative to its sending, than    *)
(* any datagram of its session that was applied before it.                 *)
THEOREM FreshnessBounded == Spec => []AppliedFresh
<1>1. IInv => AppliedFresh
  BY DEF IInv, AppliedFresh, SessionInv, Fresh
<1>2. QED
  BY <1>1, Invariant, PTL

(* No motion is applied before a stop has set the session's baseline.      *)
THEOREM MotionNeedsStop == Spec => []BaselineIsStop
<1>1. IInv => BaselineIsStop
  BY DEF IInv, BaselineIsStop, SessionInv
<1>2. QED
  BY <1>1, Invariant, PTL

\* Within ttl of the fastest is within ttl of what the receiver compares with.
LEMMA Prompter ==
  ASSUME NEW origin \in Int, NEW best \in Int, NEW fastest \in Int, NEW some \in Int,
         NEW delay \in Int, NEW ttl \in Nat,
         best = origin + some, fastest <= some, delay <= fastest + ttl
  PROVE  (origin + delay) - Smaller(best, origin + delay) <= ttl
BY DEF Smaller

(* A motion that is in order and at most TTL slower than the fastest       *)
(* datagram of its session is not refused, whatever came late before it.   *)
THEOREM PromptAccepted == Spec => []PromptNotRefused
<1>1. ASSUME IInv PROVE PromptNotRefused
  <2> SUFFICES ASSUME NEW m \in sent,
                      m.valid,
                      history[m.key] # <<>>,
                      \A i \in DOMAIN history[m.key] : history[m.key][i].seq < m.seq,
                      NEW fast \in DOMAIN history[m.key],
                      \A j \in DOMAIN history[m.key] :
                        /\ history[m.key][fast].delay <= history[m.key][j].delay
                        /\ clock - m.at <= history[m.key][fast].delay + TTL
               PROVE  ~Rejected(m)
    BY DEF PromptNotRefused
  <2> DEFINE k == m.key
             h == history[k]
  <2>1. /\ k \in Sessions /\ m.seq \in Nat
        /\ Offset(m) \in Int /\ BestOffset(m) \in Int
        /\ Entry(m) \in HistoryEntry
    BY <1>1, RememberedType
  <2>2. Known(k) /\ Watermark(k) /\ Baseline(k)
    BY <1>1, <2>1 DEF IInv, SessionInv
  <2>3. \A i \in DOMAIN h : h[i].seq \in Nat /\ h[i].delay \in Nat
    <3>1. h \in Seq(HistoryEntry)
      BY <1>1, <2>1 DEF IInv, TypeOK
    <3>2. \A i \in DOMAIN h : h[i] \in HistoryEntry
      BY <3>1
    <3>3. QED
      BY <3>2 DEF HistoryEntry
  <2>4. ~Duplicate(m)
    <3>1. PICK i \in DOMAIN h : h[i].seq = sessions[k].seq
      BY <2>2 DEF Watermark
    <3>2. sessions[k].seq < m.seq
      BY <3>1
    <3>3. QED
      BY <3>1, <3>2, <2>1, <2>3 DEF Duplicate
  <2>5. ~Expired(m)
    <3>1. PICK i \in DOMAIN h : sessions[k].best = Origin[k] + h[i].delay
      BY <2>2 DEF Baseline
    <3>2. /\ clock - m.at \in Int
          /\ Origin[k] \in Int /\ TTL \in Nat
          /\ sessions[k].best \in Int
      <4>1. m \in Datagrams /\ clock \in 0..MaxClock /\ sessions[k] \in SessionState
        BY <1>1, <2>1 DEF IInv, TypeOK
      <4>2. m.at \in Nat /\ clock \in Int
        BY <4>1, ProtocolAssumption DEF Datagrams
      <4>3. clock - m.at \in Int
        BY <4>2
      <4>4. Origin[k] \in Int /\ TTL \in Nat
        BY <2>1, ProtocolAssumption
      <4>5. sessions[k].best \in Int
        BY <4>1 DEF SessionState
      <4>6. QED
        BY <4>3, <4>4, <4>5
    <3>3. h[fast].delay <= h[i].delay /\ clock - m.at <= h[fast].delay + TTL
      BY <3>1
    <3>4. h[fast].delay \in Int /\ h[i].delay \in Int
      BY <2>3
    <3> DEFINE origin == Origin[k]  best == sessions[k].best  delay == clock - m.at
               fastest == h[fast].delay  some == h[i].delay
    <3>5. (origin + delay) - Smaller(best, origin + delay) <= TTL
      <4> HIDE DEF origin, best, delay, fastest, some
      <4>1. /\ origin \in Int /\ best \in Int /\ delay \in Int
            /\ fastest \in Int /\ some \in Int
            /\ TTL \in Nat
            /\ best = origin + some /\ fastest <= some /\ delay <= fastest + TTL
        BY <3>1, <3>2, <3>3, <3>4 DEF origin, best, delay, fastest, some
      <4>2. QED
        BY <4>1, Prompter
    <3>6. Offset(m) - BestOffset(m) <= TTL
      BY <3>5, <2>2 DEF Offset, BestOffset
    <3>7. QED
      <4> HIDE DEF origin, best, delay, fastest, some, k, h
      <4>1. TTL \in Int
        BY <3>2
      <4>2. QED
        BY <3>6, <4>1, <2>1 DEF Expired
  <2>6. QED
    BY <2>2, <2>4, <2>5 DEF Rejected
<1>2. QED
  BY <1>1, Invariant, PTL

-----------------------------------------------------------------------------
(***************************************************************************)
(* The latch: it holds through every interleaving of crashes with at most  *)
(* two failed operations per transaction.  The type theorem needs no such  *)
(* bound; the others do, as a run of MCDriveLatch with MaxFaults = 3 shows.*)
(***************************************************************************)
Held == {"off", "corrupt"}

\* The two independent guards that keep a boot from coming up enabled: each
\* must be certain both for a running system and after a power loss.
Marked == live.marker /\ durable.marker
Latched == live.latch \in Held /\ durable.latch \in Held

\* What each point of the transactions knows of the directory.
DiskInv ==
  /\ pc = "hold_sync" => live.latch = "off"
  /\ pc = "held" => live.latch = "off" /\ durable.latch = "off"
  /\ pc = "begin_sync" => live.marker
  /\ pc \in {"on_write", "on_sync", "on_hw", "unlink"} => Marked
  /\ pc \in {"commit_sync", "enabled"} => told \in {"nothing", "unlocking"}
  /\ pc \in {"undo_hw", "undo_marker"} => Marked \/ faults >= 1
  /\ pc = "undo_marker_sync" => live.marker /\ (Marked \/ faults >= 1)
  /\ pc = "undo_write" => Marked \/ faults >= 2
  /\ pc = "undo_sync" => live.latch = "off" /\ (Marked \/ faults >= 2)
  /\ pc = "refuse" => Marked \/ Latched
  /\ told = "held" => Marked \/ Latched

\* What each point knows of the hardware latch.
HardwareInv ==
  /\ pc \in {"hold_write", "hold_sync", "held", "hold_failed", "undo_marker",
             "undo_marker_sync", "undo_write", "undo_sync", "refuse",
             "boot_write", "boot_sync"} => ~hw
  /\ told = "held" /\ pc \in {"idle", "hold_hw", "begin_write", "begin_sync",
                              "on_write", "on_sync", "on_hw"} => ~hw

\* The way to an acknowledged enable, and what it leaves.
EnableInv ==
  /\ pc = "on_sync" => live.latch = "on"
  /\ pc \in {"on_hw", "unlink"} => live.latch = "on" /\ durable.latch = "on"
  /\ pc \in {"commit_sync", "enabled"} =>
       live.latch = "on" /\ durable.latch = "on" /\ ~live.marker
  /\ pc = "enabled" => ~durable.marker
  /\ pc \in {"unlink", "commit_sync", "enabled", "boot_load"} => hw
  /\ told = "enabled" =>
       /\ pc \in {"idle", "down", "boot_load"}
       /\ live.latch \in {"on", "absent"} /\ durable.latch \in {"on", "absent"}
       /\ ~live.marker /\ ~durable.marker
       /\ pc = "idle" => hw

LatchInv == LatchTypeOK /\ DiskInv /\ HardwareInv /\ EnableInv

Few == MaxFaults <= 2

-----------------------------------------------------------------------------

(* Every variable keeps its type, whatever the number of faults.           *)
LEMMA LatchTypeInit == LatchInit => LatchTypeOK
  BY FaultAssumption DEF LatchInit, LatchTypeOK, Disks, Steps

(* The tables of operations, row by row.                                   *)
LEMMA WriteNames ==
  DOMAIN Writes = {"hold_write", "begin_write", "on_write", "unlink",
                   "undo_marker", "undo_write", "boot_write"}
  BY DEF Writes

LEMMA WriteRows ==
  /\ /\ Writes["hold_write"].entry = "latch" /\ Writes["hold_write"].to = "off"
     /\ Writes["hold_write"].sync = "hold_sync" /\ Writes["hold_write"].fail = "hold_failed"
  /\ /\ Writes["begin_write"].entry = "marker" /\ Writes["begin_write"].to = TRUE
     /\ Writes["begin_write"].sync = "begin_sync" /\ Writes["begin_write"].fail = "undo_hw"
  /\ /\ Writes["on_write"].entry = "latch" /\ Writes["on_write"].to = "on"
     /\ Writes["on_write"].sync = "on_sync" /\ Writes["on_write"].fail = "undo_hw"
  /\ /\ Writes["unlink"].entry = "marker" /\ Writes["unlink"].to = FALSE
     /\ Writes["unlink"].sync = "commit_sync" /\ Writes["unlink"].fail = "undo_hw"
  /\ /\ Writes["undo_marker"].entry = "marker" /\ Writes["undo_marker"].to = TRUE
     /\ Writes["undo_marker"].sync = "undo_marker_sync" /\ Writes["undo_marker"].fail = "undo_write"
  /\ /\ Writes["undo_write"].entry = "latch" /\ Writes["undo_write"].to = "off"
     /\ Writes["undo_write"].sync = "undo_sync" /\ Writes["undo_write"].fail = "refuse"
  /\ /\ Writes["boot_write"].entry = "latch" /\ Writes["boot_write"].to = "off"
     /\ Writes["boot_write"].sync = "boot_sync" /\ Writes["boot_write"].fail = "idle"
  BY DEF Writes

LEMMA SyncNames ==
  DOMAIN Syncs = {"hold_sync", "begin_sync", "on_sync", "commit_sync",
                  "undo_marker_sync", "undo_sync", "boot_sync"}
  BY DEF Syncs

LEMMA SyncRows ==
  /\ Syncs["hold_sync"].ok = "held" /\ Syncs["hold_sync"].fail = "hold_failed"
  /\ Syncs["begin_sync"].ok = "on_write" /\ Syncs["begin_sync"].fail = "undo_hw"
  /\ Syncs["on_sync"].ok = "on_hw" /\ Syncs["on_sync"].fail = "undo_hw"
  /\ Syncs["commit_sync"].ok = "enabled" /\ Syncs["commit_sync"].fail = "undo_hw"
  /\ Syncs["undo_marker_sync"].ok = "undo_write" /\ Syncs["undo_marker_sync"].fail = "undo_write"
  /\ Syncs["undo_sync"].ok = "refuse" /\ Syncs["undo_sync"].fail = "refuse"
  /\ Syncs["boot_sync"].ok = "idle" /\ Syncs["boot_sync"].fail = "idle"
  BY DEF Syncs

LEMMA AllSteps ==
  Steps = {"hold_write", "begin_write", "on_write", "unlink", "undo_marker",
           "undo_write", "boot_write", "hold_sync", "begin_sync", "on_sync",
           "commit_sync", "undo_marker_sync", "undo_sync", "boot_sync", "idle",
           "hold_hw", "held", "hold_failed", "on_hw", "undo_hw", "enabled",
           "refuse", "down", "boot_load", "boot_hold"}
  BY WriteNames, SyncNames DEF Steps

LEMMA WriteType ==
  ASSUME LatchTypeOK, NEW p \in DOMAIN Writes
  PROVE  /\ [live EXCEPT ![Writes[p].entry] = Writes[p].to] \in Disks
         /\ Writes[p].sync \in Steps
         /\ Writes[p].fail \in Steps
<1>1. /\ Writes[p].sync \in Steps
      /\ Writes[p].fail \in Steps
  BY WriteNames, WriteRows, AllSteps
<1>2. CASE Writes[p].entry = "latch"
  <2>1. Writes[p].to \in Latches
    BY <1>2, WriteNames, WriteRows DEF Latches
  <2>2. QED
    BY <1>1, <1>2, <2>1 DEF LatchTypeOK, Disks
<1>3. CASE Writes[p].entry = "marker"
  <2>1. Writes[p].to \in BOOLEAN
    BY <1>3, WriteNames, WriteRows
  <2>2. QED
    BY <1>1, <1>3, <2>1 DEF LatchTypeOK, Disks
<1>4. QED
  BY <1>2, <1>3, WriteNames, WriteRows

LEMMA SyncType ==
  ASSUME NEW p \in DOMAIN Syncs
  PROVE  Syncs[p].ok \in Steps /\ Syncs[p].fail \in Steps
  BY SyncNames, SyncRows, AllSteps

LEMMA MayFailType ==
  ASSUME LatchTypeOK, MayFail
  PROVE  faults' \in 0..MaxFaults /\ faults' = faults + 1 /\ faults + 1 <= MaxFaults
  BY FaultAssumption DEF LatchTypeOK, MayFail

LEMMA LatchTypeStep == LatchTypeOK /\ [LatchNext]_latchVars => LatchTypeOK'
<1> SUFFICES ASSUME LatchTypeOK, [LatchNext]_latchVars PROVE LatchTypeOK'
  OBVIOUS
<1> USE FaultAssumption, AllSteps DEF LatchTypeOK
<1>1. CASE Receive
  BY <1>1 DEF Receive
<1>2. CASE HoldHardware
  BY <1>2, MayFailType DEF HoldHardware
<1>3. CASE EnableHardware
  BY <1>3 DEF EnableHardware
<1>4. CASE UndoHardware
  BY <1>4 DEF UndoHardware
<1>5. CASE Reply
  BY <1>5 DEF Reply
<1>6. ASSUME NEW p \in DOMAIN Writes, Write(p) PROVE LatchTypeOK'
  <2>1. pc' \in Steps
    BY <1>6, WriteType DEF Write
  <2>2. live' \in Disks
    BY <1>6, WriteType DEF Write
  <2>3. faults' \in 0..MaxFaults
    BY <1>6, MayFailType DEF Write
  <2>4. told' \in {"nothing", "held", "unlocking", "enabled"}
    BY <1>6 DEF Write
  <2>5. QED
    BY <1>6, <2>1, <2>2, <2>3, <2>4 DEF Write
<1>7. ASSUME NEW p \in DOMAIN Syncs, Sync(p) PROVE LatchTypeOK'
  BY <1>7, SyncType, MayFailType DEF Sync
<1>8. CASE Kill
  BY <1>8 DEF Kill
<1>9. CASE PowerLoss
  BY <1>9 DEF PowerLoss, AfterPowerLoss
<1>10. CASE Boot
  BY <1>10 DEF Boot
<1>11. CASE Restore
  BY <1>11 DEF Restore
<1>12. CASE RestoreHold
  BY <1>12 DEF RestoreHold
<1>13. CASE UNCHANGED latchVars
  BY <1>13 DEF latchVars
<1>14. QED
  BY <1>1, <1>2, <1>3, <1>4, <1>5, <1>6, <1>7, <1>8, <1>9, <1>10, <1>11, <1>12, <1>13
     DEF LatchNext

(* Every variable keeps its type: no transaction, crash or restart leaves  *)
(* the directory or the control flow outside what the code can reach.      *)
THEOREM LatchTypeCorrect == LatchSpec => []LatchTypeOK
  BY LatchTypeInit, LatchTypeStep, PTL DEF LatchSpec

-----------------------------------------------------------------------------
(* The effect of one file operation, entry by entry.                       *)

LEMMA WriteEffect ==
  ASSUME LatchTypeOK, NEW p \in DOMAIN Writes, Write(p)
  PROVE  /\ pc = p /\ hw' = hw /\ durable' = durable
         /\ \/ /\ pc' = Writes[p].sync /\ faults' = faults
               /\ live'.latch = IF Writes[p].entry = "latch"
                                THEN Writes[p].to ELSE live.latch
               /\ live'.marker = IF Writes[p].entry = "marker"
                                 THEN Writes[p].to ELSE live.marker
               /\ told' = IF p = "unlink" /\ told = "held" THEN "unlocking" ELSE told
            \/ /\ pc' = Writes[p].fail /\ live' = live /\ told' = told
               /\ faults' = faults + 1 /\ faults + 1 <= MaxFaults
<1>1. CASE MayFail /\ pc' = Writes[p].fail /\ UNCHANGED <<live, told>>
  BY <1>1, MayFailType DEF Write
<1>2. CASE /\ live' = [live EXCEPT ![Writes[p].entry] = Writes[p].to]
           /\ pc' = Writes[p].sync /\ faults' = faults
           /\ told' = IF p = "unlink" /\ told = "held" THEN "unlocking" ELSE told
  <2>1. Writes[p].entry \in {"latch", "marker"}
    BY WriteNames, WriteRows
  <2>2. /\ live'.latch = IF Writes[p].entry = "latch"
                         THEN Writes[p].to ELSE live.latch
        /\ live'.marker = IF Writes[p].entry = "marker"
                          THEN Writes[p].to ELSE live.marker
    BY <1>2, <2>1 DEF LatchTypeOK, Disks
  <2>3. QED
    BY <1>2, <2>2 DEF Write
<1>3. QED
  BY <1>1, <1>2 DEF Write

LEMMA SyncEffect ==
  ASSUME LatchTypeOK, NEW p \in DOMAIN Syncs, Sync(p)
  PROVE  /\ pc = p /\ hw' = hw /\ live' = live /\ told' = told
         /\ \/ pc' = Syncs[p].ok /\ durable' = live /\ faults' = faults
            \/ /\ pc' = Syncs[p].fail /\ durable' = durable
               /\ faults' = faults + 1 /\ faults + 1 <= MaxFaults
  BY MayFailType DEF Sync

(* What a power loss may leave behind, entry by entry.                     *)
LEMMA Survivors ==
  ASSUME LatchTypeOK
  PROVE  (\A d \in AfterPowerLoss : ~Loads(d)) <=> (Marked \/ Latched)
<1>1. ASSUME Marked \/ Latched, NEW d \in AfterPowerLoss PROVE ~Loads(d)
  BY <1>1 DEF AfterPowerLoss, Loads, Marked, Latched, Held
<1>2. ASSUME ~Marked, ~Latched PROVE \E d \in AfterPowerLoss : Loads(d)
  <2>1. PICK l \in Latches : l \in {live.latch, durable.latch} /\ l \in {"absent", "on"}
    BY <1>2 DEF LatchTypeOK, Disks, Latches, Latched, Held
  <2>2. FALSE \in {live.marker, durable.marker}
    BY <1>2 DEF LatchTypeOK, Disks, Marked
  <2> DEFINE d == [latch |-> l, marker |-> FALSE]
  <2>3. d \in AfterPowerLoss
    BY <2>1, <2>2 DEF Disks, AfterPowerLoss
  <2>4. Loads(d)
    BY <2>1 DEF Loads
  <2>5. QED
    BY <2>3, <2>4
<1>3. QED
  BY <1>1, <1>2

-----------------------------------------------------------------------------
(* The inductive invariant.                                                *)

LEMMA LatchInitInv == LatchInit => LatchInv
  BY LatchTypeInit DEF LatchInit, LatchInv, DiskInv, HardwareInv, EnableInv

(* A file operation that succeeds or fails keeps what its successor needs. *)
LEMMA WriteStep ==
  ASSUME LatchInv, LatchTypeOK', Few, NEW p \in DOMAIN Writes, Write(p)
  PROVE  LatchInv'
<1>1. LatchTypeOK /\ faults \in Nat
  BY FaultAssumption DEF LatchInv, LatchTypeOK
<1>2. CASE p = "hold_write"
  <2>1. DiskInv'
    BY <1>1, <1>2, WriteEffect, WriteRows
       DEF LatchInv, DiskInv, Marked, Latched, Held, Few
  <2>2. HardwareInv'
    BY <1>1, <1>2, WriteEffect, WriteRows DEF LatchInv, HardwareInv, DiskInv
  <2>3. EnableInv'
    BY <1>1, <1>2, WriteEffect, WriteRows DEF LatchInv, EnableInv
  <2>4. QED
    BY <2>1, <2>2, <2>3 DEF LatchInv
<1>3. CASE p = "begin_write"
  <2>1. DiskInv'
    BY <1>1, <1>3, WriteEffect, WriteRows
       DEF LatchInv, DiskInv, Marked, Latched, Held, Few
  <2>2. HardwareInv'
    BY <1>1, <1>3, WriteEffect, WriteRows DEF LatchInv, HardwareInv, DiskInv
  <2>3. EnableInv'
    BY <1>1, <1>3, WriteEffect, WriteRows DEF LatchInv, EnableInv
  <2>4. QED
    BY <2>1, <2>2, <2>3 DEF LatchInv
<1>4. CASE p = "on_write"
  <2>1. DiskInv'
    BY <1>1, <1>4, WriteEffect, WriteRows
       DEF LatchInv, DiskInv, Marked, Latched, Held, Few
  <2>2. HardwareInv'
    BY <1>1, <1>4, WriteEffect, WriteRows DEF LatchInv, HardwareInv, DiskInv
  <2>3. EnableInv'
    BY <1>1, <1>4, WriteEffect, WriteRows DEF LatchInv, EnableInv
  <2>4. QED
    BY <2>1, <2>2, <2>3 DEF LatchInv
<1>5. CASE p = "unlink"
  <2>1. DiskInv'
    BY <1>1, <1>5, WriteEffect, WriteRows
       DEF LatchInv, DiskInv, EnableInv, LatchTypeOK, Marked, Latched, Held, Few
  <2>2. HardwareInv'
    BY <1>1, <1>5, WriteEffect, WriteRows DEF LatchInv, HardwareInv, DiskInv
  <2>3. EnableInv'
    BY <1>1, <1>5, WriteEffect, WriteRows DEF LatchInv, EnableInv
  <2>4. QED
    BY <2>1, <2>2, <2>3 DEF LatchInv
<1>6. CASE p = "undo_marker"
  <2>1. DiskInv'
    BY <1>1, <1>6, WriteEffect, WriteRows
       DEF LatchInv, DiskInv, Marked, Latched, Held, Few
  <2>2. HardwareInv'
    BY <1>1, <1>6, WriteEffect, WriteRows DEF LatchInv, HardwareInv, DiskInv
  <2>3. EnableInv'
    BY <1>1, <1>6, WriteEffect, WriteRows DEF LatchInv, EnableInv
  <2>4. QED
    BY <2>1, <2>2, <2>3 DEF LatchInv
<1>7. CASE p = "undo_write"
  <2>1. DiskInv'
    BY <1>1, FaultAssumption, <1>7, WriteEffect, WriteRows
       DEF LatchInv, DiskInv, Marked, Latched, Held, Few
  <2>2. HardwareInv'
    BY <1>1, <1>7, WriteEffect, WriteRows DEF LatchInv, HardwareInv, DiskInv
  <2>3. EnableInv'
    BY <1>1, <1>7, WriteEffect, WriteRows DEF LatchInv, EnableInv
  <2>4. QED
    BY <2>1, <2>2, <2>3 DEF LatchInv
<1>8. CASE p = "boot_write"
  <2>1. DiskInv'
    BY <1>1, <1>8, WriteEffect, WriteRows
       DEF LatchInv, DiskInv, Marked, Latched, Held, Few
  <2>2. HardwareInv'
    BY <1>1, <1>8, WriteEffect, WriteRows DEF LatchInv, HardwareInv, DiskInv
  <2>3. EnableInv'
    BY <1>1, <1>8, WriteEffect, WriteRows DEF LatchInv, EnableInv
  <2>4. QED
    BY <2>1, <2>2, <2>3 DEF LatchInv
<1>9. QED
  BY <1>2, <1>3, <1>4, <1>5, <1>6, <1>7, <1>8, WriteNames

(* A directory fsync makes the live entries certain, or changes nothing.   *)
LEMMA SyncStep ==
  ASSUME LatchInv, LatchTypeOK', Few, NEW p \in DOMAIN Syncs, Sync(p)
  PROVE  LatchInv'
<1>1. LatchTypeOK /\ faults \in Nat
  BY FaultAssumption DEF LatchInv, LatchTypeOK
<1>2. CASE p = "hold_sync"
  <2>1. DiskInv'
    BY <1>1, <1>2, SyncEffect, SyncRows
       DEF LatchInv, DiskInv, Marked, Latched, Held, Few
  <2>2. HardwareInv'
    BY <1>1, <1>2, SyncEffect, SyncRows DEF LatchInv, HardwareInv, DiskInv
  <2>3. EnableInv'
    BY <1>1, <1>2, SyncEffect, SyncRows DEF LatchInv, EnableInv, DiskInv, Marked
  <2>4. QED
    BY <2>1, <2>2, <2>3 DEF LatchInv
<1>3. CASE p = "begin_sync"
  <2>1. DiskInv'
    BY <1>1, <1>3, SyncEffect, SyncRows
       DEF LatchInv, DiskInv, Marked, Latched, Held, Few
  <2>2. HardwareInv'
    BY <1>1, <1>3, SyncEffect, SyncRows DEF LatchInv, HardwareInv, DiskInv
  <2>3. EnableInv'
    BY <1>1, <1>3, SyncEffect, SyncRows DEF LatchInv, EnableInv, DiskInv, Marked
  <2>4. QED
    BY <2>1, <2>2, <2>3 DEF LatchInv
<1>4. CASE p = "on_sync"
  <2>1. DiskInv'
    BY <1>1, <1>4, SyncEffect, SyncRows
       DEF LatchInv, DiskInv, Marked, Latched, Held, Few
  <2>2. HardwareInv'
    BY <1>1, <1>4, SyncEffect, SyncRows DEF LatchInv, HardwareInv, DiskInv
  <2>3. EnableInv'
    BY <1>1, <1>4, SyncEffect, SyncRows DEF LatchInv, EnableInv, DiskInv, Marked
  <2>4. QED
    BY <2>1, <2>2, <2>3 DEF LatchInv
<1>5. CASE p = "commit_sync"
  <2>1. DiskInv'
    BY <1>1, <1>5, SyncEffect, SyncRows
       DEF LatchInv, DiskInv, Marked, Latched, Held, Few
  <2>2. HardwareInv'
    BY <1>1, <1>5, SyncEffect, SyncRows DEF LatchInv, HardwareInv, DiskInv
  <2>3. EnableInv'
    BY <1>1, <1>5, SyncEffect, SyncRows DEF LatchInv, EnableInv, DiskInv, Marked
  <2>4. QED
    BY <2>1, <2>2, <2>3 DEF LatchInv
<1>6. CASE p = "undo_marker_sync"
  <2>1. DiskInv'
    BY <1>1, <1>6, SyncEffect, SyncRows
       DEF LatchInv, DiskInv, Marked, Latched, Held, Few
  <2>2. HardwareInv'
    BY <1>1, <1>6, SyncEffect, SyncRows DEF LatchInv, HardwareInv, DiskInv
  <2>3. EnableInv'
    BY <1>1, <1>6, SyncEffect, SyncRows DEF LatchInv, EnableInv, DiskInv, Marked
  <2>4. QED
    BY <2>1, <2>2, <2>3 DEF LatchInv
<1>7. CASE p = "undo_sync"
  <2>1. DiskInv'
    BY <1>1, FaultAssumption, <1>7, SyncEffect, SyncRows
       DEF LatchInv, DiskInv, Marked, Latched, Held, Few
  <2>2. HardwareInv'
    BY <1>1, <1>7, SyncEffect, SyncRows DEF LatchInv, HardwareInv, DiskInv
  <2>3. EnableInv'
    BY <1>1, <1>7, SyncEffect, SyncRows DEF LatchInv, EnableInv, DiskInv, Marked
  <2>4. QED
    BY <2>1, <2>2, <2>3 DEF LatchInv
<1>8. CASE p = "boot_sync"
  <2>1. DiskInv'
    BY <1>1, <1>8, SyncEffect, SyncRows
       DEF LatchInv, DiskInv, Marked, Latched, Held, Few
  <2>2. HardwareInv'
    BY <1>1, <1>8, SyncEffect, SyncRows DEF LatchInv, HardwareInv, DiskInv
  <2>3. EnableInv'
    BY <1>1, <1>8, SyncEffect, SyncRows DEF LatchInv, EnableInv, DiskInv, Marked
  <2>4. QED
    BY <2>1, <2>2, <2>3 DEF LatchInv
<1>9. QED
  BY <1>2, <1>3, <1>4, <1>5, <1>6, <1>7, <1>8, SyncNames

(* A power loss picks each entry from what was live and what was durable.  *)
LEMMA PowerLossStep ==
  ASSUME LatchInv, LatchTypeOK', PowerLoss
  PROVE  LatchInv'
<1>1. /\ live'.latch \in {live.latch, durable.latch}
      /\ live'.marker \in {live.marker, durable.marker}
      /\ durable' = live' /\ pc' = "down"
      /\ UNCHANGED <<hw, faults, told>>
  BY DEF PowerLoss, AfterPowerLoss
<1>2. DiskInv'
  BY <1>1 DEF LatchInv, DiskInv, Marked, Latched, Held
<1>3. HardwareInv'
  BY <1>1 DEF HardwareInv
<1>4. EnableInv'
  BY <1>1 DEF LatchInv, EnableInv
<1>5. QED
  BY <1>2, <1>3, <1>4 DEF LatchInv

LEMMA LatchStepInv == LatchInv /\ Few /\ [LatchNext]_latchVars => LatchInv'
<1> SUFFICES ASSUME LatchInv, Few, [LatchNext]_latchVars PROVE LatchInv'
  OBVIOUS
<1>1. LatchTypeOK'
  BY LatchTypeStep DEF LatchInv
<1> USE <1>1
<1>2. CASE Receive
  BY <1>2 DEF LatchInv, DiskInv, HardwareInv, EnableInv, Receive, Marked, Latched
<1>3. CASE HoldHardware
  BY <1>3 DEF LatchInv, DiskInv, HardwareInv, EnableInv, HoldHardware, Marked, Latched, MayFail
<1>4. CASE EnableHardware
  BY <1>4 DEF LatchInv, DiskInv, HardwareInv, EnableInv, EnableHardware, Marked, Latched
<1>5. CASE UndoHardware
  BY <1>5 DEF LatchInv, DiskInv, HardwareInv, EnableInv, UndoHardware, Marked, Latched
<1>6. CASE Reply
  BY <1>6 DEF LatchInv, DiskInv, HardwareInv, EnableInv, Reply, Marked, Latched, Held
<1>7. CASE Kill
  BY <1>7 DEF LatchInv, DiskInv, HardwareInv, EnableInv, Kill, Marked, Latched
<1>8. CASE Boot
  BY <1>8 DEF LatchInv, DiskInv, HardwareInv, EnableInv, Boot, Marked, Latched
<1>9. CASE Restore
  <2>1. told = "held" => ~Loads(live)
    BY DEF LatchInv, DiskInv, Loads, Marked, Latched, Held
  <2>2. told = "enabled" => Loads(live)
    BY DEF LatchInv, EnableInv, Loads
  <2>3. DiskInv'
    BY <1>9 DEF LatchInv, DiskInv, Restore, Marked, Latched
  <2>4. HardwareInv'
    BY <1>9, <2>1 DEF Restore, HardwareInv
  <2>5. EnableInv'
    BY <1>9, <2>2 DEF LatchInv, EnableInv, Restore
  <2>6. QED
    BY <2>3, <2>4, <2>5 DEF LatchInv
<1>10. CASE RestoreHold
  BY <1>10 DEF LatchInv, DiskInv, HardwareInv, EnableInv, RestoreHold, Marked, Latched
<1>11. CASE UNCHANGED latchVars
  BY <1>11 DEF LatchInv, DiskInv, HardwareInv, EnableInv, Marked, Latched, latchVars
<1>12. QED
  BY <1>2, <1>3, <1>4, <1>5, <1>6, <1>7, <1>8, <1>9, <1>10, <1>11,
     WriteStep, SyncStep, PowerLossStep DEF LatchNext

LEMMA LatchInvariant ==
  ASSUME Few
  PROVE  LatchSpec => []LatchInv
<1>1. Few
  OBVIOUS
<1>2. LatchInv /\ [LatchNext]_latchVars => LatchInv'
  BY LatchStepInv, <1>1
<1>3. QED
  BY LatchInitInv, <1>2, PTL DEF LatchSpec

-----------------------------------------------------------------------------

(* If at most two operations of a transaction fail, then after a hold was  *)
(* acknowledged or an enable refused no crash, restart or later failed     *)
(* transaction lets a boot find the unit enabled: the disabled latch and   *)
(* the pending marker are never both lost.                                 *)
THEOREM HoldSurvives ==
  ASSUME Few
  PROVE  LatchSpec => []HoldSurvivesCrash
<1>1. LatchSpec => []LatchInv
  BY LatchInvariant
<1>2. LatchInv => HoldSurvivesCrash
  BY Survivors DEF LatchInv, DiskInv, HoldSurvivesCrash
<1>3. QED
  BY <1>1, <1>2, PTL

(* Under the same bound the hardware latch of a serving unit agrees with   *)
(* what the operator was told of a hold.                                   *)
THEOREM HardwareFollowsHold ==
  ASSUME Few
  PROVE  LatchSpec => []HardwareAgrees
<1>1. LatchSpec => []LatchInv
  BY LatchInvariant
<1>2. LatchInv => HardwareAgrees
  BY DEF LatchInv, HardwareInv, HardwareAgrees
<1>3. QED
  BY <1>1, <1>2, PTL

(* Under the same bound an acknowledged enable is in force and survives    *)
(* every crash until the next transaction.                                 *)
THEOREM EnableSurvives ==
  ASSUME Few
  PROVE  LatchSpec => []EnableSurvivesCrash
<1>1. LatchSpec => []LatchInv
  BY LatchInvariant
<1>2. LatchInv => EnableSurvivesCrash
  BY DEF LatchInv, EnableInv, EnableSurvivesCrash, AfterPowerLoss, Loads
<1>3. QED
  BY <1>1, <1>2, PTL

(* A refused enable of a held unit never unlocks the next boot, if at most *)
(* two operations of the transaction and of its rollback fail.             *)
THEOREM RefusalKeepsHold ==
  ASSUME Few
  PROVE  LatchSpec => []FailedEnableNeverUnlocks
<1>1. LatchSpec => []LatchInv
  BY LatchInvariant
<1>2. LatchInv => FailedEnableNeverUnlocks
  BY Survivors DEF LatchInv, DiskInv, FailedEnableNeverUnlocks
<1>3. QED
  BY <1>1, <1>2, PTL
=============================================================================
