------------------------ MODULE DetachSequenceProofs ------------------------
(***************************************************************************)
(* Safety of DetachSequence, for any targets, any map of actuators, any    *)
(* number of commands and restarts.                                        *)
(***************************************************************************)
EXTENDS DetachSequence, TLAPS

Commanding(m) == m.cmd \in {"motion", "enable"}

\* Nothing on the network can set target t in motion or release its latch.
Settled(t) == \A m \in sent : m.to = t /\ Commanding(m) => m.seq <= mark[t]

AtRest(t) == ~moving[t] /\ Settled(t)

\* No number is greater than the client's last.
Numbered ==
  /\ \A m \in sent : m.seq <= seq
  /\ \A t \in Targets : mark[t] <= seq

Releasing == node \in DOMAIN Actuator /\ node \in active /\ Actuator[node] \in active

AllAtRest == \A t \in active : AtRest(t)

\* A press that a server may still act upon.
FreshPress(m) == m.cmd = "detach_press" /\ m.seq > mark[m.to]

Stopping ==
  client = "stopping" =>
    /\ Releasing
    /\ \A t \in active : awaited[t] = seq /\ (t \in acks => AtRest(t))
    /\ \A m \in sent : m.seq = seq => m.cmd = "stop"

Holding ==
  client = "holding" =>
    /\ Releasing /\ AllAtRest
    /\ awaited[node] = seq /\ (node \in acks => held[node])
    /\ \A m \in sent : m.seq = seq => m.cmd = "relay_hold"

Pressing ==
  client = "pressing" =>
    /\ Releasing /\ AllAtRest /\ held[node]
    /\ awaited[Actuator[node]] = seq
    /\ Actuator[node] \in acks =>
         presses[node] > 0 /\ \A m \in sent : ~FreshPress(m)
    /\ \A m \in sent : m.seq = seq => m.cmd = "detach_press"

Asking ==
  client = "asking" => Releasing /\ AllAtRest /\ held[node] /\ presses[node] > 0

Waiting == client \in {"stopping", "holding", "pressing"} => seq # 0

Phases == Waiting /\ Stopping /\ Holding /\ Pressing /\ Asking

\* A fresh press is the one of the release in progress, or of the release that
\* ended the session, and everything is as it should be for it.
SafePress(m) ==
  /\ client \in {"pressing", "leaving", "ended"}
  /\ Releasing /\ AllAtRest /\ held[node]
  /\ m.released = node /\ m.to = Actuator[node]
  /\ presses[node] = 0

FreshPresses ==
  /\ \A m \in sent : FreshPress(m) => SafePress(m)
  /\ \A m, l \in sent : FreshPress(m) /\ FreshPress(l) => m.seq = l.seq

Unpressed ==
  \A n \in active :
    presses[n] = 0 \/ (n = node /\ client \in {"pressing", "asking", "leaving", "ended"})

Firm == \A n \in detached : presses[n] > 0 /\ held[n] /\ AtRest(n) /\ n \notin active

\* DetachedStays with what it rests on: a step is safe because of what is
\* still on the network as much as because of what has happened.
IInv ==
  /\ TypeOK
  /\ Numbered
  /\ Phases
  /\ FreshPresses
  /\ Unpressed
  /\ PressedOnce
  /\ Firm

-----------------------------------------------------------------------------
(* Types.                                                                  *)

\* A number, stops and a press are datagrams.
LEMMA NewDatagrams ==
  ASSUME TypeOK
  PROVE  /\ \A t \in Targets : \A c \in Names : Plain(t, seq + 1, c) \in Datagrams
         /\ \A T \in SUBSET Targets : Stops(T) \in SUBSET Datagrams
         /\ node \in DOMAIN Actuator /\ Actuator[node] \in Targets => ThePress \in Datagrams
<1>1. \A t \in Targets : \A c \in Names : Plain(t, seq + 1, c) \in Datagrams
  BY DEF TypeOK, Plain, Datagrams
<1>2. \A T \in SUBSET Targets : Stops(T) \in SUBSET Datagrams
  BY <1>1 DEF Stops, Names
<1>3. node \in DOMAIN Actuator /\ Actuator[node] \in Targets => ThePress \in Datagrams
  BY DetachAssumption DEF TypeOK, ThePress, Datagrams, Names
<1> QED
  BY <1>1, <1>2, <1>3

\* What every datagram sent keeps.
LEMMA SendTypes ==
  ASSUME TypeOK, NEW D \in SUBSET Datagrams, NEW W, Send(D, W)
  PROVE  /\ seq' \in Nat /\ sent' \in SUBSET Datagrams
         /\ awaited' \in [Targets -> Nat] /\ acks' \in SUBSET Targets
  BY DEF TypeOK, Send

\* The client's steps.
LEMMA ClientTypes ==
  ASSUME TypeOK, Phases, Client
  PROVE  TypeOK'
<1> USE DetachAssumption
<1>1. CASE Begin
  <2>1. PICK T \in {active} \cup {{t} : t \in active} : Send(Stops(T), T)
    BY <1>1 DEF Begin
  <2>2. Stops(T) \in SUBSET Datagrams
    BY NewDatagrams DEF TypeOK
  <2> QED
    BY <1>1, <2>1, <2>2, SendTypes DEF Begin, TypeOK, robots
<1>2. CASE Change
  <2>1. PICK T \in {active} \cup {{t} : t \in active} : Send(Stops(T), {})
    BY <1>2 DEF Change
  <2>2. Stops(T) \in SUBSET Datagrams
    BY NewDatagrams DEF TypeOK
  <2> QED
    BY <1>2, <2>1, <2>2, SendTypes DEF Change, TypeOK, robots
<1>3. CASE Started \/ NotStarted \/ Completed
  BY <1>3 DEF Started, NotStarted, Completed, Done, TypeOK, robots
<1>4. CASE \E t \in Targets, cmd \in {"stop", "motion", "enable"} : Command(t, cmd)
  <2>1. PICK t \in Targets, cmd \in {"stop", "motion", "enable"} : Command(t, cmd)
    BY <1>4
  <2>2. {Plain(t, seq + 1, cmd)} \in SUBSET Datagrams
    BY NewDatagrams DEF Names
  <2>3. Send({Plain(t, seq + 1, cmd)}, {})
    BY <2>1 DEF Command
  <2> QED
    BY <2>1, <2>2, <2>3, SendTypes DEF Command, TypeOK, robots
<1>5. CASE \E n \in Targets : Release(n)
  <2>1. PICK n \in Targets : Release(n)
    BY <1>5
  <2>2. Stops(active) \in SUBSET Datagrams
    BY NewDatagrams DEF TypeOK
  <2> QED
    BY <2>1, <2>2, SendTypes DEF Release, TypeOK, robots
<1>6. CASE Hold
  <2>1. node \in Targets /\ Actuator[node] \in Targets
    BY <1>6 DEF Hold, Phases, Stopping, Releasing, TypeOK
  <2>2. {Plain(node, seq + 1, "relay_hold")} \in SUBSET Datagrams
    BY <2>1, NewDatagrams DEF Names
  <2>3. Send({Plain(node, seq + 1, "relay_hold")}, {node})
    BY <1>6 DEF Hold
  <2>4. stopSeq' \in Nat
    BY <1>6, <2>1 DEF Hold, TypeOK
  <2> QED
    BY <1>6, <2>2, <2>3, <2>4, SendTypes DEF Hold, TypeOK, robots
<1>7. CASE Press
  <2>1. node \in DOMAIN Actuator /\ Actuator[node] \in Targets
    BY <1>7 DEF Press, Phases, Holding, Releasing, TypeOK
  <2>2. {ThePress} \in SUBSET Datagrams
    BY <2>1, NewDatagrams
  <2>3. Send({ThePress}, {Actuator[node]})
    BY <1>7 DEF Press
  <2> QED
    BY <1>7, <2>2, <2>3, SendTypes DEF Press, TypeOK, robots
<1>8. CASE Faulted
  <2>1. CASE Send(Stops(active), {})
    <3>1. Stops(active) \in SUBSET Datagrams
      BY NewDatagrams DEF TypeOK
    <3> QED
      BY <1>8, <2>1, <3>1, SendTypes DEF Faulted, TypeOK, robots
  <2>2. CASE Done
    BY <1>8, <2>2 DEF Faulted, Done, TypeOK, robots
  <2> QED
    BY <1>8, <2>1, <2>2 DEF Faulted
<1>9. CASE Confirmed
  <2>1. node \in Targets
    BY <1>9 DEF Confirmed, Phases, Asking, Releasing, TypeOK
  <2> QED
    BY <1>9, <2>1 DEF Confirmed, TypeOK, robots, network
<1>10. CASE NotConfirmed
  BY <1>10 DEF NotConfirmed, TypeOK, robots, network
<1>11. CASE Leave
  <2>1. Stops(active) \in SUBSET Datagrams
    BY NewDatagrams DEF TypeOK
  <2> QED
    BY <1>11, <2>1, SendTypes DEF Leave, TypeOK, robots
<1> QED
  BY <1>1, <1>2, <1>3, <1>4, <1>5, <1>6, <1>7, <1>8, <1>9, <1>10, <1>11 DEF Client

\* The servers' steps.
LEMMA DeliverTypes ==
  ASSUME TypeOK, NEW m \in sent, Deliver(m)
  PROVE  TypeOK'
<1> USE DetachAssumption
<1>1. /\ m \in Datagrams /\ m.to \in Targets /\ m.seq \in Nat
  BY DEF TypeOK, Datagrams
<1>2. UNCHANGED <<operator, sent, commands, restarts>>
  BY DEF Deliver
<1>3. CASE ApplyStop(m)
  BY <1>1, <1>2, <1>3 DEF ApplyStop, Answer, TypeOK, operator
<1>4. CASE ApplyMotion(m)
  BY <1>1, <1>2, <1>4 DEF ApplyMotion, Remember, TypeOK, operator
<1>5. CASE ApplyEnable(m)
  <2>1. mark' \in [Targets -> Nat]
    BY <1>1, <1>5 DEF ApplyEnable, Remember, TypeOK
  <2>2. moving \in [Targets -> BOOLEAN] /\ held \in [Targets -> BOOLEAN]
    BY DEF TypeOK
  <2>3. held' \in [Targets -> BOOLEAN]
    BY <1>1, <1>5, <2>2 DEF ApplyEnable
  <2>4. moving' \in [Targets -> BOOLEAN]
    BY <1>1, <1>5, <2>2 DEF ApplyEnable
  <2> QED
    BY <1>2, <1>5, <2>1, <2>3, <2>4 DEF ApplyEnable, TypeOK, operator
<1>6. CASE ApplyHold(m)
  <2>1. mark' \in [Targets -> Nat] /\ acks' \in SUBSET Targets
    BY <1>1, <1>6 DEF ApplyHold, Remember, Answer, TypeOK
  <2>2. {moving', held'} \subseteq [Targets -> BOOLEAN]
    BY <1>1, <1>6 DEF ApplyHold, TypeOK
  <2> QED
    BY <1>2, <1>6, <2>1, <2>2 DEF ApplyHold, TypeOK, operator
<1>7. CASE ApplyPress(m)
  <2>1. presses' \in [Targets -> Nat]
    BY <1>7 DEF ApplyPress, TypeOK
  <2>2. recent' \in [Actuators -> Nat]
    BY <1>7 DEF ApplyPress, TypeOK
  <2>3. mark' \in [Targets -> Nat] /\ acks' \in SUBSET Targets
    BY <1>1, <1>7 DEF ApplyPress, Remember, Answer, TypeOK
  <2> QED
    BY <1>2, <1>7, <2>1, <2>2, <2>3 DEF ApplyPress, TypeOK, operator
<1>8. CASE RefusePress(m)
  BY <1>1, <1>2, <1>8 DEF RefusePress, Remember, TypeOK, operator
<1>9. CASE Fails(m)
  <2>1. mark' \in [Targets -> Nat]
    BY <1>1, <1>9 DEF Fails, TypeOK
  <2>2. moving \in [Targets -> BOOLEAN] /\ held \in [Targets -> BOOLEAN]
    BY DEF TypeOK
  <2>3. moving' \in [Targets -> BOOLEAN]
    BY <1>1, <1>9, <2>2 DEF Fails
  <2>4. held' \in [Targets -> BOOLEAN]
    BY <1>1, <1>9, <2>2 DEF Fails
  <2> QED
    BY <1>2, <1>9, <2>1, <2>3, <2>4 DEF Fails, TypeOK, operator
<1> QED
  BY <1>3, <1>4, <1>5, <1>6, <1>7, <1>8, <1>9 DEF Deliver

\* What happens by itself.
LEMMA ElseTypes ==
  ASSUME TypeOK,
         \/ \E t \in Targets : Watchdog(t) \/ Restart(t)
         \/ \E t \in Actuators : StopAges(t)
  PROVE  TypeOK'
<1> USE DetachAssumption
<1>1. CASE \E t \in Targets : Watchdog(t)
  BY <1>1 DEF Watchdog, TypeOK, operator, network
<1>2. CASE \E t \in Targets : Restart(t)
  BY <1>2 DEF Restart, TypeOK, operator
<1>3. CASE \E t \in Actuators : StopAges(t)
  BY <1>3 DEF StopAges, TypeOK, operator, network
<1> QED
  BY <1>1, <1>2, <1>3

-----------------------------------------------------------------------------
(* The robots' steps.  They leave the client alone and only make the       *)
(* network poorer; Calm says what they keep.                               *)

Calm ==
  /\ UNCHANGED operator
  /\ sent' \subseteq sent
  /\ \A t \in Targets : mark'[t] <= seq
  /\ \A t \in Targets : AtRest(t) => AtRest(t)'
  /\ \A t \in Targets : AtRest(t) /\ held[t] => held'[t]
  /\ \A m \in sent' : FreshPress(m)' => FreshPress(m)

\* A delivered number is marked, or the mark was higher.
LEMMA DeliverMarks ==
  ASSUME TypeOK, NEW m \in sent, Deliver(m)
  PROVE  \A t \in Targets :
           /\ mark'[t] >= mark[t]
           /\ mark'[t] = mark[t] \/ (t = m.to /\ mark'[t] = m.seq)
<1>1. m \in Datagrams /\ m.to \in Targets /\ m.seq \in Nat /\ mark \in [Targets -> Nat]
  BY DEF TypeOK, Datagrams
<1>2. CASE ApplyStop(m)
  BY <1>1, <1>2 DEF ApplyStop
<1>3. CASE Fresh(m) /\ Remember(m)
  BY <1>1, <1>3 DEF Fresh, Remember
<1>4. CASE Fails(m)
  BY <1>1, <1>4 DEF Fails
<1>5. ApplyStop(m) \/ (Fresh(m) /\ Remember(m)) \/ Fails(m)
  BY DEF Deliver, ApplyMotion, ApplyEnable, ApplyHold, ApplyPress, RefusePress
<1> QED
  BY <1>2, <1>3, <1>4, <1>5

\* Only a motion that is new sets a target in motion, and only an enable that
\* is new releases a latch.
LEMMA DeliverCalm ==
  ASSUME TypeOK, Numbered, NEW m \in sent, Deliver(m)
  PROVE  Calm
<1>1. /\ m \in Datagrams /\ m.to \in Targets /\ m.seq \in Nat
      /\ mark \in [Targets -> Nat] /\ moving \in [Targets -> BOOLEAN]
      /\ held \in [Targets -> BOOLEAN] /\ seq \in Nat
  BY DEF TypeOK, Datagrams
<1>2. UNCHANGED <<operator, sent>>
  BY DEF Deliver
<1>3. \A t \in Targets : mark'[t] >= mark[t] /\ mark'[t] <= seq /\ mark'[t] \in Nat
  BY <1>1, DeliverMarks, DeliverTypes DEF Numbered, TypeOK
<1>4. \A t \in Targets : Settled(t) => Settled(t)'
  <2>1. SUFFICES ASSUME NEW t \in Targets, Settled(t), NEW l \in sent, l.to = t, Commanding(l)
                 PROVE  l.seq <= mark'[t]
    BY <1>2 DEF Settled, Commanding
  <2>2. l.seq \in Nat /\ l.seq <= mark[t]
    BY <2>1 DEF Settled, TypeOK, Datagrams
  <2> QED
    BY <1>1, <1>3, <2>2
<1>5. ASSUME NEW t \in Targets, AtRest(t)
      PROVE  ~moving'[t] /\ (held[t] => held'[t])
  <2>1. ~(m.to = t /\ Commanding(m) /\ Fresh(m))
    BY <1>1, <1>5 DEF AtRest, Settled, Fresh
  <2>2. ~moving[t]
    BY <1>5 DEF AtRest
  <2>3. CASE ApplyStop(m)
    BY <1>1, <2>2, <2>3 DEF ApplyStop
  <2>4. CASE ApplyMotion(m)
    <3>1. m.to # t
      BY <2>1, <2>4 DEF ApplyMotion, Commanding
    <3> QED
      BY <1>1, <2>2, <2>4, <3>1 DEF ApplyMotion
  <2>5. CASE ApplyEnable(m)
    <3>1. m.to # t
      BY <2>1, <2>5 DEF ApplyEnable, Commanding
    <3> QED
      BY <1>1, <2>2, <2>5, <3>1 DEF ApplyEnable
  <2>6. CASE ApplyHold(m)
    BY <1>1, <2>2, <2>6 DEF ApplyHold
  <2>7. CASE ApplyPress(m) \/ RefusePress(m)
    BY <2>2, <2>7 DEF ApplyPress, RefusePress
  <2>8. CASE Fails(m)
    <3>1. ~moving'[t]
      BY <1>1, <2>2, <2>8 DEF Fails
    <3>2. held[t] => held'[t]
      BY <1>1, <2>8 DEF Fails
    <3> QED
      BY <3>1, <3>2
  <2> QED
    BY <2>3, <2>4, <2>5, <2>6, <2>7, <2>8 DEF Deliver
<1>6. \A l \in sent' : FreshPress(l)' => FreshPress(l)
  <2>1. SUFFICES ASSUME NEW l \in sent, FreshPress(l)' PROVE FreshPress(l)
    BY <1>2
  <2>2. l.to \in Targets /\ l.seq \in Nat
    BY DEF TypeOK, Datagrams
  <2> QED
    BY <1>1, <1>3, <2>1, <2>2 DEF FreshPress
<1> QED
  BY <1>2, <1>3, <1>4, <1>5, <1>6 DEF Calm, AtRest

\* What happens by itself stops wheels and takes datagrams away.
LEMMA ElseCalm ==
  ASSUME TypeOK, Numbered,
         \/ \E t \in Targets : Watchdog(t) \/ Restart(t)
         \/ \E t \in Actuators : StopAges(t)
  PROVE  Calm /\ UNCHANGED <<acks, presses>>
<1>1. CASE \E t \in Targets : Watchdog(t)
  <2>1. PICK u \in Targets : Watchdog(u)
    BY <1>1
  <2>2. UNCHANGED <<operator, sent, acks, mark, held, presses>>
    BY <2>1 DEF Watchdog, network
  <2>3. \A t \in Targets : ~moving[t] => ~moving'[t]
    BY <2>1 DEF Watchdog, TypeOK
  <2>4. \A t \in Targets : Settled(t) => Settled(t)'
    BY <2>2 DEF Settled, Commanding
  <2>5. \A l \in sent' : FreshPress(l)' => FreshPress(l)
    BY <2>2 DEF FreshPress
  <2> QED
    BY <2>2, <2>3, <2>4, <2>5 DEF Calm, AtRest, Numbered
<1>2. CASE \E t \in Targets : Restart(t)
  <2>1. PICK u \in Targets : Restart(u)
    BY <1>2
  <2>2. UNCHANGED <<operator, acks, held, presses>> /\ sent' = {m \in sent : m.to # u}
    BY <2>1 DEF Restart
  <2>3. \A t \in Targets : ~moving[t] => ~moving'[t]
    BY <2>1 DEF Restart, TypeOK
  <2>4. \A t \in Targets : mark'[t] = IF t = u THEN 0 ELSE mark[t]
    BY <2>1 DEF Restart, TypeOK
  <2>5. \A t \in Targets : Settled(t) => Settled(t)'
    BY <2>2, <2>4 DEF Settled, Commanding
  <2>6. \A l \in sent' : FreshPress(l)' => FreshPress(l)
    <3>1. SUFFICES ASSUME NEW l \in sent', FreshPress(l)' PROVE FreshPress(l)
      OBVIOUS
    <3>2. l \in sent /\ l.to # u /\ l.to \in Targets
      BY <2>2, <3>1 DEF TypeOK, Datagrams
    <3> QED
      BY <2>4, <3>1, <3>2 DEF FreshPress
  <2>7. \A t \in Targets : mark'[t] <= seq
    BY <2>4 DEF Numbered, TypeOK
  <2> QED
    BY <2>2, <2>3, <2>5, <2>6, <2>7 DEF Calm, AtRest
<1>3. CASE \E t \in Actuators : StopAges(t)
  <2>1. UNCHANGED <<operator, sent, acks, mark, moving, held, presses>>
    BY <1>3 DEF StopAges, network
  <2>2. \A t \in Targets : AtRest(t) => AtRest(t)'
    BY <2>1 DEF AtRest, Settled, Commanding
  <2>3. \A l \in sent' : FreshPress(l)' => FreshPress(l)
    BY <2>1 DEF FreshPress
  <2> QED
    BY <2>1, <2>2, <2>3 DEF Calm, Numbered
<1> QED
  BY <1>1, <1>2, <1>3

\* A press that comes into force is the only one on the network that can.
Pressed(n) ==
  /\ n = node /\ presses'[n] = 1
  /\ client \in {"pressing", "leaving", "ended"}
  /\ \A l \in sent' : ~FreshPress(l)'

\* What a robot's step must show besides Calm: that an acknowledgement means
\* what the client takes it for, and that a press is pressed once.
Honest ==
  /\ client = "stopping" => \A t \in active : t \in acks' => t \in acks \/ AtRest(t)'
  /\ client = "holding" => (node \in acks' => node \in acks \/ held'[node])
  /\ client = "pressing" =>
       (Actuator[node] \in acks' =>
          \/ Actuator[node] \in acks
          \/ presses'[node] > 0 /\ \A l \in sent' : ~FreshPress(l)')
  /\ \A n \in Targets : presses'[n] = presses[n] \/ Pressed(n)

LEMMA CalmKeeps ==
  ASSUME IInv, TypeOK', Calm, Honest
  PROVE  IInv'
<1> USE DetachAssumption
<1>1. UNCHANGED <<client, active, detached, node, stopSeq, awaited, seq>>
  BY DEF Calm, operator
<1>2. /\ active \in SUBSET Targets /\ detached \in SUBSET Targets
      /\ presses \in [Targets -> Nat] /\ presses' \in [Targets -> Nat]
      /\ sent \in SUBSET Datagrams /\ seq \in Nat
  BY DEF IInv, TypeOK
<1>3. \A t \in Targets : AtRest(t) => AtRest(t)'
  BY DEF Calm
<1>4. \A n \in Targets : AtRest(n) /\ held[n] => held'[n]
  BY DEF Calm
<1>5. Releasing <=> Releasing'
  BY <1>1 DEF Releasing
<1>6. AllAtRest => AllAtRest'
  BY <1>1, <1>2, <1>3 DEF AllAtRest
<1>7. Releasing /\ AllAtRest /\ held[node] => held'[node]
  BY <1>2, <1>4 DEF Releasing, AllAtRest
<1>8. Numbered'
  BY <1>1, <1>2 DEF Calm, IInv, Numbered
<1>9. Waiting'
  BY <1>1 DEF IInv, Phases, Waiting
<1>10. Stopping'
  BY <1>1, <1>2, <1>3, <1>5 DEF IInv, Phases, Stopping, Calm, Honest
<1>11. Holding'
  <2>1. SUFFICES ASSUME client = "holding" PROVE Holding'
    BY <1>1 DEF Holding
  <2>2. Releasing /\ AllAtRest
    BY <2>1 DEF IInv, Phases, Holding
  <2>3. node \in acks' => held'[node]
    BY <1>7, <2>1, <2>2 DEF IInv, Phases, Holding, Honest
  <2> QED
    BY <1>1, <1>5, <1>6, <2>1, <2>2, <2>3 DEF IInv, Phases, Holding, Calm
<1>12. Pressing'
  <2>1. SUFFICES ASSUME client = "pressing" PROVE Pressing'
    BY <1>1 DEF Pressing
  <2>2. Releasing /\ AllAtRest /\ held[node]
    BY <2>1 DEF IInv, Phases, Pressing
  <2>3. node \in Targets
    BY <1>2, <2>2 DEF Releasing
  <2>4. presses[node] > 0 => presses'[node] > 0
    BY <1>2, <2>3 DEF Honest, Pressed
  <2>5. (\A l \in sent : ~FreshPress(l)) => \A l \in sent' : ~FreshPress(l)'
    BY DEF Calm
  <2>6. Actuator[node] \in acks' => presses'[node] > 0 /\ \A l \in sent' : ~FreshPress(l)'
    BY <2>1, <2>4, <2>5 DEF IInv, Phases, Pressing, Honest
  <2>7. awaited'[Actuator'[node']] = seq' /\ \A l \in sent' : l.seq = seq' => l.cmd = "detach_press"
    BY <1>1, <2>1 DEF IInv, Phases, Pressing, Calm
  <2>8. Releasing' /\ AllAtRest' /\ held'[node']
    BY <1>1, <1>5, <1>6, <1>7, <2>2
  <2> QED
    BY <1>1, <2>6, <2>7, <2>8 DEF Pressing
<1>13. Asking'
  <2>1. SUFFICES ASSUME client = "asking" PROVE Asking'
    BY <1>1 DEF Asking
  <2>2. Releasing /\ AllAtRest /\ held[node] /\ presses[node] > 0
    BY <2>1 DEF IInv, Phases, Asking
  <2>3. presses'[node] > 0
    BY <1>2, <2>2 DEF Releasing, Honest, Pressed
  <2> QED
    BY <1>1, <1>5, <1>6, <1>7, <2>2, <2>3 DEF Asking
<1>14. FreshPresses'
  <2>1. CASE \E n \in Targets : Pressed(n)
    BY <2>1 DEF Pressed, FreshPresses
  <2>2. CASE ~ \E n \in Targets : Pressed(n)
    <3>1. \A l \in sent' : FreshPress(l)' => SafePress(l)'
      <4>1. SUFFICES ASSUME NEW l \in sent', FreshPress(l)' PROVE SafePress(l)'
        OBVIOUS
      <4>2. SafePress(l)
        BY <4>1 DEF Calm, IInv, FreshPresses
      <4>3. presses'[node] = 0
        BY <1>2, <2>2, <4>2 DEF SafePress, Releasing, Honest
      <4> QED
        BY <1>1, <1>5, <1>6, <1>7, <4>2, <4>3 DEF SafePress
    <3>2. \A l, k \in sent' : FreshPress(l)' /\ FreshPress(k)' => l.seq = k.seq
      BY DEF Calm, IInv, FreshPresses
    <3> QED
      BY <3>1, <3>2 DEF FreshPresses
  <2> QED
    BY <2>1, <2>2
<1>15. Unpressed'
  BY <1>1, <1>2 DEF IInv, Unpressed, Honest, Pressed
<1>16. PressedOnce'
  BY <1>2 DEF IInv, PressedOnce, Honest, Pressed
<1>17. Firm'
  <2>1. SUFFICES ASSUME NEW n \in detached
                 PROVE  presses'[n] > 0 /\ held'[n] /\ AtRest(n)' /\ n \notin active'
    BY <1>1 DEF Firm
  <2>2. n \in Targets /\ presses[n] > 0 /\ held[n] /\ AtRest(n) /\ n \notin active
    BY <1>2 DEF IInv, Firm
  <2>3. presses'[n] > 0
    BY <1>2, <2>2 DEF Honest, Pressed
  <2> QED
    BY <1>1, <1>3, <1>4, <2>2, <2>3
<1> QED
  BY <1>8, <1>9, <1>10, <1>11, <1>12, <1>13, <1>14, <1>15, <1>16, <1>17 DEF IInv, Phases

\* An applied stop leaves the robot at rest if nothing newer was sent.
LEMMA DeliverHonest ==
  ASSUME IInv, NEW m \in sent, Deliver(m), TypeOK', Calm
  PROVE  Honest
<1> USE DetachAssumption
<1>1. /\ m \in Datagrams /\ m.to \in Targets /\ m.seq \in Nat
      /\ sent \in SUBSET Datagrams /\ active \in SUBSET Targets
      /\ mark \in [Targets -> Nat] /\ mark' \in [Targets -> Nat]
      /\ moving \in [Targets -> BOOLEAN] /\ held \in [Targets -> BOOLEAN]
      /\ presses \in [Targets -> Nat] /\ awaited \in [Targets -> Nat]
      /\ seq \in Nat
  BY DEF IInv, TypeOK, Datagrams
<1>2. UNCHANGED <<client, active, node, awaited, seq, sent>>
  BY DEF Deliver, operator
<1>3. CASE ApplyStop(m)
  <2>1. ASSUME client = "stopping", NEW t \in active, t \in acks', t \notin acks
        PROVE  AtRest(t)'
    <3>1. m.to = t /\ m.seq = awaited[t] /\ t \in Targets
      BY <1>1, <1>3, <2>1 DEF ApplyStop, Answer
    <3>2. m.seq = seq
      BY <2>1, <3>1 DEF IInv, Phases, Stopping
    <3>3. mark'[t] >= seq /\ ~moving'[t]
      BY <1>1, <1>3, <3>1, <3>2 DEF ApplyStop
    <3>4. \A l \in sent : l.seq <= seq /\ l.seq \in Nat
      BY <1>1 DEF IInv, Numbered, Datagrams
    <3> QED
      BY <1>1, <1>2, <3>1, <3>3, <3>4 DEF AtRest, Settled, Commanding
  <2>2. ASSUME client = "holding", node \in acks' PROVE node \in acks
    <3>1. m.to = node /\ m.seq = awaited[node] => m.cmd = "relay_hold"
      BY <2>2 DEF IInv, Phases, Holding
    <3> QED
      BY <1>3, <2>2, <3>1 DEF ApplyStop, Answer
  <2>3. ASSUME client = "pressing", Actuator[node] \in acks' PROVE Actuator[node] \in acks
    <3>1. m.to = Actuator[node] /\ m.seq = awaited[Actuator[node]] => m.cmd = "detach_press"
      BY <2>3 DEF IInv, Phases, Pressing
    <3> QED
      BY <1>3, <2>3, <3>1 DEF ApplyStop, Answer
  <2>4. presses' = presses
    BY <1>3 DEF ApplyStop
  <2> QED
    BY <2>1, <2>2, <2>3, <2>4 DEF Honest
<1>4. CASE ApplyMotion(m) \/ ApplyEnable(m) \/ RefusePress(m) \/ Fails(m)
  BY <1>4 DEF ApplyMotion, ApplyEnable, RefusePress, Fails, Honest
<1>5. CASE ApplyHold(m)
  <2>1. ASSUME client = "stopping", NEW t \in active, t \in acks' PROVE t \in acks
    <3>1. m.to = t /\ m.seq = awaited[t] => m.cmd = "stop"
      BY <2>1 DEF IInv, Phases, Stopping
    <3> QED
      BY <1>5, <2>1, <3>1 DEF ApplyHold, Answer
  <2>2. ASSUME node \in acks', node \notin acks PROVE held'[node]
    <3>1. m.to = node
      BY <1>5, <2>2 DEF ApplyHold, Answer
    <3> QED
      BY <1>1, <1>5, <3>1 DEF ApplyHold
  <2>3. ASSUME client = "pressing", Actuator[node] \in acks' PROVE Actuator[node] \in acks
    <3>1. m.to = Actuator[node] /\ m.seq = awaited[Actuator[node]] => m.cmd = "detach_press"
      BY <2>3 DEF IInv, Phases, Pressing
    <3> QED
      BY <1>5, <2>3, <3>1 DEF ApplyHold, Answer
  <2>4. presses' = presses
    BY <1>5 DEF ApplyHold
  <2> QED
    BY <2>1, <2>2, <2>3, <2>4 DEF Honest
<1>6. CASE ApplyPress(m)
  <2>1. FreshPress(m)
    BY <1>1, <1>6 DEF ApplyPress, Fresh, FreshPress
  <2>2. SafePress(m)
    BY <2>1 DEF IInv, FreshPresses
  <2>3. \A l \in sent' : ~FreshPress(l)'
    <3>1. SUFFICES ASSUME NEW l \in sent, FreshPress(l)' PROVE FALSE
      BY <1>2
    <3>2. FreshPress(l)
      BY <1>2, <3>1 DEF Calm
    <3>3. l.seq = m.seq /\ l.to = m.to
      BY <2>1, <2>2, <3>2 DEF IInv, FreshPresses, SafePress
    <3>4. mark'[m.to] = m.seq
      BY <1>1, <1>6 DEF ApplyPress, Remember
    <3> QED
      BY <1>1, <3>1, <3>3, <3>4 DEF FreshPress
  <2>4. m.released = node /\ node \in Targets /\ presses[node] = 0
        /\ client \in {"pressing", "leaving", "ended"}
    BY <1>1, <2>2 DEF SafePress, Releasing
  <2>5. presses' \in {presses, [presses EXCEPT ![node] = @ + 1]}
    BY <1>6, <2>4 DEF ApplyPress
  <2>6. \A n \in Targets : presses'[n] = presses[n] \/ Pressed(n)
    BY <1>1, <2>3, <2>4, <2>5 DEF Pressed
  <2>7. acks' = acks \/ presses'[node] > 0
    BY <1>1, <1>6, <2>4 DEF ApplyPress
  <2> QED
    BY <2>3, <2>4, <2>6, <2>7 DEF Honest
<1> QED
  BY <1>3, <1>4, <1>5, <1>6 DEF Deliver

LEMMA RobotsKeep ==
  ASSUME IInv,
         \/ \E m \in sent : Deliver(m)
         \/ \E t \in Targets : Watchdog(t) \/ Restart(t)
         \/ \E t \in Actuators : StopAges(t)
  PROVE  IInv'
<1>1. CASE \E m \in sent : Deliver(m)
  <2>1. PICK m \in sent : Deliver(m)
    BY <1>1
  <2>2. TypeOK'
    BY <2>1, DeliverTypes DEF IInv
  <2>3. Calm
    BY <2>1, DeliverCalm DEF IInv
  <2> QED
    BY <2>1, <2>2, <2>3, DeliverHonest, CalmKeeps
<1>2. CASE \/ \E t \in Targets : Watchdog(t) \/ Restart(t)
           \/ \E t \in Actuators : StopAges(t)
  <2>1. TypeOK'
    BY <1>2, ElseTypes DEF IInv
  <2>2. Calm /\ UNCHANGED <<acks, presses>>
    BY <1>2, ElseCalm DEF IInv
  <2>3. Honest
    BY <2>2 DEF Honest
  <2> QED
    BY <2>1, <2>2, <2>3, CalmKeeps
<1> QED
  BY <1>1, <1>2

-----------------------------------------------------------------------------
(* The client's steps.                                                     *)

\* Datagrams D are added under the next number, or nothing is.
Adds(D) ==
  /\ UNCHANGED robots
  /\ sent' = sent \cup D
  /\ \/ D = {} /\ seq' = seq
     \/ seq' = seq + 1 /\ \A d \in D : d.seq = seq + 1

LEMMA AddsKeeps ==
  ASSUME IInv, NEW D \in SUBSET Datagrams, Adds(D)
  PROVE  /\ Numbered'
         /\ PressedOnce'
         /\ \A t \in Targets :
              AtRest(t) /\ (\A d \in D : d.to = t => ~Commanding(d)) => AtRest(t)'
         /\ \A l \in sent : FreshPress(l)' <=> FreshPress(l)
         /\ \A l \in sent : l.seq # seq + 1
<1>1. /\ seq \in Nat /\ mark \in [Targets -> Nat]
      /\ \A l \in sent \cup D : l.seq \in Nat
      /\ UNCHANGED <<mark, moving, held, presses>>
  BY DEF IInv, TypeOK, Datagrams, Adds, robots
<1>2. Numbered'
  BY <1>1 DEF IInv, Numbered, Adds
<1>3. PressedOnce'
  BY <1>1 DEF IInv, PressedOnce
<1>4. \A t \in Targets :
        AtRest(t) /\ (\A d \in D : d.to = t => ~Commanding(d)) => AtRest(t)'
  BY <1>1 DEF AtRest, Settled, Commanding, Adds
<1>5. \A l \in sent : FreshPress(l)' <=> FreshPress(l)
  BY <1>1 DEF FreshPress
<1>6. \A l \in sent : l.seq # seq + 1
  BY <1>1 DEF IInv, Numbered
<1> QED
  BY <1>2, <1>3, <1>4, <1>5, <1>6

\* Stops disturb nothing.
LEMMA StopsAdd ==
  ASSUME IInv, NEW T \in SUBSET Targets, NEW W, Send(Stops(T), W), UNCHANGED robots
  PROVE  /\ Adds(Stops(T)) /\ Stops(T) \in SUBSET Datagrams
         /\ \A d \in Stops(T) : d.cmd = "stop" /\ ~Commanding(d) /\ d.seq = seq + 1
  BY NewDatagrams DEF IInv, Adds, Send, Stops, Plain, Commanding

\* Between releases there is no press that a server may still act upon.
LEMMA NoFresh ==
  ASSUME IInv, client \notin {"pressing", "leaving", "ended"}
  PROVE  \A m \in sent : ~FreshPress(m)
  BY DEF IInv, FreshPresses, SafePress

\* A step that starts no phase of a release and commands no one.
Idles(D) ==
  /\ Adds(D)
  /\ \A d \in D : ~Commanding(d) /\ d.cmd # "detach_press"
  /\ UNCHANGED <<active, detached, node>>

LEMMA IdlesKeeps ==
  ASSUME IInv, TypeOK', NEW D \in SUBSET Datagrams, Idles(D),
         client' \in {"starting", "idle", "leaving", "ended"},
         client' \in {"starting", "idle"} => client \in {"begin", "starting", "idle"},
         client = "ended" => client' = "ended"
  PROVE  IInv'
<1>1. /\ Numbered' /\ PressedOnce'
      /\ \A t \in Targets : AtRest(t) => AtRest(t)'
      /\ \A l \in sent : FreshPress(l)' <=> FreshPress(l)
  BY AddsKeeps DEF Idles
<1>2. /\ UNCHANGED <<active, detached, node, mark, held, presses>> /\ sent' = sent \cup D
      /\ active \in SUBSET Targets /\ detached \in SUBSET Targets
  BY DEF Idles, Adds, robots, IInv, TypeOK
<1>3. Phases'
  BY DEF Phases, Waiting, Stopping, Holding, Pressing, Asking
<1>4. FreshPresses'
  <2>1. \A l \in sent' : FreshPress(l)' => l \in sent /\ FreshPress(l)
    BY <1>1, <1>2 DEF Idles, FreshPress
  <2>2. CASE client' \in {"starting", "idle"}
    BY <2>1, <2>2, NoFresh DEF FreshPresses
  <2>3. CASE client' \in {"leaving", "ended"}
    <3>1. AllAtRest => AllAtRest'
      BY <1>1, <1>2 DEF AllAtRest
    <3>2. Releasing => Releasing'
      BY <1>2 DEF Releasing
    <3>3. \A l \in sent : SafePress(l) => SafePress(l)'
      BY <1>2, <2>3, <3>1, <3>2 DEF SafePress
    <3> QED
      BY <2>1, <3>3 DEF IInv, FreshPresses
  <2> QED
    BY <2>2, <2>3
<1>5. Unpressed'
  BY <1>2 DEF IInv, Unpressed
<1>6. Firm'
  BY <1>1, <1>2 DEF IInv, Firm
<1> QED
  BY <1>1, <1>3, <1>4, <1>5, <1>6 DEF IInv

\* The starts, the changes of target and the ends.
LEMMA OutsideKeeps ==
  ASSUME IInv, TypeOK',
         Begin \/ Started \/ NotStarted \/ Change \/ Faulted \/ NotConfirmed \/ Leave
  PROVE  IInv'
<1>1. active \in SUBSET Targets
  BY DEF IInv, TypeOK
<1>2. CASE Begin
  <2>1. PICK T \in SUBSET Targets : Send(Stops(T), T)
    BY <1>1, <1>2 DEF Begin
  <2>2. Idles(Stops(T)) /\ Stops(T) \in SUBSET Datagrams
    BY <1>2, <2>1, StopsAdd DEF Begin, Idles
  <2> QED
    BY <1>2, <2>2, IdlesKeeps DEF Begin
<1>3. CASE Change
  <2>1. PICK T \in SUBSET Targets : Send(Stops(T), {})
    BY <1>1, <1>3 DEF Change
  <2>2. Idles(Stops(T)) /\ Stops(T) \in SUBSET Datagrams
    BY <1>3, <2>1, StopsAdd DEF Change, Idles
  <2> QED
    BY <1>3, <2>2, IdlesKeeps DEF Change
<1>4. CASE UNCHANGED <<seq, sent>> /\ (Started \/ NotStarted \/ Faulted \/ NotConfirmed)
  <2>1. Idles({})
    BY <1>4 DEF Started, NotStarted, Faulted, NotConfirmed, Idles, Adds
  <2>2. /\ client' \in {"idle", "leaving", "ended"} /\ client # "ended"
        /\ client' = "idle" => client = "starting"
    BY <1>4 DEF Started, NotStarted, Faulted, NotConfirmed
  <2> QED
    BY <2>1, <2>2, IdlesKeeps
<1>5. CASE Send(Stops(active), {}) /\ (Faulted \/ Leave)
  <2>1. Idles(Stops(active)) /\ Stops(active) \in SUBSET Datagrams
    BY <1>1, <1>5, StopsAdd DEF Faulted, Leave, Idles
  <2> QED
    BY <1>5, <2>1, IdlesKeeps DEF Faulted, Leave
<1> QED
  BY <1>2, <1>3, <1>4, <1>5
     DEF Started, NotStarted, Faulted, NotConfirmed, Leave, Done, network

\* A command goes to an active target, never to a detached one.
LEMMA CommandKeeps ==
  ASSUME IInv, TypeOK', NEW t \in Targets, NEW cmd \in {"stop", "motion", "enable"},
         Command(t, cmd)
  PROVE  IInv'
<1> DEFINE D == {Plain(t, seq + 1, cmd)}
<1>1. D \in SUBSET Datagrams
  BY NewDatagrams DEF IInv, Names
<1>2. Adds(D) /\ \A d \in D : d.to = t /\ d.cmd = cmd
  BY DEF Command, Send, Adds, Plain
<1>3. /\ Numbered' /\ PressedOnce'
      /\ \A u \in Targets : AtRest(u) /\ (\A d \in D : d.to = u => ~Commanding(d)) => AtRest(u)'
      /\ \A l \in sent : FreshPress(l)' <=> FreshPress(l)
  BY <1>1, <1>2, AddsKeeps
<1>4. /\ UNCHANGED <<active, detached, node, held, presses>> /\ sent' = sent \cup D
      /\ client' = "idle" /\ client = "idle" /\ t \in active
      /\ detached \in SUBSET Targets
  BY DEF Command, Send, robots, IInv, TypeOK
<1>5. Phases'
  BY <1>4 DEF Phases, Waiting, Stopping, Holding, Pressing, Asking
<1>6. FreshPresses'
  BY <1>2, <1>3, <1>4, NoFresh DEF FreshPresses, FreshPress
<1>7. Unpressed'
  BY <1>4 DEF IInv, Unpressed
<1>8. Firm'
  <2>1. SUFFICES ASSUME NEW n \in detached
                 PROVE  presses'[n] > 0 /\ held'[n] /\ AtRest(n)' /\ n \notin active'
    BY <1>4 DEF Firm
  <2>2. n \in Targets /\ presses[n] > 0 /\ held[n] /\ AtRest(n) /\ n \notin active
    BY <1>4 DEF IInv, Firm
  <2>3. n # t
    BY <1>4, <2>2
  <2> QED
    BY <1>2, <1>3, <1>4, <2>2, <2>3
<1> QED
  BY <1>3, <1>5, <1>6, <1>7, <1>8 DEF IInv

\* The stops of a release: whoever acknowledges them has nothing newer to obey.
LEMMA ReleaseKeeps ==
  ASSUME IInv, TypeOK', NEW n \in Targets, Release(n)
  PROVE  IInv'
<1>1. /\ client = "idle" /\ client' = "stopping" /\ node' = n
      /\ n \in DOMAIN Actuator /\ n \in active /\ Actuator[n] \in active
      /\ UNCHANGED <<active, detached, held, presses>>
      /\ active \in SUBSET Targets /\ detached \in SUBSET Targets /\ seq \in Nat
  BY DEF Release, robots, IInv, TypeOK
<1>2. Adds(Stops(active)) /\ Stops(active) \in SUBSET Datagrams
      /\ \A d \in Stops(active) : d.cmd = "stop" /\ ~Commanding(d) /\ d.seq = seq + 1
  BY <1>1, StopsAdd DEF Release
<1>3. /\ Numbered' /\ PressedOnce'
      /\ \A t \in Targets : AtRest(t) => AtRest(t)'
      /\ \A l \in sent : FreshPress(l)' <=> FreshPress(l)
      /\ \A l \in sent : l.seq # seq + 1
  BY <1>2, AddsKeeps
<1>4. /\ seq' = seq + 1 /\ sent' = sent \cup Stops(active) /\ acks' = {}
      /\ awaited' = [t \in Targets |-> IF t \in active THEN seq + 1 ELSE 0]
  BY DEF Release, Send
<1>5. Phases'
  <2>1. Waiting' /\ Holding' /\ Pressing' /\ Asking'
    BY <1>1, <1>4 DEF Waiting, Holding, Pressing, Asking
  <2>2. Stopping'
    BY <1>1, <1>2, <1>3, <1>4 DEF Stopping, Releasing
  <2> QED
    BY <2>1, <2>2 DEF Phases
<1>6. FreshPresses'
  BY <1>1, <1>2, <1>3, <1>4, NoFresh DEF FreshPresses, FreshPress
<1>7. Unpressed'
  BY <1>1 DEF IInv, Unpressed
<1>8. Firm'
  BY <1>1, <1>3 DEF IInv, Firm
<1> QED
  BY <1>3, <1>5, <1>6, <1>7, <1>8 DEF IInv

\* The hold goes out when every active target is at rest.
LEMMA HoldKeeps ==
  ASSUME IInv, TypeOK', Hold
  PROVE  IInv'
<1> DEFINE D == {Plain(node, seq + 1, "relay_hold")}
<1>1. /\ client = "stopping" /\ client' = "holding" /\ AllApplied
      /\ UNCHANGED <<active, detached, node, held, presses>>
      /\ active \in SUBSET Targets /\ detached \in SUBSET Targets /\ seq \in Nat
  BY DEF Hold, robots, IInv, TypeOK
<1>2. Releasing /\ seq # 0 /\ \A t \in active : awaited[t] = seq /\ (t \in acks => AtRest(t))
  BY <1>1 DEF IInv, Phases, Waiting, Stopping
<1>3. AllAtRest
  BY <1>1, <1>2 DEF AllApplied, AllAtRest
<1>4. D \in SUBSET Datagrams
  BY <1>1, <1>2, NewDatagrams DEF IInv, Names, Releasing
<1>5. Adds(D) /\ \A d \in D : d.cmd = "relay_hold" /\ ~Commanding(d)
  BY DEF Hold, Send, Adds, Plain, Commanding
<1>6. /\ Numbered' /\ PressedOnce'
      /\ \A t \in Targets : AtRest(t) => AtRest(t)'
      /\ \A l \in sent : FreshPress(l)' <=> FreshPress(l)
      /\ \A l \in sent : l.seq # seq + 1
  BY <1>4, <1>5, AddsKeeps
<1>7. /\ seq' = seq + 1 /\ sent' = sent \cup D /\ acks' = {}
      /\ awaited' = [t \in Targets |-> IF t \in {node} THEN seq + 1 ELSE 0]
  BY DEF Hold, Send
<1>8. Phases'
  <2>1. Waiting' /\ Stopping' /\ Pressing' /\ Asking'
    BY <1>1, <1>7 DEF Waiting, Stopping, Pressing, Asking
  <2>2. Releasing' /\ AllAtRest'
    BY <1>1, <1>2, <1>3, <1>6 DEF Releasing, AllAtRest
  <2>3. awaited'[node] = seq' /\ \A l \in sent' : l.seq = seq' => l.cmd = "relay_hold"
    BY <1>1, <1>2, <1>5, <1>6, <1>7 DEF Releasing
  <2> QED
    BY <1>1, <1>7, <2>1, <2>2, <2>3 DEF Phases, Holding
<1>9. FreshPresses'
  BY <1>1, <1>5, <1>6, <1>7, NoFresh DEF FreshPresses, FreshPress
<1>10. Unpressed'
  BY <1>1 DEF IInv, Unpressed
<1>11. Firm'
  BY <1>1, <1>6 DEF IInv, Firm
<1> QED
  BY <1>6, <1>8, <1>9, <1>10, <1>11 DEF IInv

\* The press goes out when the node is held besides.
LEMMA PressKeeps ==
  ASSUME IInv, TypeOK', Press
  PROVE  IInv'
<1> USE DetachAssumption
<1>1. /\ client = "holding" /\ client' = "pressing" /\ AllApplied
      /\ UNCHANGED <<active, detached, node, mark, held, presses>>
      /\ active \in SUBSET Targets /\ detached \in SUBSET Targets /\ seq \in Nat
      /\ mark \in [Targets -> Nat]
  BY DEF Press, robots, IInv, TypeOK
<1>2. Releasing /\ AllAtRest /\ seq # 0 /\ awaited[node] = seq /\ (node \in acks => held[node])
  BY <1>1 DEF IInv, Phases, Waiting, Holding
<1>3. held[node] /\ node \in Targets /\ Actuator[node] \in Targets
  BY <1>1, <1>2 DEF AllApplied, Releasing
<1>4. {ThePress} \in SUBSET Datagrams
  BY <1>2, <1>3, NewDatagrams DEF IInv, Releasing
<1>5. /\ Adds({ThePress}) /\ ~Commanding(ThePress)
      /\ ThePress.cmd = "detach_press" /\ ThePress.seq = seq + 1
      /\ ThePress.released = node /\ ThePress.to = Actuator[node]
  BY DEF Press, Send, Adds, ThePress, Commanding
<1>6. /\ Numbered' /\ PressedOnce'
      /\ \A t \in Targets : AtRest(t) => AtRest(t)'
      /\ \A l \in sent : FreshPress(l)' <=> FreshPress(l)
      /\ \A l \in sent : l.seq # seq + 1
  BY <1>4, <1>5, AddsKeeps
<1>7. /\ seq' = seq + 1 /\ sent' = sent \cup {ThePress} /\ acks' = {}
      /\ awaited' = [t \in Targets |-> IF t \in {Actuator[node]} THEN seq + 1 ELSE 0]
  BY DEF Press, Send
<1>8. Releasing' /\ AllAtRest'
  BY <1>1, <1>2, <1>6 DEF Releasing, AllAtRest
<1>9. Phases'
  <2>1. Waiting' /\ Stopping' /\ Holding' /\ Asking'
    BY <1>1, <1>7 DEF Waiting, Stopping, Holding, Asking
  <2>2. awaited'[Actuator[node]] = seq' /\ \A l \in sent' : l.seq = seq' => l.cmd = "detach_press"
    BY <1>3, <1>5, <1>6, <1>7
  <2> QED
    BY <1>1, <1>3, <1>7, <1>8, <2>1, <2>2 DEF Phases, Pressing
<1>10. FreshPresses'
  <2>1. \A l \in sent' : FreshPress(l)' => l = ThePress
    BY <1>1, <1>6, <1>7, NoFresh
  <2>2. presses[node] = 0
    BY <1>1, <1>2 DEF IInv, Unpressed, Releasing
  <2>3. ASSUME NEW l \in sent', l = ThePress PROVE SafePress(l)'
    BY <1>1, <1>3, <1>5, <1>8, <2>2, <2>3 DEF SafePress
  <2> QED
    BY <2>1, <2>3 DEF FreshPresses
<1>11. Unpressed'
  BY <1>1 DEF IInv, Unpressed
<1>12. Firm'
  BY <1>1, <1>6 DEF IInv, Firm
<1> QED
  BY <1>6, <1>9, <1>10, <1>11, <1>12 DEF IInv

\* The press is acknowledged.
LEMMA CompletedKeeps ==
  ASSUME IInv, TypeOK', Completed
  PROVE  IInv'
<1> USE DetachAssumption
<1>1. /\ client = "pressing" /\ client' = "asking" /\ AllApplied
      /\ UNCHANGED <<active, detached, node, held, presses, seq, sent, robots>>
      /\ active \in SUBSET Targets /\ detached \in SUBSET Targets
  BY DEF Completed, Done, robots, IInv, TypeOK
<1>2. /\ Releasing /\ AllAtRest /\ held[node] /\ seq # 0 /\ awaited[Actuator[node]] = seq
      /\ Actuator[node] \in acks => presses[node] > 0 /\ \A l \in sent : ~FreshPress(l)
  BY <1>1 DEF IInv, Phases, Waiting, Pressing
<1>3. presses[node] > 0 /\ \A l \in sent : ~FreshPress(l)
  BY <1>1, <1>2 DEF AllApplied, Releasing
<1>4. Adds({})
  BY <1>1 DEF Adds
<1>5. /\ Numbered' /\ PressedOnce'
      /\ \A t \in Targets : AtRest(t) => AtRest(t)'
      /\ \A l \in sent : FreshPress(l)' <=> FreshPress(l)
  BY <1>4, AddsKeeps
<1>6. Phases'
  <2>1. Waiting' /\ Stopping' /\ Holding' /\ Pressing'
    BY <1>1 DEF Waiting, Stopping, Holding, Pressing
  <2>2. Asking'
    BY <1>1, <1>2, <1>3, <1>5 DEF Asking, Releasing, AllAtRest
  <2> QED
    BY <2>1, <2>2 DEF Phases
<1>7. FreshPresses'
  BY <1>1, <1>3, <1>5 DEF FreshPresses
<1>8. Unpressed'
  BY <1>1 DEF IInv, Unpressed
<1>9. Firm'
  BY <1>1, <1>5 DEF IInv, Firm
<1> QED
  BY <1>5, <1>6, <1>7, <1>8, <1>9 DEF IInv

\* The node is taken off the list for good.
LEMMA ConfirmedKeeps ==
  ASSUME IInv, TypeOK', Confirmed
  PROVE  IInv'
<1>1. /\ client = "asking" /\ client' = "idle"
      /\ detached' = detached \cup {node} /\ active' = active \ {node}
      /\ UNCHANGED <<held, presses, seq, sent, robots>>
      /\ active \in SUBSET Targets /\ detached \in SUBSET Targets
  BY DEF Confirmed, network, robots, IInv, TypeOK
<1>2. Releasing /\ AllAtRest /\ held[node] /\ presses[node] > 0
  BY <1>1 DEF IInv, Phases, Asking
<1>3. Adds({})
  BY <1>1 DEF Adds
<1>4. /\ Numbered' /\ PressedOnce'
      /\ \A t \in Targets : AtRest(t) => AtRest(t)'
      /\ \A l \in sent : FreshPress(l)' <=> FreshPress(l)
  BY <1>3, AddsKeeps
<1>5. Phases'
  BY <1>1 DEF Phases, Waiting, Stopping, Holding, Pressing, Asking
<1>6. FreshPresses'
  BY <1>1, <1>4, NoFresh DEF FreshPresses
<1>7. Unpressed'
  BY <1>1 DEF IInv, Unpressed
<1>8. Firm'
  BY <1>1, <1>2, <1>4 DEF IInv, Firm, Releasing, AllAtRest
<1> QED
  BY <1>4, <1>5, <1>6, <1>7, <1>8 DEF IInv

-----------------------------------------------------------------------------
(* The theorems.                                                           *)

LEMMA InitIInv ==
  ASSUME Init
  PROVE  IInv
<1>1. TypeOK
  BY DetachAssumption DEF Init, TypeOK
<1>2. Numbered /\ PressedOnce
  BY DEF Init, Numbered, PressedOnce
<1>3. Phases /\ FreshPresses /\ Firm
  BY DEF Init, Phases, Waiting, Stopping, Holding, Pressing, Asking, FreshPresses, Firm
<1>4. Unpressed
  BY DEF Init, Unpressed
<1> QED
  BY <1>1, <1>2, <1>3, <1>4 DEF IInv

LEMMA StutterIInv ==
  ASSUME IInv, UNCHANGED vars
  PROVE  IInv'
<1>1. UNCHANGED <<client, active, detached, node, stopSeq, awaited, seq, sent, acks,
                  mark, moving, held, recent, presses, commands, restarts>>
  BY DEF vars, operator, network, robots
<1>2. TypeOK'
  BY <1>1 DEF IInv, TypeOK
<1>3. Calm
  BY <1>1 DEF IInv, Calm, operator, Numbered, AtRest, Settled, Commanding, FreshPress
<1>4. Honest
  BY <1>1 DEF Honest
<1> QED
  BY <1>2, <1>3, <1>4, CalmKeeps

LEMMA NextIInv ==
  ASSUME IInv, [Next]_vars
  PROVE  IInv'
<1>1. CASE Client
  <2>1. TypeOK'
    BY <1>1, ClientTypes DEF IInv
  <2> QED
    BY <1>1, <2>1, OutsideKeeps, CommandKeeps, ReleaseKeeps, HoldKeeps, PressKeeps,
       CompletedKeeps, ConfirmedKeeps DEF Client
<1>2. CASE Next /\ ~Client
  BY <1>2, RobotsKeep DEF Next
<1>3. CASE UNCHANGED vars
  BY <1>3, StutterIInv
<1> QED
  BY <1>1, <1>2, <1>3

\* The strengthened invariant holds in every reachable state.
THEOREM Inductive == Spec => []IInv
<1>1. Init => IInv
  BY InitIInv
<1>2. IInv /\ [Next]_vars => IInv'
  BY NextIInv
<1> QED
  BY <1>1, <1>2, PTL DEF Spec

\* The client's lists and the robots' state keep their types
\* (mesh_control_client.py:600-741, mesh_control_server.py:587-705).
THEOREM TypeCorrect == Spec => []TypeOK
<1>1. IInv => TypeOK
  BY DEF IInv
<1> QED
  BY <1>1, Inductive, PTL

\* A servo does not press twice for one node, whatever is repeated, late or
\* lost (mesh_control_server.py:859-894).
THEOREM PressesOnce == Spec => []PressedOnce
<1>1. IInv => PressedOnce
  BY DEF IInv
<1> QED
  BY <1>1, Inductive, PTL

\* A detached node stays held and at rest (mesh_control_client.py:1060-1075).
THEOREM StaysDetached == Spec => []DetachedStays
<1>1. IInv => DetachedStays
  BY DEF IInv, Firm, AtRest, DetachedStays
<1> QED
  BY <1>1, Inductive, PTL

\* A press finds the node held and every active target at rest
\* (mesh_control_client.py:631-690).
THEOREM PressesAtRest == Spec => PressOnlyAtRest
<1>1. ASSUME IInv, [Next]_vars, NEW n \in Targets, presses'[n] # presses[n]
      PROVE  held[n] /\ \A t \in active : ~moving[t]
  <2>1. presses' # presses
    BY <1>1
  <2>2. PICK m \in sent : Deliver(m) /\ ApplyPress(m)
    <3>1. ~Client
      BY <2>1 DEF Client, Begin, Started, NotStarted, Change, Command, Release, Hold,
         Press, Completed, Faulted, Confirmed, NotConfirmed, Leave, robots
    <3>2. ~ \E t \in Targets : Watchdog(t) \/ Restart(t)
      BY <2>1 DEF Watchdog, Restart
    <3>3. ~ \E t \in Actuators : StopAges(t)
      BY <2>1 DEF StopAges
    <3>4. PICK m \in sent : Deliver(m)
      BY <1>1, <2>1, <3>1, <3>2, <3>3 DEF Next, vars, robots
    <3> QED
      BY <2>1, <3>4 DEF Deliver, ApplyStop, ApplyMotion, ApplyEnable, ApplyHold, RefusePress, Fails
  <2>3. FreshPress(m)
    BY <2>2 DEF ApplyPress, Fresh, FreshPress
  <2>4. SafePress(m)
    BY <1>1, <2>3 DEF IInv, FreshPresses
  <2>5. presses' \in {presses, [presses EXCEPT ![node] = @ + 1]} /\ presses \in [Targets -> Nat]
    BY <1>1, <2>2, <2>4 DEF ApplyPress, SafePress, IInv, TypeOK
  <2>6. n = node
    BY <1>1, <2>5
  <2> QED
    BY <2>4, <2>6 DEF SafePress, AllAtRest, AtRest
<1>2. IInv /\ [Next]_vars =>
        [\A n \in Targets : presses'[n] # presses[n] =>
           held[n] /\ \A t \in active : ~moving[t]]_vars
  BY <1>1
<1> QED
  BY <1>2, Inductive, PTL DEF Spec, PressOnlyAtRest
=============================================================================
