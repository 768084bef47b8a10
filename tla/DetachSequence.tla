---------------------------- MODULE DetachSequence ----------------------------
(***************************************************************************)
(* The release of a relay node: the operator's client                      *)
(* (controller/mesh_control_client.py, send_detach_release and the loops   *)
(* around it) against the control servers of the robots                    *)
(* (robot/mesh_control_server.py).  Stop everything that is active, latch  *)
(* the node that stays behind, then let the unit in front of it press its  *)
(* detach servo, each step only after the acknowledgement of the last.     *)
(*                                                                         *)
(* Datagrams may be lost, repeated, delayed and reordered, and servers may *)
(* restart; a restart takes longer than a datagram lives.  One client      *)
(* session.  All datagrams of one burst carry one number here: a robot     *)
(* compares only those addressed to it.                                    *)
(***************************************************************************)
EXTENDS Naturals, FiniteSets

CONSTANTS
  Targets,      \* --active-targets at the start
  Actuator,     \* DETACH_RELEASE_ACTUATORS: who presses for a node
  MaxCommands,  \* bound: commands the operator gives besides releases
  MaxRestarts   \* bound: restarts of servers

ASSUME DetachAssumption ==
  /\ IsFiniteSet(Targets)
  /\ DOMAIN Actuator \subseteq Targets
  /\ \A n \in DOMAIN Actuator : Actuator[n] # n
  /\ MaxCommands \in Nat
  /\ MaxRestarts \in Nat

\* The targets that press; nobody reads the recent stop of another.
Actuators == {Actuator[n] : n \in DOMAIN Actuator}

VARIABLES
  client,    \* where the client is
  active,    \* active_targets
  detached,
  node,      \* the node being released
  stopSeq,   \* actuator_stop_ref.seq
  awaited,   \* [Targets -> number whose ACK is waited for], 0 for none
  seq,       \* ControlTransport.seq
  sent,      \* datagrams on the network
  acks,      \* targets whose awaited number was acknowledged as applied
  mark,      \* [Targets -> last number of the session], 0 when unknown
  moving,    \* [Targets -> wheels are driven]
  held,      \* [Targets -> propulsion latch]
  recent,    \* [Actuators -> number in _recent_stops], 0 when none or too old
  presses,   \* [Targets -> how often the servo pressed to release it]
  commands, restarts

operator == <<client, active, detached, node, stopSeq, awaited, seq>>
network == <<sent, acks>>
robots == <<mark, moving, held, recent, presses>>
vars == <<operator, network, robots, commands, restarts>>

Names == {"stop", "motion", "enable", "relay_hold", "detach_press"}

\* `released` and `stop` are the detach_context of a press.
Datagrams ==
  [to: Targets, seq: Nat, cmd: Names, released: Targets \cup {"none"}, stop: Nat]

-----------------------------------------------------------------------------
(* The client.                                                             *)

Plain(t, n, c) == [to |-> t, seq |-> n, cmd |-> c, released |-> "none", stop |-> 0]

\* One datagram, or one to each of several targets, and whose ACKs are waited
\* for from now on; what else was waited for is not any more.
Send(datagrams, waited) ==
  /\ seq' = seq + 1
  /\ sent' = sent \cup datagrams
  /\ awaited' = [t \in Targets |-> IF t \in waited THEN seq + 1 ELSE 0]
  /\ acks' = {}

Stops(targets) == {Plain(t, seq + 1, "stop") : t \in targets}

\* Nothing is waited for any more.
Done == awaited' = [t \in Targets |-> 0] /\ acks' = {} /\ UNCHANGED <<seq, sent>>

\* Variant: it is enough that one target confirms.
AnyApplied == acks # {}

\* wait_for_all_applied, or wait_applied of the only one.
AllApplied == \A t \in Targets : awaited[t] # 0 => t \in acks

\* initialize_control_session, for the target or for all.
Begin ==
  /\ client = "begin"
  /\ \E targets \in {active} \cup {{t} : t \in active} :
       targets # {} /\ Send(Stops(targets), targets)
  /\ client' = "starting"
  /\ UNCHANGED <<active, detached, node, stopSeq, robots, commands, restarts>>

Started ==
  /\ client = "starting" /\ AllApplied
  /\ client' = "idle"
  /\ Done
  /\ UNCHANGED <<active, detached, node, stopSeq, robots, commands, restarts>>

\* Once more when the operator changes the target.  Confirmed or not, the
\* client goes on.
Change ==
  /\ client = "idle" /\ commands < MaxCommands
  /\ commands' = commands + 1
  /\ \E targets \in {active} \cup {{t} : t \in active} :
       targets # {} /\ Send(Stops(targets), {})
  /\ UNCHANGED <<client, active, detached, node, stopSeq, robots, restarts>>

\* No control input before the first stop is confirmed.
NotStarted ==
  /\ client = "starting"
  /\ client' = "ended"
  /\ Done
  /\ UNCHANGED <<active, detached, node, stopSeq, robots, commands, restarts>>

\* send_routed: nothing is sent to a target that is not active.
Command(t, cmd) ==
  /\ client = "idle" /\ commands < MaxCommands
  /\ t \in active
  /\ commands' = commands + 1
  /\ Send({Plain(t, seq + 1, cmd)}, {})
  /\ UNCHANGED <<client, active, detached, node, stopSeq, robots, restarts>>

\* send_detach_release: the checks and the stops.
Release(n) ==
  /\ client = "idle"
  /\ n \in DOMAIN Actuator
  /\ n \in active /\ Actuator[n] \in active
  /\ node' = n
  /\ Send(Stops(active), active)
  /\ client' = "stopping"
  /\ UNCHANGED <<active, detached, stopSeq, robots, commands, restarts>>

Hold ==
  /\ client = "stopping" /\ AllApplied
  /\ stopSeq' = awaited[Actuator[node]]
  /\ Send({Plain(node, seq + 1, "relay_hold")}, {node})
  /\ client' = "holding"
  /\ UNCHANGED <<active, detached, node, robots, commands, restarts>>

ThePress == [to |-> Actuator[node], seq |-> seq + 1, cmd |-> "detach_press",
             released |-> node, stop |-> stopSeq]

\* Variant: the press follows the hold without waiting for its ACK.
PressAtOnce ==
  /\ client = "holding"
  /\ Send({ThePress}, {Actuator[node]})
  /\ client' = "pressing"
  /\ UNCHANGED <<active, detached, node, stopSeq, robots, commands, restarts>>

Press ==
  /\ client = "holding" /\ AllApplied
  /\ Send({ThePress}, {Actuator[node]})
  /\ client' = "pressing"
  /\ UNCHANGED <<active, detached, node, stopSeq, robots, commands, restarts>>

Completed ==
  /\ client = "pressing" /\ AllApplied
  /\ client' = "asking"
  /\ Done
  /\ UNCHANGED <<active, detached, node, stopSeq, robots, commands, restarts>>

\* A rejection or no answer in time.  After the press every active target is
\* stopped once more.
Faulted ==
  /\ client \in {"stopping", "holding", "pressing"}
  /\ client' = "leaving"
  /\ IF client = "pressing" THEN Send(Stops(active), {}) ELSE Done
  /\ UNCHANGED <<active, detached, node, stopSeq, robots, commands, restarts>>

\* Variant: the released node keeps getting the operator's commands.
ConfirmedActive ==
  /\ client = "asking"
  /\ client' = "idle"
  /\ detached' = detached \cup {node}
  /\ UNCHANGED <<active, node, stopSeq, awaited, seq, network, robots, commands, restarts>>

\* resolve_detach_result: the separation is confirmed, or assumed.
Confirmed ==
  /\ client = "asking"
  /\ client' = "idle"
  /\ detached' = detached \cup {node} /\ active' = active \ {node}
  /\ UNCHANGED <<node, stopSeq, awaited, seq, network, robots, commands, restarts>>

NotConfirmed ==
  /\ client = "asking"
  /\ client' = "leaving"
  /\ UNCHANGED <<active, detached, node, stopSeq, awaited, seq, network, robots, commands, restarts>>

\* The finally block, after a fault or when the operator quits.
Leave ==
  /\ client \in {"leaving", "idle"}
  /\ client' = "ended"
  /\ Send(Stops(active), {})
  /\ UNCHANGED <<active, detached, node, stopSeq, robots, commands, restarts>>

Client ==
  \/ Begin \/ Started \/ NotStarted \/ Change
  \/ \E t \in Targets, cmd \in {"stop", "motion", "enable"} : Command(t, cmd)
  \/ \E n \in Targets : Release(n)
  \/ Hold \/ Press \/ Completed \/ Faulted \/ Confirmed \/ NotConfirmed \/ Leave

-----------------------------------------------------------------------------
(* The servers.  A delivered datagram stays on the network, so that it may *)
(* come again.                                                             *)

\* The applied ACK, if the client waits for it (AckReceiver.waiters).  A
\* rejection is to the client what no answer is.
Answer(m) == acks' = IF awaited[m.to] = m.seq THEN acks \cup {m.to} ELSE acks

\* Variant: a number that equals the last one is let through.
FreshAgain(m) == mark[m.to] # 0 /\ m.seq >= mark[m.to]

\* The session is known and the number is new.
Fresh(m) == mark[m.to] # 0 /\ m.seq > mark[m.to]

Remember(m) == mark' = [mark EXCEPT ![m.to] = m.seq]

\* A stop is applied however late, and is the recent stop from now on.
ApplyStop(m) ==
  /\ m.cmd = "stop"
  /\ mark' = [mark EXCEPT ![m.to] = IF m.seq > @ THEN m.seq ELSE @]
  /\ moving' = [moving EXCEPT ![m.to] = FALSE]
  /\ recent' = [t \in Actuators |-> IF t = m.to THEN m.seq ELSE recent[t]]
  /\ Answer(m)
  /\ UNCHANGED <<held, presses>>

ApplyMotion(m) ==
  /\ m.cmd = "motion" /\ Fresh(m)
  /\ Remember(m)
  /\ moving' = [moving EXCEPT ![m.to] = @ \/ ~held[m.to]]
  /\ UNCHANGED <<acks, held, recent, presses>>

\* Enabled, or rolled back to the hold.
ApplyEnable(m) ==
  /\ m.cmd = "enable" /\ Fresh(m)
  /\ Remember(m)
  /\ \/ held' = [held EXCEPT ![m.to] = FALSE] /\ UNCHANGED moving
     \/ /\ held' = [held EXCEPT ![m.to] = TRUE]
        /\ moving' = [moving EXCEPT ![m.to] = FALSE]
  /\ UNCHANGED <<acks, recent, presses>>

ApplyHold(m) ==
  /\ m.cmd = "relay_hold" /\ Fresh(m)
  /\ Remember(m)
  /\ held' = [held EXCEPT ![m.to] = TRUE]
  /\ moving' = [moving EXCEPT ![m.to] = FALSE]
  /\ Answer(m)
  /\ UNCHANGED <<recent, presses>>

\* _detach_request_is_armed, within DETACH_STOP_WINDOW_NS.
Armed(m) ==
  /\ m.released \in DOMAIN Actuator /\ Actuator[m.released] = m.to
  /\ recent[m.to] # 0 /\ recent[m.to] = m.stop

\* Pressed and the stop consumed; or the servo raises, before or after it
\* moved, and the stop is left.
ApplyPress(m) ==
  /\ m.cmd = "detach_press" /\ Fresh(m) /\ Armed(m)
  /\ Remember(m)
  /\ \/ /\ presses' = [presses EXCEPT ![m.released] = @ + 1]
        /\ recent' = [recent EXCEPT ![m.to] = 0]
        /\ Answer(m)
     \/ /\ presses' \in {presses, [presses EXCEPT ![m.released] = @ + 1]}
        /\ UNCHANGED <<acks, recent>>
  /\ UNCHANGED <<moving, held>>

\* A press that is not armed; its number is remembered.  (A datagram out of
\* order, without a session or too late leaves no trace.)
RefusePress(m) ==
  /\ m.cmd = "detach_press" /\ Fresh(m) /\ ~Armed(m)
  /\ Remember(m)
  /\ UNCHANGED <<acks, moving, held, recent, presses>>

\* A stop, motion, enable or hold whose handler raises or refuses; what it has
\* done until then stays.
Fails(m) ==
  /\ m.cmd # "detach_press" /\ (m.cmd = "stop" \/ Fresh(m))
  /\ mark' = [mark EXCEPT ![m.to] = IF m.seq > @ THEN m.seq ELSE @]
  /\ moving' \in {moving, [moving EXCEPT ![m.to] = FALSE]}
  /\ held' \in {held, [held EXCEPT ![m.to] = @ \/ m.cmd = "relay_hold"]}
  /\ UNCHANGED <<acks, recent, presses>>

Deliver(m) ==
  /\ \/ ApplyStop(m) \/ ApplyMotion(m) \/ ApplyEnable(m) \/ ApplyHold(m)
     \/ ApplyPress(m) \/ RefusePress(m) \/ Fails(m)
  /\ UNCHANGED <<operator, sent, commands, restarts>>

\* No motion for --timeout seconds.
Watchdog(t) ==
  /\ moving[t]
  /\ moving' = [moving EXCEPT ![t] = FALSE]
  /\ UNCHANGED <<operator, network, mark, held, recent, presses, commands, restarts>>

\* The last stop becomes older than DETACH_STOP_WINDOW_NS.
StopAges(t) ==
  /\ recent[t] # 0
  /\ recent' = [recent EXCEPT ![t] = 0]
  /\ UNCHANGED <<operator, network, mark, moving, held, presses, commands, restarts>>

\* Only the latch is kept.
Restart(t) ==
  /\ restarts < MaxRestarts
  /\ restarts' = restarts + 1
  /\ mark' = [mark EXCEPT ![t] = 0]
  /\ recent' = [a \in Actuators |-> IF a = t THEN 0 ELSE recent[a]]
  /\ moving' = [moving EXCEPT ![t] = FALSE]
  /\ sent' = {m \in sent : m.to # t}
  /\ UNCHANGED <<operator, acks, held, presses, commands>>

-----------------------------------------------------------------------------

Init ==
  /\ client = "begin" /\ active = Targets /\ detached = {}
  /\ node = "none" /\ stopSeq = 0
  /\ awaited = [t \in Targets |-> 0] /\ seq = 0
  /\ sent = {} /\ acks = {}
  /\ mark = [t \in Targets |-> 0]
  /\ moving = [t \in Targets |-> FALSE]
  /\ held = [t \in Targets |-> FALSE]
  /\ recent = [t \in Actuators |-> 0]
  /\ presses = [t \in Targets |-> 0]
  /\ commands = 0 /\ restarts = 0

Next ==
  \/ Client
  \/ \E m \in sent : Deliver(m)
  \/ \E t \in Targets : Watchdog(t) \/ Restart(t)
  \/ \E t \in Actuators : StopAges(t)

\* The watchdog runs.
Spec == Init /\ [][Next]_vars /\ \A t \in Targets : WF_vars(Watchdog(t))

-----------------------------------------------------------------------------
(* Properties.                                                             *)

TypeOK ==
  /\ client \in {"begin", "starting", "idle", "stopping", "holding",
                 "pressing", "asking", "leaving", "ended"}
  /\ active \in SUBSET Targets /\ detached \in SUBSET Targets
  /\ node \in DOMAIN Actuator \cup {"none"}
  /\ {seq, stopSeq} \subseteq Nat
  /\ awaited \in [Targets -> Nat]
  /\ sent \in SUBSET Datagrams
  /\ acks \in SUBSET Targets
  /\ {mark, presses} \subseteq [Targets -> Nat] /\ recent \in [Actuators -> Nat]
  /\ {moving, held} \subseteq [Targets -> BOOLEAN]
  /\ {commands, restarts} \subseteq Nat

\* When a detach servo presses, the node it releases is held and nothing that
\* is active moves (docs/phase0_linux_services.md:85-91), whenever the press
\* arrives and whoever restarted in between.
PressOnlyAtRest ==
  [][\A n \in Targets : presses'[n] # presses[n] =>
       held[n] /\ \A t \in active : ~moving[t]]_vars

\* A servo does not press twice for one node.
PressedOnce == \A n \in Targets : presses[n] <= 1

\* A node that counts as detached was pressed off, is held, and stays so
\* whatever the operator commands later and whatever is still under way.
DetachedStays == \A n \in detached : presses[n] > 0 /\ held[n] /\ ~moving[n]

\* A session that has ended leaves no robot moving.
EndsAtRest == (client = "ended") ~> [](\A t \in Targets : ~moving[t])
=============================================================================
