----------------------------- MODULE OperatorLoop -----------------------------
(***************************************************************************)
(* The operator's live loop (controller/mesh_control_client.py) and the    *)
(* worker that judges the link for it (controller/quality_supervisor.py).  *)
(* Time is in ticks of the danger hold.  The loop is quick: it waits for a *)
(* key for at most one tick and only a detach sequence takes it longer     *)
(* (module DetachSequence, here by its outcome).                           *)
(***************************************************************************)
EXTENDS Integers, Sequences

CONSTANTS
  Nodes, DetachOrder,     \* the nodes behind the head, and --detach-order
  DangerHold, WarnHold,   \* danger_hold_s, warn_hold_s
  StaleAfter,             \* async_stale_s
  Cooldown,               \* --detach-cooldown
  ProbeMax                \* how long an update that ends may take

ASSUME LoopAssumption ==
  /\ DetachOrder \in Seq(Nodes)
  /\ {DangerHold, WarnHold, StaleAfter, Cooldown, ProbeMax} \subseteq Nat
  /\ 0 < DangerHold /\ DangerHold < WarnHold

VARIABLES
  probe,        \* ticks since the worker's update began; None between updates
  danger, warn, \* ticks since danger_since and warn_since; None if unset
  latest,       \* _latest_decision
  success,      \* ticks since _last_success_monotonic; None if unset
  pc,           \* "top", "select", "detaching" or "ended"
  dec,          \* the decision the loop works with
  lag,          \* the loop has waited a tick since
  active,       \* active_command: "stop" or "drive"
  stopSent,     \* quality_stop_sent
  armed,        \* auto_detach_armed
  attached,     \* active_targets without the head
  detaching,    \* what the sequence that is running is about
  cool,         \* ticks since last_detach_at
  motion,       \* the latest motion command sent: "stop", "slow" or "full"
  seen, basis   \* history, for the properties only: the latest update that
                \* succeeded, and the one that dec rests on

worker == <<probe, danger, warn, latest, success>>
loop == <<pc, dec, lag, active, stopSent, armed, attached, detaching, cool, motion>>
vars == <<worker, loop, seen, basis>>

None == -1
Levels == {"GOOD", "WARN", "DANGER"}
NoDetach == [node |-> None, auto |-> FALSE]

-----------------------------------------------------------------------------
(* QualitySupervisor: an update scores what it reads (raw) and holds back  *)
(* a worse status for a while, counted from when the update began.         *)

Since(was, began) == IF was = None THEN began ELSE was

\* _apply_hysteresis; ticks are counted back from now, the update began then.
\* Mutant of DangerSince: a warning between two dangers does not end their run.
DangerSinceKept(raw, began) ==
  IF raw = "GOOD" THEN None ELSE IF raw = "DANGER" THEN Since(danger, began) ELSE danger
DangerSince(raw, began) == IF raw = "DANGER" THEN Since(danger, began) ELSE None
WarnSince(raw, began) == IF raw = "GOOD" THEN None ELSE Since(warn, began)
Held(since, began, hold) == since # None /\ since - began >= hold
Hysteresis(raw, began) ==
  IF raw = "GOOD" THEN "GOOD"
  ELSE IF Held(DangerSince(raw, began), began, DangerHold) THEN "DANGER"
  ELSE IF Held(WarnSince(raw, began), began, WarnHold) THEN "WARN"
  ELSE "TRANSIENT"

\* The speed cap of a status, a transient one taken by what was read.
Cap(status, raw) ==
  LET control == IF status = "TRANSIENT" THEN raw ELSE status
  IN IF control = "GOOD" THEN "full" ELSE IF control = "WARN" THEN "slow" ELSE "zero"

Decision(status, raw, cap) == [status |-> status, raw |-> raw, cap |-> cap]

-----------------------------------------------------------------------------
(* AsyncQualitySupervisor: the worker, and what the loop reads of it.      *)

Begin ==
  /\ probe = None /\ probe' = 0
  /\ UNCHANGED <<danger, warn, latest, success, loop, seen, basis>>

Publish(raw) ==
  LET status == Hysteresis(raw, probe)
  IN /\ probe \in 0..ProbeMax /\ probe' = None
     /\ danger' = DangerSince(raw, probe) /\ warn' = WarnSince(raw, probe)
     /\ latest' = Decision(status, raw, Cap(status, raw))
     /\ success' = 0
     /\ seen' = [raw |-> raw, age |-> probe, usable |-> seen.usable \/ raw # "DANGER",
                 run |-> IF raw = "DANGER" THEN Since(seen.run, probe) ELSE None,
                 held |-> IF raw = "DANGER" /\ seen.run # None THEN seen.run - probe ELSE 0]
     /\ UNCHANGED <<loop, basis>>

\* The update raises: what it read last stays in the record.
Fails ==
  /\ probe \in 0..ProbeMax /\ probe' = None
  /\ latest' = Decision("ERROR", latest.raw, "zero")
  /\ UNCHANGED <<danger, warn, success, loop, seen, basis>>

\* Mutant of Latest: the age of the latest success is not looked at.
LatestNeverStale == latest
\* latest()
Latest ==
  IF success # None /\ success > StaleAfter
  THEN Decision("STALE", latest.raw, "zero") ELSE latest

-----------------------------------------------------------------------------
(* run_live_mode.                                                          *)

\* quality_blocks_motion
Blocks(d) ==
  d.status \in {"DANGER", "NOT_READY", "STALE", "ERROR", "UNKNOWN"} \/ d.cap = "zero"

\* The places in the order of the nodes that are still there, and the first.
Remaining == {i \in DOMAIN DetachOrder : DetachOrder[i] \in attached}
NextDetach == DetachOrder[CHOOSE i \in Remaining : \A j \in Remaining : i <= j]

\* quality_sample_arms_auto_detach: the link was usable once.
Arms(d) == d.raw \in {"GOOD", "WARN"}
AutoDetaches(d, isArmed) ==
  d.status = "DANGER" /\ isArmed /\ cool >= Cooldown /\ Remaining # {}

\* The head of an iteration, up to the wait for a key.
Top ==
  /\ pc = "top"
  /\ LET d == Latest
         isArmed == armed \/ Arms(d)
     IN /\ dec' = d /\ basis' = seen /\ lag' = 0 /\ armed' = isArmed
        /\ stopSent' = Blocks(d)
        /\ IF Blocks(d)
           THEN active' = "stop" /\ motion' = IF active # "stop" \/ ~stopSent THEN "stop" ELSE motion
           ELSE UNCHANGED <<active, motion>>
        /\ IF AutoDetaches(d, isArmed)
           THEN pc' = "detaching" /\ detaching' = [node |-> NextDetach, auto |-> TRUE]
           ELSE pc' = "select" /\ UNCHANGED detaching
  /\ UNCHANGED <<worker, attached, cool, seen>>

\* A key of LIVE_KEYS that drives; it is suppressed while the link is bad.
PressDrive ==
  /\ pc = "select" /\ pc' = "top"
  /\ active' = IF Blocks(dec) THEN "stop" ELSE "drive"
  /\ motion' = IF Blocks(dec) THEN "stop" ELSE dec.cap
  /\ UNCHANGED <<worker, dec, lag, stopSent, armed, attached, detaching, cool, seen, basis>>

\* The front motor's key runs it once.
PressFront ==
  /\ pc = "select" /\ pc' = "top" /\ ~Blocks(dec)
  /\ motion' = dec.cap
  /\ UNCHANGED <<worker, dec, lag, active, stopSent, armed, attached, detaching, cool, seen, basis>>

PressStop ==
  /\ pc = "select" /\ pc' = "top"
  /\ active' = "stop" /\ motion' = "stop"
  /\ UNCHANGED <<worker, dec, lag, stopSent, armed, attached, detaching, cool, seen, basis>>

\* No key, or one that moves nothing: the command is repeated when it is due.
Refresh(due) ==
  /\ pc = "select" /\ pc' = "top"
  /\ motion' = IF active = "drive" /\ due THEN dec.cap ELSE motion
  /\ UNCHANGED <<worker, dec, lag, active, stopSent, armed, attached, detaching, cool, seen, basis>>

\* Mutant of PressDetach: the command that was repeated is not given up.
PressDetachKeeps(n) ==
  /\ pc = "select" /\ n \in attached
  /\ pc' = "detaching" /\ detaching' = [node |-> n, auto |-> FALSE]
  /\ UNCHANGED <<worker, dec, lag, active, stopSent, armed, attached, cool, motion, seen, basis>>

\* The operator's release keys.
PressDetach(n) ==
  /\ pc = "select" /\ n \in attached
  /\ active' = "stop"
  /\ pc' = "detaching" /\ detaching' = [node |-> n, auto |-> FALSE]
  /\ UNCHANGED <<worker, dec, lag, stopSent, armed, attached, cool, motion, seen, basis>>

\* The sequence and the operator's answer (resolve_detach_result): the node is
\* removed, the session ends, or nothing came of it.
Outcomes == {"removed", "refused", "ended"}

\* The sequence has stopped every target before it acts.
DetachEnds(outcome) ==
  /\ pc = "detaching" /\ detaching' = NoDetach
  /\ motion' = "stop"
  /\ IF outcome = "removed" THEN attached' = attached \ {detaching.node} ELSE UNCHANGED attached
  /\ cool' = IF outcome = "removed" /\ detaching.auto THEN 0 ELSE cool
  /\ pc' = IF outcome = "ended" THEN "ended" ELSE IF detaching.auto THEN "select" ELSE "top"
  /\ UNCHANGED <<worker, dec, lag, active, stopSent, armed, seen, basis>>

\* Ctrl-C: stop_active_targets.
Quit ==
  /\ pc = "select" /\ pc' = "ended" /\ motion' = "stop"
  /\ UNCHANGED <<worker, dec, lag, active, stopSent, armed, attached, detaching, cool, seen, basis>>

-----------------------------------------------------------------------------

Later(n, limit) == IF n = None THEN None ELSE IF n < limit THEN n + 1 ELSE n

\* Clocks stop where nothing tells them apart any more.
Horizon == ProbeMax + StaleAfter + 2
Tick ==
  /\ pc \notin {"top", "ended"} /\ (pc = "select" => lag = 0)
  /\ lag' = 1
  /\ probe' = Later(probe, ProbeMax + 1)
  /\ danger' = Later(danger, ProbeMax + DangerHold)
  /\ warn' = Later(warn, ProbeMax + WarnHold)
  /\ success' = Later(success, StaleAfter + 1)
  /\ cool' = Later(cool, Cooldown)
  /\ seen' = [seen EXCEPT !.age = Later(@, Horizon), !.run = Later(@, ProbeMax + DangerHold)]
  /\ UNCHANGED <<latest, pc, dec, active, stopSent, armed, attached, detaching, motion, basis>>

Init ==
  /\ probe = None /\ danger = None /\ warn = None /\ success = None
  /\ latest = Decision("NOT_READY", "UNKNOWN", "zero")
  /\ pc = "top" /\ dec = latest /\ lag = 0
  /\ active = "stop" /\ stopSent = FALSE /\ armed = FALSE
  /\ attached = Nodes /\ detaching = NoDetach /\ cool \in 0..Cooldown
  /\ motion = "stop"
  /\ seen = [raw |-> "UNKNOWN", age |-> None, usable |-> FALSE, run |-> None, held |-> 0]
  /\ basis = seen

Next ==
  \/ Begin \/ Fails \/ \E raw \in Levels : Publish(raw)
  \/ Top \/ PressDrive \/ PressFront \/ PressStop \/ Quit
  \/ \E due \in BOOLEAN : Refresh(due)
  \/ \E n \in Nodes : PressDetach(n)
  \/ \E o \in Outcomes : DetachEnds(o)
  \/ Tick

Spec == Init /\ [][Next]_vars

-----------------------------------------------------------------------------
(* Properties.                                                             *)

Drives == PressDrive \/ PressFront \/ (Refresh(TRUE) /\ active = "drive")

\* What moves the robot rests on an observation of the link: one that the
\* worker finished and that is not older than its longest update, the stale
\* limit and one wait for a key together.  If it read DANGER the danger is
\* younger than its hold and the command is slowed; full speed is for GOOD.
DriveIsEarned ==
  [][Drives /\ motion' # "stop" =>
       /\ basis.raw \in Levels /\ basis.age + lag <= ProbeMax + StaleAfter + 1
       /\ basis.raw = "DANGER" => basis.held < DangerHold /\ motion' = "slow"
       /\ motion' = "full" => basis.raw = "GOOD"]_vars

\* A robot that was stopped, by a key, by the link or by a detach sequence,
\* moves again only at a new key: it leaves the stop with no command to repeat.
\* And no wait for a key begins on a blocked link with the robot moving.
StopStands ==
  [][/\ motion = "stop" /\ motion' # "stop" => active = "stop"
     /\ pc' = "select" /\ Blocks(dec') => motion' = "stop"]_vars

\* The loop releases a node by itself only with the robot stopped, after the
\* link was once usable, on a fresh observation of DANGER that ends an
\* uninterrupted run of them as long as the hold; and it takes the first node
\* of the order that is still there.
DetachIsEarned ==
  [][pc = "top" /\ pc' = "detaching" =>
       /\ motion' = "stop" /\ seen.usable
       /\ seen.raw = "DANGER" /\ seen.held >= DangerHold /\ seen.age <= ProbeMax + StaleAfter
       /\ detaching'.node \in attached
       /\ \A i \in DOMAIN DetachOrder :
            DetachOrder[i] \in attached => \E k \in 1..i : DetachOrder[k] = detaching'.node]_vars

\* docs/phase0_linux_services.md, 129: "A transient raw danger also applies its
\* zero cap immediately".  Not so after a warning that has lasted: the hold of
\* the warning is looked at before the rule for what is transient.
RawDangerStops ==
  [][Drives => motion' = "stop" \/ basis.raw # "DANGER"]_vars
================================================================================
