-------------------------- MODULE OperatorLoopProofs --------------------------
(***************************************************************************)
(* Proofs about OperatorLoop, for every order of nodes and every choice of *)
(* the holds, limits and bounds: what moves the robot and what releases a  *)
(* node rests on what the link was last seen to be.                        *)
(***************************************************************************)
EXTENDS OperatorLoop, WellFoundedInduction, TLAPS

Raws == Levels \cup {"UNKNOWN"}
Ages == Nat \cup {None}
Caps == {"full", "slow", "zero"}
Decisions ==
  [status : {"GOOD", "WARN", "DANGER", "TRANSIENT", "NOT_READY", "ERROR", "STALE"},
   raw : Raws, cap : Caps]
History == [raw : Raws, age : Ages, usable : BOOLEAN, run : Ages, held : Int]

TypeOK ==
  /\ probe \in Ages /\ danger \in Ages /\ warn \in Ages /\ success \in Ages
  /\ latest \in Decisions /\ dec \in Decisions
  /\ pc \in {"top", "select", "detaching", "ended"} /\ lag \in 0..1
  /\ active \in {"stop", "drive"} /\ motion \in {"stop"} \cup Caps
  /\ stopSent \in BOOLEAN /\ armed \in BOOLEAN
  /\ attached \subseteq Nodes /\ detaching \in [node : Nodes \cup {None}, auto : BOOLEAN]
  /\ cool \in Nat
  /\ seen \in History /\ basis \in History

\* A decision that lets the robot move, and what it was taken from.
Sound(d, h) ==
  ~Blocks(d) =>
    /\ h.raw \in Levels /\ d.cap \in {"slow", "full"}
    /\ h.raw = "DANGER" => h.held < DangerHold /\ d.cap = "slow"
    /\ d.cap = "full" => h.raw = "GOOD"

WorkerInv ==
  /\ latest.raw = seen.raw
  /\ seen.run = danger
  /\ Sound(latest, seen)
  /\ latest.status # "STALE"
  /\ latest.status = "DANGER" => seen.raw = "DANGER" /\ seen.held >= DangerHold
  /\ success = None => latest.status \in {"NOT_READY", "ERROR"}
  /\ success # None /\ success <= StaleAfter => seen.age <= ProbeMax + success
  /\ seen.raw \in {"GOOD", "WARN"} \/ armed => seen.usable

LoopInv ==
  /\ Sound(dec, basis)
  /\ ~Blocks(dec) => basis.age <= ProbeMax + StaleAfter
  /\ stopSent => Blocks(dec) /\ active = "stop" /\ motion = "stop"
  /\ pc = "select" /\ Blocks(dec) => stopSent
  /\ pc = "detaching" => active = "stop"
  /\ pc = "detaching" /\ detaching.auto => stopSent
  /\ pc # "ended" /\ active = "drive" => motion # "stop"

Inv == TypeOK /\ WorkerInv /\ LoopInv

-----------------------------------------------------------------------------
(* Lemmas about the operators.                                             *)

USE DEF None

LEMMA CapTyped ==
  ASSUME NEW s, NEW r PROVE Cap(s, r) \in Caps
  BY DEF Cap, Caps

LEMMA HysteresisTyped ==
  ASSUME NEW r \in Levels, NEW b
  PROVE Hysteresis(r, b) \in {"GOOD", "WARN", "DANGER", "TRANSIENT"}
  BY DEF Hysteresis

LEMMA LaterTyped ==
  ASSUME NEW n \in Ages, NEW l
  PROVE Later(n, l) \in Ages /\ (n \in Nat => Later(n, l) \in Nat /\ Later(n, l) >= n /\ Later(n, l) <= n + 1)
  BY DEF Later, Ages

LEMMA SinceTyped ==
  ASSUME NEW w \in Ages, NEW b \in Ages PROVE Since(w, b) \in Ages
  BY DEF Since

\* The worker reports what lasts as long as its hold, counted as the history
\* counts it.
LEMMA HeldIsCounted ==
  ASSUME NEW b \in Nat, danger \in Ages
  PROVE Held(DangerSince("DANGER", b), b, DangerHold)
          <=> (IF danger # None THEN danger - b ELSE 0) >= DangerHold
  BY LoopAssumption DEF LoopAssumption, Held, DangerSince, Since, Ages

LEMMA LatestTyped ==
  ASSUME TypeOK
  PROVE Latest \in Decisions
  BY DEF Latest, Decision, TypeOK, Decisions, Caps

\* What the loop reads is what the worker wrote, or it blocks.
LEMMA LatestSound ==
  ASSUME Inv
  PROVE /\ Sound(Latest, seen)
        /\ Latest.raw = seen.raw
        /\ ~Blocks(Latest) \/ Latest.status = "DANGER" => seen.age <= ProbeMax + StaleAfter
        /\ Latest.status = "DANGER" => seen.raw = "DANGER" /\ seen.held >= DangerHold
<1>0. /\ success \in Ages /\ seen.age \in Ages /\ ProbeMax \in Nat /\ StaleAfter \in Nat
  BY LoopAssumption DEF Inv, TypeOK, History, LoopAssumption
<1>1. CASE success # None /\ success > StaleAfter
  <2>1. Latest.status = "STALE" /\ Latest.raw = latest.raw
    BY <1>1 DEF Latest, Decision
  <2> QED BY <2>1 DEF Inv, WorkerInv, Blocks, Sound
<1>2. CASE ~(success # None /\ success > StaleAfter)
  <2>1. Latest = latest
    BY <1>2 DEF Latest
  <2>2. latest.status \notin {"NOT_READY", "ERROR"} => seen.age <= ProbeMax + StaleAfter
    BY <1>0, <1>2 DEF Inv, WorkerInv, Ages
  <2>3. ~Blocks(latest) \/ latest.status = "DANGER" => latest.status \notin {"NOT_READY", "ERROR"}
    BY DEF Blocks
  <2> QED BY <2>1, <2>2, <2>3 DEF Inv, WorkerInv
<1> QED BY <1>1, <1>2

-----------------------------------------------------------------------------
(* The invariant.                                                          *)

LEMMA InitInv == Init => Inv
<1> SUFFICES ASSUME Init PROVE Inv OBVIOUS
<1> USE LoopAssumption DEF Init, LoopAssumption
<1>1. TypeOK
  <2>1. latest \in Decisions /\ dec \in Decisions
    BY DEF Decision, Decisions, Raws, Caps
  <2>2. seen \in History /\ basis \in History
    BY DEF History, Ages, Raws
  <2>3. detaching \in [node : Nodes \cup {None}, auto : BOOLEAN]
    BY DEF NoDetach
  <2>4. cool \in Nat
    OBVIOUS
  <2>5. lag \in 0..1 /\ attached \subseteq Nodes /\ motion \in {"stop"} \cup Caps
    BY DEF Caps
  <2>6. probe \in Ages /\ danger \in Ages /\ warn \in Ages /\ success \in Ages
    BY DEF Ages
  <2>7. pc = "top" /\ active = "stop" /\ stopSent = FALSE /\ armed = FALSE
    OBVIOUS
  <2> HIDE DEF Init, LoopAssumption
  <2> QED BY <2>1, <2>2, <2>3, <2>4, <2>5, <2>6, <2>7 DEF TypeOK
<1>2. WorkerInv
  BY DEF WorkerInv, Decision, Sound, Blocks
<1>3. LoopInv
  BY DEF LoopInv, Decision, Sound, Blocks
<1> QED BY <1>1, <1>2, <1>3 DEF Inv

\* What a step of the worker leaves alone is enough for the loop's part.
LEMMA LoopInvFramed ==
  ASSUME LoopInv, UNCHANGED <<loop, basis>> PROVE LoopInv'
  BY DEF LoopInv, loop, Sound, Blocks

LEMMA BeginInv == Inv /\ Begin => Inv'
<1> SUFFICES ASSUME Inv, Begin PROVE Inv' OBVIOUS
<1>1. TypeOK'
  BY DEF Inv, TypeOK, Begin, loop, Ages
<1>2. WorkerInv'
  BY DEF Inv, WorkerInv, Begin, loop, Sound, Blocks
<1>3. LoopInv'
  BY LoopInvFramed DEF Inv, Begin
<1> QED BY <1>1, <1>2, <1>3 DEF Inv

LEMMA FailsInv == Inv /\ Fails => Inv'
<1> SUFFICES ASSUME Inv, Fails PROVE Inv' OBVIOUS
<1>0. latest' = Decision("ERROR", latest.raw, "zero")
  BY DEF Fails
<1>1. TypeOK'
  BY <1>0 DEF Inv, TypeOK, Fails, loop, Ages, Decisions, Decision, Caps
<1>2. WorkerInv'
  BY <1>0 DEF Inv, WorkerInv, Fails, loop, Sound, Blocks, Decision
<1>3. LoopInv'
  BY LoopInvFramed DEF Inv, Fails
<1> QED BY <1>1, <1>2, <1>3 DEF Inv

LEMMA PublishInv == ASSUME NEW raw \in Levels PROVE Inv /\ Publish(raw) => Inv'
<1> SUFFICES ASSUME Inv, Publish(raw) PROVE Inv' OBVIOUS
<1> DEFINE status == Hysteresis(raw, probe)
<1>0. /\ probe \in Nat /\ probe <= ProbeMax /\ danger \in Ages /\ warn \in Ages
      /\ ProbeMax \in Nat /\ StaleAfter \in Nat /\ seen \in History /\ seen.run \in Ages
  BY LoopAssumption DEF Inv, TypeOK, Publish, LoopAssumption, History
<1>1. /\ latest' = Decision(status, raw, Cap(status, raw))
      /\ danger' = DangerSince(raw, probe) /\ warn' = WarnSince(raw, probe)
      /\ success' = 0 /\ probe' = None /\ UNCHANGED <<loop, basis>>
  BY DEF Publish
<1>2. /\ seen'.raw = raw /\ seen'.age = probe
      /\ seen'.usable = (seen.usable \/ raw # "DANGER")
      /\ seen'.run = IF raw = "DANGER" THEN Since(seen.run, probe) ELSE None
      /\ seen'.held = IF raw = "DANGER" /\ seen.run # None THEN seen.run - probe ELSE 0
  BY DEF Publish
<1>3. TypeOK'
  <2>1. danger' \in Ages /\ warn' \in Ages /\ success' \in Ages /\ probe' \in Ages
    BY <1>0, <1>1, SinceTyped DEF DangerSince, WarnSince, Ages
  <2>2. latest' \in Decisions
    BY <1>1, CapTyped, HysteresisTyped DEF Decision, Decisions, Raws
  <2>3. /\ probe \in Ages /\ (seen.usable \/ raw # "DANGER") \in BOOLEAN /\ raw \in Raws
        /\ (IF raw = "DANGER" THEN Since(seen.run, probe) ELSE None) \in Ages
        /\ (IF raw = "DANGER" /\ seen.run # None THEN seen.run - probe ELSE 0) \in Int
    BY <1>0, SinceTyped DEF Ages, Raws
  <2>4. seen' \in History
    BY <2>3 DEF Publish, History
  <2> QED BY <1>1, <2>1, <2>2, <2>4 DEF Inv, TypeOK, loop
<1>4. WorkerInv'
  <2>1. latest'.status = status /\ latest'.raw = raw /\ latest'.cap = Cap(status, raw)
    BY <1>1 DEF Decision
  <2>2. seen'.run = danger'
    BY <1>1, <1>2 DEF DangerSince, Inv, WorkerInv
  <2>3. /\ status = "DANGER" => raw = "DANGER" /\ seen'.held >= DangerHold
        /\ raw = "DANGER" /\ status # "DANGER" => seen'.held < DangerHold
    <3>1. CASE raw = "DANGER"
      <4>1. status = "DANGER" <=> Held(DangerSince("DANGER", probe), probe, DangerHold)
        BY <3>1 DEF Hysteresis
      <4>2. seen'.held = IF danger # None THEN danger - probe ELSE 0
        BY <1>2, <3>1 DEF Inv, WorkerInv
      <4>3. seen'.held \in Int /\ DangerHold \in Int
        BY <1>0, <4>2, LoopAssumption DEF LoopAssumption, Ages
      <4> QED BY <4>1, <4>2, <4>3, <3>1, <1>0, HeldIsCounted
    <3>2. CASE raw # "DANGER"
      BY <3>2 DEF Hysteresis, DangerSince, Held
    <3> QED BY <3>1, <3>2
  <2>4. Sound(latest, seen)'
    <3> SUFFICES ASSUME ~Blocks(latest')
        PROVE /\ seen'.raw \in Levels /\ latest'.cap \in {"slow", "full"}
              /\ seen'.raw = "DANGER" => seen'.held < DangerHold /\ latest'.cap = "slow"
              /\ latest'.cap = "full" => seen'.raw = "GOOD"
      BY DEF Sound, Blocks
    <3>1. status # "DANGER" /\ Cap(status, raw) \in {"slow", "full"}
      BY <2>1, CapTyped DEF Blocks, Caps
    <3>2. Cap(status, raw) = "full" => raw = "GOOD"
      BY DEF Cap, Hysteresis, Levels
    <3> QED BY <1>2, <2>1, <2>3, <3>1, <3>2
  <2>5. latest'.status \notin {"STALE", "NOT_READY", "ERROR"}
    BY <2>1, HysteresisTyped
  <2>6. success' = 0 /\ seen'.age <= ProbeMax + success' /\ success' # None
    BY <1>0, <1>1, <1>2
  <2>7. seen'.raw \in {"GOOD", "WARN"} \/ armed' => seen'.usable
    BY <1>1, <1>2 DEF Inv, WorkerInv, loop
  <2> QED BY <1>2, <2>1, <2>2, <2>3, <2>4, <2>5, <2>6, <2>7 DEF WorkerInv
<1>5. LoopInv'
  BY <1>1, LoopInvFramed DEF Inv
<1> QED BY <1>3, <1>4, <1>5 DEF Inv

LEMMA WorkerInvFramed ==
  ASSUME WorkerInv, UNCHANGED <<worker, armed, seen>> PROVE WorkerInv'
  BY DEF WorkerInv, worker, Sound, Blocks

LEMMA NextDetachTyped ==
  ASSUME Remaining # {}
  PROVE /\ NextDetach \in attached
        /\ \A i \in DOMAIN DetachOrder :
             DetachOrder[i] \in attached => \E k \in 1..i : DetachOrder[k] = NextDetach
<1> DEFINE least(i) == i \in Remaining /\ \A j \in Remaining : i <= j
<1>1. Remaining \subseteq Nat /\ \A i \in Remaining : i >= 1
  BY LoopAssumption DEF LoopAssumption, Remaining
<1> DEFINE before == {ss \in Nat \X Nat : ss[1] < ss[2]}
<1>a. IsWellFoundedOn(before, Nat)
  BY NatLessThanWellFounded DEF OpToRel
<1>2. PICK i \in Remaining : \A j \in Remaining : <<j, i>> \notin before
  <2> HIDE DEF before
  <2> QED BY <1>1, <1>a, WFMin
<1>3. \A j \in Remaining : i <= j
  <2> SUFFICES ASSUME NEW j \in Remaining, ~(i <= j) PROVE FALSE
    OBVIOUS
  <2>1. i \in Nat /\ j \in Nat /\ j < i
    BY <1>1
  <2>2. <<j, i>> \in before
    BY <2>1
  <2> HIDE DEF before
  <2> QED BY <2>2, <1>2
<1> DEFINE m == CHOOSE n \in Remaining : \A j \in Remaining : n <= j
<1>4. m \in Remaining /\ \A j \in Remaining : m <= j
  BY <1>3
<1>5. NextDetach = DetachOrder[m]
  BY DEF NextDetach
<1> HIDE DEF m
<1> QED BY <1>1, <1>4, <1>5 DEF Remaining

LEMMA TopInv == Inv /\ Top => Inv'
<1> SUFFICES ASSUME Inv, Top PROVE Inv' OBVIOUS
<1> DEFINE isArmed == armed \/ Latest.raw \in {"GOOD", "WARN"}
<1>1. /\ pc = "top" /\ dec' = Latest /\ basis' = seen /\ lag' = 0 /\ armed' = isArmed
      /\ stopSent' = Blocks(Latest)
      /\ UNCHANGED <<worker, attached, cool, seen>>
  BY DEF Top, Arms
<1>2. \/ Blocks(Latest) /\ active' = "stop"
         /\ motion' = IF active # "stop" \/ ~stopSent THEN "stop" ELSE motion
      \/ ~Blocks(Latest) /\ UNCHANGED <<active, motion>>
  BY DEF Top, Arms
<1>3. \/ /\ AutoDetaches(Latest, isArmed) /\ pc' = "detaching"
         /\ detaching' = [node |-> NextDetach, auto |-> TRUE]
      \/ pc' = "select" /\ UNCHANGED detaching
  BY DEF Top, Arms
<1>4. Blocks(Latest) => motion' = "stop"
  BY <1>2 DEF Inv, LoopInv
<1>5. TypeOK'
  <2>1. dec' \in Decisions /\ basis' \in History
    BY <1>1, LatestTyped DEF Inv, TypeOK
  <2>2. detaching' \in [node : Nodes \cup {None}, auto : BOOLEAN]
    <3>1. CASE AutoDetaches(Latest, isArmed) /\ detaching' = [node |-> NextDetach, auto |-> TRUE]
      <4>1. NextDetach \in Nodes
        BY <3>1, NextDetachTyped DEF AutoDetaches, Inv, TypeOK
      <4> QED BY <3>1, <4>1
    <3>2. CASE UNCHANGED detaching
      BY <3>2 DEF Inv, TypeOK
    <3> QED BY <1>3, <3>1, <3>2
  <2>3. lag' \in 0..1
    BY <1>1
  <2>4. armed' \in BOOLEAN /\ stopSent' \in BOOLEAN
    BY <1>1 DEF Inv, TypeOK, Blocks
  <2>5. active' \in {"stop", "drive"} /\ motion' \in {"stop"} \cup Caps /\ pc' \in {"select", "detaching"}
    BY <1>2, <1>3, <1>4 DEF Inv, TypeOK
  <2> QED BY <1>1, <2>1, <2>2, <2>3, <2>4, <2>5 DEF Inv, TypeOK, worker
<1>6. WorkerInv'
  <2>1. armed' => seen.usable
    BY <1>1, LatestSound DEF Inv, WorkerInv
  <2> QED BY <1>1, <2>1 DEF Inv, WorkerInv, worker, Sound, Blocks
<1>7. LoopInv'
  <2>1. Sound(dec, basis)' /\ (~Blocks(dec') => basis'.age <= ProbeMax + StaleAfter)
    BY <1>1, LatestSound DEF Sound, Blocks
  <2>2. stopSent' <=> Blocks(dec')
    BY <1>1
  <2>3. Blocks(dec') => active' = "stop" /\ motion' = "stop"
    BY <1>1, <1>2, <1>4
  <2>4. pc' = "detaching" => Blocks(dec')
    BY <1>1, <1>3 DEF AutoDetaches, Blocks
  <2>5. active' = "drive" => motion' # "stop"
    BY <1>1, <1>2 DEF Inv, LoopInv
  <2> QED BY <2>1, <2>2, <2>3, <2>4, <2>5 DEF LoopInv, Blocks
<1> QED BY <1>5, <1>6, <1>7 DEF Inv

\* What a step of the loop that reads no new decision has to show.
LEMMA KeyFramed ==
  ASSUME Inv, UNCHANGED <<worker, dec, stopSent, armed, seen, basis>>,
         stopSent => active' = "stop" /\ motion' = "stop",
         pc' = "select" => pc = "select" \/ stopSent,
         pc' = "detaching" => active' = "stop" /\ (detaching'.auto => stopSent),
         pc' # "ended" /\ active' = "drive" => motion' # "stop"
  PROVE WorkerInv' /\ LoopInv'
<1>1. WorkerInv'
  BY WorkerInvFramed DEF Inv
<1>2. LoopInv'
  BY DEF Inv, LoopInv, Sound, Blocks
<1> QED BY <1>1, <1>2

\* At a key the loop knows whether the link is blocked.
LEMMA BlockedIsStopped ==
  ASSUME Inv, pc = "select"
  PROVE /\ Blocks(dec) => stopSent /\ active = "stop" /\ motion = "stop"
        /\ ~Blocks(dec) => ~stopSent /\ dec.cap \in {"slow", "full"}
  BY DEF Inv, LoopInv, Sound

LEMMA PressDriveInv == Inv /\ PressDrive => Inv'
<1> SUFFICES ASSUME Inv, PressDrive PROVE Inv' OBVIOUS
<1>1. TypeOK'
  BY BlockedIsStopped DEF Inv, TypeOK, PressDrive, worker, Caps
<1>2. WorkerInv' /\ LoopInv'
  BY KeyFramed, BlockedIsStopped DEF PressDrive
<1> QED BY <1>1, <1>2 DEF Inv

LEMMA PressFrontInv == Inv /\ PressFront => Inv'
<1> SUFFICES ASSUME Inv, PressFront PROVE Inv' OBVIOUS
<1>1. TypeOK'
  BY BlockedIsStopped DEF Inv, TypeOK, PressFront, worker, Caps
<1>2. WorkerInv' /\ LoopInv'
  BY KeyFramed, BlockedIsStopped DEF PressFront
<1> QED BY <1>1, <1>2 DEF Inv

LEMMA PressStopInv == Inv /\ PressStop => Inv'
<1> SUFFICES ASSUME Inv, PressStop PROVE Inv' OBVIOUS
<1>1. TypeOK'
  BY DEF Inv, TypeOK, PressStop, worker, Caps
<1>2. WorkerInv' /\ LoopInv'
  BY KeyFramed DEF PressStop
<1> QED BY <1>1, <1>2 DEF Inv

LEMMA RefreshInv == ASSUME NEW due \in BOOLEAN PROVE Inv /\ Refresh(due) => Inv'
<1> SUFFICES ASSUME Inv, Refresh(due) PROVE Inv' OBVIOUS
<1>0. active = "drive" => ~Blocks(dec) /\ motion # "stop"
  BY BlockedIsStopped DEF Inv, LoopInv, Refresh
<1>1. TypeOK'
  BY <1>0, BlockedIsStopped DEF Inv, TypeOK, Refresh, worker, Caps
<1>2. WorkerInv' /\ LoopInv'
  BY <1>0, KeyFramed, BlockedIsStopped DEF Refresh
<1> QED BY <1>1, <1>2 DEF Inv

LEMMA PressDetachInv == ASSUME NEW n \in Nodes PROVE Inv /\ PressDetach(n) => Inv'
<1> SUFFICES ASSUME Inv, PressDetach(n) PROVE Inv' OBVIOUS
<1>0. detaching' \in [node : Nodes \cup {None}, auto : BOOLEAN] /\ ~detaching'.auto
  BY DEF PressDetach
<1>1. TypeOK'
  BY <1>0 DEF Inv, TypeOK, PressDetach, worker
<1>2. WorkerInv' /\ LoopInv'
  BY <1>0, KeyFramed DEF PressDetach, Inv, LoopInv
<1> QED BY <1>1, <1>2 DEF Inv

LEMMA DetachEndsInv ==
  ASSUME NEW o \in Outcomes PROVE Inv /\ DetachEnds(o) => Inv'
<1> SUFFICES ASSUME Inv, DetachEnds(o) PROVE Inv' OBVIOUS
<1>0. detaching' \in [node : Nodes \cup {None}, auto : BOOLEAN] /\ ~detaching'.auto
  BY DEF DetachEnds, Outcomes, NoDetach
<1>1. TypeOK'
  <2>1. attached' \subseteq Nodes /\ cool' \in Nat /\ pc' \in {"top", "select", "ended"}
    BY DEF Inv, TypeOK, DetachEnds, Outcomes
  <2> QED BY <1>0, <2>1 DEF Inv, TypeOK, DetachEnds, worker
<1>2. /\ UNCHANGED <<worker, dec, stopSent, armed, seen, basis>> /\ motion' = "stop"
      /\ active' = "stop" /\ (pc' = "select" => stopSent) /\ pc' # "detaching"
  BY DEF DetachEnds, Inv, LoopInv
<1>3. WorkerInv' /\ LoopInv'
  BY <1>2, KeyFramed
<1> QED BY <1>1, <1>3 DEF Inv

LEMMA QuitInv == Inv /\ Quit => Inv'
<1> SUFFICES ASSUME Inv, Quit PROVE Inv' OBVIOUS
<1>1. TypeOK'
  BY DEF Inv, TypeOK, Quit, worker, Caps
<1>2. WorkerInv' /\ LoopInv'
  BY KeyFramed DEF Quit, Inv, LoopInv
<1> QED BY <1>1, <1>2 DEF Inv

LEMMA TickInv == Inv /\ Tick => Inv'
<1> SUFFICES ASSUME Inv, Tick PROVE Inv' OBVIOUS
<1>0. /\ ProbeMax \in Nat /\ StaleAfter \in Nat /\ DangerHold \in Nat
      /\ probe \in Ages /\ danger \in Ages /\ warn \in Ages /\ success \in Ages /\ cool \in Nat
      /\ seen.age \in Ages /\ seen.run \in Ages /\ seen \in History
  BY LoopAssumption DEF LoopAssumption, Inv, TypeOK, History
<1>1. /\ seen' = [seen EXCEPT !.age = Later(seen.age, Horizon), !.run = Later(seen.run, ProbeMax + DangerHold)]
      /\ success' = Later(success, StaleAfter + 1) /\ danger' = Later(danger, ProbeMax + DangerHold)
      /\ lag' = 1 /\ cool' = Later(cool, Cooldown) /\ probe' = Later(probe, ProbeMax + 1)
      /\ warn' = Later(warn, ProbeMax + WarnHold)
      /\ UNCHANGED <<latest, pc, dec, active, stopSent, armed, attached, detaching, motion, basis>>
  BY DEF Tick
<1>2. /\ seen'.raw = seen.raw /\ seen'.held = seen.held /\ seen'.usable = seen.usable
      /\ seen'.age = Later(seen.age, Horizon) /\ seen'.run = Later(seen.run, ProbeMax + DangerHold)
  BY <1>0, <1>1 DEF History
<1>3. TypeOK'
  <2>1. /\ probe' \in Ages /\ danger' \in Ages /\ warn' \in Ages /\ success' \in Ages
        /\ Later(seen.age, Horizon) \in Ages /\ Later(seen.run, ProbeMax + DangerHold) \in Ages
    BY <1>0, <1>1, LaterTyped
  <2>2. cool' \in Nat
    BY <1>0, <1>1, LaterTyped DEF Ages
  <2>3. seen' \in History
    BY <1>0, <1>1, <2>1 DEF History
  <2>4. lag' \in 0..1
    BY <1>1
  <2> QED BY <1>1, <2>1, <2>2, <2>3, <2>4 DEF Inv, TypeOK
<1>4. WorkerInv'
  <2>1. seen'.run = danger'
    BY <1>1, <1>2 DEF Inv, WorkerInv
  <2>2. success' # None /\ success' <= StaleAfter => seen'.age <= ProbeMax + success'
    <3> SUFFICES ASSUME success' # None, success' <= StaleAfter PROVE seen'.age <= ProbeMax + success'
      OBVIOUS
    <3>1. success \in Nat /\ success <= StaleAfter /\ success' = success + 1
      BY <1>0, <1>1 DEF Later, Ages
    <3>2. seen.age <= ProbeMax + success
      BY <1>0, <3>1 DEF Inv, WorkerInv
    <3>3. seen'.age <= seen.age + 1
      BY <1>0, <1>2 DEF Later, Ages
    <3>4. seen'.age \in Ages
      BY <1>0, <1>2, LaterTyped
    <3> QED BY <1>0, <3>1, <3>2, <3>3, <3>4 DEF Ages
  <2>3. success' = None => success = None
    BY <1>0, <1>1 DEF Later, Ages
  <2> QED BY <1>1, <1>2, <2>1, <2>2, <2>3 DEF Inv, WorkerInv, Sound, Blocks
<1>5. LoopInv'
  BY <1>1 DEF Inv, LoopInv, Sound, Blocks
<1> QED BY <1>3, <1>4, <1>5 DEF Inv

LEMMA StutterInv == Inv /\ UNCHANGED vars => Inv'
<1> SUFFICES ASSUME Inv, UNCHANGED vars PROVE Inv' OBVIOUS
<1>1. UNCHANGED <<worker, loop, seen, basis>>
  BY DEF vars
<1>2. TypeOK'
  BY <1>1 DEF Inv, TypeOK, worker, loop
<1>3. WorkerInv' /\ LoopInv'
  BY <1>1, WorkerInvFramed, LoopInvFramed DEF Inv, loop
<1> QED BY <1>2, <1>3 DEF Inv

LEMMA InvInductive == Inv /\ [Next]_vars => Inv'
  BY BeginInv, FailsInv, PublishInv, TopInv, PressDriveInv, PressFrontInv, PressStopInv,
     RefreshInv, QuitInv, PressDetachInv, DetachEndsInv, TickInv, StutterInv DEF Next

\* The inductive invariant, and with it the types of the variables.
THEOREM LoopInvariant == Spec => []Inv
  BY InitInv, InvInductive, PTL DEF Spec

-----------------------------------------------------------------------------
(* The properties.                                                         *)

\* What moves the robot rests on an observation of the link that is young
\* enough and good enough (run_live_mode with AsyncQualitySupervisor).
THEOREM DriveEarned == Spec => DriveIsEarned
<1> DEFINE Earned ==
      Drives /\ motion' # "stop" =>
        /\ basis.raw \in Levels /\ basis.age + lag <= ProbeMax + StaleAfter + 1
        /\ basis.raw = "DANGER" => basis.held < DangerHold /\ motion' = "slow"
        /\ motion' = "full" => basis.raw = "GOOD"
<1>1. Inv /\ [Next]_vars => [Earned]_vars
  <2> SUFFICES ASSUME Inv, Drives, motion' # "stop" PROVE Earned
    OBVIOUS
  <2>1. pc = "select" /\ (motion' = dec.cap \/ motion' = "stop") /\ (Blocks(dec) => motion' = "stop")
    BY BlockedIsStopped DEF Drives, PressDrive, PressFront, Refresh
  <2>2. ~Blocks(dec) /\ motion' = dec.cap
    BY <2>1
  <2>3. basis.age \in Ages /\ lag \in 0..1 /\ ProbeMax \in Nat /\ StaleAfter \in Nat
    BY LoopAssumption DEF LoopAssumption, Inv, TypeOK, History
  <2>4. basis.age + lag <= ProbeMax + StaleAfter + 1
    BY <2>2, <2>3 DEF Inv, LoopInv, Ages
  <2> QED BY <2>2, <2>4 DEF Inv, LoopInv, Sound
<1> QED BY <1>1, LoopInvariant, PTL DEF Spec, DriveIsEarned

\* A stopped robot moves again only at a new key, and is stopped at every wait
\* on a blocked link (run_live_mode).
THEOREM StopHolds == Spec => StopStands
<1> DEFINE Stands ==
      /\ motion = "stop" /\ motion' # "stop" => active = "stop"
      /\ pc' = "select" /\ Blocks(dec') => motion' = "stop"
<1>1. Inv /\ [Next]_vars => [Stands]_vars
  <2> SUFFICES ASSUME Inv, Next PROVE Stands
    OBVIOUS
  <2>1. Inv'
    BY InvInductive
  <2>2. pc' = "select" /\ Blocks(dec') => motion' = "stop"
    BY <2>1 DEF Inv, LoopInv
  <2>3. active \in {"stop", "drive"}
    BY DEF Inv, TypeOK
  <2>4. pc = "ended" => motion' = motion
    BY DEF Next, Begin, Fails, Publish, Top, PressDrive, PressFront, PressStop, Quit, Refresh,
       PressDetach, DetachEnds, Tick, loop
  <2> QED BY <2>2, <2>3, <2>4 DEF Inv, LoopInv
<1> QED BY <1>1, LoopInvariant, PTL DEF Spec, StopStands

\* The loop releases a node by itself only for a danger that has lasted, on a
\* robot that is stopped, and takes the first of the order (run_live_mode with
\* QualitySupervisor._apply_hysteresis).
THEOREM DetachEarned == Spec => DetachIsEarned
<1> DEFINE Earned ==
      pc = "top" /\ pc' = "detaching" =>
        /\ motion' = "stop" /\ seen.usable
        /\ seen.raw = "DANGER" /\ seen.held >= DangerHold /\ seen.age <= ProbeMax + StaleAfter
        /\ detaching'.node \in attached
        /\ \A i \in DOMAIN DetachOrder :
             DetachOrder[i] \in attached => \E k \in 1..i : DetachOrder[k] = detaching'.node
<1>1. Inv /\ [Next]_vars => [Earned]_vars
  <2> SUFFICES ASSUME Inv, Next, pc = "top", pc' = "detaching" PROVE Earned
    OBVIOUS
  <2>1. Top
    BY DEF Next, Begin, Fails, Publish, PressDrive, PressFront, PressStop, Quit, Refresh,
       PressDetach, DetachEnds, Tick, loop
  <2>2. PICK isArmed \in BOOLEAN :
          /\ isArmed = (armed \/ Latest.raw \in {"GOOD", "WARN"})
          /\ AutoDetaches(Latest, isArmed) /\ detaching' = [node |-> NextDetach, auto |-> TRUE]
    BY <2>1 DEF Top, Arms, Inv, TypeOK
  <2>3. Latest.status = "DANGER" /\ Remaining # {} /\ isArmed
    BY <2>2 DEF AutoDetaches
  <2>4. seen.raw = "DANGER" /\ seen.held >= DangerHold /\ seen.age <= ProbeMax + StaleAfter
    BY <2>3, LatestSound
  <2>5. seen.usable
    BY <2>2, <2>3, LatestSound DEF Inv, WorkerInv
  <2>6. motion' = "stop"
    BY <2>1, TopInv DEF Inv, LoopInv, Top, Arms, Blocks, AutoDetaches
  <2>7. detaching'.node = NextDetach
    BY <2>2
  <2> QED BY <2>3, <2>4, <2>5, <2>6, <2>7, NextDetachTyped
<1> QED BY <1>1, LoopInvariant, PTL DEF Spec, DetachIsEarned
================================================================================
