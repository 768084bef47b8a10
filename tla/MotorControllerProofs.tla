------------------------ MODULE MotorControllerProofs ------------------------
(***************************************************************************)
(* What MotorController guarantees in every execution, fair or not: a held *)
(* unit stays still, also when GPIO calls raise, and without such raises   *)
(* the watchdog covers every target that is set.                           *)
(***************************************************************************)
EXTENDS MotorController, TLAPS

\* A hold closes the latch before it stops the outputs, and nothing but an
\* enable opens it again, so that no motion is between its two checks and the
\* H-bridge when the hold is acknowledged.
HeldInv ==
  /\ server \in {"latch", "set"} => cmd = "motion"
  /\ held => /\ ~drive_enabled
             /\ ~moving
             /\ server \notin {"latch", "set"}
  /\ server = "stop_all" /\ cmd = "relay_hold" => ~drive_enabled
  /\ server = "ack" /\ cmd = "relay_hold" /\ applied => ~drive_enabled /\ ~moving

\* A target is watched, or about to be by the acknowledgement in progress.
WatchInv ==
  /\ server \in {"latch", "set"} => cmd = "motion"
  /\ server \notin {"ack", "crashed"} /\ target => armed
  /\ server = "ack" /\ target => armed \/ (cmd = "motion" /\ applied)
  /\ server = "ack" /\ applied /\ cmd \in {"stop", "relay_hold"} => ~target

-----------------------------------------------------------------------------

(* Every step keeps the types.                                             *)
LEMMA TypeStep == TypeOK /\ [Next]_vars => TypeOK'
<1> SUFFICES ASSUME TypeOK, [Next]_vars PROVE TypeOK'
  OBVIOUS
<1> USE DEF TypeOK, Loops, LoopSteps, ServerSteps, Commands, vars, serving, latches, outputs, threads
<1>1. CASE Watchdog
  BY <1>1 DEF Watchdog, Goto, StopAll
<1>2. CASE Receive
  BY <1>2 DEF Receive, Goto
<1>3. CASE Refuse
  BY <1>3 DEF Refuse, Answer
<1>4. CASE Handle
  BY <1>4 DEF Handle, Goto, Answer
<1>5. CASE ReadLatch
  BY <1>5 DEF ReadLatch, Goto, Answer
<1>6. CASE SetTarget
  BY <1>6 DEF SetTarget, Answer
<1>7. CASE HandleStop
  BY <1>7 DEF HandleStop, StopAll, StopAllRaised, Answer
<1>8. CASE Acknowledge
  BY <1>8 DEF Acknowledge
<1>9. CASE Faults
  BY <1>9 DEF Faults, LoopRaises, Step, Up
<1>10. CASE Tick
  BY <1>10 DEF Tick
<1>11. CASE Shutdown
  BY <1>11 DEF Shutdown, Goto, StopAll
<1>12. CASE Crash
  BY <1>12 DEF Crash, Goto, Up
<1>13. CASE Start
  BY <1>13 DEF Start, Fresh, StopAll, Up
<1>14. ASSUME NEW t \in Loops, Thread(t) PROVE TypeOK'
  <2>1. CASE LoopTop(t)
    BY <1>14, <2>1 DEF Thread, LoopTop, Step
  <2>2. CASE Compute
    BY <1>14, <2>2 DEF Thread, Compute, Step
  <2>3. CASE WriteDuty
    BY <1>14, <2>3 DEF Thread, WriteDuty, Step
  <2>4. CASE FailClosed(t)
    BY <1>14, <2>4 DEF Thread, FailClosed, Step, StopAll, StopAllRaised
  <2>5. QED
    BY <1>14, <2>1, <2>2, <2>3, <2>4 DEF Thread
<1>15. CASE UNCHANGED vars
  BY <1>15
<1>16. QED
  BY <1>1, <1>2, <1>3, <1>4, <1>5, <1>6, <1>7, <1>8, <1>9, <1>10, <1>11,
     <1>12, <1>13, <1>14, <1>15 DEF Next, Server

(* A hold, once acknowledged, is undone by an enable only.                 *)
LEMMA HeldStep == TypeOK /\ HeldInv /\ [Next]_vars => HeldInv'
<1> SUFFICES ASSUME TypeOK, HeldInv, [Next]_vars PROVE HeldInv'
  OBVIOUS
<1> USE DEF TypeOK, HeldInv, vars, serving, latches, outputs, threads
<1>1. CASE Watchdog
  BY <1>1 DEF Watchdog, Goto, StopAll
<1>2. CASE Receive
  BY <1>2 DEF Receive, Goto
<1>3. CASE Refuse
  BY <1>3 DEF Refuse, Answer
<1>4. CASE Handle
  BY <1>4 DEF Handle, Goto, Answer
<1>5. CASE ReadLatch
  BY <1>5 DEF ReadLatch, Goto, Answer
<1>6. CASE SetTarget
  BY <1>6 DEF SetTarget, Answer
<1>7. CASE HandleStop
  BY <1>7 DEF HandleStop, StopAll, StopAllRaised, Answer
<1>8. CASE Acknowledge
  BY <1>8 DEF Acknowledge
<1>9. CASE Faults
  BY <1>9 DEF Faults, LoopRaises, Step, Up
<1>10. CASE Tick
  BY <1>10 DEF Tick
<1>11. CASE Shutdown
  BY <1>11 DEF Shutdown, Goto, StopAll
<1>12. CASE Crash
  BY <1>12 DEF Crash, Goto, Up
<1>13. CASE Start
  BY <1>13 DEF Start, Fresh, StopAll, Up
<1>14. ASSUME NEW t \in Loops, Thread(t) PROVE HeldInv'
  <2>1. CASE LoopTop(t)
    BY <1>14, <2>1 DEF Thread, LoopTop, Step
  <2>2. CASE Compute
    BY <1>14, <2>2 DEF Thread, Compute, Step
  <2>3. CASE WriteDuty
    BY <1>14, <2>3 DEF Thread, WriteDuty, Step
  <2>4. CASE FailClosed(t)
    BY <1>14, <2>4 DEF Thread, FailClosed, Step, StopAll, StopAllRaised
  <2>5. QED
    BY <1>14, <2>1, <2>2, <2>3, <2>4 DEF Thread
<1>15. CASE UNCHANGED vars
  BY <1>15
<1>16. QED
  BY <1>1, <1>2, <1>3, <1>4, <1>5, <1>6, <1>7, <1>8, <1>9, <1>10, <1>11,
     <1>12, <1>13, <1>14, <1>15 DEF Next, Server

(* Without a raise, a target is set only by a command that is applied.     *)
LEMMA WatchStep == ~GpioRaises /\ TypeOK /\ WatchInv /\ [Next]_vars => WatchInv'
<1> SUFFICES ASSUME ~GpioRaises, TypeOK, WatchInv, [Next]_vars PROVE WatchInv'
  OBVIOUS
<1> USE DEF TypeOK, WatchInv, vars, serving, latches, outputs, threads
<1>1. CASE Watchdog
  BY <1>1 DEF Watchdog, Goto, StopAll
<1>2. CASE Receive
  BY <1>2 DEF Receive, Goto
<1>3. CASE Refuse
  BY <1>3 DEF Refuse, Answer
<1>4. CASE Handle
  BY <1>4 DEF Handle, Goto, Answer
<1>5. CASE ReadLatch
  BY <1>5 DEF ReadLatch, Goto, Answer
<1>6. CASE SetTarget
  BY <1>6 DEF SetTarget, Answer
<1>7. CASE HandleStop
  BY <1>7 DEF HandleStop, StopAll, StopAllRaised, Answer
<1>8. CASE Acknowledge
  BY <1>8 DEF Acknowledge
<1>9. CASE Faults
  BY <1>9 DEF Faults, LoopRaises, Step, Up
<1>10. CASE Tick
  BY <1>10 DEF Tick
<1>11. CASE Shutdown
  BY <1>11 DEF Shutdown, Goto, StopAll
<1>12. CASE Crash
  BY <1>12 DEF Crash, Goto, Up
<1>13. CASE Start
  BY <1>13 DEF Start, Fresh, StopAll, Up
<1>14. ASSUME NEW t \in Loops, Thread(t) PROVE WatchInv'
  <2>1. CASE LoopTop(t)
    BY <1>14, <2>1 DEF Thread, LoopTop, Step
  <2>2. CASE Compute
    BY <1>14, <2>2 DEF Thread, Compute, Step
  <2>3. CASE WriteDuty
    BY <1>14, <2>3 DEF Thread, WriteDuty, Step
  <2>4. CASE FailClosed(t)
    BY <1>14, <2>4 DEF Thread, FailClosed, Step, StopAll, StopAllRaised
  <2>5. QED
    BY <1>14, <2>1, <2>2, <2>3, <2>4 DEF Thread
<1>15. CASE UNCHANGED vars
  BY <1>15
<1>16. QED
  BY <1>1, <1>2, <1>3, <1>4, <1>5, <1>6, <1>7, <1>8, <1>9, <1>10, <1>11,
     <1>12, <1>13, <1>14, <1>15 DEF Next, Server

-----------------------------------------------------------------------------

(* The main thread and the loops keep their types.                         *)
THEOREM TypeCorrect == Spec => []TypeOK
<1>1. Init => TypeOK
  BY DEF Init, TypeOK, Loops, LoopSteps, ServerSteps, Commands
<1>2. QED
  BY <1>1, TypeStep, PTL DEF Spec

(* No wheel of a held unit turns, in any interleaving of the main loop,    *)
(* the two threads, their faults and restarts, whether GPIO calls raise or *)
(* not: the H-bridge of a held unit has no direction, so that a duty that  *)
(* the PID loop writes late turns nothing.                                 *)
THEOREM HoldKeepsStill == Spec => []HeldStaysStill
<1>1. Init => TypeOK /\ HeldInv
  BY DEF Init, TypeOK, HeldInv, Loops, LoopSteps, ServerSteps, Commands
<1>2. TypeOK /\ HeldInv /\ [Next]_vars => (TypeOK /\ HeldInv)'
  BY TypeStep, HeldStep
<1>3. TypeOK /\ HeldInv => HeldStaysStill
  BY DEF HeldInv, HeldStaysStill, Driven
<1>4. QED
  BY <1>1, <1>2, <1>3, PTL DEF Spec

(* If no GPIO call raises, the watchdog covers every target that is set,   *)
(* whatever the loops do and however their faults interleave.              *)
THEOREM WatchdogCovers ==
  ASSUME ~GpioRaises
  PROVE  Spec => []TargetIsWatched
<1>1. Init => TypeOK /\ WatchInv
  BY DEF Init, TypeOK, WatchInv, Loops, LoopSteps, ServerSteps, Commands
<1>2. TypeOK /\ WatchInv /\ [Next]_vars => (TypeOK /\ WatchInv)'
  BY TypeStep, WatchStep
<1>3. TypeOK /\ WatchInv => TargetIsWatched
  BY DEF WatchInv, TargetIsWatched
<1>4. QED
  BY <1>1, <1>2, <1>3, PTL DEF Spec
=============================================================================
