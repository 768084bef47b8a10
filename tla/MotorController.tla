--------------------------- MODULE MotorController ---------------------------
(***************************************************************************)
(* The propulsion of one robot: the control server's main loop with its    *)
(* watchdog (run() of robot/mesh_control_server.py) and the two threads of *)
(* GpioRobotController (robot/motor_driver.py), the encoder poll loop and  *)
(* the PID loop.  They share the drive target under target_lock, and the   *)
(* latch, the fault and the running flag under no lock at all.             *)
(*                                                                         *)
(* Both wheels are one: a target that is zero or not, an H-bridge that is  *)
(* stopped or not, a PWM duty that is zero or not.  A section under        *)
(* target_lock is one step; what it shares with code outside the lock is   *)
(* the duty alone, which that code overwrites and never reads.  Time is    *)
(* `overdue`: more than --timeout has passed since last_motion_seen.       *)
(***************************************************************************)
EXTENDS Naturals

CONSTANT GpioRaises  \* whether GPIO calls of a motion, a stop or stop_all may raise

ASSUME GpioAssumption == GpioRaises \in BOOLEAN

VARIABLES
  server,        \* where the main thread is
  cmd,           \* the command it is serving
  applied,       \* ProcessResult.applied of that command
  armed,         \* last_motion_seen and not stopped
  overdue,       \* now - last_motion_seen > timeout
  drive_enabled,
  control_fault,
  running,
  target,        \* a target_cps above zero is set
  moving,        \* the H-bridge direction is not stop
  duty,          \* the PWM duty cycle is above zero
  loop,          \* [Loops -> where the thread is]
  pid_pwm,       \* the PID loop's local left_pwm, right_pwm
  held           \* a hold is acknowledged and no enable since: properties only

latches == <<drive_enabled, control_fault, running>>
outputs == <<target, moving, duty>>
serving == <<server, cmd, applied, armed, overdue, held>>
threads == <<loop, pid_pwm>>
vars == <<serving, latches, outputs, threads>>

Loops == {"encoder", "pid"}
\* "spin" is a turn sent to a node, which cannot steer: the controller stops
\* (lines 1098-1122), the server counts it neither as a motion nor as a stop.
\* "other" is a servo, detach or camera command.
Commands == {"stop", "motion", "spin", "relay_hold", "drive_enable", "other"}

ServerSteps == {"watchdog", "recv", "handle", "latch", "set", "hold", "stop_all",
                "ack", "off", "crashed"}
LoopSteps == {"top", "compute", "write", "fault", "disable", "clear", "stop_all", "exited"}

Up == server \notin {"off", "crashed"}

\* A wheel turns when its H-bridge has a direction and its PWM a duty.
Driven == moving /\ duty

-----------------------------------------------------------------------------

\* Variant: the duty goes to zero, the H-bridge keeps its direction.
StopAllKeepsDirection ==
  /\ target' = FALSE
  /\ duty' = FALSE
  /\ UNCHANGED moving

\* stop_all, lines 718-737: target, direction and duty together.
StopAll ==
  /\ target' = FALSE
  /\ moving' = FALSE
  /\ duty' = FALSE

\* A stop_all that raised: the targets are cleared first, then the H-bridge,
\* then the duty, and any of the outputs may be left as they were.
StopAllRaised ==
  /\ GpioRaises
  /\ target' = FALSE
  /\ \/ UNCHANGED <<moving, duty>>
     \/ moving' = FALSE /\ duty' = duty

\* GpioRobotController.start on a fresh process.  A persisted hold is restored
\* before the first command (DriveLatch).
Fresh ==
  /\ server' = "watchdog"
  /\ cmd' = "stop" /\ applied' = FALSE
  /\ armed' = FALSE /\ overdue' = FALSE
  /\ drive_enabled' = ~held
  /\ control_fault' = FALSE
  /\ running' = TRUE
  /\ loop' = [t \in Loops |-> "top"]
  /\ pid_pwm' = FALSE

Init ==
  /\ server = "watchdog"
  /\ cmd = "stop" /\ applied = FALSE
  /\ armed = FALSE /\ overdue = FALSE
  /\ drive_enabled = TRUE /\ control_fault = FALSE /\ running = TRUE
  /\ target = FALSE /\ moving = FALSE /\ duty = FALSE
  /\ loop = [t \in Loops |-> "top"] /\ pid_pwm = FALSE
  /\ held = FALSE

-----------------------------------------------------------------------------
(* The main thread.                                                        *)

Goto(step) == server' = step /\ UNCHANGED <<cmd, applied, armed, overdue, held>>

\* Lines 1110-1123 of the server.  A stop that raises ends the loop, and
\* the finally block stops the controller.
Watchdog ==
  /\ server = "watchdog"
  /\ \/ /\ ~(armed /\ overdue)
        /\ Goto("recv") /\ UNCHANGED outputs
     \/ /\ armed /\ overdue
        /\ StopAll
        /\ server' = "recv" /\ armed' = FALSE
        /\ UNCHANGED <<cmd, applied, overdue, held>>
     \/ /\ armed /\ overdue
        /\ GpioRaises
        /\ Goto("off") /\ StopAll
  /\ UNCHANGED <<latches, threads>>

\* recvfrom: a validated command, or the 0.1 s timeout.
Receive ==
  /\ server = "recv"
  /\ \/ Goto("watchdog")
     \/ /\ cmd' \in Commands
        /\ server' = "handle"
        /\ UNCHANGED <<applied, armed, overdue, held>>
  /\ UNCHANGED <<latches, outputs, threads>>

Answer(ok) ==
  /\ server' = "ack" /\ applied' = ok
  /\ UNCHANGED <<cmd, armed, overdue>>

\* handle_command, lines 1024-1046: motion and drive_enable are refused while
\* a fault is latched, motion while the latch is closed.
Refuse ==
  /\ server = "handle"
  /\ \/ cmd \in {"motion", "drive_enable"} /\ control_fault
     \/ cmd = "motion" /\ ~drive_enabled
  /\ Answer(FALSE)
  /\ UNCHANGED <<latches, outputs, threads, held>>

\* The handlers, lines 718-748 and 592-716, up to the first shared write.
Handle ==
  /\ server = "handle"
  /\ ~(cmd \in {"motion", "drive_enable"} /\ control_fault)
  /\ \/ /\ cmd = "motion" /\ drive_enabled
        /\ Goto("latch") /\ UNCHANGED drive_enabled
     \/ /\ cmd = "relay_hold"
        /\ drive_enabled' = FALSE
        /\ Goto("stop_all")
     \/ /\ cmd \in {"stop", "spin"}
        /\ Goto("stop_all") /\ UNCHANGED drive_enabled
     \/ /\ cmd = "other"
        /\ \E ok \in BOOLEAN : Answer(ok)
        /\ UNCHANGED <<drive_enabled, held>>
     \/ /\ cmd = "drive_enable"
        /\ drive_enabled' = TRUE
        /\ held' = FALSE
        /\ Answer(TRUE)
  /\ UNCHANGED <<control_fault, running, outputs, threads>>

\* _set_drive_target, lines 546-548: the latch is read outside target_lock,
\* and a closed one makes the command a no-op that is still "applied".
ReadLatch ==
  /\ server = "latch"
  /\ \/ drive_enabled /\ Goto("set") /\ UNCHANGED held
     \/ ~drive_enabled /\ Answer(TRUE) /\ UNCHANGED held
  /\ UNCHANGED <<latches, outputs, threads>>

\* Lines 549-567, under target_lock: first the target, then the H-bridge.  A
\* raise leaves the target set, and process_datagram answers "rejected".
SetTarget ==
  /\ server = "set"
  /\ target' = TRUE
  /\ \/ moving' = TRUE /\ Answer(TRUE)
     \/ moving' \in {moving, TRUE} /\ Answer(FALSE) /\ GpioRaises
  /\ UNCHANGED <<duty, latches, threads, held>>

HandleStop ==
  /\ server = "stop_all"
  /\ \/ StopAll /\ Answer(TRUE)
     \/ StopAllRaised /\ Answer(FALSE)
  /\ UNCHANGED <<latches, threads, held>>

\* Variant: an applied motion does not arm the watchdog.
AcknowledgeUnarmed ==
  /\ server = "ack"
  /\ server' = "watchdog"
  /\ held' = (held \/ (applied /\ cmd = "relay_hold"))
  /\ armed' = (armed /\ ~(applied /\ cmd \in {"stop", "relay_hold"}))
  /\ UNCHANGED <<cmd, applied, overdue, latches, outputs, threads>>

\* Variant: a drive_enable counts as a full stop.
AcknowledgeEnableStops ==
  /\ server = "ack"
  /\ server' = "watchdog"
  /\ held' = (held \/ (applied /\ cmd = "relay_hold"))
  /\ \/ /\ ~applied \/ cmd \in {"spin", "other"}
        /\ UNCHANGED <<armed, overdue>>
     \/ /\ applied /\ cmd \in {"stop", "relay_hold", "drive_enable"}
        /\ armed' = FALSE /\ UNCHANGED overdue
     \/ /\ applied /\ cmd = "motion"
        /\ armed' = TRUE /\ overdue' = FALSE
  /\ UNCHANGED <<cmd, applied, latches, outputs, threads>>

\* Variant: a rejected motion feeds the watchdog too.
AcknowledgeAnything ==
  /\ server = "ack"
  /\ server' = "watchdog"
  /\ held' = (held \/ (applied /\ cmd = "relay_hold"))
  /\ \/ /\ cmd \notin {"stop", "relay_hold", "motion"}
        /\ UNCHANGED <<armed, overdue>>
     \/ /\ cmd \in {"stop", "relay_hold"}
        /\ armed' = FALSE /\ UNCHANGED overdue
     \/ /\ cmd = "motion"
        /\ armed' = TRUE /\ overdue' = FALSE
  /\ UNCHANGED <<cmd, applied, latches, outputs, threads>>

\* Lines 1128-1152: the acknowledgement, then the bookkeeping of the watchdog,
\* which only an applied command reaches.
Acknowledge ==
  /\ server = "ack"
  /\ server' = "watchdog"
  /\ held' = (held \/ (applied /\ cmd = "relay_hold"))
  /\ \/ /\ ~applied \/ cmd \in {"spin", "drive_enable", "other"}
        /\ UNCHANGED <<armed, overdue>>
     \/ /\ applied /\ cmd \in {"stop", "relay_hold"}
        /\ armed' = FALSE /\ UNCHANGED overdue
     \/ /\ applied /\ cmd = "motion"
        /\ armed' = TRUE /\ overdue' = FALSE
  /\ UNCHANGED <<cmd, applied, latches, outputs, threads>>

Server ==
  \/ Watchdog \/ Receive \/ Refuse \/ Handle \/ ReadLatch \/ SetTarget
  \/ HandleStop \/ Acknowledge

-----------------------------------------------------------------------------
(* The two threads of the controller.                                      *)

Step(t, s) == loop' = [loop EXCEPT ![t] = s]

\* while self.running.is_set(): ... (lines 483 and 787).
LoopTop(t) ==
  /\ loop[t] = "top"
  /\ \/ running /\ t = "pid" /\ Step(t, "compute")
     \/ ~running /\ Step(t, "exited")
  /\ UNCHANGED <<latches, outputs, pid_pwm>>

\* Lines 808-836, under target_lock; the ramp may keep the duty at zero for a
\* first iteration, which does not matter here.
Compute ==
  /\ loop["pid"] = "compute"
  /\ Step("pid", "write")
  /\ pid_pwm' = target
  /\ UNCHANGED <<latches, outputs>>

\* Lines 838-842, after the lock was released.
WriteDuty ==
  /\ loop["pid"] = "write"
  /\ Step("pid", "top")
  /\ duty' = pid_pwm
  /\ UNCHANGED <<target, moving, latches, pid_pwm>>

\* An exception in the loop body: an encoder pin that cannot be read, a PWM
\* call that fails.
LoopRaises(t) ==
  /\ \/ t = "encoder" /\ loop[t] = "top" /\ running
     \/ t = "pid" /\ loop[t] \in {"compute", "write"}
  /\ Step(t, "fault")
  /\ UNCHANGED <<latches, outputs, pid_pwm>>

\* _fail_closed_control_loop, lines 861-879, one shared write at a time.
FailClosed(t) ==
  /\ \/ /\ loop[t] = "fault" /\ Step(t, "disable")
        /\ control_fault' = TRUE
        /\ UNCHANGED <<drive_enabled, running, outputs>>
     \/ /\ loop[t] = "disable" /\ Step(t, "clear")
        /\ drive_enabled' = FALSE
        /\ UNCHANGED <<control_fault, running, outputs>>
     \/ /\ loop[t] = "clear" /\ Step(t, "stop_all")
        /\ running' = FALSE
        /\ UNCHANGED <<drive_enabled, control_fault, outputs>>
     \/ /\ loop[t] = "stop_all" /\ Step(t, "exited")
        /\ StopAll \/ StopAllRaised
        /\ UNCHANGED latches
  /\ UNCHANGED pid_pwm

Thread(t) ==
  /\ Up
  /\ LoopTop(t) \/ (t = "pid" /\ (Compute \/ WriteDuty)) \/ FailClosed(t)
  /\ UNCHANGED serving

Faults ==
  /\ Up
  /\ \E t \in Loops : LoopRaises(t)
  /\ UNCHANGED serving

-----------------------------------------------------------------------------
(* Time, and the life of the process.                                      *)

Tick ==
  /\ ~overdue
  /\ overdue' = TRUE
  /\ UNCHANGED <<server, cmd, applied, armed, held, latches, outputs, threads>>

\* SIGINT: controller.stop, lines 1124-1159, and the pins are released.
Shutdown ==
  /\ server \in {"watchdog", "recv"}
  /\ Goto("off")
  /\ StopAll
  /\ UNCHANGED <<latches, threads>>

\* The process dies, and the pins stay as they are.
Crash ==
  /\ Up
  /\ Goto("crashed")
  /\ UNCHANGED <<latches, outputs, threads>>

\* The service starts, or systemd restarts it after a failure.
Start ==
  /\ ~Up
  /\ Fresh
  /\ StopAll
  /\ UNCHANGED held

Next ==
  \/ Server \/ (\E t \in Loops : Thread(t)) \/ Faults
  \/ Tick \/ Shutdown \/ Crash \/ Start

\* Threads that can take a step take one; time passes; Restart=on-failure.
Fairness ==
  /\ WF_vars(Server)
  /\ \A t \in Loops : WF_vars(Thread(t))
  /\ WF_vars(Tick)
  /\ WF_vars(server = "crashed" /\ Start)

Spec == Init /\ [][Next]_vars /\ Fairness

-----------------------------------------------------------------------------
(* Properties.                                                             *)

TypeOK ==
  /\ server \in ServerSteps /\ cmd \in Commands
  /\ {applied, armed, overdue, held} \subseteq BOOLEAN
  /\ {drive_enabled, control_fault, running} \subseteq BOOLEAN
  /\ {target, moving, duty, pid_pwm} \subseteq BOOLEAN
  /\ loop \in [Loops -> LoopSteps]

\* After an acknowledged relay_hold no wheel turns until an enable is taken up,
\* although the PID loop may write a duty that it computed before the hold,
\* threads fail at any point, and the process may crash and start again.
HeldStaysStill == held => ~Driven

\* Whenever the loop is back at its watchdog, a target that is set is one the
\* watchdog will clear (docs/motor_control_quickstart.md:231): no command, no
\* rejection and no failed thread leaves the robot driving unattended.
TargetIsWatched ==
  server \in {"watchdog", "recv"} /\ target /\ moving => armed

MotionAccepted == server = "ack" /\ cmd = "motion" /\ applied

\* When the operator falls silent the robot comes to rest and stays there,
\* whatever the threads, the watchdog and restarts do meanwhile.
SilenceStops == []<>MotionAccepted \/ <>[]~Driven

\* A latched controller fault brings the robot to rest however insistently
\* motion is commanded, if only by the watchdog.
FaultStops == <>[]control_fault => <>[]~Driven

\* Once a fault was latched and both loops have ended, the outputs are stopped
\* (docs/phase0_linux_services.md:139, "Encoder/PID loop exceptions latch a
\* controller fault, stop all outputs").  A motion that read the latch just
\* before the fault breaks it, until the watchdog stops the robot.
FaultStopsOutputs ==
  Up /\ (\A t \in Loops : loop[t] = "exited") => ~Driven
=============================================================================
