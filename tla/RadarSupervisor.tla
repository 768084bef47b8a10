---------------------------- MODULE RadarSupervisor ----------------------------
(***************************************************************************)
(* The radar stack: the supervisor (sensors/radar_supervisor.py), the      *)
(* processes it starts (sensors/radar_stack_processes.py: a capture that   *)
(* reads the UART and a viewer), the lock on the UART and the leases by    *)
(* which children learn that they must go.                                 *)
(*                                                                         *)
(* One run of the supervisor at a time (the owner lock); a run may end     *)
(* badly, and the next one meets what is left of it.  A board that is      *)
(* "fresh" has been reset or plugged in since it was last configured.      *)
(***************************************************************************)
EXTENDS Naturals, FiniteSets

CONSTANTS
  Pids,        \* process ids
  None,        \* no process
  MaxFaults,   \* bound: failing steps, crashes and unpluggings
  MaxRuns      \* bound: runs of the supervisor

ASSUME RadarAssumption ==
  /\ Pids \cap {None, "free", "supervisor"} = {}
  /\ MaxFaults \in Nat /\ MaxRuns \in Nat

VARIABLES
  pc,          \* where run() is
  stop,        \* a signal has asked the run to end
  tool,        \* a reset executable was found
  recovering,  \* the run was RUNNING before
  absence,     \* usb_absence_seen
  port,        \* the UART is enumerated
  board,       \* "fresh" or "used"
  epoch,       \* _epoch
  ended,       \* epochs with an ended_at
  verified,    \* epoch of _verified_paths, 0 for none
  paths,       \* epoch of _paths
  capture, viewer,  \* _active_capture; _active_viewer, or the one just launched
  known,       \* _owned_children of the supervisor
  owned,       \* _owned_by_pid of RadarStackProcesses
  child,       \* [Pids -> process or Absent]
  uart,        \* who holds the UART lock
  faults, runs

control == <<pc, stop, tool, recovering, absence>>
device == <<port, board>>
record == <<epoch, ended, verified, paths>>
registry == <<capture, viewer, known, owned>>
processes == <<child, uart>>
bounds == <<faults, runs>>
vars == <<control, device, record, registry, processes, bounds>>

Absent == [role |-> "none", epoch |-> 0, state |-> "absent", lease |-> FALSE]
Roles == {"capture", "viewer"}
\* A capture starts, takes the UART lock, opens the port and streams.
Alive == {"starting", "locked", "streaming"}
Dead == {"failed", "exited"}
Process ==
  [role: Roles \cup {"none"}, epoch: Nat,
   state: Alive \cup Dead \cup {"absent"}, lease: BOOLEAN]
Living == {p \in Pids : child[p].state \in Alive}
Free == {p \in Pids : child[p] = Absent}

Fault == faults < MaxFaults /\ faults' = faults + 1 /\ UNCHANGED runs
NoFault == UNCHANGED bounds

Goto(label) == pc' = label /\ UNCHANGED <<stop, tool, recovering>>
\* Nothing but the place changes.
Only(label) ==
  Goto(label) /\ UNCHANGED <<absence, device, record, registry, processes>>

-----------------------------------------------------------------------------
(* One attempt: _attempt_until_running.                                    *)

\* Variant: the lock is not looked at.
FindPortAnyway ==
  /\ pc = "port" /\ port
  /\ uart' = "supervisor"
  /\ Goto("reset")
  /\ NoFault /\ UNCHANGED <<absence, device, record, registry, child>>

\* WAIT_PORT, then the UART lock unless it is still held.
FindPort ==
  /\ pc = "port" /\ port
  /\ uart \in {"free", "supervisor"}
  /\ uart' = "supervisor"
  /\ Goto("reset")
  /\ NoFault /\ UNCHANGED <<absence, device, record, registry, child>>

\* A capture of an earlier run still has the UART: the run ends.
UartBusy ==
  /\ pc = "port" /\ port
  /\ uart \notin {"free", "supervisor"}
  /\ Only("cleanup") /\ NoFault

Reset ==
  /\ pc = "reset" /\ tool
  /\ board' = "fresh"
  /\ Goto("again")
  /\ NoFault /\ UNCHANGED <<absence, port, record, registry, processes>>

\* reset_failed, configuration_failed: back off and try again.
GiveUp ==
  /\ Goto("backoff") /\ absence' = FALSE
  /\ UNCHANGED <<record, registry, processes>>

ResetFails == pc = "reset" /\ tool /\ GiveUp /\ Fault /\ UNCHANGED device

\* Variant: what is enumerated is taken for reconnected.
NoToolNoGate ==
  /\ pc = "reset" /\ ~tool
  /\ \/ ~recovering /\ Only("again")
     \/ recovering /\ Only("configure")
  /\ NoFault

\* Without a tool the first start goes on; a recovery needs to have seen the
\* port vanish, or waits for that.
NoTool ==
  /\ pc = "reset" /\ ~tool
  /\ \/ ~recovering /\ Only("again")
     \/ recovering /\ absence /\ Only("configure")
     \/ recovering /\ ~absence /\ Only("cycle")
  /\ NoFault

\* Variant: the gate is meant for every attempt.
FindPortCycled == pc = "again" /\ ~port /\ Only("cycled") /\ NoFault

FindPortAgain == pc = "again" /\ port /\ Only("configure") /\ NoFault

\* _wait_for_usb_cycle
SeeAbsence == pc = "cycle" /\ ~port /\ Only("cycled") /\ NoFault
SeeReturn == pc = "cycled" /\ port /\ Only("configure") /\ NoFault

\* The profile is applied and the next epoch opened.
Configure ==
  /\ pc = "configure" /\ port
  /\ board' = "used"
  /\ epoch' = epoch + 1 /\ paths' = epoch + 1
  /\ Goto("start")
  /\ NoFault
  /\ UNCHANGED <<absence, port, ended, verified, registry, processes>>

ConfigureFails ==
  /\ pc = "configure"
  /\ board' = IF port THEN "used" ELSE board
  /\ GiveUp
  /\ \/ ~port /\ NoFault
     \/ Fault
  /\ UNCHANGED port

\* The capture will need the lock.
ReleaseUart ==
  /\ pc = "start"
  /\ uart' = "free"
  /\ Goto("spawn")
  /\ NoFault /\ UNCHANGED <<absence, device, record, registry, child>>

Started(role, e) ==
  [role |-> role, epoch |-> e, state |-> "starting", lease |-> TRUE]

StartCapture ==
  /\ pc = "spawn"
  /\ \E p \in Free :
       /\ child' = [child EXCEPT ![p] = Started("capture", epoch)]
       /\ capture' = p
       /\ known' = known \cup {p} /\ owned' = owned \cup {p}
  /\ Goto("verify")
  /\ NoFault /\ UNCHANGED <<absence, device, record, viewer, uart>>

\* Variant: the paths are left as they are.
CloseOnly ==
  /\ ended' = ended \cup ({epoch} \ {0})
  /\ UNCHANGED <<epoch, verified, paths>>

\* _finalize_epoch and _restore_verified_paths
CloseEpoch ==
  /\ ended' = ended \cup ({epoch} \ {0})
  /\ paths' = verified
  /\ UNCHANGED <<epoch, verified>>

StartFails ==
  /\ pc = "spawn"
  /\ CloseEpoch
  /\ Goto("backoff") /\ absence' = FALSE
  /\ Fault /\ UNCHANGED <<device, registry, processes>>

-----------------------------------------------------------------------------
(* Verification, the viewer, and RUNNING.                                  *)

\* What the watchdog finds in the files: frames, or that they stopped, which
\* a gone port or an absent capture explains and a fault of the board too.
Streamed(p) == child[p].state \in {"streaming", "exited"}
FramesStop == (~port /\ NoFault) \/ Fault
CaptureDead == child[capture].state \in Dead

Verified ==
  /\ pc = "verify" /\ Streamed(capture)
  /\ verified' = epoch
  /\ Goto("switch")
  /\ NoFault
  /\ UNCHANGED <<absence, device, epoch, ended, paths, registry, processes>>

NotVerified ==
  /\ pc = "verify"
  /\ \/ CaptureDead /\ NoFault
     \/ FramesStop
  /\ Goto("stop_capture") /\ absence' = FALSE
  /\ UNCHANGED <<device, record, registry, processes>>

\* _stop_active_child: the lease is given up, the process gone when the call
\* returns, and both registries forget it.
Stop(p) ==
  /\ child' = [child EXCEPT ![p] = Absent]
  /\ uart' = IF uart = p THEN "free" ELSE uart
  /\ owned' = owned \ {p}
  /\ known' = known \ {p}
  /\ capture' = IF capture = p THEN None ELSE capture
  /\ viewer' = IF viewer = p THEN None ELSE viewer

\* A process that does not go, or one whose end cannot be recorded.
StopFails(p) ==
  /\ \/ /\ child' = [child EXCEPT ![p].lease = FALSE]
        /\ UNCHANGED <<uart, owned>>
     \/ /\ child' = [child EXCEPT ![p] = Absent]
        /\ uart' = IF uart = p THEN "free" ELSE uart
        /\ owned' = owned \ {p}
  /\ Goto("cleanup") /\ Fault
  /\ UNCHANGED <<absence, device, record, capture, viewer, known>>

\* Variant: the epoch is closed first.
FinalizeFirst ==
  /\ pc = "stop_capture"
  /\ CloseEpoch
  /\ Goto("finalize")
  /\ NoFault /\ UNCHANGED <<absence, device, registry, processes>>

StopCapture ==
  /\ pc = "stop_capture"
  /\ \/ /\ Stop(capture) /\ Goto("finalize") /\ NoFault
        /\ UNCHANGED <<absence, device, record>>
     \/ StopFails(capture)

Finalize ==
  /\ pc = "finalize"
  /\ CloseEpoch
  /\ Goto("backoff")
  /\ NoFault /\ UNCHANGED <<absence, device, registry, processes>>

\* SWITCH_VIEWER, and the restart of a viewer in the same epoch.
StopViewer ==
  /\ pc = "switch"
  /\ \/ viewer = None /\ Only("launch") /\ NoFault
     \/ /\ viewer # None /\ Stop(viewer) /\ Goto("launch") /\ NoFault
        /\ UNCHANGED <<absence, device, record>>
     \/ viewer # None /\ StopFails(viewer)

\* switch_viewer has registered the child, the supervisor has not.
LaunchViewer ==
  /\ pc = "launch"
  /\ \E p \in Free :
       /\ child' = [child EXCEPT ![p] = Started("viewer", paths)]
       /\ viewer' = p
       /\ owned' = owned \cup {p}
  /\ Goto("launched")
  /\ NoFault /\ UNCHANGED <<absence, device, record, capture, known, uart>>

LaunchFails == pc = "launch" /\ Only("retry") /\ Fault
RetryLaunch == pc = "retry" /\ Only("launch") /\ NoFault

\* _poll_retained_radar_fault finds nothing.
Running ==
  /\ pc = "launched" /\ ~CaptureDead /\ port
  /\ known' = known \cup {viewer}
  /\ recovering' = TRUE
  /\ pc' = "monitor" /\ UNCHANGED <<stop, tool>>
  /\ NoFault
  /\ UNCHANGED <<absence, device, record, capture, viewer, owned, processes>>

\* The radar fails: which fault it is says whether the port was seen to go.
RadarFault(label) ==
  /\ \/ CaptureDead /\ absence' = FALSE /\ NoFault
     \/ ~port /\ absence' = TRUE /\ NoFault
     \/ absence' = FALSE /\ Fault
  /\ Goto(label)
  /\ UNCHANGED <<device, record, processes>>

\* A fault while the viewer is awaited, or right after it was launched.
FaultInRetry ==
  /\ pc = "retry" /\ RadarFault("stop_capture") /\ UNCHANGED registry

FaultAfterLaunch ==
  /\ pc = "launched" /\ RadarFault("drop_viewer")
  /\ known' = known \cup {viewer}
  /\ UNCHANGED <<capture, viewer, owned>>

DropViewer ==
  /\ pc = "drop_viewer"
  /\ \/ /\ Stop(viewer) /\ Goto("stop_capture") /\ NoFault
        /\ UNCHANGED <<absence, device, record>>
     \/ StopFails(viewer)

FaultInMonitor ==
  /\ pc = "monitor" /\ RadarFault("stop_capture") /\ UNCHANGED registry

\* Variant: the old viewer stays registered.
ViewerExitedKept ==
  /\ pc = "monitor" /\ child[viewer].state \in Dead
  /\ Only("launch") /\ NoFault

ViewerExited ==
  /\ pc = "monitor" /\ child[viewer].state \in Dead
  /\ Only("switch") /\ NoFault

Backoff == pc = "backoff" /\ Only("port") /\ NoFault

-----------------------------------------------------------------------------
(* The end of a run.                                                       *)

\* Variant: the wait for a reconnection cannot be ended.
PollsButCycle == {"port", "again", "verify", "launch", "retry", "monitor", "backoff"}

Polls == {"port", "again", "cycle", "cycled", "verify", "launch", "retry",
          "monitor", "backoff"}

StopSeen == stop /\ pc \in Polls /\ Only("cleanup") /\ NoFault

\* Anything else that fails, such as writing the manifest.
Raise ==
  /\ pc \notin {"cleanup", "cleanup_again", "closing", "leaving", "down"}
  /\ Only("cleanup") /\ Fault

\* _stop_registered_children: all that the process manager owns is asked to
\* go; what does not is asked once more, unless a result names a child the
\* supervisor does not know.
Cleanup ==
  /\ pc \in {"cleanup", "cleanup_again"}
  /\ \E left \in SUBSET {p \in owned : child[p].state \in Alive} :
       LET gone == owned \ left
       IN /\ child' = [p \in Pids |->
                         IF p \in gone THEN Absent
                         ELSE IF p \in left THEN [child[p] EXCEPT !.lease = FALSE]
                         ELSE child[p]]
          /\ uart' = IF uart \in gone THEN "free" ELSE uart
          /\ owned' = left
          /\ known' = known \ gone
          /\ capture' = IF capture \in gone THEN None ELSE capture
          /\ viewer' = IF viewer \in gone THEN None ELSE viewer
          /\ Goto(IF left = {} \/ ~ gone \subseteq known \/ pc = "cleanup_again"
                  THEN "closing" ELSE "cleanup_again")
          /\ \/ left = {} /\ NoFault
             \/ Fault
  /\ UNCHANGED <<absence, device, record>>

Close ==
  /\ pc = "closing"
  /\ \/ CloseEpoch /\ NoFault
     \/ UNCHANGED record /\ Fault
  /\ Goto("leaving")
  /\ UNCHANGED <<absence, device, registry, processes>>

\* The process ends, or is killed: the system closes its locks and leases and
\* takes over its children.
Vanish ==
  /\ child' = [p \in Pids |->
                 IF child[p].state \in Dead THEN Absent
                 ELSE [child[p] EXCEPT !.lease = FALSE]]
  /\ uart' = IF uart = "supervisor" THEN "free" ELSE uart
  /\ capture' = None /\ viewer' = None /\ known' = {} /\ owned' = {}
  /\ Goto("down")
  /\ UNCHANGED <<absence, device, record>>

Exit == pc = "leaving" /\ Vanish /\ NoFault
Killed == pc # "down" /\ Vanish /\ Fault

\* Signals; how a run is started is not in the code.
Signal ==
  /\ pc # "down" /\ ~stop
  /\ stop' = TRUE
  /\ UNCHANGED <<pc, tool, recovering, absence, device, record, registry, processes, bounds>>

NewRun ==
  /\ pc = "down" /\ runs < MaxRuns
  /\ runs' = runs + 1 /\ UNCHANGED faults
  /\ pc' = "port" /\ stop' = FALSE /\ recovering' = FALSE /\ absence' = FALSE
  /\ tool' \in BOOLEAN
  /\ epoch' = 0 /\ ended' = {} /\ verified' = 0 /\ paths' = 0
  /\ UNCHANGED <<device, registry, processes>>

-----------------------------------------------------------------------------
(* The children and the board.                                             *)

\* command_radar_live: first the UART lock, then once more the lease.
Lock(p) ==
  /\ child[p].role = "capture" /\ child[p].state = "starting"
  /\ uart = "free"
  /\ uart' = p
  /\ child' = [child EXCEPT ![p].state = "locked"]

\* A viewer runs at once.
Open(p) ==
  /\ child[p].role = "capture" /\ child[p].state = "locked"
  /\ child[p].lease /\ port
  /\ child' = [child EXCEPT ![p].state = "streaming"]
  /\ UNCHANGED uart

\* A child of the run stays a zombie until it is stopped.
Ends(p) ==
  /\ child' = [child EXCEPT ![p] =
                 IF p \notin owned THEN Absent
                 ELSE [@ EXCEPT !.state =
                         IF @ = "streaming" THEN "exited" ELSE "failed"]]
  /\ uart' = IF uart = p THEN "free" ELSE uart

\* Variant: a child does not look at its lease.
MustEndOnError(p) ==
  /\ p \in Living /\ child[p].role = "capture"
  /\ \/ child[p].state = "starting" /\ uart # "free"
     \/ child[p].state # "starting" /\ ~port
  /\ Ends(p)

\* The UART is taken, the port cannot be opened or read, the lease is gone.
MustEnd(p) ==
  /\ p \in Living
  /\ \/ ~child[p].lease
     \/ child[p].role = "capture" /\ child[p].state = "starting" /\ uart # "free"
     \/ child[p].role = "capture" /\ child[p].state # "starting" /\ ~port
  /\ Ends(p)

ChildStep(p) ==
  /\ Lock(p) \/ Open(p) \/ MustEnd(p)
  /\ UNCHANGED <<control, device, record, registry, bounds>>

ChildDies(p) ==
  /\ p \in Living /\ Ends(p)
  /\ Fault
  /\ UNCHANGED <<control, device, record, registry>>

Unplug ==
  /\ port /\ port' = FALSE
  /\ Fault
  /\ UNCHANGED <<control, board, record, registry, processes>>

Plug ==
  /\ ~port /\ port' = TRUE /\ board' = "fresh"
  /\ UNCHANGED <<control, record, registry, processes, bounds>>

-----------------------------------------------------------------------------

Init ==
  /\ pc = "port" /\ stop = FALSE /\ tool \in BOOLEAN
  /\ recovering = FALSE /\ absence = FALSE
  /\ port = TRUE /\ board = "fresh"
  /\ epoch = 0 /\ ended = {} /\ verified = 0 /\ paths = 0
  /\ capture = None /\ viewer = None /\ known = {} /\ owned = {}
  /\ child = [p \in Pids |-> Absent] /\ uart = "free"
  /\ faults = 0 /\ runs = 0

Attempt ==
  \/ FindPort \/ UartBusy \/ Reset \/ ResetFails \/ NoTool \/ FindPortAgain
  \/ SeeAbsence \/ SeeReturn \/ Configure \/ ConfigureFails
  \/ ReleaseUart \/ StartCapture \/ StartFails

Watch ==
  \/ Verified \/ NotVerified \/ StopCapture \/ Finalize
  \/ StopViewer \/ LaunchViewer \/ LaunchFails \/ RetryLaunch \/ Running
  \/ FaultInRetry \/ FaultAfterLaunch \/ DropViewer \/ FaultInMonitor
  \/ ViewerExited \/ Backoff

End == StopSeen \/ Raise \/ Cleanup \/ Close \/ Exit

Supervisor == Attempt \/ Watch \/ End

Next ==
  \/ Supervisor
  \/ Killed \/ Signal \/ NewRun \/ Unplug \/ Plug
  \/ \E p \in Pids : ChildStep(p) \/ ChildDies(p)

Spec == Init /\ [][Next]_vars

\* The supervisor and the children go on while they can, and the board is
\* plugged in again.
Fairness ==
  /\ WF_vars(Supervisor)
  /\ WF_vars(Plug)
  /\ \A p \in Pids : WF_vars(ChildStep(p))

FairSpec == Spec /\ Fairness

-----------------------------------------------------------------------------
(* Properties.                                                             *)

\* Type: an epoch's processes, records and the lock refer to what exists.
TypeOK ==
  /\ pc \in Polls \cup {"reset", "configure", "start", "spawn", "stop_capture",
                        "finalize", "switch", "launched", "drop_viewer", "cleanup",
                        "cleanup_again", "closing", "leaving", "down"}
  /\ stop \in BOOLEAN /\ tool \in BOOLEAN /\ recovering \in BOOLEAN
  /\ absence \in BOOLEAN /\ port \in BOOLEAN /\ board \in {"fresh", "used"}
  /\ epoch \in Nat /\ ended \subseteq 1..epoch
  /\ verified \in 0..epoch /\ paths \in 0..epoch
  /\ capture \in Pids \cup {None} /\ viewer \in Pids \cup {None}
  /\ known \subseteq Pids /\ owned \subseteq Pids
  /\ child \in [Pids -> Process]
  /\ uart \in Pids \cup {"free", "supervisor"}
  /\ faults \in 0..MaxFaults /\ runs \in 0..MaxRuns

\* Never do two read or configure the board's UART at a time: neither two
\* captures, of one run or of two, nor a capture and the supervisor.
UartExclusive ==
  LET streaming == {p \in Pids : child[p].state = "streaming"}
  IN /\ \A p \in streaming : uart = p
     /\ pc \in {"reset", "configure"} => uart = "supervisor"

\* An epoch that ended is not written to any more: a capture of the run that
\* is still alive writes to the open epoch, or has been told to go.
EndedIsSilent ==
  \A p \in owned :
    child[p].role = "capture" /\ p \in Living =>
      child[p].epoch \notin ended \/ ~child[p].lease

\* After RUNNING was lost the board is not configured again unless it was
\* reset or unplugged and plugged in since it was last configured.
FreshlyConfigured ==
  pc = "configure" /\ recovering /\ port => board = "fresh"

\* RUNNING means: exactly the capture and the viewer are registered, with the
\* supervisor and with the process manager, both of the one open epoch, which
\* is the last and the verified one.
RunningIsWhole ==
  pc = "monitor" =>
    /\ known = {capture, viewer} /\ owned = known
    /\ child[capture].role = "capture" /\ child[viewer].role = "viewer"
    /\ child[capture].epoch = epoch /\ child[viewer].epoch = epoch
    /\ verified = epoch /\ paths = epoch /\ ended = 1..(epoch - 1)

\* The viewer the operator looks at never shows an epoch that has not been
\* verified, and between two attempts the manifest names the files of the last
\* verified one.
ShowsVerified ==
  /\ \A p \in owned : child[p].role = "viewer" => child[p].epoch \in 1..verified
  /\ pc \in {"port", "reset", "again", "cycle", "cycled", "configure", "monitor", "backoff"}
       => paths = verified

\* A run that is asked to end ends, wherever it is.
StopEnds == stop ~> pc = "down"

\* What a run leaves alive when it is over, killed or not, goes away by itself.
NoneLeftBehind == pc = "down" ~> (pc # "down" \/ Living = {})

\* After a fault the run gets back to RUNNING, unless it ends or has to wait
\* for somebody to pull the plug.
Recovers == pc = "backoff" ~> pc \in {"monitor", "cycle", "cleanup", "down"}

================================================================================
