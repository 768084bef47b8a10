------------------------- MODULE RadarSupervisorProofs -------------------------
(***************************************************************************)
(* For any number of processes, faults and runs: the types of              *)
(* RadarSupervisor, that its UART has one user, that ended epochs stay as  *)
(* they are, that a recovery configures a fresh board, and what RUNNING    *)
(* and the viewer promise.                                                 *)
(*                                                                         *)
(* The invariant says what each place of run() knows: who holds the UART   *)
(* lock (Locking), which children there are (Children), which epochs are   *)
(* closed (Epochs), and since when the board is fresh (Board).             *)
(***************************************************************************)
EXTENDS RadarSupervisor, TLAPS

\* No epoch is open.
Between == {"port", "reset", "again", "cycle", "cycled", "configure", "backoff"}

\* The supervisor has the UART lock.
Holding == {"reset", "again", "cycle", "cycled", "configure", "start"}

\* The open epoch is not the verified one yet; it is.
Fresh == {"start", "spawn", "verify"}
Shown == {"switch", "launch", "retry", "launched", "drop_viewer", "monitor"}
Closing == {"stop_capture", "finalize"}

WithCapture == Shown \cup {"verify", "stop_capture"}
WithViewer == {"launched", "drop_viewer", "monitor"}

Steady == Between \cup Fresh \cup Shown \cup Closing
Ending == {"cleanup", "cleanup_again", "closing", "leaving", "down"}

Locking ==
  /\ pc \in Holding => uart = "supervisor"
  /\ \A p \in Pids : child[p].state \in {"locked", "streaming"} => uart = p

\* What is registered, and that it is there.
Children ==
  /\ \A p \in owned : child[p].role \in Roles
  /\ pc \in Steady =>
       /\ owned = {capture, viewer} \ {None}
       /\ known = (IF pc = "launched" THEN {capture} ELSE {capture, viewer}) \ {None}
  /\ pc \in WithCapture =>
       /\ capture \in owned
       /\ child[capture].role = "capture" /\ child[capture].epoch = epoch
  /\ pc \in Steady \ WithCapture => capture = None
  /\ pc \in Steady /\ viewer # None =>
       viewer \in owned /\ child[viewer].role = "viewer"
  /\ pc \in WithViewer => viewer \in Pids /\ child[viewer].epoch = epoch
  /\ pc \in {"launch", "retry"} => viewer = None
  /\ pc \in {"closing", "leaving"} => \A p \in owned : ~child[p].lease
  /\ pc = "down" => owned = {} /\ known = {} /\ capture = None /\ viewer = None

Epochs ==
  /\ pc \in Between => ended = 1..epoch /\ paths = verified
  /\ pc \in Fresh \cup Shown \cup Closing => epoch >= 1 /\ ended = 1..(epoch - 1)
  /\ pc \in Fresh \cup Shown => paths = epoch
  /\ pc \in Shown => verified = epoch
  /\ \A p \in owned : child[p].role = "viewer" => child[p].epoch \in 1..verified

Board ==
  recovering /\ port =>
    /\ pc \in {"again", "cycled", "configure"} => board = "fresh"
    /\ absence /\ pc \in {"drop_viewer", "stop_capture", "finalize", "backoff", "port", "reset"}
         => board = "fresh"

\* The parts of TypeOK.
ControlType ==
  /\ pc \in Polls \cup {"reset", "configure", "start", "spawn", "stop_capture",
                        "finalize", "switch", "launched", "drop_viewer", "cleanup",
                        "cleanup_again", "closing", "leaving", "down"}
  /\ stop \in BOOLEAN /\ tool \in BOOLEAN /\ recovering \in BOOLEAN
  /\ absence \in BOOLEAN /\ port \in BOOLEAN /\ board \in {"fresh", "used"}

BoundsType == faults \in 0..MaxFaults /\ runs \in 0..MaxRuns

RecordType ==
  /\ epoch \in Nat /\ ended \subseteq 1..epoch
  /\ verified \in 0..epoch /\ paths \in 0..epoch

ChildType ==
  /\ capture \in Pids \cup {None} /\ viewer \in Pids \cup {None}
  /\ known \subseteq Pids /\ owned \subseteq Pids
  /\ child \in [Pids -> Process]
  /\ uart \in Pids \cup {"free", "supervisor"}

IInv == TypeOK /\ Locking /\ Children /\ Epochs /\ EndedIsSilent /\ Board

-----------------------------------------------------------------------------
(* Types.                                                                  *)

\* What the actions do to one process keeps its type.
LEMMA ProcessChange ==
  ASSUME NEW r \in Process, NEW b \in BOOLEAN, NEW s \in Alive \cup Dead \cup {"absent"}
  PROVE  /\ Absent \in Process
         /\ [r EXCEPT !.lease = b] \in Process
         /\ [r EXCEPT !.state = s] \in Process
BY DEF Process, Absent, Roles

\* A process that ends.
LEMMA EndsType ==
  ASSUME ChildType, NEW p \in Pids, Ends(p)
  PROVE  child' \in [Pids -> Process]
<1>1. child[p] \in Process
  BY DEF ChildType
<1>2. PICK s \in Dead :
        child' = [child EXCEPT ![p] =
                    IF p \notin owned THEN Absent ELSE [child[p] EXCEPT !.state = s]]
  <2>1. CASE child[p].state = "streaming"
    BY <2>1 DEF Ends, Dead, ChildType
  <2>2. CASE child[p].state # "streaming"
    BY <2>2 DEF Ends, Dead, ChildType
  <2>. QED
    BY <2>1, <2>2
<1>3. s \in Alive \cup Dead \cup {"absent"}
  OBVIOUS
<1>4. Absent \in Process /\ [child[p] EXCEPT !.state = s] \in Process
  BY <1>1, <1>3, ProcessChange
<1>. QED
  BY <1>2, <1>4 DEF ChildType

\* A process that is stopped, or should have been.
LEMMA StopType ==
  ASSUME ChildType, NEW p \in Pids, Stop(p) \/ StopFails(p)
  PROVE  child' \in [Pids -> Process]
<1>1. child[p] \in Process
  BY DEF ChildType
<1>2. Absent \in Process /\ [child[p] EXCEPT !.lease = FALSE] \in Process
  BY <1>1, ProcessChange DEF Dead
<1>3. \/ child' = [child EXCEPT ![p] = Absent]
      \/ child' = [child EXCEPT ![p] = [child[p] EXCEPT !.lease = FALSE]]
  BY DEF Stop, StopFails, ChildType
<1>. QED
  BY <1>2, <1>3 DEF ChildType

-----------------------------------------------------------------------------
(* Every step keeps the invariant, part by part.                           *)

\* The types of the control variables and of the device.
LEMMA ControlTypeStep ==
  ASSUME IInv, Next
  PROVE  ControlType'
<1>. USE DEF IInv, TypeOK, ControlType, Polls, vars, control, device, record,
     registry, processes, bounds, Goto, Only, NoFault, Fault
<1>1. CASE FindPort \/ UartBusy \/ Reset \/ ResetFails \/ NoTool
      \/ FindPortAgain \/ SeeAbsence \/ SeeReturn
  BY <1>1 DEF FindPort, UartBusy, Reset, ResetFails, GiveUp, NoTool,
      FindPortAgain, SeeAbsence, SeeReturn
<1>2. CASE Configure \/ ConfigureFails \/ ReleaseUart \/ StartCapture
      \/ StartFails \/ Verified \/ NotVerified \/ StopCapture
  BY <1>2 DEF Configure, ConfigureFails, GiveUp, ReleaseUart, StartCapture,
      Started, Free, Absent, StartFails, CloseEpoch, Verified, NotVerified,
      FramesStop, StopCapture, Stop, StopFails
<1>3. CASE Finalize \/ StopViewer \/ LaunchViewer \/ LaunchFails
      \/ RetryLaunch \/ Running \/ FaultInRetry \/ FaultAfterLaunch
  BY <1>3 DEF Finalize, CloseEpoch, StopViewer, Stop, StopFails, Absent,
      LaunchViewer, Started, Free, LaunchFails, RetryLaunch, Running,
      FaultInRetry, RadarFault, FaultAfterLaunch
<1>4. CASE DropViewer \/ FaultInMonitor \/ ViewerExited \/ Backoff \/ StopSeen
      \/ Raise \/ Cleanup \/ Close
  BY <1>4 DEF DropViewer, Stop, StopFails, Absent, FaultInMonitor, RadarFault,
      ViewerExited, Backoff, StopSeen, Raise, Cleanup, Alive, Close,
      CloseEpoch
<1>5. CASE Exit \/ Killed \/ Signal \/ NewRun \/ Unplug \/ Plug
  BY <1>5 DEF Exit, Vanish, Absent, Killed, Signal, NewRun, Unplug, Plug
<1>6. CASE \E p \in Pids : ChildStep(p)
  BY <1>6 DEF ChildStep, Lock, Open, MustEnd, Ends, Absent, Living
<1>7. CASE \E p \in Pids : ChildDies(p)
  BY <1>7 DEF ChildDies, Ends, Absent, Living
<1>. QED
  BY <1>1, <1>2, <1>3, <1>4, <1>5, <1>6, <1>7
  DEF Next, Supervisor, Attempt, Watch, End

\* The bounds.
LEMMA BoundsTypeStep ==
  ASSUME IInv, Next
  PROVE  BoundsType'
<1>. USE RadarAssumption DEF IInv, TypeOK, BoundsType, RadarAssumption, vars,
     control, device, record, registry, processes, bounds, Goto, Only,
     NoFault, Fault
<1>1. CASE FindPort \/ UartBusy \/ Reset \/ ResetFails \/ NoTool
      \/ FindPortAgain \/ SeeAbsence \/ SeeReturn
  BY <1>1 DEF FindPort, UartBusy, Reset, ResetFails, GiveUp, NoTool,
      FindPortAgain, SeeAbsence, SeeReturn
<1>2. CASE Configure \/ ConfigureFails \/ ReleaseUart \/ StartCapture
      \/ StartFails \/ Verified \/ NotVerified \/ StopCapture
  BY <1>2 DEF Configure, ConfigureFails, GiveUp, ReleaseUart, StartCapture,
      Started, Free, Absent, StartFails, CloseEpoch, Verified, NotVerified,
      FramesStop, StopCapture, Stop, StopFails
<1>3. CASE Finalize \/ StopViewer \/ LaunchViewer \/ LaunchFails
      \/ RetryLaunch \/ Running \/ FaultInRetry \/ FaultAfterLaunch
  BY <1>3 DEF Finalize, CloseEpoch, StopViewer, Stop, StopFails, Absent,
      LaunchViewer, Started, Free, LaunchFails, RetryLaunch, Running,
      FaultInRetry, RadarFault, FaultAfterLaunch
<1>4. CASE DropViewer \/ FaultInMonitor \/ ViewerExited \/ Backoff \/ StopSeen
      \/ Raise \/ Cleanup \/ Close
  BY <1>4 DEF DropViewer, Stop, StopFails, Absent, FaultInMonitor, RadarFault,
      ViewerExited, Backoff, StopSeen, Raise, Cleanup, Alive, Close,
      CloseEpoch
<1>5. CASE Exit \/ Killed \/ Signal \/ NewRun \/ Unplug \/ Plug
  BY <1>5 DEF Exit, Vanish, Absent, Killed, Signal, NewRun, Unplug, Plug
<1>6. CASE \E p \in Pids : ChildStep(p)
  BY <1>6 DEF ChildStep, Lock, Open, MustEnd, Ends, Absent, Living
<1>7. CASE \E p \in Pids : ChildDies(p)
  BY <1>7 DEF ChildDies, Ends, Absent, Living
<1>. QED
  BY <1>1, <1>2, <1>3, <1>4, <1>5, <1>6, <1>7
  DEF Next, Supervisor, Attempt, Watch, End

\* The types of the record of epochs.
LEMMA RecordTypeStep ==
  ASSUME IInv, Next
  PROVE  RecordType'
<1>. USE DEF IInv, TypeOK, RecordType, vars, control, device, record,
     registry, processes, bounds, Goto, Only, NoFault, Fault
<1>1. CASE FindPort \/ UartBusy \/ Reset \/ ResetFails \/ NoTool
      \/ FindPortAgain \/ SeeAbsence \/ SeeReturn
  BY <1>1 DEF FindPort, UartBusy, Reset, ResetFails, GiveUp, NoTool,
      FindPortAgain, SeeAbsence, SeeReturn
<1>2. CASE Configure \/ ConfigureFails \/ ReleaseUart \/ StartCapture
      \/ StartFails \/ Verified \/ NotVerified \/ StopCapture
  BY <1>2 DEF Configure, ConfigureFails, GiveUp, ReleaseUart, StartCapture,
      Started, Free, Absent, StartFails, CloseEpoch, Verified, NotVerified,
      FramesStop, StopCapture, Stop, StopFails
<1>3. CASE Finalize \/ StopViewer \/ LaunchViewer \/ LaunchFails
      \/ RetryLaunch \/ Running \/ FaultInRetry \/ FaultAfterLaunch
  BY <1>3 DEF Finalize, CloseEpoch, StopViewer, Stop, StopFails, Absent,
      LaunchViewer, Started, Free, LaunchFails, RetryLaunch, Running,
      FaultInRetry, RadarFault, FaultAfterLaunch
<1>4. CASE DropViewer \/ FaultInMonitor \/ ViewerExited \/ Backoff \/ StopSeen
      \/ Raise \/ Cleanup \/ Exit
  BY <1>4 DEF DropViewer, Stop, StopFails, Absent, FaultInMonitor, RadarFault,
      ViewerExited, Backoff, StopSeen, Raise, Cleanup, Alive, Exit, Vanish
<1>5. CASE Killed \/ Signal \/ NewRun \/ Unplug \/ Plug
  BY <1>5 DEF Killed, Vanish, Absent, Signal, NewRun, Unplug, Plug
<1>6. CASE Close
  <2>1. CASE CloseEpoch
    BY <1>6, <2>1 DEF Close, CloseEpoch, IInv, TypeOK, RecordType
  <2>2. CASE UNCHANGED record
    BY <2>2 DEF record, IInv, TypeOK, RecordType
  <2>. QED
    BY <1>6, <2>1, <2>2 DEF Close
<1>7. CASE \E p \in Pids : ChildStep(p)
  BY <1>7 DEF ChildStep, Lock, Open, MustEnd, Ends, Absent, Living
<1>8. CASE \E p \in Pids : ChildDies(p)
  BY <1>8 DEF ChildDies, Ends, Absent, Living
<1>. QED
  BY <1>1, <1>2, <1>3, <1>4, <1>5, <1>6, <1>7, <1>8
  DEF Next, Supervisor, Attempt, Watch, End

\* The types of the registries, the processes and the lock.
LEMMA ChildTypeStep ==
  ASSUME IInv, Next
  PROVE  ChildType'
<1>. USE DEF IInv, TypeOK, ChildType, Process, Roles, Alive, Dead, Children,
     Between, Holding, Fresh, Shown, Closing, WithCapture, WithViewer, Steady,
     vars, control, device, record, registry, processes, bounds, Goto, Only,
     NoFault, Fault
<1>1. CASE FindPort \/ UartBusy \/ Reset \/ ResetFails \/ NoTool
      \/ FindPortAgain \/ SeeAbsence \/ SeeReturn
  BY <1>1 DEF FindPort, UartBusy, Reset, ResetFails, GiveUp, NoTool,
      FindPortAgain, SeeAbsence, SeeReturn
<1>2. CASE Configure \/ ConfigureFails
  BY <1>2 DEF Configure, ConfigureFails, GiveUp
<1>3. CASE ReleaseUart
  BY <1>3 DEF ReleaseUart
<1>4. CASE StartCapture
  BY <1>4 DEF StartCapture, Started, Free, Absent
<1>5. CASE StartFails \/ Verified \/ NotVerified \/ Finalize
  BY <1>5 DEF StartFails, CloseEpoch, Verified, NotVerified, FramesStop,
      Finalize
<1>6. CASE LaunchViewer
  BY <1>6 DEF LaunchViewer, Started, Free, Absent
<1>7. CASE LaunchFails
  BY <1>7 DEF LaunchFails
<1>8. CASE RetryLaunch \/ Running
  BY <1>8 DEF RetryLaunch, Running
<1>9. CASE FaultInRetry \/ FaultAfterLaunch \/ FaultInMonitor \/ ViewerExited
  BY <1>9 DEF FaultInRetry, RadarFault, FaultAfterLaunch, FaultInMonitor,
      ViewerExited
<1>10. CASE Backoff \/ StopSeen \/ Raise \/ Close \/ Signal \/ NewRun
      \/ Unplug \/ Plug
  BY <1>10 DEF Backoff, StopSeen, Raise, Close, CloseEpoch, Signal, NewRun,
      Unplug, Plug
<1>11. CASE StopCapture
  <2>1. capture \in Pids
    BY <1>11 DEF StopCapture, IInv, TypeOK, Children, WithCapture
  <2>2. Stop(capture) \/ StopFails(capture)
    BY <1>11 DEF StopCapture
  <2>3. child' \in [Pids -> Process]
    BY <2>1, <2>2, StopType DEF IInv, TypeOK, ChildType
  <2>. QED
    BY <2>2, <2>3 DEF Stop, StopFails, record, IInv, TypeOK, ChildType
<1>12. CASE StopViewer
  <2>1. CASE viewer = None
    BY <1>12, <2>1 DEF StopViewer, Only, vars, control, device, record, registry, processes, bounds, IInv, TypeOK, ChildType
  <2>2. CASE viewer # None
    <3>1. viewer \in Pids
      BY <2>2 DEF IInv, TypeOK
    <3>2. Stop(viewer) \/ StopFails(viewer)
      BY <1>12, <2>2 DEF StopViewer
    <3>3. child' \in [Pids -> Process]
      BY <3>1, <3>2, StopType DEF IInv, TypeOK, ChildType
    <3>. QED
      BY <3>2, <3>3 DEF Stop, StopFails, record, IInv, TypeOK, ChildType
  <2>. QED
    BY <2>1, <2>2
<1>13. CASE DropViewer
  <2>1. viewer \in Pids
    BY <1>13 DEF DropViewer, IInv, TypeOK, Children, WithViewer
  <2>2. Stop(viewer) \/ StopFails(viewer)
    BY <1>13 DEF DropViewer
  <2>3. child' \in [Pids -> Process]
    BY <2>1, <2>2, StopType DEF IInv, TypeOK, ChildType
  <2>. QED
    BY <2>2, <2>3 DEF Stop, StopFails, record, IInv, TypeOK, ChildType
<1>14. CASE Cleanup
  <2>1. PICK left \in SUBSET {p \in owned : child[p].state \in Alive} :
          /\ child' = [p \in Pids |->
                         IF p \in owned \ left THEN Absent
                         ELSE IF p \in left THEN [child[p] EXCEPT !.lease = FALSE]
                         ELSE child[p]]
          /\ uart' = IF uart \in owned \ left THEN "free" ELSE uart
          /\ owned' = left
          /\ known' = known \ (owned \ left)
          /\ capture' = IF capture \in owned \ left THEN None ELSE capture
          /\ viewer' = IF viewer \in owned \ left THEN None ELSE viewer
    BY <1>14 DEF Cleanup
  <2>2. \A p \in Pids : child[p] \in Process
    BY DEF IInv, TypeOK
  <2>3. \A p \in Pids : [child[p] EXCEPT !.lease = FALSE] \in Process /\ Absent \in Process
    BY <2>2, ProcessChange DEF Dead
  <2>4. child' \in [Pids -> Process]
    BY <2>1, <2>2, <2>3
  <2>. QED
    BY <2>1, <2>4 DEF IInv, TypeOK, ChildType
<1>15. CASE Exit
  <2>1. Vanish
    BY <1>15 DEF Exit
  <2>2. \A p \in Pids : child[p] \in Process
    BY DEF IInv, TypeOK
  <2>3. \A p \in Pids : [child[p] EXCEPT !.lease = FALSE] \in Process /\ Absent \in Process
    BY <2>2, ProcessChange DEF Dead
  <2>4. child' \in [Pids -> Process]
    BY <2>1, <2>2, <2>3 DEF Vanish
  <2>. QED
    BY <2>1, <2>4 DEF Vanish, IInv, TypeOK, ChildType
<1>16. CASE Killed
  <2>1. Vanish
    BY <1>16 DEF Killed
  <2>2. \A p \in Pids : child[p] \in Process
    BY DEF IInv, TypeOK
  <2>3. \A p \in Pids : [child[p] EXCEPT !.lease = FALSE] \in Process /\ Absent \in Process
    BY <2>2, ProcessChange DEF Dead
  <2>4. child' \in [Pids -> Process]
    BY <2>1, <2>2, <2>3 DEF Vanish
  <2>. QED
    BY <2>1, <2>4 DEF Vanish, IInv, TypeOK, ChildType
<1>17. CASE \E p \in Pids : ChildStep(p)
  <2>1. PICK p \in Pids : ChildStep(p)
    BY <1>17
  <2>2. child[p] \in Process /\ ChildType
    BY DEF IInv, TypeOK, ChildType
  <2>3. CASE Lock(p)
    <3>1. [child[p] EXCEPT !.state = "locked"] \in Process
      BY <2>2, ProcessChange DEF Alive
    <3>2. child' = [child EXCEPT ![p] = [child[p] EXCEPT !.state = "locked"]] /\ uart' = p
      BY <2>3 DEF Lock
    <3>. QED
      BY <2>1, <2>2, <3>1, <3>2 DEF ChildStep, registry, ChildType
  <2>4. CASE Open(p)
    <3>1. [child[p] EXCEPT !.state = "streaming"] \in Process
      BY <2>2, ProcessChange DEF Alive
    <3>2. child' = [child EXCEPT ![p] = [child[p] EXCEPT !.state = "streaming"]] /\ uart' = uart
      BY <2>4 DEF Open
    <3>. QED
      BY <2>1, <2>2, <3>1, <3>2 DEF ChildStep, registry, ChildType
  <2>5. CASE MustEnd(p)
    BY <2>1, <2>2, <2>5, EndsType DEF ChildStep, MustEnd, Ends, registry, ChildType
  <2>. QED
    BY <2>1, <2>3, <2>4, <2>5 DEF ChildStep
<1>18. CASE \E p \in Pids : ChildDies(p)
  <2>1. PICK p \in Pids : ChildDies(p)
    BY <1>18
  <2>2. ChildType
    BY DEF IInv, TypeOK, ChildType
  <2>. QED
    BY <2>1, <2>2, EndsType DEF ChildDies, Ends, registry, ChildType
<1>. QED
  BY <1>1, <1>2, <1>3, <1>4, <1>5, <1>6, <1>7, <1>8, <1>9, <1>10, <1>11,
      <1>12, <1>13, <1>14, <1>15, <1>16, <1>17, <1>18
  DEF Next, Supervisor, Attempt, Watch, End

\* Who has the UART lock.
LEMMA LockingStep ==
  ASSUME IInv, Next
  PROVE  Locking'
<1>. USE RadarAssumption DEF IInv, TypeOK, Alive, Dead, Locking, Process,
     Between, Holding, Fresh, Shown, Closing, WithCapture, WithViewer, Steady,
     vars, control, device, record, registry, processes, bounds, Goto, Only,
     NoFault, Fault
<1>1. CASE FindPort \/ UartBusy \/ Reset \/ ResetFails \/ NoTool
      \/ FindPortAgain \/ SeeAbsence \/ SeeReturn
  BY <1>1 DEF FindPort, UartBusy, Reset, ResetFails, GiveUp, NoTool,
      FindPortAgain, SeeAbsence, SeeReturn
<1>2. CASE Configure \/ ConfigureFails \/ ReleaseUart \/ StartCapture
      \/ StartFails \/ Verified \/ NotVerified \/ StopCapture
  BY <1>2 DEF Configure, ConfigureFails, GiveUp, ReleaseUart, StartCapture,
      Started, Free, Absent, StartFails, CloseEpoch, Verified, NotVerified,
      FramesStop, StopCapture, Stop, StopFails
<1>3. CASE Finalize \/ StopViewer \/ LaunchViewer \/ LaunchFails
      \/ RetryLaunch \/ Running \/ FaultInRetry \/ FaultAfterLaunch
  BY <1>3 DEF Finalize, CloseEpoch, StopViewer, Stop, StopFails, Absent,
      LaunchViewer, Started, Free, LaunchFails, RetryLaunch, Running,
      FaultInRetry, RadarFault, FaultAfterLaunch
<1>4. CASE DropViewer \/ FaultInMonitor \/ ViewerExited \/ Backoff \/ StopSeen
      \/ Raise \/ Cleanup \/ Close
  BY <1>4 DEF DropViewer, Stop, StopFails, Absent, FaultInMonitor, RadarFault,
      ViewerExited, Backoff, StopSeen, Raise, Cleanup, Close, CloseEpoch
<1>5. CASE Exit \/ Killed \/ Signal \/ NewRun \/ Unplug \/ Plug
  BY <1>5 DEF Exit, Vanish, Absent, Killed, Signal, NewRun, Unplug, Plug
<1>6. CASE \E p \in Pids : ChildStep(p)
  BY <1>6 DEF ChildStep, Lock, Open, MustEnd, Ends, Absent, Living
<1>7. CASE \E p \in Pids : ChildDies(p)
  BY <1>7 DEF ChildDies, Ends, Absent, Living
<1>. QED
  BY <1>1, <1>2, <1>3, <1>4, <1>5, <1>6, <1>7
  DEF Next, Supervisor, Attempt, Watch, End

\* Which children are registered, at each place.
LEMMA ChildrenStep ==
  ASSUME IInv, Next
  PROVE  Children'
<1>. USE RadarAssumption DEF IInv, TypeOK, Roles, Children, Alive, Dead,
     Process, Between, Holding, Fresh, Shown, Closing, WithCapture,
     WithViewer, Steady, vars, control, device, record, registry, processes,
     bounds, Goto, Only, NoFault, Fault
<1>1. CASE FindPort \/ UartBusy \/ Reset \/ ResetFails \/ NoTool
      \/ FindPortAgain \/ SeeAbsence \/ SeeReturn
  BY <1>1 DEF FindPort, UartBusy, Reset, ResetFails, GiveUp, NoTool,
      FindPortAgain, SeeAbsence, SeeReturn
<1>2. CASE Configure \/ ConfigureFails \/ ReleaseUart \/ StartCapture
      \/ StartFails \/ Verified \/ NotVerified \/ StopCapture
  BY <1>2 DEF Configure, ConfigureFails, GiveUp, ReleaseUart, StartCapture,
      Started, Free, Absent, StartFails, CloseEpoch, Verified, NotVerified,
      FramesStop, StopCapture, Stop, StopFails
<1>3. CASE Finalize \/ StopViewer \/ LaunchFails \/ RetryLaunch \/ Running
      \/ FaultInRetry \/ FaultAfterLaunch \/ DropViewer
  BY <1>3 DEF Finalize, CloseEpoch, StopViewer, Stop, StopFails, Absent,
      LaunchFails, RetryLaunch, Running, FaultInRetry, RadarFault,
      FaultAfterLaunch, DropViewer
<1>4. CASE FaultInMonitor \/ ViewerExited \/ Backoff \/ StopSeen \/ Raise
      \/ Cleanup \/ Close \/ Exit
  BY <1>4 DEF FaultInMonitor, RadarFault, ViewerExited, Backoff, StopSeen,
      Raise, Cleanup, Absent, Close, CloseEpoch, Exit, Vanish
<1>5. CASE Killed \/ Signal \/ NewRun \/ Unplug \/ Plug
  BY <1>5 DEF Killed, Vanish, Absent, Signal, NewRun, Unplug, Plug
<1>6. CASE LaunchViewer
  <2>1. PICK p \in Free :
          /\ child' = [child EXCEPT ![p] = Started("viewer", paths)]
          /\ viewer' = p /\ owned' = owned \cup {p}
    BY <1>6 DEF LaunchViewer
  <2>2. p \in Pids /\ p \notin owned /\ p # None
    BY RadarAssumption DEF Free, Absent, Roles, IInv, Children
  <2>3. /\ child'[p].role = "viewer" /\ child'[p].epoch = paths
        /\ \A q \in owned : child'[q] = child[q] /\ q # p
    BY <2>1, <2>2 DEF Started, IInv, TypeOK
  <2>4. /\ pc = "launch" /\ pc' = "launched" /\ epoch' = epoch /\ paths = epoch
        /\ capture' = capture /\ known' = known
    BY <1>6 DEF LaunchViewer, Goto, record, IInv, Epochs, Shown
  <2>5. /\ capture \in owned /\ capture \in Pids /\ viewer = None
        /\ owned = {capture, viewer} \ {None} /\ known = {capture, viewer} \ {None}
        /\ child[capture].role = "capture" /\ child[capture].epoch = epoch
    BY <2>4 DEF IInv, TypeOK, Children, Steady, Shown, WithCapture
  <2>6. owned' = {capture', viewer'} \ {None} /\ known' = {capture'} \ {None}
    BY <2>1, <2>2, <2>4, <2>5
  <2>7. \A q \in owned' : child'[q].role \in Roles
    BY <2>1, <2>3 DEF Roles, IInv, Children
  <2>. QED
    BY <2>1, <2>2, <2>3, <2>4, <2>5, <2>6, <2>7
    DEF Children, Steady, Shown, Fresh, Closing, Between, WithCapture, WithViewer
<1>7. CASE \E p \in Pids : ChildStep(p)
  BY <1>7 DEF ChildStep, Lock, Open, MustEnd, Ends, Absent, Living
<1>8. CASE \E p \in Pids : ChildDies(p)
  BY <1>8 DEF ChildDies, Ends, Absent, Living
<1>. QED
  BY <1>1, <1>2, <1>3, <1>4, <1>5, <1>6, <1>7, <1>8
  DEF Next, Supervisor, Attempt, Watch, End

\* Which epochs are closed, at each place, and what viewers show.
LEMMA EpochsStep ==
  ASSUME IInv, Next
  PROVE  Epochs'
<1>. USE DEF IInv, TypeOK, Children, Epochs, Alive, Dead, Roles, Process,
     Between, Holding, Fresh, Shown, Closing, WithCapture, WithViewer, Steady,
     vars, control, device, record, registry, processes, bounds, Goto, Only,
     NoFault, Fault
<1>1. CASE FindPort \/ UartBusy \/ Reset \/ ResetFails \/ NoTool
      \/ FindPortAgain \/ SeeAbsence \/ SeeReturn
  BY <1>1 DEF FindPort, UartBusy, Reset, ResetFails, GiveUp, NoTool,
      FindPortAgain, SeeAbsence, SeeReturn
<1>2. CASE Configure \/ ConfigureFails \/ ReleaseUart \/ StartCapture
  BY <1>2 DEF Configure, ConfigureFails, GiveUp, ReleaseUart, StartCapture,
      Started, Free, Absent
<1>3. CASE StartFails
  BY <1>3 DEF StartFails, CloseEpoch
<1>4. CASE Verified
  BY <1>4 DEF Verified
<1>5. CASE NotVerified
  BY <1>5 DEF NotVerified, FramesStop
<1>6. CASE StopCapture
  BY <1>6 DEF StopCapture, Stop, StopFails, Absent
<1>7. CASE Finalize
  BY <1>7 DEF Finalize, CloseEpoch
<1>8. CASE StopViewer
  BY <1>8 DEF StopViewer, Stop, StopFails, Absent
<1>9. CASE LaunchViewer \/ LaunchFails
  BY <1>9 DEF LaunchViewer, Started, Free, Absent, LaunchFails
<1>10. CASE RetryLaunch \/ Running \/ FaultInRetry \/ FaultAfterLaunch
  BY <1>10 DEF RetryLaunch, Running, FaultInRetry, RadarFault,
      FaultAfterLaunch
<1>11. CASE DropViewer \/ FaultInMonitor \/ ViewerExited \/ Backoff
      \/ StopSeen \/ Raise \/ Cleanup \/ Close
  BY <1>11 DEF DropViewer, Stop, StopFails, Absent, FaultInMonitor,
      RadarFault, ViewerExited, Backoff, StopSeen, Raise, Cleanup, Close,
      CloseEpoch
<1>12. CASE Exit \/ Killed \/ Signal
  BY <1>12 DEF Exit, Vanish, Absent, Killed, Signal
<1>13. CASE NewRun \/ Unplug \/ Plug
  BY <1>13 DEF NewRun, Unplug, Plug
<1>14. CASE \E p \in Pids : ChildStep(p)
  BY <1>14 DEF ChildStep, Lock, Open, MustEnd, Ends, Absent, Living
<1>15. CASE \E p \in Pids : ChildDies(p)
  BY <1>15 DEF ChildDies, Ends, Absent, Living
<1>. QED
  BY <1>1, <1>2, <1>3, <1>4, <1>5, <1>6, <1>7, <1>8, <1>9, <1>10, <1>11,
      <1>12, <1>13, <1>14, <1>15
  DEF Next, Supervisor, Attempt, Watch, End

\* An epoch is closed only when its capture is gone or told to go.
LEMMA SilentStep ==
  ASSUME IInv, Next
  PROVE  EndedIsSilent'
<1>. USE DEF IInv, TypeOK, Children, Epochs, EndedIsSilent, Living, Alive,
     Dead, Roles, Process, Between, Holding, Fresh, Shown, Closing,
     WithCapture, WithViewer, Steady, vars, control, device, record, registry,
     processes, bounds, Goto, Only, NoFault, Fault
<1>1. CASE FindPort \/ UartBusy \/ Reset \/ ResetFails \/ NoTool
      \/ FindPortAgain \/ SeeAbsence \/ SeeReturn
  BY <1>1 DEF FindPort, UartBusy, Reset, ResetFails, GiveUp, NoTool,
      FindPortAgain, SeeAbsence, SeeReturn
<1>2. CASE Configure \/ ConfigureFails \/ ReleaseUart \/ StartCapture
      \/ StartFails \/ Verified \/ NotVerified \/ StopCapture
  BY <1>2 DEF Configure, ConfigureFails, GiveUp, ReleaseUart, StartCapture,
      Started, Free, Absent, StartFails, CloseEpoch, Verified, NotVerified,
      FramesStop, StopCapture, Stop, StopFails
<1>3. CASE Finalize \/ StopViewer \/ LaunchViewer \/ LaunchFails
      \/ RetryLaunch \/ Running \/ FaultInRetry \/ FaultAfterLaunch
  BY <1>3 DEF Finalize, CloseEpoch, StopViewer, Stop, StopFails, Absent,
      LaunchViewer, Started, Free, LaunchFails, RetryLaunch, Running,
      FaultInRetry, RadarFault, FaultAfterLaunch
<1>4. CASE FaultInMonitor \/ ViewerExited \/ Backoff \/ StopSeen \/ Raise
      \/ Cleanup \/ Close \/ Exit
  BY <1>4 DEF FaultInMonitor, RadarFault, ViewerExited, Backoff, StopSeen,
      Raise, Cleanup, Absent, Close, CloseEpoch, Exit, Vanish
<1>5. CASE Killed \/ Signal \/ NewRun \/ Unplug \/ Plug
  BY <1>5 DEF Killed, Vanish, Absent, Signal, NewRun, Unplug, Plug
<1>6. CASE DropViewer
  <2>1. CASE Stop(viewer)
    <3>1. owned' \subseteq owned /\ viewer \notin owned' /\ ended' = ended
      BY <1>6, <2>1 DEF DropViewer, Stop, StopFails, record
    <3>2. \A q \in owned' : q \in Pids /\ child'[q] = child[q]
      BY <2>1, <3>1 DEF Stop, IInv, TypeOK
    <3>. QED
      BY <3>1, <3>2 DEF IInv, EndedIsSilent, Living
  <2>2. CASE StopFails(viewer)
    BY <1>6, <2>2, RadarAssumption
    DEF DropViewer, StopFails, Absent, record, IInv, TypeOK, Process, EndedIsSilent, Living, Alive
  <2>. QED
    BY <1>6, <2>1, <2>2 DEF DropViewer
<1>7. CASE \E p \in Pids : ChildStep(p)
  <2>1. PICK p \in Pids : ChildStep(p)
    BY <1>7
  <2>2. owned' = owned /\ ended' = ended
    BY <2>1 DEF ChildStep, registry, record
  <2>3. CASE Lock(p)
    BY <2>2, <2>3 DEF Lock, Alive, IInv, TypeOK, EndedIsSilent, Living, Process
  <2>4. CASE Open(p)
    BY <2>2, <2>4 DEF Open, Alive, IInv, TypeOK, EndedIsSilent, Living, Process
  <2>5. CASE MustEnd(p)
    BY <2>2, <2>5 DEF MustEnd, Ends, Absent, Alive, IInv, TypeOK, EndedIsSilent, Living, Process
  <2>. QED
    BY <2>1, <2>3, <2>4, <2>5 DEF ChildStep
<1>8. CASE \E p \in Pids : ChildDies(p)
  BY <1>8 DEF ChildDies, Ends, Absent
<1>. QED
  BY <1>1, <1>2, <1>3, <1>4, <1>5, <1>6, <1>7, <1>8
  DEF Next, Supervisor, Attempt, Watch, End

\* A recovery that may configure has seen the board come back.
LEMMA BoardStep ==
  ASSUME IInv, Next
  PROVE  Board'
<1>. USE DEF IInv, TypeOK, Board, Polls, vars, control, device, record,
     registry, processes, bounds, Goto, Only, NoFault, Fault
<1>1. CASE FindPort \/ UartBusy \/ Reset \/ ResetFails \/ NoTool
      \/ FindPortAgain \/ SeeAbsence \/ SeeReturn
  BY <1>1 DEF FindPort, UartBusy, Reset, ResetFails, GiveUp, NoTool,
      FindPortAgain, SeeAbsence, SeeReturn
<1>2. CASE Configure \/ ConfigureFails \/ ReleaseUart \/ StartCapture
      \/ StartFails \/ Verified \/ NotVerified \/ StopCapture
  BY <1>2 DEF Configure, ConfigureFails, GiveUp, ReleaseUart, StartCapture,
      Started, Free, Absent, StartFails, CloseEpoch, Verified, NotVerified,
      FramesStop, StopCapture, Stop, StopFails
<1>3. CASE Finalize \/ StopViewer \/ LaunchViewer \/ LaunchFails
      \/ RetryLaunch \/ Running \/ FaultInRetry \/ FaultAfterLaunch
  BY <1>3 DEF Finalize, CloseEpoch, StopViewer, Stop, StopFails, Absent,
      LaunchViewer, Started, Free, LaunchFails, RetryLaunch, Running,
      FaultInRetry, RadarFault, FaultAfterLaunch
<1>4. CASE DropViewer \/ FaultInMonitor \/ ViewerExited \/ Backoff \/ StopSeen
      \/ Raise \/ Cleanup \/ Close
  BY <1>4 DEF DropViewer, Stop, StopFails, Absent, FaultInMonitor, RadarFault,
      ViewerExited, Backoff, StopSeen, Raise, Cleanup, Alive, Close,
      CloseEpoch
<1>5. CASE Exit \/ Killed \/ Signal \/ NewRun \/ Unplug \/ Plug
  BY <1>5 DEF Exit, Vanish, Absent, Killed, Signal, NewRun, Unplug, Plug
<1>6. CASE \E p \in Pids : ChildStep(p)
  BY <1>6 DEF ChildStep, Lock, Open, MustEnd, Ends, Absent, Living
<1>7. CASE \E p \in Pids : ChildDies(p)
  BY <1>7 DEF ChildDies, Ends, Absent, Living
<1>. QED
  BY <1>1, <1>2, <1>3, <1>4, <1>5, <1>6, <1>7
  DEF Next, Supervisor, Attempt, Watch, End

\* Stuttering.
LEMMA Stutter ==
  ASSUME IInv, UNCHANGED vars
  PROVE  IInv'
<1>1. TypeOK'
  BY DEF vars, control, device, record, registry, processes, bounds, IInv, TypeOK
<1>2. Locking' /\ Epochs' /\ Board'
  BY DEF vars, control, device, record, registry, processes, bounds, IInv, Locking, Epochs, Board
<1>3. Children'
  BY DEF vars, control, device, record, registry, processes, bounds, IInv, Children
<1>4. EndedIsSilent'
  BY DEF vars, control, device, record, registry, processes, bounds, IInv, EndedIsSilent, Living
<1>. QED
  BY <1>1, <1>2, <1>3, <1>4 DEF IInv

\* The invariant is inductive.
LEMMA Step ==
  ASSUME IInv, [Next]_vars
  PROVE  IInv'
<1>1. CASE Next
  <2>1. TypeOK'
    BY <1>1, ControlTypeStep, BoundsTypeStep, RecordTypeStep, ChildTypeStep
    DEF TypeOK, ControlType, BoundsType, RecordType, ChildType
  <2>. QED
    BY <1>1, <2>1, LockingStep, ChildrenStep, EpochsStep, SilentStep, BoardStep DEF IInv
<1>2. CASE UNCHANGED vars
  BY <1>2, Stutter
<1>. QED
  BY <1>1, <1>2

\* It holds at the start.
LEMMA Start == Init => IInv
<1>. SUFFICES ASSUME Init PROVE IInv
  OBVIOUS
<1>1. TypeOK
  <2>1. child \in [Pids -> Process]
    BY DEF Init, Process, Absent
  <2>2. ControlType
    BY RadarAssumption DEF Init, ControlType, Polls
  <2>3. BoundsType
    BY RadarAssumption DEF Init, BoundsType
  <2>. QED
    BY <2>1, <2>2, <2>3 DEF Init, TypeOK, ControlType, BoundsType
<1>2. Locking /\ Board
  BY DEF Init, Locking, Board, Holding, Absent
<1>3. Children
  BY DEF Init, Children, Steady, WithCapture, WithViewer, Shown
<1>4. Epochs /\ EndedIsSilent
  BY DEF Init, Epochs, EndedIsSilent, Between, Fresh, Shown, Closing
<1>. QED
  BY <1>1, <1>2, <1>3, <1>4 DEF IInv

\* It always holds.
LEMMA Invariance == Spec => []IInv
BY Start, Step, PTL DEF Spec

-----------------------------------------------------------------------------

\* The types: what the lock, the registries and the records refer to exists.
THEOREM TypeCorrect == Spec => []TypeOK
BY Invariance, PTL DEF IInv

\* _attempt_until_running and command_radar_live: no two users of the UART,
\* whatever processes an earlier run has left.
THEOREM OneUser == Spec => []UartExclusive
<1>1. IInv => UartExclusive
  BY DEF IInv, Locking, UartExclusive, Holding
<1>. QED
  BY Invariance, <1>1, PTL

\* _finalize_epoch: what has an ended_at is written to by nobody who has not
\* been told to go.
THEOREM EndedStaysSilent == Spec => []EndedIsSilent
BY Invariance, PTL DEF IInv

\* _wait_for_usb_cycle: a recovery configures a board that was reset or has
\* been unplugged.
THEOREM RecoversFresh == Spec => []FreshlyConfigured
<1>1. IInv => FreshlyConfigured
  BY DEF IInv, Board, FreshlyConfigured
<1>. QED
  BY Invariance, <1>1, PTL

\* _monitor_until_fault: what the state RUNNING means.
THEOREM RunningWhole == Spec => []RunningIsWhole
<1>1. ASSUME IInv PROVE RunningIsWhole
  <2>1. SUFFICES ASSUME pc = "monitor" PROVE RunningIsWhole
    BY DEF RunningIsWhole
  <2>2. /\ owned = {capture, viewer} \ {None} /\ known = {capture, viewer} \ {None}
        /\ capture \in owned /\ viewer \in Pids
    BY <1>1, <2>1 DEF IInv, Children, Steady, Shown, WithCapture, WithViewer
  <2>3. /\ child[capture].role = "capture" /\ child[capture].epoch = epoch
        /\ child[viewer].epoch = epoch
    BY <1>1, <2>1 DEF IInv, Children, Shown, WithCapture, WithViewer
  <2>4. viewer # None /\ capture # None
    BY <2>2, RadarAssumption
  <2>5. child[viewer].role = "viewer"
    BY <1>1, <2>1, <2>4 DEF IInv, Children, Steady, Shown
  <2>6. verified = epoch /\ paths = epoch /\ ended = 1..(epoch - 1)
    BY <1>1, <2>1 DEF IInv, Epochs, Shown
  <2>. QED
    BY <2>2, <2>3, <2>4, <2>5, <2>6 DEF RunningIsWhole
<1>. QED
  BY Invariance, <1>1, PTL

\* SWITCH_VIEWER and _restore_verified_paths: only verified epochs are shown.
THEOREM ShownIsVerified == Spec => []ShowsVerified
<1>1. ASSUME IInv PROVE ShowsVerified
  <2>1. \A p \in owned : child[p].role = "viewer" => child[p].epoch \in 1..verified
    BY <1>1 DEF IInv, Epochs
  <2>2. pc \in Between \cup {"monitor"} => paths = verified
    BY <1>1 DEF IInv, Epochs, Shown
  <2>. QED
    BY <2>1, <2>2 DEF ShowsVerified, Between
<1>. QED
  BY Invariance, <1>1, PTL

================================================================================
