----------------------------- MODULE DriveLatch -----------------------------
(***************************************************************************)
(* The propulsion latch of one physical Pi (robot/mesh_control_server.py): *)
(* the hardware latch of the motor controller, the two files that persist  *)
(* it (drive-latch.json and the drive-enable.pending marker), the          *)
(* hold/enable transactions of the control server, and the restore at      *)
(* boot.  Any file operation may fail, and the process may be killed or    *)
(* the Pi lose power between any two operations.                           *)
(*                                                                         *)
(* `live` is the directory as the running system sees it; `durable` is     *)
(* what the last successful fsync of the directory made certain.  After a  *)
(* power loss each entry holds its durable or its live content: an         *)
(* os.replace or unlink that was not fsynced may or may not survive.       *)
(***************************************************************************)
EXTENDS Naturals

CONSTANT MaxFaults  \* bound: operations that fail within one transaction

ASSUME FaultAssumption == MaxFaults \in Nat

VARIABLES
  pc,       \* the next operation of the control server
  hw,       \* GpioRobotController.drive_enabled
  live,     \* directory contents seen by the process
  durable,  \* directory contents certain to survive a power loss
  faults,   \* failed operations of the transaction in progress
  told      \* what the operator may rely on, for the properties only

latchVars == <<pc, hw, live, durable, faults, told>>

\* drive-latch.json: absent (a unit never released), valid, or unreadable.
\* Records of the earlier per-role format count as "absent" when they are all
\* enabled and as "corrupt" when they are not: only the next write differs.
Latches == {"absent", "on", "off", "corrupt"}
Disks == [latch: Latches, marker: BOOLEAN]

-----------------------------------------------------------------------------
(* The operations of each transaction, by program counter.  A write is an  *)
(* _atomic_replace: it leaves the directory alone when it fails, and is    *)
(* followed by a directory fsync that may fail on its own.                 *)

\* [entry written, its content, the fsync that follows, where a failure goes]
Writes == [
  hold_write   |-> [entry |-> "latch",  to |-> "off", sync |-> "hold_sync",   fail |-> "hold_failed"],
  begin_write  |-> [entry |-> "marker", to |-> TRUE,  sync |-> "begin_sync",  fail |-> "undo_hw"],
  on_write     |-> [entry |-> "latch",  to |-> "on",  sync |-> "on_sync",     fail |-> "undo_hw"],
  unlink       |-> [entry |-> "marker", to |-> FALSE, sync |-> "commit_sync", fail |-> "undo_hw"],
  undo_marker  |-> [entry |-> "marker", to |-> TRUE,  sync |-> "undo_marker_sync", fail |-> "undo_write"],
  undo_write   |-> [entry |-> "latch",  to |-> "off", sync |-> "undo_sync",   fail |-> "refuse"],
  boot_write   |-> [entry |-> "latch",  to |-> "off", sync |-> "boot_sync",   fail |-> "idle"]]

\* Where a directory fsync goes when it succeeds and when it fails.
Syncs == [
  hold_sync        |-> [ok |-> "held",       fail |-> "hold_failed"],
  begin_sync       |-> [ok |-> "on_write",   fail |-> "undo_hw"],
  on_sync          |-> [ok |-> "on_hw",      fail |-> "undo_hw"],
  commit_sync      |-> [ok |-> "enabled",    fail |-> "undo_hw"],
  undo_marker_sync |-> [ok |-> "undo_write", fail |-> "undo_write"],
  undo_sync        |-> [ok |-> "refuse",     fail |-> "refuse"],
  boot_sync        |-> [ok |-> "idle",       fail |-> "idle"]]

Steps == DOMAIN Writes \cup DOMAIN Syncs \cup
  {"idle", "hold_hw", "held", "hold_failed", "on_hw", "undo_hw", "enabled", "refuse",
   "down", "boot_load", "boot_hold"}

\* load_drive_enabled, lines 118-160: the marker, or a latch that is not a
\* valid "enabled" record, keeps the unit off; no record at all is enabled.
Loads(disk) == ~disk.marker /\ disk.latch \in {"absent", "on"}

\* Every directory a power loss may leave behind.
AfterPowerLoss ==
  {d \in Disks : /\ d.latch \in {live.latch, durable.latch}
                 /\ d.marker \in {live.marker, durable.marker}}

-----------------------------------------------------------------------------

LatchInit ==
  /\ pc = "down"
  /\ hw = TRUE
  /\ live \in Disks
  /\ durable = live
  /\ faults = 0
  /\ told = "nothing"

MayFail ==
  /\ faults < MaxFaults
  /\ faults' = faults + 1

\* _atomic_replace up to os.replace, and unlink (lines 208-247).  Removing
\* the marker is the commit point: from then until the answer, a restart may
\* find the unit enabled.
Write(p) ==
  /\ pc = p
  /\ \/ /\ live' = [live EXCEPT ![Writes[p].entry] = Writes[p].to]
        /\ pc' = Writes[p].sync
        /\ told' = IF p = "unlink" /\ told = "held" THEN "unlocking" ELSE told
        /\ UNCHANGED faults
     \/ /\ MayFail
        /\ pc' = Writes[p].fail
        /\ UNCHANGED <<live, told>>
  /\ UNCHANGED <<hw, durable>>

\* _fsync_directory, lines 258-266.
Sync(p) ==
  /\ pc = p
  /\ \/ /\ durable' = live
        /\ pc' = Syncs[p].ok
        /\ UNCHANGED faults
     \/ /\ MayFail
        /\ pc' = Syncs[p].fail
        /\ UNCHANGED durable
  /\ UNCHANGED <<hw, live, told>>

\* A validated relay_hold / drive_disable, or drive_enable, is taken up.
Receive ==
  /\ pc = "idle"
  /\ pc' \in {"hold_hw", "begin_write"}
  /\ faults' = 0
  /\ told' = IF told = "held" THEN "held" ELSE "nothing"
  /\ UNCHANGED <<hw, live, durable>>

\* disable_drive: the latch closes first, then the outputs are stopped.  An
\* output that raises leaves the latch closed and nothing persisted.
HoldHardware ==
  /\ pc = "hold_hw"
  /\ hw' = FALSE
  /\ \/ pc' = "hold_write" /\ UNCHANGED faults
     \/ pc' = "hold_failed" /\ MayFail
  /\ UNCHANGED <<live, durable, told>>

\* Variant: the enable is acknowledged with the pending marker still there.
EnableWithoutCommit ==
  /\ pc = "on_hw"
  /\ \/ hw' = TRUE /\ pc' = "enabled"
     \/ hw' = hw /\ pc' = "undo_hw"
  /\ UNCHANGED <<live, durable, faults, told>>

\* enable_drive, or a refusal because a controller fault is latched.
EnableHardware ==
  /\ pc = "on_hw"
  /\ \/ hw' = TRUE /\ pc' = "unlink"
     \/ hw' = hw /\ pc' = "undo_hw"
  /\ UNCHANGED <<live, durable, faults, told>>

\* Variant: the rollback does not create the marker again.
UndoWithoutMarker ==
  /\ pc = "undo_hw"
  /\ hw' = FALSE
  /\ pc' = "undo_write"
  /\ UNCHANGED <<live, durable, faults, told>>

\* _rollback_failed_drive_enable, lines 789-804: the hold is tried first and
\* the persistence steps follow whatever became of it.
UndoHardware ==
  /\ pc = "undo_hw"
  /\ hw' = FALSE
  /\ pc' = "undo_marker"
  /\ UNCHANGED <<live, durable, faults, told>>

\* The acknowledgement of a transaction.  A refused enable leaves the unit
\* held, by _rollback_failed_drive_enable; a hold that is rejected because it
\* was not recorded adds nothing to what the operator knew.
Reply ==
  /\ \/ pc = "held" /\ told' = "held"
     \/ pc = "enabled" /\ told' = "enabled"
     \/ pc = "refuse" /\ told' = "held"
     \/ pc = "hold_failed" /\ told' = told
  /\ pc' = "idle"
  /\ UNCHANGED <<hw, live, durable, faults>>

\* The process is killed, or exits; the directory stays as the system sees it.
Kill ==
  /\ pc' = "down"
  /\ UNCHANGED <<hw, live, durable, faults, told>>

PowerLoss ==
  /\ pc' = "down"
  /\ live' \in AfterPowerLoss
  /\ durable' = live'
  /\ UNCHANGED <<hw, faults, told>>

\* build_robot_controller and start(): a new controller is not latched.
Boot ==
  /\ pc = "down"
  /\ pc' = "boot_load"
  /\ hw' = TRUE
  /\ faults' = 0
  /\ UNCHANGED <<live, durable, told>>

\* restore_persisted_drive_latch, lines 939-977, before the socket is open.
\* An unreadable record holds the unit off whatever it says.
Restore ==
  /\ pc = "boot_load"
  /\ \/ Loads(live) /\ pc' = "idle" /\ UNCHANGED told
     \/ ~Loads(live) /\ pc' = "boot_hold" /\ UNCHANGED told
     \/ pc' = "boot_hold" /\ told' = (IF told = "enabled" THEN "nothing" ELSE told)
  /\ UNCHANGED <<hw, live, durable, faults>>

\* Variant: the record is rewritten at boot, the hardware is not latched.
RestoreRecordOnly ==
  /\ pc = "boot_hold"
  /\ pc' \in {"boot_write", "down"}
  /\ UNCHANGED <<hw, live, durable, faults, told>>

\* The hold at boot; if it fails, run() stops the controller and exits.
RestoreHold ==
  /\ pc = "boot_hold"
  /\ hw' = FALSE
  /\ pc' \in {"boot_write", "down"}
  /\ UNCHANGED <<live, durable, faults, told>>

LatchNext ==
  \/ Receive \/ HoldHardware \/ EnableHardware \/ UndoHardware \/ Reply
  \/ \E p \in DOMAIN Writes : Write(p)
  \/ \E p \in DOMAIN Syncs : Sync(p)
  \/ Kill \/ PowerLoss \/ Boot \/ Restore \/ RestoreHold

LatchSpec == LatchInit /\ [][LatchNext]_latchVars

-----------------------------------------------------------------------------
(* Properties.                                                             *)

LatchTypeOK ==
  /\ pc \in Steps
  /\ hw \in BOOLEAN
  /\ live \in Disks /\ durable \in Disks
  /\ faults \in 0..MaxFaults
  /\ told \in {"nothing", "held", "unlocking", "enabled"}

\* Once a hold was acknowledged, or an enable refused, no crash at any later
\* point before an enable commits, and no failed enable, lets a boot come up
\* enabled: relay_hold survives restarts and power losses.
HoldSurvivesCrash ==
  told = "held" => \A d \in AfterPowerLoss : ~Loads(d)

\* While commands are served, the hardware latch is closed if the operator
\* was told of a hold or of a refused enable, also across restarts.
HardwareAgrees ==
  pc = "idle" /\ told = "held" => ~hw

\* The converse: an acknowledged enable is in force, and survives a crash
\* until the next transaction begins.
EnableSurvivesCrash ==
  pc = "idle" /\ told = "enabled" => hw /\ \A d \in AfterPowerLoss : Loads(d)

\* A refused enable of a held unit, whose marker was already removed when the
\* commit failed: no boot that follows finds the unit enabled, whatever else
\* of the persistence failed (docs/phase0_linux_services.md, "Persistent drive
\* latch": a partial persistence failure does not unlock the next boot).  With
\* more than two failures in one transaction it does.
FailedEnableNeverUnlocks ==
  pc = "refuse" /\ told = "unlocking" => \A d \in AfterPowerLoss : ~Loads(d)
=============================================================================
