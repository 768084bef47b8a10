# HANSEL_MESH: specifications, model checking and proofs

HANSEL_MESH drives a chain of rescue-robot relays (a head and nodes 1 to 3)
over a B.A.T.M.A.N. mesh.  An operator's laptop sends UDP commands, each robot
serves them with a motor controller that several threads share, nodes are
released one by one to stay behind as relays, and field nodes store rescue
requests and forward them to the rescue team.  This directory holds TLA+
models of that code, TLC configurations that check them on small instances,
and proofs that TLAPS checks for every value of the constants.

Run `tlc -config <file>.cfg <module>` for a check and `tlapm <module>.tla` for
a proof.  `PROJECT.json` lists the runs, maps every definition to the source
lines it models, and lists the hazards of the code with the properties that
cover them.

## 1. The system

| Part | State it keeps | Operations | Talks to |
|---|---|---|---|
| `common/control_protocol.py` ProtocolValidator | per (source, session): last number, best clock offset, last seen | validate, forget the oldest | server core, for every datagram |
| `robot/mesh_control_server.py` ControlServerCore and run() | remembered stops, watchdog time, socket | decode, validate, apply, acknowledge, watchdog stop | client by UDP; motor controller by calls |
| DriveLatchStore (same file) | `drive-latch.json`, `drive-enable.pending` | save, begin/commit enable, roll back, load at boot | file system; server core |
| `robot/motor_driver.py` GpioRobotController | target, direction, duty, latch, fault, running flag | stop, motion, hold, enable, servo presses; encoder and PID threads | GPIO; server main loop |
| `controller/mesh_control_client.py` | sequence number, waiters, active targets, released nodes | send, wait for ACK, release a node, live and line loops | servers by UDP, quality supervisor |
| `controller/quality_supervisor.py` | hysteresis, last decision, worker thread | sample, score, publish | client loop |
| `rescue-network` field web, forwarder, receiver | two SQLite tables | submit, claim, deliver, retry, recover; store once | HTTP over the mesh |
| `sensors/radar_supervisor.py`, watchdog, child processes, locks | epoch, children, manifest | start, verify, monitor, restart, shut down | capture and viewer processes |
| `sensors/mission_log.py` | bounded queue, log file | submit, critical write, close | capture |
| `sensors/radar_capture.py`, `ti_mmwave.py`, `raw_capture_index.py` | byte buffer, raw file, chunk index, fault counters | store, resynchronise, decode, record, report health; inspect | UART, mission log |
| `monitor/radar_front.py`, `radar_scene.py` | reader position, tracks, hazard latch | tail, detect gaps, track, poll | mission log, operator's browser |
| CameraProfileSync (client) and the camera handler (server) | applied and pending profile; override file | ask, confirm, retry; install and restart | each other by UDP |
| `listen/*` | sampling flag, handled sessions | start, stop, send results | UDP broadcast, relayed once |
| dashboard, metrics, scripts, services | none that matters here | | |

What makes each part hard:

* **Control protocol**: datagrams are lost, repeated and reordered; the two
  clocks have unrelated origins; the table forgets sessions.  Correct means: a
  motion is applied in order and fresh, a session begins with a stop, and a
  prompt command is not refused.
* **Drive latch**: an enable is three steps over two files and one GPIO latch,
  any of which may fail or be cut short by a kill or a power loss.  Correct
  means: an acknowledged hold is in force until an acknowledged enable.
* **Motor controller**: three threads, one lock that covers only part of the
  shared state, a watchdog that counts only applied commands.  Correct means:
  a held unit does not turn its wheels, every target is watched, silence and
  faults bring the robot to rest.
* **Release of a node**: two robots and a client over a lossy network, a press
  that cannot be undone.  Correct means: pressed only while everything is at
  rest and the released node is held.
* **Rescue delivery**: two databases, a forwarder and a network that fail
  independently.  Correct means: a request the phone was told is stored
  reaches the rescue team exactly once.
* **Radar stack**: a supervisor, two children, a watchdog and a viewer retry
  with shutdown at any moment.  Correct means: the UART has one user, no
  capture writes to an epoch that is closed, the viewer shows verified data,
  and a run that is told to end ends.
* **Mission log**: a bounded queue with critical writes.  Correct means: the
  file has no gap, and a critical event is on the disk or its sender is told
  otherwise.
* **Radar capture**: a byte stream that loses pieces, three files that grow one
  after the other, a signal in any step.  Correct means: a run that says it was
  clean left nothing out, and what was logged can be decoded again.
* **Radar view**: tracks that are moved, merged and expired between records and
  polls, over a log that may lack records.  Correct means: red and normal rest
  on what was seen, red does not vanish, LIVE hides no loss.
* **Operator loop**: decisions of a worker that may have died, keys at any
  time, a release in between.  Correct means: what moves the robot or releases
  a node rests on a fresh enough observation, and a stop stands.
* **Camera profile**: requests and answers that are lost or late while the
  desired profile changes.
* **Listen**: start and stop messages that overtake each other.

## 2. Plan

Modules in order.  Each has a type invariant, properties aimed at the hazards
above, and is written without recursive operators so that it can be proved
about.

1. `ControlProtocol` - done, proved.
2. `DriveLatch` - done, proved.
3. `MotorController` - done, safety proved, liveness checked.
4. `RescueDelivery`, refining the abstract `RescueService` - done, safety and
   the refinement proved, liveness checked.
5. `DetachSequence`: the client's release sequence against the servers' gates,
   resting on the guarantees of 1 to 3 - done, safety proved, liveness checked.
6. `RadarSupervisor` with its watchdog, children, lock and lease - done, safety
   proved, liveness checked.
7. `MissionLog`: the writer - done, safety proved, liveness checked.
8. `RadarCapture`, refining the abstract `RecordStream`, which is what the log
   promises its readers - done, proved, the refinement included.
9. `RadarView`: the follower, the scene and the polls on top of `RecordStream` -
   done, proved.
10. `OperatorLoop`: the live loop and the quality worker - done, proved.
11. `CameraProfile` - done; its one property is violated by the code.
12. `ListenMonitor`: not begun.

Every safety property that a run checks is proved; what the runs check beyond
the proofs is liveness.  Worth proving next: that MissionLog and DetachSequence
implement abstract services of their own, as RescueDelivery and RadarCapture do.

## 3. Modules and how they correspond to the code

### ControlProtocol

One robot's ProtocolValidator and every session that talks to it.  `sessions`
is `_sessions`; `Absent` stands for a key that is not in it.  `sent` keeps
every datagram ever sent and `Deliver(m)` validates any of them at any time,
which is loss, delay, repetition and reordering at once; its three disjuncts
are the outcomes of `validate`: an early rejection, a late or repeated stop
that is applied all the same, and a fresh datagram.  `Remember` includes the
eviction that `_remember` performs.  `clock` is real time and `Origin[k]` the
difference of the two machines' clocks, which the receiver cannot see.
`valid` stands for the field checks.  `Send` is `ControlTransport.send_one`.
`history` is a ghost: what the gate remembered of a session since it entered
the table.

### DriveLatch

One Pi.  `pc` walks through the operations of the hold, enable, rollback and
restore transactions; the tables `Writes` and `Syncs` say for each file
operation where success and failure lead.  `live` is the directory as the
process sees it, `durable` what the last fsync made certain, and a power loss
leaves each entry with either content.  Any operation may fail, at most
`MaxFaults` times within one transaction.  `told` is a ghost: what the
operator may rely on from the acknowledgements.

### MotorController

One robot's server main loop (`server`, `cmd`, `applied`, `armed`, `overdue`)
and the encoder and PID threads (`loop`, `pid_pwm`) over the shared target,
H-bridge and duty.  A section under `target_lock` is one action, everything
outside it is split at each access to shared state: the latch check of
`_set_drive_target`, the duty the PID loop writes after it released the lock,
the four steps of the fault handler.  A thread may fail anywhere in its loop
body, the process may be stopped or crash, and a crash leaves the pins as they
were until the service starts again.  With `GpioRaises` a GPIO call of a
motion or stop may raise halfway.  Both wheels are one, and speeds are zero or
not.

### RescueService and RescueDelivery

`RescueService` says what the rescue network promises: sets of requests that
are being stored, stored, promised to the phone, being received, received,
acknowledged, confirmed and given up, and the order in which a request may enter
them.  Its one condition is `answersFirst`, the nodes that answer before they
commit: there an answer vouches for an open transaction, elsewhere only for a
committed row.  `RescueDelivery` is the
code: the field application's transaction (`intake`), the forwarder process
with its three kinds of transaction (`forwarder`, `batch`, `current`,
`answer`), the columns of the field table (`status`, `due`, `stale`,
`retries`, `born`), the posts on their way (`posts`, one slot each) and the
receiver's table (`rows`, as a number of rows, so that a second one can be
seen).  A post that timed out keeps its slot and is handled by the receiver
all the same, concurrently with its retry.  A database transaction takes
effect at its commit, and the receiver's INSERT waits for the one writer SQLite
admits.  A request is given up when the receiver refuses its data; the model
lets any post be refused that way, because a status like 404, or a redirect, is
permanent to `classify_response` whoever sends it.  A form that is sent twice is two
requests, as in the code, where each submission draws a new request_id.

`Abstract` maps the detailed state to the abstract one: a request is being
stored or received while a transaction with it is open, stored and received when
it has a row, acknowledged from the answer's arrival on, and confirmed and given
up are the statuses delivered and failed.

Which comes first, the session's commit or the answer, is the framework's
choice: FastAPI from 0.106 up to 0.117 ends the session's dependency, and so
commits, before it sends the answer, from 0.118 on it does so afterwards, and
`pyproject.toml` admits any version from 0.110 on.  `answersFirst` is chosen at
the start and kept.  The guarantee differs: `AnswersHold` says that on a node
that commits first an answer stands for a row that is there.  On one that answers
first it need not (section 8), but nothing worse happens: such an answer was
about a transaction that was open, what is stored still stays stored, once, and
is delivered or given up.

### DetachSequence

The operator's client as a program (`client` is where `send_detach_release` and
the loop around it are) against the servers of all targets.  `Deliver(m)` is
`process_datagram` with its outcomes: applied, refused, or raised on the way.
A delivered datagram stays on the network and a pending one may never be
delivered, so loss, delay, repetition and reordering are all there; an ACK is
a fact about the number the client waits for (`awaited`, `acks`), and Faulted
may happen at any wait, which is a timeout, a lost ACK or a rejection.  A burst
to several targets has one number, because a robot compares only what is
addressed to it.  A session that is not known to a robot has mark 0; `recent`
is `_recent_stops`, which only actuators read, and StopAges is the end of its
ten seconds.  Confirmed is the operator's word, or
`--assume-detach-on-actuator-ack`.

What it takes from the other modules: a datagram is applied in order or, a
stop, at any time (ControlProtocol); a hold that was acknowledged survives a
restart and an enable that failed does not release it (DriveLatch); a held
robot does not turn its wheels and the watchdog stops one that hears nothing
(MotorController).  Assumptions of its own: one client session, and a restart
that takes longer than a datagram lives - that a datagram may be replayed to a
restarted server is a limit the project documents
(`docs/phase0_linux_services.md:72-79`).

### RadarSupervisor

`pc` is the place in `run()`: each value is a state of `SupervisorState`, or a
point between two calls that can fail separately.  A child is in two
registries, `known` of the supervisor (`_owned_children`) and `owned` of the
process manager (`_owned_by_pid`); they differ while a viewer is launched but
not registered, and after a stop that failed halfway.  `viewer` is
`_active_viewer` or the one just launched.  A child has a role, the epoch it
serves, a state from starting to gone, and a `lease` that the supervisor holds
until it wants the child to go or dies itself.  `uart` is who holds the UART
lock: the supervisor while it resets and configures, then the capture, with a
gap between.  `ended` are the epochs of the manifest with an `ended_at`;
`verified` and `paths` say whose files `_verified_paths` and `_paths` name, by
number of the epoch.  `board` is fresh after a reset or after it was plugged
in, and used once it has been configured.

The watchdog is modelled by its verdict: frames arrived (a capture that
streams, or did), or they stopped, which is a fault of the board unless the
port is gone or the capture dead.  Any step of a run may fail (`Raise`, and the
failure branches), a signal or a kill may come at any place, children die, and
the cable is pulled and plugged.  A second run meets what the first left alive.
Only one run is there at a time: the owner lock is taken at its word.  Process
ids are used again.

### MissionLog

The state is that of `MissionLogWriter`: `queue`, `outstanding` and `nextSeq`
under one condition variable, and the writer thread, whose place is `w` and
which owns the file (`lines`, a `torn` rest, and how many lines are `durable`).
A section under the lock is one action.  `waiters` are the threads inside
`condition.wait()` that nobody has notified, the writer among them; `Notify`
wakes any one of them, which is all that Python promises of
`Condition.notify`.  A critical write is in three pieces: it is accepted, or it
waits for room and tries again with the number that is next by then (`at` is
capacity), and then waits for its event (`at` is confirm, `pending` the
number); a time-out may end either wait.  A write may fail before its newline
is complete, an fsync and the final close may fail, and `Fail` is the handler
that answers everybody.  `done` and `errors` are the events and the error field
of each pending write; `acked` is a ghost, the numbers that were returned.

All records have one size, so that `MaxQueue` stands for both bounds of the
queue.

### RecordStream and RadarCapture

`RecordStream` says what the readers of a radar's log rely on: the numbers of
an epoch follow each other, a refused record leaves its number unused, a reset
of the device opens an epoch, and "ok" means that every fault so far has been
reported by a record that was accepted.

`RadarCapture` is `capture_radar_uart`: `pc` walks through one pass of the
loop (read, raw write, hash, index line, decode, frames, health) and through
the end (footer, fsync, final record).  A packet is `PacketLen` pieces, so that
losing a piece shifts the stream as a lost byte does: a header that is out of
place, a length that runs into the next packet, and a damaged length are all
there.  `buffer` is the decoder's, and each iteration of `feed` is an action of
its own.  The parser has no checksum: a packet that the pieces of the next one
complete may parse as anything or fail (`Readings`), and when it parses the
decoder goes on behind the pieces it took, in the middle of the next packet.
The clean end survives that because what is left of the next packet begins no
packet, and throwing it away after the first decoded frame is a fault.  `batch`
and `kept` hold packets, not frame numbers: LoggedIsRaw says of a packet decoded
from two frames too that the raw stream has it.  `faults` counts what `_HealthFaultSnapshot` compares, `lastFaults`
the count at the last accepted report.  Interrupt is KeyboardInterrupt, which
the signal handlers of the CLI raise too; a write may be half done then.
`IndexHealthy` is the inspector of `raw_capture_index.py`, applied to the two
files.  A kill, or a writer that raises, is a behaviour that stops.

What the model shows besides: a signal between the raw write and the index line
leaves a footer and a final "ok" that the inspector refuses (`StreamHealthy`
fails), so CleanEndIsWhole speaks of ends by request or duration only; and a
frame that was decoded but not submitted at the signal is in no counter.

### RadarView

The capture is played by RecordStream, so that the view is checked against
everything a capture may write and not against one capture.  `unread` is the
end of the log that the follower has not read; Attach skips what is there.
Ingest is `RadarFrontState.ingest` with the whole of
`RadarSceneEstimator.ingest`: windows for the dropped frames, association of
each point with the nearest track, creation, expiry.  Poll is `snapshot`, which
latches the hazard and forgets the scene when it blocks.  Distances are on one
axis; a frame's `sight` is what it shows.  Expiry and the order in which a
packet's returns are taken in are recursive functions, so that they can be
proved about.

`windows`, `alive`, `alone`, `since` and `missed` are ghosts, kept without a
look at the tracks: what the latest three frames saw and how long ago, what was
seen no longer ago than a track lives, whether one near object is all that was
seen, what happened since the latest poll, and whether a frame is missing.
LevelIsEarned and RedStays relate the level to them alone.  They are as strong
as the code is:

* A level other than UNKNOWN needs two of the three latest frames, but those
  need not be the latest two, and what they saw need only be within 18 cm of
  each other: a track follows whatever return is near enough.
* A red view ends by itself when the object is gone for as long as a track
  lives (`since.lapsed`), when a return between 13 and 31 cm leads its track
  away (`since.far`), or when the view has to forget (`since.forgot`).
* The promise that a near object does not show as NORMAL holds for one object
  (`alone`).  With a second one it does not: a far point listed before a near
  one continues the near track, and the near one opens a track of its own
  (`radar_scene.py:464-495`), so that three frames in a row with a point at
  8 cm may be shown as NORMAL, where `docs/radar_front_view.md` promises red
  after two.  Packets that list the nearest point first do it as well, with
  more points: <<1, 5, 9, 40>>, <<9, 40>>, <<1, 40>>, <<5, 40>>.  To see either,
  drop `alone` from LevelIsEarned and give MCRadarView such sightings.

### OperatorLoop

The worker thread (`probe`, `danger`, `warn`, `latest`, `success`) and the loop
(`pc` is top, at the wait for a key, in a release sequence, or ended).  Ages are
counted in ticks, from when an update began, as the code does.  An update may
fail, or hang for ever: one that takes longer than `ProbeMax` never ends.  Top
is the head of an iteration (read the decision, arm, stop, decide to release),
and each kind of key is an action.  A release sequence is DetachSequence, here by
its outcome.  `motion` is the last motion command, by its speed: full, slow or
stop.  `seen` and `basis` are ghosts: the last observation and the run of
dangers it ends, and the one the loop's decision rests on.

Two things the model shows that its properties allow for: the age of a sample
counts from the end of the update that took it, so that a decision may rest on
an observation `ProbeMax` older than the stale limit says; and one observation
of danger may justify two releases when the worker hangs, because the
cooldown of 6 s is shorter than the stale limit of 8 s.

### CameraProfile

`CameraProfileSync.update` once per iteration, its pending request with its
waiter (`answer`), and the head's handler by its outcomes.  Datagrams are lost
or late, and a late request is refused, as ControlProtocol has it.  In the
whole system `desired` is the `camera_profile` of OperatorLoop's decision: 0 for
GOOD, 1 for WARN, 2 otherwise; here it changes at will.

## 4. Runs

| Run | Instance | Shows |
|---|---|---|
| `control` | 2 sessions, table of 1, 3 and 2 datagrams, 4 clock values, TTL 1, origins -7 and 2 | order, freshness in both directions, and that a session begins with a stop, again after an eviction or a restart |
| `drive_latch` | at most 2 failed operations per transaction | acknowledged hold and enable survive kills, power losses, faults |
| `motor_control` | all commands, both threads, crashes | hold, watchdog, silence and faults bring the robot to rest |
| `rescue_delivery` | 2 requests, 1 phone that waits, 2 posts at a time, 2 failures of any of five kinds; both nodes commit first or both answer first | implements RescueService, one row per request, every request settles |
| `detach_release` | 3 targets, one release, one other command, one restart | pressed once and only at rest, a released node stays, an ended session is at rest |
| `radar_stack` | 3 process ids, 3 faults, 2 runs | one user of the UART, closed epochs stay closed, recovery configures a fresh board, RUNNING and the viewer mean what they say; a signal ends the run, nothing is left alive, a fault leads back to RUNNING or to the wait for a reconnection |
| `mission_log` | 3 threads, a queue of 2, 4 records | no gap in the file, what was returned is on the disk, nobody is forgotten or sleeps through a wake-up, a close is carried out |
| `radar_capture` | 3 frames of 3 pieces, counter modulo 8, one loss or bad frame, one reset, one refusal, a signal anywhere | a clean end left nothing out, what was logged can be decoded again, implements RecordStream |
| `radar_view` | 3 frames, 6 sightings, tracks that live 1 tick, one loss or refusal, one record of lag | red and normal are earned, red stays, LIVE hides no loss |
| `operator_loop` | 2 nodes, holds of 1 and 2 ticks, stale limit 3, updates of up to 2, cooldown 2 | motion and releases rest on fresh observations, a stop stands |
| `operator_raw_danger` | holds of 1 and 2, stale limit 2, updates of up to 1 | violation: a raw DANGER after a lasting warning does not stop the robot |
| `camera_profile` | 3 profiles, 4 requests, 3 changes | violation: the head keeps a profile that nobody wants any more |

Why the bounds are enough: an order violation needs two datagrams and the stop
that opened the session, a freshness violation a stop and a late one,
so three datagrams and delays of 0 to 3 reach every case of the comparisons at
TTL and TTL+1; an eviction and re-entry needs one session more than the table
holds.  The latch transactions are finite and are explored completely; two is
the largest number of faults for which the code keeps its promise (section 8).  The motor model has no bound: its state
space is finite and explored completely.  In `rescue_delivery` two requests
make a batch that can be cut short after its first member, two slots let a
late handler race the retry of the same request, and two failures combine any
two of crash, loss, timeout, foreign answer and aborted pass; one phone that
waits is enough, for the two requests are alike and what a phone is told is read
by nothing else, and the two installs are the two orders of commit and answer
(the proofs cover a different order on each node).  In `detach_release` the third target is
the bystander whose missing acknowledgement, or late motion, must hold the
press back; the proofs cover any number of targets, commands and restarts and
any map of actuators, chains of releases included.  In `radar_stack` three ids are
an orphan of the first run and a pair of the second, and three faults let an
attempt fail, a second one meet an unplugging, and its clean-up fail; the
proofs cover any number of each.  In `mission_log` a queue of two holds one
record in the writer's hands and one behind it, so that a third thread waits
for room while a second waits for its event; four records are enough for a
sample to overtake a critical write that waits, and again after the wake-up.
In `radar_capture` a packet of three pieces has a header, a middle and an end
to lose, a third frame lets the decoder find its place again after the second
was hurt, and the counter wraps, resets and jumps within its eight values; the
proofs cover any lengths, counters, reads and numbers of faults.  In
`radar_view` a track needs two frames to be confirmed and three fill its
window; the sightings put one object inside the entry limit, between entry and
exit, and beyond, with a second object and a heatmap cell to confuse it; the
proofs cover any frames, sightings, gaps, age limits and lags.  In
`operator_loop` every clock runs past the limit it is compared with; the proofs
cover any limits and any order of nodes.

Each property of a passing run has a mutant in `PROJECT.json`: a plausible bug
in the definition that models the code, kept in the module as a `Variant` or
`Mutant`, under which TLC finds that property violated.

## 5. Fairness

`ControlProtocol`, `DriveLatch`, `RadarCapture`, `RadarView`, `OperatorLoop` and
`CameraProfile` state safety only and assume none.
`MotorController` assumes that the main thread and the two loops take the
steps they can (`WF` on `Server` and on each `Thread`), that time passes, and
that a crashed service is restarted (`Restart=on-failure` in
`services/hansel-control@.service`).  Faults, crashes and commands carry no
fairness.  `RescueDelivery` assumes that the forwarder and the handlers run and
are restarted (`Restart=always` in the systemd units), that a transaction that
was begun ends, and that time passes.  Failures are bounded by `MaxFaults`:
Settles says what happens once they cease, and needs no stronger fairness than
that.  `DetachSequence` assumes the watchdog of each robot and nothing of the
network or the client.  `RadarSupervisor` assumes that the supervisor and each
child take the steps they can, and that a board that was unplugged is plugged
in again; the faults are bounded, so that Recovers speaks of what follows the
last one.  Where no reset tool is there, the code waits for somebody to pull
the cable: nothing makes that happen, and Recovers counts the wait as an
outcome.  `MissionLog` assumes that the writer thread takes the steps it can, a
failing file operation included, and nothing of the threads that call it.

## 6. Proofs

| Module | Theorems | Argument |
|---|---|---|
| `ControlServerProofs` (the gate) | TypeCorrect, OrderPreserved, FreshnessBounded, MotionNeedsStop, PromptAccepted | `IInv`: for a key in the table the watermark bounds every remembered number, the best offset is the smallest delay remembered, and the history is ordered and fresh; a key outside it has no history. The properties alone are not inductive because they say nothing of the table a decision is taken from. PromptAccepted is the converse of freshness, and needs that watermark and best offset are reached by something that was applied, not only that they are bounds. |
| `ControlServerProofs` (the latch) | LatchTypeCorrect, HoldSurvives, HardwareFollowsHold, EnableSurvives, RefusalKeepsHold | `LatchInv`: at each operation, which of two independent guards (the marker, the disabled record) is certain in memory and on disk, as a function of the faults used so far. |
| `MotorControllerProofs` | TypeCorrect, HoldKeepsStill, WatchdogCovers | `HeldInv`: a hold closes the latch before it stops the outputs, so no motion is between its check and the H-bridge when the hold is acknowledged. `WatchInv`: a target is armed or about to be by the acknowledgement in progress. |
| `RescueDeliveryProofs` | TypeCorrect, StoresOnce, ImplementsService, AnswersAreKept | `SInv`: a handler with an uncommitted row is the only writer and nobody committed that row before it; the lookup alone would not do. `CInv`: a chain of links, each naming a row the one before it wrote (transaction, claimed batch, post, finished handler, awaited post), and that an answer is in hand only until it is recorded. Every step then maps to one of RescueService or to a stutter; at an acknowledgement the handler's transaction is either committed or, on a node that answers first, open. `WInv` adds what an answer is worth on a node that commits first |
| `DetachSequenceProofs` | TypeCorrect, PressesOnce, StaysDetached, PressesAtRest | `IInv`: what an acknowledgement means is a fact about the network as well as about the robot. A target that acknowledged the stops has nothing newer on the network that could move it (`AtRest`), which its later restart or any repetition keeps; and a press that a server may still act upon is the one of the release in progress or of the release that ended the session (`SafePress`). The robots' steps keep this by one lemma (`Calm`, `Honest`). |
| `RadarSupervisorProofs` | TypeCorrect, OneUser, EndedStaysSilent, RecoversFresh, RunningWhole, ShownIsVerified | `IInv`: who may hold the UART lock at each place of the run and that a child past its start holds it (`Locking`); what the two registries contain at each place, and of which role and epoch (`Children`); which epoch is open, verified and named by the paths at each place (`Epochs`); that a recovery reaches the configuration only past a reset or an absence (`Board`). The properties say this of a few places only, and a step into those places needs it of the others. |
| `MissionLogProofs` | TypeCorrect, NumbersHold, ReturnsDurable, NobodyForgotten, WakeupsReach | `IInv`: the queue carries on the numbering where the file ends, with the record in hand between the two (`Numbers`); when the writer holds a record and why it ends (`Holding`); an event set without an error lies below what is durable (`Disk`); who may be asleep (`Sleeping`). A record in the queue finds its line only through all of these. One notify is enough because a thread waits only while there is no room, and then the writer has work and is awake (`WakesWriter`). |
| `MissionLogProofs` (the view) | ViewTypeCorrect, LevelEarned, RedStaysRed, LiveWhole | `ViewInv`. Of the log: in every epoch record numbers and frame numbers go in step, on the log and between follower and capture (`Numbered`), so that a frame that is missing is a gap in the numbers, and a record that says "ok" has nothing left to report (`Honest`). Of the scene: a track's hits are the latest frames, its latest hit is a return of that frame at the track's place and of its age, and the frame of the hit before saw something near enough (`Earned`); what lives was seen of late (`Lives`); only a red view has a latched track, and a red view has one, unless something happened that may end it (`TracksEarned`, `RedHeld`); one near object has one track (`OneObject`). Each return of a packet keeps this (`UpsertPoint`, `UpsertCell`), and a lemma about the fold carries it through the packet. |
| `RadarCaptureProofs` | TypeCorrect, CleanEnd, LogIsBacked, KeepsItsPromise | `IInv`: at each place, how far file, hash, count and index have got (`FileInv`); which faults a report has covered (`HealthInv`); that what was logged can be decoded from the file (`ReplayInv`); and that the buffer mirrors the raw stream from some position on, while every packet that began before it and may be whole was decoded, or reaches beyond it and was cut into by a packet that parsed with its pieces (`DecoderInv`): no such packet reaches over a header, and once it is cut into, the decoder cannot empty its buffer without a fault. CleanEndIsWhole is the last of these with an empty buffer; it says nothing of the decoder's place in the middle of a run, and is not inductive. Every step then maps to one of RecordStream or to a stutter. |
| `OperatorLoopProofs` | LoopInvariant, DriveEarned, StopHolds, DetachEarned | `Inv`: the worker's counters are those of the history, so that a reported DANGER has lasted its hold and any other decision that lets the robot move was taken from a danger younger than that (`WorkerInv`); a blocked loop has stopped, has nothing to repeat and stays so through a release (`LoopInv`). The age of an observation is bounded only together with the age of the last success. |

Assumptions: the named constant assumptions of each module; `MaxFaults <= 2`
for the last four latch theorems; `~GpioRaises` for WatchdogCovers.

Two things about the proofs of recursive functions.  Every such function of the
models is a CHOOSE, so that a proof shows first that a function with those
equations exists (`Iterated`, from the existence of the function up to each
length), and the induction behind it is a least counterexample (`Steps`, from
the well-foundedness of the order on the naturals).

Only model-checked: SilenceStops, FaultStops, Settles, EndsAtRest, StopEnds,
NoneLeftBehind, Recovers and Drains.  All are liveness under fairness, which the
prover does not handle.

## 7. What is not modelled

A power loss under the rescue databases (`synchronous=NORMAL` may undo the last
commits; the model's crash is the death of a process), steps of the wall clock,
the forwarder's health summary and webhook, authentication of posts (an
outcome of OtherAnswer).  A second operator session during a release (the server's precondition looks
only at the requesting session's stop), and replay to a server that has just
restarted.  Of the radar stack: how the watchdog reads the growing files and
counts frames, the port inventory's serial numbers, the manifest's wording, the
escalation from signal to kill within one stop, and delays.  An unplugging that
is over before the next look is not seen as an absence, in the code and in the
model alike.  Of the mission log: records of different sizes, the statistics, the
binding to one mission, and the one-shot readers of a log.  Of the capture:
writes to the raw files that fail, a buffer that outgrows its 8 MiB, the
allowances for elided or padded TLVs, a damaged length that is still in range, and a
read that ends inside a magic word: a header is one piece, so that the seven bytes
kept of a cut magic word are never the beginning of one (in the code, whatever is
in the buffer at the end makes the final status "degraded").  Of the view: demo and replay sources, a
log that is rotated (a capture opens a new file for each epoch), the latch on
damaged lines, the history of occupied cells, the HTTP server.  Of the operator
loop: a session without a supervisor or with the fallback one, the one-shot
command line, the wall clock that the hysteresis reads, cached ping and batman
values (up to 3 s old, they count as observed when they are used), and the
camera restart script of the unsafe mode.  Listen is not modelled: its
measurement sessions share nothing with the rest of the system but the network.  Field-type checks of datagrams, legacy plaintext commands, legacy per-role
latch records, servo timing, PID arithmetic, and camera streaming.  Shell scripts, dashboards and metrics keep
no state of their own; the TLV decoding and schema checks are stateless data
handling.

## 8. Known divergences

Two are checked by runs that expect a violation, with the quoted lines under
`findings` in `PROJECT.json`: `operator_raw_danger` and `camera_profile`.  The
others are stated in the modules, or seen on a changed instance:

* Three failed file operations in one enable leave a unit that boots enabled
  (`robot/mesh_control_server.py:807-823` against
  `docs/phase0_linux_services.md:109-112`): MCDriveLatch with `MaxFaults = 3` and
  INVARIANT FailedEnableNeverUnlocks.
* A motion that passed the latch check just before a control loop failed is
  applied after the fault handler stopped the outputs
  (`robot/motor_driver.py:546` against `docs/phase0_linux_services.md:139-141`),
  until the watchdog stops the robot: MCMotorController with INVARIANT
  FaultStopsOutputs.
* A GPIO call that raises in the middle of a motion leaves a target that no
  watchdog clears (`robot/mesh_control_server.py:1146` against
  `docs/motor_control_quickstart.md:231`): MCMotorController with
  `GpioRaises = TRUE` and INVARIANT TargetIsWatched.
* Failure 1025 of a post is not put back to pending, because
  `5.0 * 2 ** 1024` overflows before the cap is applied (`retry.py:48` against
  `docs/delivery-status.md:25`): MCRescueDelivery with one request, one post,
  `FaultKinds = {"loss"}`, `FirstOverflow = 2`, and PROPERTY AlwaysRetried.
* With FastAPI from 0.118 on, which `rescue-network/pyproject.toml:9` admits, the
  answer is sent before the session commits (`field_app.py:70`,
  `receiver_app.py:77`), so that a crash in between leaves a phone that was told
  its request is stored (`field_app.py:89`, "respond as soon as it is stored"), or
  a request marked delivered that the team does not have
  (`docs/delivery-status.md:9`) and that is never sent again: MCRescueDelivery
  with INVARIANT PromisedIsStored, or DeliveredIsReceived.
* A second object may hide a near one (RadarView, above).
