------------------------------ MODULE RadarView ------------------------------
(***************************************************************************)
(* The front radar's operator view: the follower of the mission log        *)
(* (monitor/radar_front.py), the scene of short-lived tracks with its      *)
(* hazard level (monitor/radar_scene.py) and the poll of the browser.      *)
(* What may be in the log is module RecordStream.                          *)
(*                                                                         *)
(* A frame comes with what the radar sees: point reflections and heatmap   *)
(* cells by their distance straight ahead, in cm and in the packet's       *)
(* order, and whether the frame fits the clutter model (bound).            *)
(***************************************************************************)
EXTENDS Integers, Sequences, FiniteSets

CONSTANTS
  Gaps,                         \* see RecordStream
  Sightings,                    \* what a complete frame may show
  Ttl, StaleAfter, FaultAfter,  \* TRACK_TTL_S, stale_after_s, fault_after_s in ticks
  MaxFrames,                    \* bound: frames of the capture
  MaxHarm,                      \* bound: losses, bad frames and refused records
  MaxUnread                     \* bound: records the follower lags behind

ASSUME ViewAssumption ==
  /\ {Ttl, StaleAfter, FaultAfter, MaxFrames, MaxHarm, MaxUnread} \subseteq Nat
  /\ 0 < Ttl /\ Ttl <= StaleAfter /\ StaleAfter < FaultAfter
  /\ Gaps \subseteq Nat
  /\ Sightings \subseteq [points: Seq(Nat), heat: Seq(Nat), bound: BOOLEAN]

VARIABLES
  epoch, seq, owed, faulty, cloud, rec,   \* the capture (RecordStream)
  sent, harms,     \* how much it did
  unread,          \* records between the follower and the end of the log
  attached,        \* the follower has opened the log
  last,            \* _last_sensor_seq_by_producer, of the latest producer
  age,             \* ticks since the latest complete frame; None without one
  formatNone,      \* that frame has no point cloud
  degraded,        \* _capture_degraded_reason is set
  sceneEpoch,      \* _scene_producer_id
  producer,        \* of the estimator
  trusted,         \* _calibration_status
  tracks,          \* the estimator's
  shown,           \* what the latest poll got
  \* history, for the properties only:
  windows,         \* what the latest three frames saw, and how long ago
  alive,           \* what was seen no longer ago than a track lives
  alone,           \* since the view last had to forget: one object, and near
  since,           \* what happened since the latest poll
  missed           \* the latest frame's number, and whether something is missing

capture == <<epoch, seq, owed, faulty, cloud, rec>>
front == <<attached, last, age, formatNone, degraded, sceneEpoch>>
scene == <<producer, trusted, tracks>>
history == <<windows, alive, alone, since, missed>>
viewVars == <<capture, sent, harms, unread, front, scene, shown, history>>

Capture == INSTANCE RecordStream

DangerEnter == 10
DangerExit == 13
Association == 18
None == -1
NoSight == [points |-> <<>>, heat |-> <<>>, bound |-> TRUE]

-----------------------------------------------------------------------------
(* The capture appends to the log, or is refused.                          *)

Harmful(dropped, transition, quality, accepted) ==
  dropped > 0 \/ transition \in Capture!Broken \/ quality # "points" \/ ~accepted

Costs(harm) == harms + (IF harm THEN 1 ELSE 0) <= MaxHarm /\ harms' = harms + (IF harm THEN 1 ELSE 0)

Logs(accepted, sight, nth) ==
  unread' = IF accepted
            THEN Append(unread, [record |-> rec', sight |-> sight, nth |-> nth, told |-> ~owed])
            ELSE unread

CaptureFrame ==
  /\ sent < MaxFrames /\ sent' = sent + 1 /\ Len(unread) < MaxUnread
  /\ \E d \in Gaps, q \in Capture!Qualities, a \in BOOLEAN,
        t \in {"first", "consecutive", "gap"} \cup Capture!Broken :
       /\ (t = "first") = (sent = 0) /\ (t = "gap") = (d > 0)
       /\ Costs(Harmful(d, t, q, a))
       /\ Capture!Frame(d, t, q, a)
       /\ \E s \in IF a /\ q = "points" THEN Sightings ELSE {NoSight} : Logs(a, s, sent + 1)
  /\ UNCHANGED <<front, scene, shown, history>>

CaptureFault ==
  /\ Costs(TRUE) /\ Capture!Fault
  /\ UNCHANGED <<sent, unread, front, scene, shown, history>>

CaptureHealth(accepted) ==
  /\ Len(unread) < MaxUnread
  /\ Costs(~accepted)
  /\ \E s \in {"ok", "degraded", "starting"} : Capture!Health(s, accepted)
  /\ Logs(accepted, NoSight, sent)
  /\ UNCHANGED <<sent, front, scene, shown, history>>

CaptureEnds ==
  /\ Len(unread) < MaxUnread
  /\ \E s \in {"ok", "degraded", "stale"} : Capture!Final(s)
  /\ Logs(TRUE, NoSight, sent)
  /\ UNCHANGED <<sent, harms, front, scene, shown, history>>

-----------------------------------------------------------------------------
(* RadarSceneEstimator: tracks by distance.  A track is confirmed by two   *)
(* hits in its three latest frame windows.                                 *)

Distance(a, b) == IF a < b THEN b - a ELSE a - b
Confirmed(t) == Cardinality({i \in DOMAIN t.hits : t.hits[i]}) >= 2
LastThree(s) == SubSeq(s, Len(s) - 2, Len(s))
Shortened(s) == IF Len(s) > 3 THEN LastThree(s) ELSE s

\* Which track a return continues: the nearest one that may take it, the older
\* one of two.
Candidates(ts, at, source) ==
  {i \in DOMAIN ts :
     /\ IF source = "point" THEN ~ts[i].updated ELSE ts[i].source = "heatmap"
     /\ Distance(ts[i].at, at) <= Association}
Nearest(ts, at, C) ==
  CHOOSE i \in C : \A j \in C :
    \/ Distance(ts[i].at, at) < Distance(ts[j].at, at)
    \/ Distance(ts[i].at, at) = Distance(ts[j].at, at) /\ i <= j

Hit(t) == [t EXCEPT !.hits[Len(t.hits)] = TRUE, !.updated = TRUE]
Moved(t, at, source) == [t EXCEPT !.at = at, !.source = source, !.age = 0]

\* _upsert_track
Upsert(ts, at, source) ==
  LET C == Candidates(ts, at, source)
      i == Nearest(ts, at, C)
      m == Moved(ts[i], at, source)
  IN IF C = {}
     THEN Append(ts, [at |-> at, source |-> source, age |-> 0, latched |-> FALSE,
                      hits |-> <<source = "point">>, updated |-> source = "point"])
     ELSE [ts EXCEPT ![i] = IF source = "point" THEN Hit(m) ELSE m]

\* _expire_tracks
Unexpired(ts) ==
  LET kept[k \in 0..Len(ts)] ==
        IF k = 0 THEN <<>>
        ELSE IF ts[k].age < Ttl THEN Append(kept[k - 1], ts[k])
        ELSE kept[k - 1]
  IN kept[Len(ts)]

\* Mutant of NextWindows: frames that the device dropped make no window.
NextWindowsIgnoresDrops(ts, dropped) ==
  [i \in DOMAIN ts |-> [ts[i] EXCEPT !.hits = Shortened(Append(@, FALSE)), !.updated = FALSE]]

\* A frame of its own window, and one for each frame the device dropped.
NextWindows(ts, dropped) ==
  LET n == IF dropped + 1 < 3 THEN dropped + 1 ELSE 3
  IN [i \in DOMAIN ts |->
        [ts[i] EXCEPT !.hits = Shortened(@ \o [k \in 1..n |-> FALSE]), !.updated = FALSE]]

\* One return after the other.
UpsertAll(ts, returns, source) ==
  LET after[k \in 0..Len(returns)] ==
        IF k = 0 THEN ts ELSE Upsert(after[k - 1], returns[k], source)
  IN after[Len(returns)]

\* RadarSceneEstimator.ingest, of the tracks that are left after a reset.
Scene(ts, dropped, sight) ==
  UpsertAll(UpsertAll(NextWindows(Unexpired(ts), dropped), sight.points, "point"),
            sight.heat, "heatmap")

-----------------------------------------------------------------------------
(* RadarHazardEvaluator.                                                   *)

PointTracks(ts) == {i \in DOMAIN ts : ts[i].source = "point"}

\* Mutant of StillNear: the danger is left at the distance where it is entered.
StillNearNoHysteresis(ts) == {i \in PointTracks(ts) : ts[i].latched /\ ts[i].at <= DangerEnter}

StillNear(ts) == {i \in PointTracks(ts) : ts[i].latched /\ ts[i].at < DangerExit}
Entering(ts) == {i \in PointTracks(ts) : Confirmed(ts[i]) /\ ts[i].at <= DangerEnter}

Level(ts) ==
  IF StillNear(ts) # {} \/ Entering(ts) # {} THEN "DANGER"
  ELSE IF \E i \in PointTracks(ts) : Confirmed(ts[i]) THEN "NORMAL"
  ELSE "UNKNOWN"

\* The track that holds the danger: it keeps it, or the nearest takes it.
Holder(ts) ==
  IF StillNear(ts) # {} THEN StillNear(ts)
  ELSE IF Entering(ts) = {} THEN {}
  ELSE {Nearest(ts, 0, Entering(ts))}
Latch(ts) == [i \in DOMAIN ts |-> [ts[i] EXCEPT !.latched = i \in Holder(ts)]]
Unlatch(ts) == [i \in DOMAIN ts |-> [ts[i] EXCEPT !.latched = FALSE]]

\* RadarSceneEstimator.snapshot of a view that is not blocked.
Snapshot(ts) ==
  IF trusted THEN [tracks |-> Latch(ts), level |-> Level(ts)]
  ELSE [tracks |-> Unlatch(ts), level |-> "UNKNOWN"]

-----------------------------------------------------------------------------
(* The follower: RadarFrontState.ingest of the next complete line.         *)

\* Opening the log skips what is complete in it.
Attach ==
  /\ ~attached /\ attached' = TRUE
  /\ unread' = <<>>
  /\ UNCHANGED <<capture, sent, harms, last, age, formatNone, degraded, sceneEpoch, scene, shown,
                 history>>

IngestHealth(r, told) ==
  /\ degraded' = IF r.status = "ok" THEN FALSE ELSE degraded \/ r.status # "starting"
  /\ UNCHANGED <<attached, last, age, formatNone, sceneEpoch, scene, windows, alive, alone, since>>
  /\ missed' = [missed EXCEPT !.loss = @ /\ ~(r.status = "ok" /\ told)]

\* Mutant of SequenceIssue: only a step back counts.
SequenceIssueBack(r) == last.epoch = r.epoch /\ r.seq <= last.seq

\* A gap or a step back of the record numbers of one producer.
SequenceIssue(r) == last.epoch = r.epoch /\ r.seq # last.seq + 1

\* History, for the properties only.  A frame's returns join the latest three
\* frames, with an empty one for each that the device dropped, and what was
\* seen of late; or the view has to forget all of it.
Returns(sight) == {sight.points[i] : i \in DOMAIN sight.points}

Single(sight) ==
  /\ Len(sight.points) <= 1 /\ sight.heat = <<>>
  /\ \A p \in Returns(sight) : p <= Association

Remember(r, sight, seen, forget) ==
  LET old == IF forget THEN <<>> ELSE windows
      skipped == [k \in 1..r.dropped |-> [at |-> {}, age |-> 0]]
      now == IF seen THEN Returns(sight) ELSE {}
  IN /\ windows' = IF seen THEN Shortened((old \o skipped) \o <<[at |-> now, age |-> 0]>>) ELSE old
     /\ alive' = (IF forget THEN {} ELSE alive) \cup {[at |-> p, age |-> 0] : p \in now}
     /\ alone' = ((alone \/ forget) /\ (seen => Single(sight)))
     /\ since' = [since EXCEPT
          !.forgot = @ \/ forget,
          !.far = @ \/ \E p \in now : DangerExit <= p /\ p < DangerExit + Association]

Misses(r, nth) ==
  missed' = [nth |-> nth,
             loss |-> \/ missed.loss
                      \/ r.dropped > 0 \/ r.quality = "incomplete"
                      \/ last.epoch = r.epoch /\ nth # missed.nth + 1]

IngestFrame(r, sight) ==
  LET broken == r.transition \in Capture!Broken
      complete == r.quality # "incomplete"
      foreign == sceneEpoch # None /\ sceneEpoch # r.epoch
      estranged == foreign \/ broken \/ (producer # None /\ producer # r.epoch)
      forget == IF complete THEN estranged ELSE foreign \/ broken
      left == IF forget THEN <<>> ELSE tracks
  IN /\ last' = [epoch |-> r.epoch, seq |-> r.seq]
     /\ sceneEpoch' = r.epoch
     /\ degraded' = (degraded \/ broken \/ ~complete \/ r.dropped > 0 \/ SequenceIssue(r))
     /\ IF complete
        THEN /\ age' = 0 /\ formatNone' = (r.quality = "none")
             /\ producer' = r.epoch /\ trusted' = sight.bound
             /\ tracks' = IF sight.bound THEN Scene(left, r.dropped, sight) ELSE <<>>
        ELSE /\ tracks' = left
             /\ producer' = IF forget THEN None ELSE producer
             /\ UNCHANGED <<age, formatNone, trusted>>
     /\ Remember(r, sight, complete /\ sight.bound, forget \/ ~sight.bound)
     /\ UNCHANGED attached

Ingest ==
  /\ attached /\ unread # <<>>
  /\ unread' = Tail(unread)
  /\ LET r == Head(unread).record
     IN IF r.kind = "health"
        THEN IngestHealth(r, Head(unread).told)
        ELSE IngestFrame(r, Head(unread).sight) /\ Misses(r, Head(unread).nth)
  /\ UNCHANGED <<capture, sent, harms, shown>>

-----------------------------------------------------------------------------
(* A poll of the browser: RadarFrontState.snapshot.                        *)

FrameStatus ==
  IF age = None THEN "waiting"
  ELSE IF age > FaultAfter THEN "fault"
  ELSE IF age > StaleAfter THEN "stale"
  ELSE IF formatNone \/ degraded THEN "degraded"
  ELSE "live"

\* Unless the supervisor's manifest says RUNNING the view is blocked.
Status(running) == IF running THEN FrameStatus ELSE "fault"
NothingYet == [forgot |-> FALSE, far |-> FALSE, lapsed |-> FALSE]
Blocked(status) == status \in {"waiting", "stale", "fault"}

Poll(running) ==
  LET status == Status(running)
      now == Snapshot(Unexpired(tracks))
  IN /\ IF Blocked(status)
        THEN /\ sceneEpoch' = None /\ producer' = None
             /\ tracks' = <<>>
             /\ windows' = <<>> /\ alive' = {} /\ alone' = TRUE
             /\ shown' = [status |-> status, level |-> "SENSOR_FAULT"]
        ELSE /\ tracks' = now.tracks
             /\ shown' = [status |-> status, level |-> now.level]
             /\ UNCHANGED <<sceneEpoch, producer, windows, alive, alone>>
     /\ since' = NothingYet
     /\ UNCHANGED <<capture, sent, harms, unread, attached, last, age, formatNone, degraded, trusted, missed>>

Older(n, limit) == IF n < limit THEN n + 1 ELSE n
Tick ==
  /\ age' = IF age = None THEN None ELSE Older(age, FaultAfter + 1)
  /\ tracks' = [i \in DOMAIN tracks |-> [tracks[i] EXCEPT !.age = Older(@, Ttl)]]
  /\ windows' = [i \in DOMAIN windows |-> [windows[i] EXCEPT !.age = Older(@, Ttl)]]
  /\ alive' = {[s EXCEPT !.age = @ + 1] : s \in {s \in alive : s.age + 1 < Ttl}}
  /\ since' = [since EXCEPT
       !.lapsed = @ \/ \E s \in alive : s.at < DangerExit /\ s.age + 1 >= Ttl]
  /\ UNCHANGED <<capture, sent, harms, unread, attached, last, formatNone, degraded, sceneEpoch,
                 producer, trusted, shown, alone, missed>>

-----------------------------------------------------------------------------

ViewInit ==
  /\ Capture!Init
  /\ sent = 0 /\ harms = 0 /\ unread = <<>>
  /\ attached = FALSE /\ last = [epoch |-> 0, seq |-> 0]
  /\ age = None /\ formatNone = FALSE /\ degraded = FALSE
  /\ sceneEpoch = None /\ producer = None /\ trusted = TRUE /\ tracks = <<>>
  /\ shown = [status |-> "waiting", level |-> "SENSOR_FAULT"]
  /\ windows = <<>> /\ alive = {} /\ alone = TRUE /\ since = NothingYet
  /\ missed = [nth |-> 0, loss |-> FALSE]

ViewNext ==
  \/ CaptureFrame \/ CaptureFault \/ CaptureEnds
  \/ \E a \in BOOLEAN : CaptureHealth(a)
  \/ Attach \/ Ingest
  \/ \E running \in BOOLEAN : Poll(running)
  \/ Tick

ViewSpec == ViewInit /\ [][ViewNext]_viewVars

-----------------------------------------------------------------------------
(* Properties.                                                             *)

\* Two of the three latest frames saw something at the same place, the later
\* of them within 10 cm if that is asked, and not longer ago than a track lives.
SeenTwice(near) ==
  \E i, j \in DOMAIN windows :
    /\ i < j /\ windows[j].age < Ttl
    /\ \E p \in windows[i].at, q \in windows[j].at :
         Distance(p, q) <= Association /\ (near => q <= DangerEnter)

\* The latest frame saw something within 10 cm.
NearNow ==
  /\ windows # <<>> /\ windows[Len(windows)].age < Ttl
  /\ \E p \in windows[Len(windows)].at : p <= DangerEnter

\* The level is earned.  NORMAL and DANGER rest on two of the three latest
\* frames that saw something at one place, DANGER on a later one within 10 cm,
\* or it is still the one that was shown, something within 13 cm was seen no
\* longer ago than a track lives, and the view had nothing to forget.  One
\* object alone is not NORMAL when the latest frame saw it within 10 cm.
\* Tracks are moved, merged and expired between frames and polls, and a frame
\* that the device dropped is a window without a hit (RadarSceneEstimator,
\* RadarHazardEvaluator).
LevelIsEarned ==
  [][\A running \in BOOLEAN : Poll(running) =>
       /\ shown'.level = "NORMAL" => SeenTwice(FALSE) /\ ~(alone /\ NearNow)
       /\ shown'.level = "DANGER" =>
            \/ SeenTwice(TRUE)
            \/ /\ shown.level = "DANGER" /\ ~since.forgot
               /\ \E s \in alive : s.at < DangerExit]_viewVars

\* A red view does not turn normal or unknown by itself: since it was shown,
\* the view had to forget, a return beyond 13 cm was near enough to be the same
\* object, or a return within 13 cm has become as old as a track may be.  An
\* empty frame, a heatmap cell, a gap or a lost record do not clear it.
RedStays ==
  [][\A running \in BOOLEAN : Poll(running) =>
       (shown.level = "DANGER" /\ shown'.level \in {"NORMAL", "UNKNOWN"} =>
          since.forgot \/ since.far \/ since.lapsed)]_viewVars

\* LIVE says that nothing is missing: since the capture last reported itself
\* sound with nothing left to report, every frame of the epoch has arrived
\* complete.  A refused record shows only as a gap in the numbers
\* (RadarFrontState.ingest), a dropped frame only in the frame that follows.
LiveIsWhole ==
  [][\A running \in BOOLEAN : Poll(running) => (shown'.status = "live" => ~missed.loss)]_viewVars
================================================================================
