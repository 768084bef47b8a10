---------------------------- MODULE CameraProfile ----------------------------
(***************************************************************************)
(* The camera profile, from the operator's loop to the head: the client    *)
(* asks for the profile that the link calls for (CameraProfileSync in      *)
(* controller/mesh_control_client.py) and the head installs it for its     *)
(* camera service (robot/mesh_control_server.py).  Requests and answers    *)
(* are datagrams: each may be lost or late.                                *)
(***************************************************************************)
EXTENDS Integers, FiniteSets

CONSTANTS
  Profiles,              \* what an operator's loop asks for: {0, 1, 2}
  AckTimeout, RetryDelay,\* --ack-timeout and retry_delay_s in ticks
  MaxRequests,           \* bound: requests sent
  MaxChanges             \* bound: changes of the link's quality

VARIABLES
  desired,    \* the camera_profile of the latest decision
  changes,    \* how often it has changed
  applied,    \* applied_profile
  pending,    \* the request that is waited for, and for how long
  answer,     \* its acknowledgement, once it has arrived
  retry,      \* ticks until retry_after
  sent,       \* requests sent, the number of the latest
  requests, answers,   \* datagrams under way
  installed,  \* the head's override file
  newest      \* the latest request it has seen

client == <<applied, pending, answer, retry, sent>>
head == <<installed, newest>>
vars == <<desired, changes, client, requests, answers, head>>

None == -1
NoRequest == [profile |-> None, nr |-> 0, age |-> 0]
Idle(p) == p.nr = 0

-----------------------------------------------------------------------------
(* The client.                                                             *)

\* The quality of the link calls for another profile.
Changes(p) ==
  /\ changes < MaxChanges /\ changes' = changes + 1
  /\ p # desired /\ desired' = p
  /\ UNCHANGED <<client, requests, answers, head>>

\* A request that is no longer wanted is forgotten, answered or not.
Superseded == ~Idle(pending) /\ pending.profile # desired
Waits == ~Idle(pending) /\ ~Superseded /\ answer = "none" /\ pending.age < AckTimeout
Confirmed == ~Idle(pending) /\ ~Superseded /\ answer = "applied"
Failed == ~Idle(pending) /\ ~Superseded /\ ~Confirmed /\ ~Waits

NowApplied == IF Confirmed THEN pending.profile ELSE applied
NowRetry == IF Confirmed \/ Superseded THEN 0 ELSE IF Failed THEN RetryDelay ELSE retry
Asks == desired # NowApplied /\ NowRetry = 0

\* send_camera_profile
Request(nr) == [profile |-> desired, nr |-> nr]

\* CameraProfileSync.update, once in every iteration of the loop.
Update(sends) ==
  /\ ~Waits
  /\ applied' = NowApplied
  /\ IF Asks /\ sends
     THEN /\ sent < MaxRequests /\ sent' = sent + 1
          /\ pending' = [profile |-> desired, nr |-> sent', age |-> 0]
          /\ requests' = requests \cup {Request(sent')}
     ELSE pending' = NoRequest /\ UNCHANGED <<sent, requests>>
  /\ retry' = IF Asks /\ ~sends THEN RetryDelay ELSE NowRetry
  /\ answer' = "none"
  /\ UNCHANGED <<desired, changes, answers, head>>

\* AckReceiver: only the answer that is waited for is kept.
Answered(a) ==
  /\ answers' = answers \ {a}
  /\ answer' = IF a.nr = pending.nr THEN a.status ELSE answer
  /\ UNCHANGED <<desired, changes, applied, pending, retry, sent, requests, head>>

-----------------------------------------------------------------------------
(* The head, and the datagrams.                                            *)

Lost(m) ==
  /\ requests' = requests \ {m} /\ answers' = answers \ {m}
  /\ UNCHANGED <<desired, changes, client, head>>

\* handle_camera_command: the restart of the service is queued; or the request
\* is refused (the service is not active, or does not restart and the file is
\* restored); or the file cannot be restored.  A late request is always refused
\* (module ControlProtocol).
Outcomes == {"queued", "refused", "rollback_failed"}
\* The override file is written, and written back if the request is refused.
Override(m, outcome) == IF outcome = "refused" THEN installed ELSE m.profile
Handle(m, outcome) ==
  /\ requests' = requests \ {m}
  /\ outcome = "refused" \/ m.nr > newest
  /\ newest' = IF m.nr > newest THEN m.nr ELSE newest
  /\ installed' = Override(m, outcome)
  /\ answers' = answers \cup
       {[nr |-> m.nr, status |-> IF outcome = "queued" THEN "applied" ELSE "rejected"]}
  /\ UNCHANGED <<desired, changes, client>>

-----------------------------------------------------------------------------

Sooner(n) == IF n > 0 THEN n - 1 ELSE 0
Tick ==
  /\ retry' = Sooner(retry)
  /\ pending' = [pending EXCEPT !.age = IF Idle(pending) \/ @ = AckTimeout THEN @ ELSE @ + 1]
  /\ UNCHANGED <<desired, changes, applied, answer, sent, requests, answers, head>>

Init ==
  /\ desired = 2 /\ changes = 0
  /\ applied = None /\ pending = NoRequest /\ answer = "none" /\ retry = 0 /\ sent = 0
  /\ requests = {} /\ answers = {} /\ installed = None /\ newest = 0

Next ==
  \/ \E p \in Profiles : Changes(p)
  \/ \E sends \in BOOLEAN : Update(sends)
  \/ \E a \in answers : Answered(a) \/ Lost(a)
  \/ \E m \in requests : Lost(m) \/ \E o \in Outcomes : Handle(m, o)
  \/ Tick

Spec == Init /\ [][Next]_vars

-----------------------------------------------------------------------------

\* docs/video_quality_auto_detach_runbook.md, 24-26 and 52: a link that is GOOD
\* runs profile 0, WARN 1 and DANGER 2, and the client takes a change for done
\* only after its acknowledgement: once nothing is asked for and nothing is
\* under way, the head has the profile that the link calls for.  Not so if the
\* quality returns while a request waits: CameraProfileSync forgets the request,
\* the head may install it all the same, and nobody asks for the old one again.
CameraMatches ==
  Idle(pending) /\ requests = {} /\ answers = {} /\ desired = applied => installed = desired
================================================================================
