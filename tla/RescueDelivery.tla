---------------------------- MODULE RescueDelivery ----------------------------
(***************************************************************************)
(* Rescue requests on their way from a phone to the rescue team            *)
(* (rescue-network/src/rescue_network): the field web application stores   *)
(* them in SQLite, the forwarder process posts them over the mesh and      *)
(* retries, the receiver stores them once and acknowledges.  Each process  *)
(* may crash between any two steps; a post or its answer may be lost, or   *)
(* come after the forwarder gave up waiting; something else may answer.    *)
(*                                                                         *)
(* A database transaction takes effect at its commit.  Times are flags:    *)
(* `due`, next_retry_at has passed, and `stale`, stale_sending_seconds     *)
(* have passed since last_attempt_at.                                      *)
(***************************************************************************)
EXTENDS Naturals, FiniteSets

CONSTANTS
  Requests,       \* request_ids; a form sent twice is two of them
  Phones,         \* bound: the requests whose phone waits for the answer
  Slots,          \* bound: posts that are somewhere at the same time
  BatchSize,      \* forwarder_batch_size
  FirstOverflow,  \* least retry_count whose backoff cannot be computed (1025)
  Installs,       \* the combinations of nodes that answer before they commit
  FaultKinds,     \* the failures that may occur
  MaxFaults       \* bound: how often they do

ASSUME RescueAssumption ==
  /\ IsFiniteSet(Requests) /\ Phones \subseteq Requests
  /\ BatchSize \in Nat \ {0}
  /\ FirstOverflow \in Nat
  /\ Installs \subseteq SUBSET {"field", "receiver"}
  /\ MaxFaults \in Nat

VARIABLES
  answersFirst, \* nodes whose FastAPI answers before the session's commit
  intake,    \* [Requests -> where field_app's transaction is]
  promised,  \* requests whose phone got the 201 answer
  status,    \* [Requests -> delivery_status], "absent" without a row
  due, stale, retries,  \* the other columns of the row
  born,      \* [Requests -> created_at], as a number in order
  forwarder, \* where the forwarder process is
  batch,     \* claimed_ids still to deliver
  current,   \* the one being delivered
  answer,    \* what became of its post
  posts,     \* [Slots -> a post, where it is, whether the forwarder waits for it]
  rows,      \* [Requests -> rows in the receiver's table]
  faults

field == <<answersFirst, intake, promised>>
table == <<status, due, stale, retries>>
process == <<forwarder, batch, current, answer>>
receiver == <<posts, rows>>
vars == <<field, table, born, process, receiver, faults>>

Statuses == {"absent", "pending", "sending", "delivered", "failed"}
Answers == {"none", "ack", "transient", "permanent"}

\* "wire", then the handler: looked up and absent, inserted and not committed,
\* done.  "free" is a slot whose connection is gone.
Free == [req |-> "none", at |-> "free", waited |-> FALSE]
Places == {"wire", "insert", "open", "done"}

\* The rows of the field database.
Stored == {r \in Requests : status[r] # "absent"}

Fails(kind) ==
  /\ kind \in FaultKinds
  /\ faults < MaxFaults
  /\ faults' = faults + 1

-----------------------------------------------------------------------------
(* The field node's web application: submit_rescue and its session.  The   *)
(* INSERT is flushed, with created_at, before the transaction commits.     *)

Submit(r) ==
  /\ intake[r] = "none"
  /\ intake' = [intake EXCEPT ![r] = "open"]
  /\ born' = [born EXCEPT ![r] = 1 + Cardinality({q \in Requests : intake[q] # "none"})]
  /\ UNCHANGED <<answersFirst, promised, table, process, receiver, faults>>

\* The commit after the yield of get_session.
CommitIntake(r) ==
  /\ intake[r] = "open"
  /\ intake' = [intake EXCEPT ![r] = "committed"]
  /\ status' = [status EXCEPT ![r] = "pending"]
  /\ due' = [due EXCEPT ![r] = TRUE]
  /\ UNCHANGED <<answersFirst, promised, stale, retries, born, process, receiver, faults>>

\* The 201 answer reaches the phone: after the commit, or, with FastAPI from
\* 0.118 on, while the transaction is still open.
Promise(r) ==
  /\ r \in Phones \ promised
  /\ intake[r] \in {"committed"} \cup (IF "field" \in answersFirst THEN {"open"} ELSE {})
  /\ promised' = promised \cup {r}
  /\ UNCHANGED <<answersFirst, intake, table, born, process, receiver, faults>>

\* Transactions that are not committed are gone, in a crash or because the
\* database was locked.
CrashField ==
  /\ Fails("crash")
  /\ \E r \in Requests : intake[r] = "open"
  /\ intake' = [r \in Requests |-> IF intake[r] = "open" THEN "lost" ELSE intake[r]]
  /\ UNCHANGED <<answersFirst, promised, table, born, process, receiver>>

-----------------------------------------------------------------------------
(* The forwarder: run_once.                                                *)

\* Variant: rows a dead forwarder left in sending are not looked for.
RecoverNothing ==
  /\ forwarder = "idle"
  /\ forwarder' = "claim"
  /\ UNCHANGED <<field, table, born, batch, current, answer, receiver, faults>>

\* recover_stale_sending; next_retry_at is left alone.
Recover ==
  /\ forwarder = "idle"
  /\ forwarder' = "claim"
  /\ status' = [r \in Requests |->
                  IF status[r] = "sending" /\ stale[r] THEN "pending" ELSE status[r]]
  /\ UNCHANGED <<field, due, stale, retries, born, batch, current, answer, receiver, faults>>

\* claim_due: pending rows that are due, oldest first, at most a batch.
Due == {r \in Requests : status[r] = "pending" /\ due[r]}
Claimed == {r \in Due : Cardinality({q \in Due : born[q] < born[r]}) < BatchSize}

Claim ==
  /\ forwarder = "claim"
  /\ forwarder' = "deliver"
  /\ batch' = Claimed
  /\ status' = [r \in Requests |-> IF r \in Claimed THEN "sending" ELSE status[r]]
  /\ stale' = [r \in Requests |-> stale[r] /\ r \notin Claimed]
  /\ UNCHANGED <<field, due, retries, born, current, answer, receiver, faults>>

\* client.post of the next claimed request, in claimed order.  The slots are
\* alike.
Post ==
  /\ forwarder = "deliver"
  /\ \E r \in batch :
       /\ \A q \in batch : born[r] <= born[q]
       /\ current' = r
       /\ \E s \in Slots : posts[s] = Free
       /\ LET s == CHOOSE s \in Slots : posts[s] = Free
          IN  posts' = [posts EXCEPT ![s] = [req |-> r, at |-> "wire", waited |-> TRUE]]
  /\ forwarder' = "wait"
  /\ UNCHANGED <<field, table, born, batch, answer, rows, faults>>

PassEnds ==
  /\ forwarder = "deliver" /\ batch = {}
  /\ forwarder' = "idle"
  /\ UNCHANGED <<field, table, born, batch, current, answer, receiver, faults>>

\* The post ends, with an answer or without one.
Concludes(result) == forwarder = "wait" /\ forwarder' = "conclude" /\ answer' = result

\* The acknowledgement arrives; where the answer is sent before the session's
\* commit, the handler may still be about to commit.
Acknowledged ==
  /\ Concludes("ack")
  /\ \E s \in Slots :
       /\ posts[s].waited
       /\ \/ posts[s].at = "done" /\ posts' = [posts EXCEPT ![s] = Free]
          \/ /\ posts[s].at = "open" /\ "receiver" \in answersFirst
             /\ posts' = [posts EXCEPT ![s].waited = FALSE]
  /\ UNCHANGED <<field, table, born, batch, current, rows, faults>>

\* httpx.RequestError: the connection is gone.
Disconnected ==
  /\ Concludes("transient")
  /\ \A s \in Slots : ~posts[s].waited
  /\ UNCHANGED <<field, table, born, batch, current, receiver, faults>>

\* delivery_timeout_seconds have passed, and the post goes its own way.
TimedOut ==
  /\ Fails("slow")
  /\ Concludes("transient")
  /\ \E s \in Slots :
       /\ posts[s].waited
       /\ posts' = [posts EXCEPT ![s].waited = FALSE]
  /\ UNCHANGED <<field, table, born, batch, current, rows>>

\* Variant: an answer that is no valid ACK counts as one.
OtherAnswerIsAck ==
  /\ Fails("foreign")
  /\ \E result \in {"ack", "transient", "permanent"} : Concludes(result)
  /\ \E s \in Slots :
       /\ posts[s].waited /\ posts[s].at = "wire"
       /\ posts' = [posts EXCEPT ![s] = Free]
  /\ UNCHANGED <<field, table, born, batch, current, rows>>

\* Something refuses the post before the endpoint runs: 401, 429, 5xx, or a
\* 2xx without a valid ACK, all of which are retried; or another status.
OtherAnswer ==
  /\ Fails("foreign")
  /\ \E result \in {"transient", "permanent"} : Concludes(result)
  /\ \E s \in Slots :
       /\ posts[s].waited /\ posts[s].at = "wire"
       /\ posts' = [posts EXCEPT ![s] = Free]
  /\ UNCHANGED <<field, table, born, batch, current, rows>>

\* compute_backoff_seconds: 2 ** (retry_count - 1) must become a float.
BackoffRaises == retries[current] + 1 >= FirstOverflow

\* mark_delivered, mark_pending_retry, mark_failed.
Recorded ==
  [ack |-> "delivered", transient |-> "pending", permanent |-> "failed"][answer]

\* attempt_delivery after the answer, and the commit of run_once.
Conclude ==
  /\ forwarder = "conclude"
  /\ ~(answer = "transient" /\ BackoffRaises)
  /\ status' = [status EXCEPT ![current] = Recorded]
  /\ due' = [due EXCEPT ![current] = @ /\ answer # "transient"]
  /\ retries' = [retries EXCEPT ![current] = IF answer = "transient" THEN @ + 1 ELSE @]
  /\ forwarder' = "deliver" /\ batch' = batch \ {current}
  /\ current' = "none" /\ answer' = "none"
  /\ UNCHANGED <<field, stale, born, receiver, faults>>

\* An exception leaves run_once, whose transaction is rolled back: a locked
\* database, or the backoff.  run_forever goes on with the next pass.
Abort ==
  /\ \/ /\ forwarder \in {"idle", "claim", "deliver", "conclude"}
        /\ Fails("abort")
     \/ /\ forwarder = "conclude" /\ answer = "transient" /\ BackoffRaises
        /\ UNCHANGED faults
  /\ forwarder' = "idle" /\ batch' = {} /\ current' = "none" /\ answer' = "none"
  /\ UNCHANGED <<field, table, born, receiver>>

CrashForwarder ==
  /\ forwarder # "off"
  /\ Fails("crash")
  /\ forwarder' = "off" /\ batch' = {} /\ current' = "none" /\ answer' = "none"
  /\ posts' = [s \in Slots |-> [posts[s] EXCEPT !.waited = FALSE]]
  /\ UNCHANGED <<field, table, born, rows>>

StartForwarder ==
  /\ forwarder = "off"
  /\ forwarder' = "idle"
  /\ UNCHANGED <<field, table, born, batch, current, answer, receiver, faults>>

Forwarder ==
  Recover \/ Claim \/ Post \/ PassEnds \/ Acknowledged \/ Disconnected
  \/ Conclude \/ StartForwarder

-----------------------------------------------------------------------------
(* The receiver: one handler per post, in a pool of threads.               *)

Moves(s, place) == posts' = [posts EXCEPT ![s].at = place]

\* store_received: the lookup.
LookUp(s) ==
  /\ posts[s].at = "wire"
  /\ Moves(s, IF rows[posts[s].req] = 0 THEN "insert" ELSE "done")
  /\ UNCHANGED <<field, table, born, process, rows, faults>>

\* The INSERT waits for the writer that holds the database.
Writing == \E s \in Slots : posts[s].at = "open"

\* Variant: the table has no UNIQUE constraint.
ConflictNever(r) == FALSE

\* UNIQUE(request_id).
Conflict(r) == rows[r] > 0

\* The flush, or IntegrityError: rolled back, found, a duplicate.
Insert(s) ==
  /\ posts[s].at = "insert" /\ ~Writing
  /\ Moves(s, IF Conflict(posts[s].req) THEN "done" ELSE "open")
  /\ UNCHANGED <<field, table, born, process, rows, faults>>

CommitRow(s) ==
  /\ posts[s].at = "open"
  /\ rows' = [rows EXCEPT ![posts[s].req] = @ + 1]
  /\ Moves(s, "done")
  /\ UNCHANGED <<field, table, born, process, faults>>

\* Nobody waits for the answer any more.
Finish(s) ==
  /\ posts[s].at = "done" /\ ~posts[s].waited
  /\ posts' = [posts EXCEPT ![s] = Free]
  /\ UNCHANGED <<field, table, born, process, rows, faults>>

\* The post or its answer is lost, or the handler raises (a locked database)
\* and its 500 is to the forwarder what a lost connection is.
Lose(s) ==
  /\ posts[s].at # "free"
  /\ Fails("loss")
  /\ posts' = [posts EXCEPT ![s] = Free]
  /\ UNCHANGED <<field, table, born, process, rows>>

CrashReceiver ==
  /\ Fails("crash")
  /\ \E s \in Slots : posts[s].at \in {"insert", "open", "done"}
  /\ posts' = [s \in Slots |-> IF posts[s].at = "wire" THEN posts[s] ELSE Free]
  /\ UNCHANGED <<field, table, born, process, rows>>

Handler(s) == LookUp(s) \/ Insert(s) \/ CommitRow(s) \/ Finish(s)

-----------------------------------------------------------------------------

\* Time passes for a row: next_retry_at, or the age of its sending mark.
Elapse(r) ==
  /\ \/ /\ status[r] = "pending" /\ ~due[r]
        /\ due' = [due EXCEPT ![r] = TRUE] /\ UNCHANGED stale
     \/ /\ status[r] = "sending" /\ ~stale[r]
        /\ stale' = [stale EXCEPT ![r] = TRUE] /\ UNCHANGED due
  /\ UNCHANGED <<field, status, retries, born, process, receiver, faults>>

Init ==
  /\ answersFirst \in Installs
  /\ intake = [r \in Requests |-> "none"] /\ promised = {}
  /\ status = [r \in Requests |-> "absent"]
  /\ due = [r \in Requests |-> FALSE]
  /\ stale = [r \in Requests |-> FALSE]
  /\ retries = [r \in Requests |-> 0]
  /\ born = [r \in Requests |-> 0]
  /\ forwarder = "off" /\ batch = {} /\ current = "none" /\ answer = "none"
  /\ posts = [s \in Slots |-> Free]
  /\ rows = [r \in Requests |-> 0]
  /\ faults = 0

Next ==
  \/ \E r \in Requests : Submit(r) \/ CommitIntake(r) \/ Promise(r) \/ Elapse(r)
  \/ \E s \in Slots : Handler(s) \/ Lose(s)
  \/ Forwarder \/ TimedOut \/ OtherAnswer \/ Abort
  \/ CrashField \/ CrashForwarder \/ CrashReceiver

\* The processes run and are restarted (Restart=always), time passes, and a
\* transaction that was begun is ended.  Nobody has to submit anything.
Fairness ==
  /\ WF_vars(Forwarder)
  /\ \A s \in Slots : WF_vars(Handler(s))
  /\ \A r \in Requests : WF_vars(CommitIntake(r)) /\ WF_vars(Elapse(r))

Spec == Init /\ [][Next]_vars /\ Fairness

-----------------------------------------------------------------------------
(* Properties.                                                             *)

TypeOK ==
  /\ answersFirst \in SUBSET {"field", "receiver"}
  /\ intake \in [Requests -> {"none", "open", "committed", "lost"}]
  /\ promised \in SUBSET Requests
  /\ status \in [Requests -> Statuses]
  /\ due \in [Requests -> BOOLEAN] /\ stale \in [Requests -> BOOLEAN]
  /\ retries \in [Requests -> Nat]
  /\ born \in [Requests -> Nat]
  /\ batch \in SUBSET Requests /\ current \in Requests \cup {"none"}
  /\ forwarder \in {"off", "idle", "claim", "deliver", "wait", "conclude"}
  /\ answer \in Answers
  /\ posts \in [Slots -> [req: Requests, at: Places, waited: BOOLEAN] \cup {Free}]
  /\ rows \in [Requests -> Nat]
  /\ faults \in 0..MaxFaults

\* What the service's sets are in the program.
Storing == {r \in Requests : intake[r] = "open"}
Receiving == {posts[s].req : s \in {t \in Slots : posts[t].at = "open"}}
Received == {r \in Requests : rows[r] > 0}
Delivered == {r \in Requests : status[r] = "delivered"}
GivenUp == {r \in Requests : status[r] = "failed"}
Acked == Delivered \cup (IF answer = "ack" THEN {current} ELSE {})

Abstract == INSTANCE RescueService WITH
  storing <- Storing, stored <- Stored, receiving <- Receiving, received <- Received,
  acknowledged <- Acked, confirmed <- Delivered, rejected <- GivenUp

\* Whatever crashes or is lost: what is stored stays stored, the rescue team
\* receives only that, and once; a phone's answer and the team's stand for
\* committed rows, or, only on a node whose FastAPI answers before the commit,
\* for an open transaction; and "delivered" rests on an answer of the team
\* (delivery-status.md).
Implements == Abstract!Spec

\* An answer stands for a row that is there: what the phone was told is stored
\* (field_app.py:89, "respond as soon as it is stored"), and what is delivered
\* the rescue team has (delivery-status.md:9).  Each holds on a node that
\* commits first; with FastAPI from 0.118 on, a crash between the answer and
\* the commit breaks it.
PromisedIsStored == promised \subseteq Stored
DeliveredIsReceived == Delivered \subseteq Received

\* The condition under which answers can be trusted, node by node.
AnswersHold ==
  /\ "field" \notin answersFirst => PromisedIsStored
  /\ "receiver" \notin answersFirst => DeliveredIsReceived

\* A request is in the receiver's table once, however often it is posted and
\* however its handlers overtake each other (README of rescue-network, 121).
StoredOnce == \A r \in Requests : rows[r] <= 1

\* When failures cease, every request that was stored is delivered or given up:
\* none stays in "sending" behind a dead forwarder, none waits for ever.
Settles == \A r \in Requests :
  (status[r] # "absent") ~> (status[r] \in {"delivered", "failed"})

\* A transient failure puts the request back to pending, without a limit
\* (docs/delivery-status.md:26, exponential backoff, unlimited).  It does for
\* the first FirstOverflow - 1 failures; then the pass is aborted.
AlwaysRetried ==
  [][forwarder = "conclude" /\ answer = "transient" =>
       status'[current] = "pending"]_<<forwarder, status>>
=============================================================================
