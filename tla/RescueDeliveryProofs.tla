------------------------ MODULE RescueDeliveryProofs ------------------------
(***************************************************************************)
(* Proofs about RescueDelivery: the types, that a request is stored once   *)
(* by the receiver, that the protocol implements RescueService whichever   *)
(* comes first on a node, its commit or its answer, and that the answers   *)
(* of a node that commits first hold.                                      *)
(***************************************************************************)
EXTENDS RescueDelivery, FiniteSetTheorems, TLAPS

-----------------------------------------------------------------------------
(* Where the forwarder is, and what it holds there.                        *)

\* Between passes nothing is claimed; a post is about a claimed request; a
\* post that ended has an answer.
Holds ==
  /\ forwarder \in {"off", "idle", "claim"} => batch = {}
  /\ forwarder \in {"wait", "conclude"} => current \in batch
  /\ forwarder = "conclude" => answer # "none"

TInv == TypeOK /\ Holds

\* The slot that Post chooses is a free one.
LEMMA PostTakesFreeSlot ==
  ASSUME Post
  PROVE  \E r \in batch, s \in Slots :
           /\ posts[s] = Free
           /\ current' = r
           /\ posts' = [posts EXCEPT ![s] = [req |-> r, at |-> "wire", waited |-> TRUE]]
<1>1. PICK r \in batch :
        /\ current' = r
        /\ \E s \in Slots : posts[s] = Free
        /\ posts' = [posts EXCEPT ![CHOOSE s \in Slots : posts[s] = Free] =
                       [req |-> r, at |-> "wire", waited |-> TRUE]]
  BY Zenon DEF Post
<1> DEFINE free == CHOOSE s \in Slots : posts[s] = Free
<1>2. free \in Slots /\ posts[free] = Free
  BY <1>1, Zenon
<1> QED BY <1>1, <1>2, Zenon

\* A slot's entry after a change of one slot.
LEMMA SlotTypes ==
  ASSUME TypeOK, NEW s \in Slots,
         NEW p \in [req: Requests, at: Places, waited: BOOLEAN] \cup {Free}
  PROVE  [posts EXCEPT ![s] = p]
           \in [Slots -> [req: Requests, at: Places, waited: BOOLEAN] \cup {Free}]
BY DEF TypeOK

\* A slot that is in use holds a post.
LEMMA SlotInUse ==
  ASSUME TypeOK, NEW s \in Slots, posts[s].at # "free"
  PROVE  posts[s] \in [req: Requests, at: Places, waited: BOOLEAN]
BY DEF TypeOK, Free

\* A post is only waited for while it is somewhere.
LEMMA WaitedInUse ==
  ASSUME TypeOK, NEW s \in Slots, posts[s].waited
  PROVE  posts[s] \in [req: Requests, at: Places, waited: BOOLEAN]
BY DEF TypeOK, Free

LEMMA FaultTypes ==
  ASSUME TypeOK, NEW kind, Fails(kind)
  PROVE  faults' \in 0..MaxFaults
BY RescueAssumption DEF TypeOK, Fails

LEMMA InitTypes == Init => TInv
BY RescueAssumption DEF Init, TInv, TypeOK, Holds, Statuses, Answers, Free

(* The steps of the field node's application, and time.                    *)
LEMMA FieldTypes ==
  ASSUME TInv,
         \/ \E r \in Requests : Submit(r) \/ CommitIntake(r) \/ Promise(r) \/ Elapse(r)
         \/ CrashField
  PROVE  TInv'
<1>1. ASSUME NEW r \in Requests, Submit(r) PROVE TInv'
  <2>1. Cardinality({q \in Requests : intake[q] # "none"}) \in Nat
    BY RescueAssumption, FS_Subset, FS_CardinalityType
  <2> QED BY <1>1, <2>1 DEF Submit, TInv, TypeOK, Holds, table, process, receiver
<1>2. ASSUME NEW r \in Requests, CommitIntake(r) PROVE TInv'
  BY <1>2 DEF CommitIntake, TInv, TypeOK, Holds, process, receiver, Statuses
<1>3. ASSUME NEW r \in Requests, Promise(r) PROVE TInv'
  BY <1>3 DEF Promise, TInv, TypeOK, Holds, table, process, receiver
<1>4. ASSUME NEW r \in Requests, Elapse(r) PROVE TInv'
  BY <1>4 DEF Elapse, TInv, TypeOK, Holds, field, process, receiver
<1>5. ASSUME CrashField PROVE TInv'
  <2>1. faults' \in 0..MaxFaults
    BY <1>5, FaultTypes DEF CrashField, TInv
  <2> QED BY <1>5, <2>1 DEF CrashField, TInv, TypeOK, Holds, table, process, receiver
<1> QED BY <1>1, <1>2, <1>3, <1>4, <1>5

(* The steps that begin, go through and end a pass.                        *)
LEMMA PassTypes ==
  ASSUME TInv, Recover \/ Claim \/ Post \/ PassEnds \/ StartForwarder
  PROVE  TInv'
<1>1. ASSUME Recover PROVE TInv'
  BY <1>1 DEF Recover, TInv, TypeOK, Holds, field, receiver, Statuses
<1>2. ASSUME Claim PROVE TInv'
  <2>1. Claimed \in SUBSET Requests
    BY DEF Claimed, Due
  <2> QED BY <1>2, <2>1 DEF Claim, TInv, TypeOK, Holds, field, receiver, Statuses
<1>3. ASSUME Post PROVE TInv'
  <2>1. PICK r \in batch, s \in Slots :
          /\ current' = r
          /\ posts' = [posts EXCEPT ![s] = [req |-> r, at |-> "wire", waited |-> TRUE]]
    BY <1>3, PostTakesFreeSlot
  <2>2. r \in Requests
    BY DEF TInv, TypeOK
  <2>3. [req |-> r, at |-> "wire", waited |-> TRUE]
          \in [req: Requests, at: Places, waited: BOOLEAN]
    BY <2>2 DEF Places
  <2>4. posts' \in [Slots -> [req: Requests, at: Places, waited: BOOLEAN] \cup {Free}]
    BY <2>1, <2>3, SlotTypes DEF TInv
  <2>5. batch' = batch /\ forwarder' = "wait" /\ answer' = answer
    BY <1>3 DEF Post
  <2>6. UNCHANGED <<field, table, born, rows, faults>>
    BY <1>3 DEF Post
  <2> HIDE DEF Free
  <2> QED BY <2>1, <2>2, <2>4, <2>5, <2>6 DEF TInv, TypeOK, Holds, field, table
<1>4. ASSUME PassEnds PROVE TInv'
  BY <1>4 DEF PassEnds, TInv, TypeOK, Holds, field, table, receiver
<1>5. ASSUME StartForwarder PROVE TInv'
  BY <1>5 DEF StartForwarder, TInv, TypeOK, Holds, field, table, receiver
<1> QED BY <1>1, <1>2, <1>3, <1>4, <1>5

(* The steps in which a post ends.                                         *)
LEMMA AnswerTypes ==
  ASSUME TInv, Acknowledged \/ Disconnected \/ TimedOut \/ OtherAnswer
  PROVE  TInv'
<1>1. /\ UNCHANGED <<field, table, born, batch, current, rows>>
      /\ forwarder = "wait" /\ forwarder' = "conclude"
      /\ answer' \in {"ack", "transient", "permanent"}
  BY DEF Acknowledged, Disconnected, TimedOut, OtherAnswer, Concludes, receiver
<1>2. faults' \in 0..MaxFaults
  BY FaultTypes DEF Acknowledged, Disconnected, TimedOut, OtherAnswer, receiver, TInv, TypeOK
<1>3. ASSUME NEW s \in Slots, posts[s].waited
      PROVE  [posts[s] EXCEPT !.waited = FALSE] \in [req: Requests, at: Places, waited: BOOLEAN]
  BY <1>3, WaitedInUse DEF TInv
<1>4. posts' \in [Slots -> [req: Requests, at: Places, waited: BOOLEAN] \cup {Free}]
  <2>1. \/ posts' = posts
        \/ \E s \in Slots : posts' = [posts EXCEPT ![s] = Free]
        \/ \E s \in Slots : posts[s].waited /\ posts' = [posts EXCEPT ![s].waited = FALSE]
    BY DEF Acknowledged, Disconnected, TimedOut, OtherAnswer, receiver
  <2>2. CASE posts' = posts
    BY <2>2 DEF TInv, TypeOK
  <2>3. CASE \E s \in Slots : posts' = [posts EXCEPT ![s] = Free]
    BY <2>3, SlotTypes DEF TInv
  <2>4. ASSUME NEW s \in Slots, posts[s].waited, posts' = [posts EXCEPT ![s].waited = FALSE]
        PROVE  posts' \in [Slots -> [req: Requests, at: Places, waited: BOOLEAN] \cup {Free}]
    <3>1. posts' = [posts EXCEPT ![s] = [posts[s] EXCEPT !.waited = FALSE]]
      BY <2>4 DEF TInv, TypeOK
    <3> QED BY <3>1, <2>4, <1>3, SlotTypes DEF TInv
  <2> QED BY <2>1, <2>2, <2>3, <2>4
<1> QED BY <1>1, <1>2, <1>4 DEF TInv, TypeOK, Holds, field, table, Answers

(* The steps that record an answer, or give a pass up.                     *)
LEMMA OutcomeTypes ==
  ASSUME TInv, Conclude \/ Abort \/ CrashForwarder
  PROVE  TInv'
<1>1. ASSUME Conclude PROVE TInv'
  <2>1. current \in Requests /\ answer \in {"ack", "transient", "permanent"}
    BY <1>1 DEF Conclude, TInv, TypeOK, Holds, Answers
  <2>2. Recorded \in Statuses
    BY <2>1 DEF Recorded, Statuses
  <2>3. status' \in [Requests -> Statuses]
    BY <1>1, <2>1, <2>2 DEF Conclude, TInv, TypeOK
  <2>4. due' \in [Requests -> BOOLEAN]
    BY <1>1, <2>1 DEF Conclude, TInv, TypeOK
  <2>5. retries' \in [Requests -> Nat]
    BY <1>1, <2>1 DEF Conclude, TInv, TypeOK
  <2> QED BY <1>1, <2>3, <2>4, <2>5
          DEF Conclude, TInv, TypeOK, Holds, Answers, field, receiver
<1>2. ASSUME Abort PROVE TInv'
  <2>1. faults' \in 0..MaxFaults
    BY <1>2, FaultTypes DEF Abort, TInv, TypeOK
  <2> QED BY <1>2, <2>1 DEF Abort, TInv, TypeOK, Holds, Answers, field, table, receiver
<1>3. ASSUME CrashForwarder PROVE TInv'
  <2>1. faults' \in 0..MaxFaults
    BY <1>3, FaultTypes DEF CrashForwarder, TInv
  <2>2. ASSUME NEW s \in Slots
        PROVE  [posts[s] EXCEPT !.waited = FALSE]
                 \in [req: Requests, at: Places, waited: BOOLEAN] \cup {Free}
    <3>1. CASE posts[s] = Free
      <4> DEFINE Unused == [req: {"none"}, at: {"free"}, waited: {FALSE}]
      <4>1. Free \in Unused
        BY DEF Free
      <4>2. [posts[s] EXCEPT !.waited = FALSE] \in Unused
        BY <3>1, <4>1
      <4>3. ASSUME NEW p \in Unused PROVE p = Free
        <5>1. p = [req |-> p.req, at |-> p.at, waited |-> p.waited]
          OBVIOUS
        <5>2. p.req = "none" /\ p.at = "free" /\ p.waited = FALSE
          OBVIOUS
        <5> QED BY <5>1, <5>2, Zenon DEF Free
      <4> QED BY <4>2, <4>3
    <3>2. CASE posts[s] \in [req: Requests, at: Places, waited: BOOLEAN]
      BY <3>2
    <3> QED BY <3>1, <3>2 DEF TInv, TypeOK
  <2>3. posts' \in [Slots -> [req: Requests, at: Places, waited: BOOLEAN] \cup {Free}]
    BY <1>3, <2>2 DEF CrashForwarder
  <2> QED BY <1>3, <2>1, <2>3 DEF CrashForwarder, TInv, TypeOK, Holds, Answers, field, table
<1> QED BY <1>1, <1>2, <1>3

(* The steps of a handler, and its end.                                    *)
LEMMA ReceiverTypes ==
  ASSUME TInv,
         \/ \E s \in Slots : Handler(s) \/ Lose(s)
         \/ CrashReceiver
  PROVE  TInv'
<1>1. ASSUME NEW s \in Slots, NEW place \in Places, posts[s].at # "free", Moves(s, place)
      PROVE  posts' \in [Slots -> [req: Requests, at: Places, waited: BOOLEAN] \cup {Free}]
  <2>1. [posts[s] EXCEPT !.at = place] \in [req: Requests, at: Places, waited: BOOLEAN]
    BY <1>1, SlotInUse DEF TInv
  <2>2. posts' = [posts EXCEPT ![s] = [posts[s] EXCEPT !.at = place]]
    BY <1>1 DEF Moves, TInv, TypeOK
  <2> QED BY <2>1, <2>2, SlotTypes DEF TInv
<1>2. ASSUME NEW s \in Slots, Handler(s) \/ Lose(s)
      PROVE  posts' \in [Slots -> [req: Requests, at: Places, waited: BOOLEAN] \cup {Free}]
  <2>1. CASE Finish(s) \/ Lose(s)
    BY <2>1, SlotTypes DEF Finish, Lose, TInv
  <2>2. CASE LookUp(s)
    BY <2>2, <1>1 DEF LookUp, Places
  <2>3. CASE Insert(s)
    BY <2>3, <1>1 DEF Insert, Places
  <2>4. CASE CommitRow(s)
    BY <2>4, <1>1 DEF CommitRow, Places
  <2> QED BY <1>2, <2>1, <2>2, <2>3, <2>4 DEF Handler
<1>3. ASSUME NEW s \in Slots, Handler(s) \/ Lose(s) PROVE TInv'
  <2>1. UNCHANGED <<field, table, born, process>>
    BY <1>3 DEF Handler, LookUp, Insert, CommitRow, Finish, Lose
  <2>2. faults' \in 0..MaxFaults
    BY <1>3, FaultTypes DEF Handler, LookUp, Insert, CommitRow, Finish, Lose, TInv, TypeOK
  <2>3. rows' \in [Requests -> Nat]
    BY <1>3 DEF Handler, LookUp, Insert, CommitRow, Finish, Lose, TInv, TypeOK
  <2> QED BY <1>2, <1>3, <2>1, <2>2, <2>3 DEF TInv, TypeOK, Holds, field, table, process
<1>4. ASSUME CrashReceiver PROVE TInv'
  <2>1. faults' \in 0..MaxFaults
    BY <1>4, FaultTypes DEF CrashReceiver, TInv
  <2>2. posts' \in [Slots -> [req: Requests, at: Places, waited: BOOLEAN] \cup {Free}]
    BY <1>4 DEF CrashReceiver, TInv, TypeOK
  <2> QED BY <1>4, <2>1, <2>2 DEF CrashReceiver, TInv, TypeOK, Holds, field, table, process
<1> QED BY <1>3, <1>4

LEMMA TypeStep == TInv /\ [Next]_vars => TInv'
<1> SUFFICES ASSUME TInv, [Next]_vars PROVE TInv'
  OBVIOUS
<1>1. CASE UNCHANGED vars
  BY <1>1 DEF vars, field, table, process, receiver, TInv, TypeOK, Holds
<1>2. CASE Next
  BY <1>2, FieldTypes, PassTypes, AnswerTypes, OutcomeTypes, ReceiverTypes
     DEF Next, Forwarder
<1> QED BY <1>1, <1>2

(* Whatever fails, the tables, the posts and the forwarder's state have    *)
(* their types, and the forwarder records only statuses that exist.        *)
THEOREM TypeCorrect == Spec => []TypeOK
<1>1. Spec => []TInv
  BY InitTypes, TypeStep, PTL DEF Spec
<1>2. TInv => TypeOK
  BY DEF TInv
<1> QED BY <1>1, <1>2, PTL

-----------------------------------------------------------------------------
(* The receiver's table.  A handler that has inserted a row is the only    *)
(* writer, and nobody has committed that row before it.                    *)

OneWriter == \A s, t \in Slots : posts[s].at = "open" /\ posts[t].at = "open" => s = t

OpenIsFirst == \A s \in Slots : posts[s].at = "open" => rows[posts[s].req] = 0

SInv == TInv /\ OneWriter /\ OpenIsFirst /\ StoredOnce

LEMMA InitStore == Init => SInv
BY InitTypes DEF Init, SInv, OneWriter, OpenIsFirst, StoredOnce, Free

\* A step that opens no row and writes none keeps the invariant.
LEMMA NothingOpened ==
  ASSUME SInv, TInv', rows' = rows,
         \A s \in Slots : posts'[s].at = "open" =>
                            posts[s].at = "open" /\ posts'[s].req = posts[s].req
  PROVE  SInv'
BY DEF SInv, OneWriter, OpenIsFirst, StoredOnce

\* No slot is opened by a step of the forwarder, the field node or a failure.
LEMMA OthersOpenNothing ==
  ASSUME TInv, Next, ~ \E s \in Slots : Insert(s) \/ CommitRow(s)
  PROVE  /\ rows' = rows
         /\ \A s \in Slots : posts'[s].at = "open" =>
                             posts[s].at = "open" /\ posts'[s].req = posts[s].req
<1> DEFINE Goal ==
      /\ rows' = rows
      /\ \A s \in Slots : posts'[s].at = "open" =>
                          posts[s].at = "open" /\ posts'[s].req = posts[s].req
<1>1. ASSUME \/ \E r \in Requests : Submit(r) \/ CommitIntake(r) \/ Promise(r) \/ Elapse(r)
             \/ Recover \/ Claim \/ PassEnds \/ Disconnected \/ Conclude \/ StartForwarder
             \/ Abort \/ CrashField
      PROVE  Goal
  BY <1>1 DEF Submit, CommitIntake, Promise, Elapse, Recover, Claim, PassEnds, Disconnected,
              Conclude, StartForwarder, Abort, CrashField, receiver
<1>2. ASSUME Post PROVE Goal
  <2>1. PICK r \in batch, s \in Slots :
          posts' = [posts EXCEPT ![s] = [req |-> r, at |-> "wire", waited |-> TRUE]]
    BY <1>2, PostTakesFreeSlot
  <2> QED BY <1>2, <2>1 DEF Post, TInv, TypeOK
<1>3. ASSUME Acknowledged \/ TimedOut PROVE Goal
  BY <1>3 DEF Acknowledged, TimedOut, TInv, TypeOK, Free
<1>4. ASSUME OtherAnswer PROVE Goal
  BY <1>4 DEF OtherAnswer, TInv, TypeOK, Free
<1>5. ASSUME CrashForwarder PROVE Goal
  BY <1>5 DEF CrashForwarder, TInv, TypeOK, Free
<1>6. ASSUME CrashReceiver PROVE Goal
  BY <1>6 DEF CrashReceiver, TInv, TypeOK, Free
<1>7. ASSUME NEW s \in Slots, LookUp(s) PROVE Goal
  BY <1>7 DEF LookUp, Moves, TInv, TypeOK
<1>8. ASSUME NEW s \in Slots, Finish(s) \/ Lose(s) PROVE Goal
  BY <1>8 DEF Finish, Lose, TInv, TypeOK, Free
<1> QED
  BY <1>1, <1>2, <1>3, <1>4, <1>5, <1>6, <1>7, <1>8 DEF Next, Forwarder, Handler

LEMMA StoreStep == SInv /\ [Next]_vars => SInv'
<1> SUFFICES ASSUME SInv, [Next]_vars PROVE SInv'
  OBVIOUS
<1>1. TInv /\ TInv'
  BY TypeStep DEF SInv
<1>2. CASE UNCHANGED vars
  BY <1>1, <1>2, NothingOpened DEF vars, receiver
<1>3. CASE Next /\ ~ \E s \in Slots : Insert(s) \/ CommitRow(s)
  BY <1>1, <1>3, OthersOpenNothing, NothingOpened
<1>4. ASSUME NEW s \in Slots, Insert(s) PROVE SInv'
  <2>1. rows' = rows /\ posts[s].req \in Requests
    BY <1>1, <1>4, SlotInUse DEF Insert, TInv
  <2>2. CASE Conflict(posts[s].req)
    <3>1. \A t \in Slots : posts'[t].at = "open" =>
                            posts[t].at = "open" /\ posts'[t].req = posts[t].req
      BY <1>1, <1>4, <2>2 DEF Insert, Moves, TInv, TypeOK
    <3> QED BY <1>1, <2>1, <3>1, NothingOpened
  <2>3. CASE ~Conflict(posts[s].req)
    <3>1. rows[posts[s].req] = 0
      BY <1>1, <2>1, <2>3 DEF Conflict, TInv, TypeOK
    <3>2. \A t \in Slots : posts[t].at # "open"
      BY <1>4 DEF Insert, Writing
    <3>3. \A t \in Slots : posts'[t].at = "open" => t = s
      BY <1>1, <1>4, <3>2 DEF Insert, Moves, TInv, TypeOK
    <3>4. posts'[s].req = posts[s].req
      BY <1>1, <1>4 DEF Insert, Moves, TInv, TypeOK
    <3> QED BY <1>1, <2>1, <3>1, <3>3, <3>4 DEF SInv, OneWriter, OpenIsFirst, StoredOnce
  <2> QED BY <2>2, <2>3
<1>5. ASSUME NEW s \in Slots, CommitRow(s) PROVE SInv'
  <2>1. posts[s].at = "open" /\ posts[s].req \in Requests
    BY <1>1, <1>5, SlotInUse DEF CommitRow, TInv
  <2>2. rows[posts[s].req] = 0
    BY <2>1 DEF SInv, OpenIsFirst
  <2>3. \A t \in Slots : posts'[t].at # "open"
    BY <1>1, <1>5, <2>1 DEF CommitRow, Moves, TInv, TypeOK, SInv, OneWriter
  <2>4. \A r \in Requests : rows'[r] = IF r = posts[s].req THEN 1 ELSE rows[r]
    BY <1>1, <1>5, <2>2 DEF CommitRow, TInv, TypeOK
  <2> QED BY <1>1, <2>3, <2>4 DEF SInv, OneWriter, OpenIsFirst, StoredOnce
<1> QED BY <1>2, <1>3, <1>4, <1>5

(* However often a request is posted, and however the handlers of its      *)
(* posts overtake each other, crash or lose their answers, the receiver    *)
(* has at most one row of it.                                              *)
THEOREM StoresOnce == Spec => []StoredOnce
<1>1. Spec => []SInv
  BY InitStore, StoreStep, PTL DEF Spec
<1>2. SInv => StoredOnce
  BY DEF SInv
<1> QED BY <1>1, <1>2, PTL

-----------------------------------------------------------------------------
(* The chain from the phone to the rescue team's table.  Each link names a *)
(* row that the one before it has written.                                 *)

IntakeStored == \A r \in Requests :
  /\ intake[r] \in {"none", "open"} => status[r] = "absent"
  /\ intake[r] = "committed" => status[r] # "absent"

BatchSending == \A r \in batch : status[r] = "sending"

PostStored == \A s \in Slots : posts[s].at # "free" => status[posts[s].req] # "absent"

DoneReceived == \A s \in Slots : posts[s].at = "done" => rows[posts[s].req] > 0

\* The forwarder waits for one post, that of the request it is delivering.
Awaited ==
  /\ \A s \in Slots : posts[s].waited => forwarder = "wait" /\ posts[s].req = current
  /\ \A s, t \in Slots : posts[s].waited /\ posts[t].waited => s = t

\* There is an answer only between its arrival and its record.
AnswerHeld == answer # "none" => forwarder = "conclude"

CInv ==
  /\ TInv
  /\ IntakeStored
  /\ BatchSending
  /\ PostStored
  /\ DoneReceived
  /\ Awaited
  /\ AnswerHeld

LEMMA InitChain == Init => CInv
BY InitTypes
   DEF Init, CInv, IntakeStored, BatchSending, PostStored, DoneReceived, Awaited, AnswerHeld, Free

\* A row of the receiver is never deleted.
LEMMA RowsStay ==
  ASSUME TInv, Next
  PROVE  \A r \in Requests : rows[r] > 0 => rows'[r] > 0
<1>1. CASE \E s \in Slots : CommitRow(s)
  BY <1>1 DEF CommitRow, TInv, TypeOK
<1>2. CASE ~ \E s \in Slots : CommitRow(s)
  <2>1. rows' = rows
    BY <1>2 DEF Next, Forwarder, Handler, Submit, CommitIntake, Promise, Elapse, LookUp, Insert,
                Finish, Lose, Recover, Claim, Post, PassEnds, Acknowledged, Disconnected, TimedOut,
                OtherAnswer, Conclude, Abort, StartForwarder, CrashField, CrashForwarder,
                CrashReceiver, receiver
  <2> QED BY <2>1
<1> QED BY <1>1, <1>2

\* The answer that is recorded, of the request whose post ended.
LEMMA ConcludeStatus ==
  ASSUME TInv, Conclude
  PROVE  /\ current \in batch /\ current \in Requests
         /\ Recorded \in {"delivered", "pending", "failed"}
         /\ Recorded = "delivered" => answer = "ack"
         /\ \A r \in Requests : status'[r] = IF r = current THEN Recorded ELSE status[r]
<1>1. current \in batch /\ current \in Requests
  BY DEF Conclude, TInv, TypeOK, Holds
<1>2. answer \in {"ack", "transient", "permanent"}
  BY DEF Conclude, TInv, TypeOK, Holds, Answers
<1>3. /\ Recorded \in {"delivered", "pending", "failed"}
      /\ Recorded = "delivered" => answer = "ack"
  BY <1>2 DEF Recorded
<1>4. \A r \in Requests : status'[r] = IF r = current THEN Recorded ELSE status[r]
  BY <1>1 DEF Conclude, TInv, TypeOK
<1> QED BY <1>1, <1>3, <1>4

\* The steps that change a row of the field database.
LEMMA StatusChanges ==
  ASSUME TInv, Next
  PROVE  \/ status' = status
         \/ \E r \in Requests : CommitIntake(r)
         \/ Recover \/ Claim \/ Conclude
BY DEF Next, Forwarder, Handler, Submit, Promise, Elapse, LookUp, Insert, CommitRow,
       Finish, Lose, Post, PassEnds, Acknowledged, Disconnected, TimedOut,
       OtherAnswer, Abort, StartForwarder, CrashField, CrashForwarder, CrashReceiver, table

\* A row of the field node is never deleted.
LEMMA StaysStored ==
  ASSUME TInv, Next
  PROVE  \A r \in Requests : status[r] # "absent" => status'[r] # "absent"
<1>1. CASE status' = status
  BY <1>1
<1>2. ASSUME NEW q \in Requests, CommitIntake(q)
      PROVE  \A r \in Requests : status[r] # "absent" => status'[r] # "absent"
  BY <1>2 DEF CommitIntake, TInv, TypeOK
<1>3. CASE Recover
  BY <1>3 DEF Recover, TInv, TypeOK
<1>4. CASE Claim
  BY <1>4 DEF Claim, TInv, TypeOK
<1>5. CASE Conclude
  BY <1>5, ConcludeStatus
<1> QED BY <1>1, <1>2, <1>3, <1>4, <1>5, StatusChanges

\* Where a post of the next state comes from.
Continues(s) ==
  /\ posts[s].at # "free"
  /\ posts'[s].req = posts[s].req
  /\ posts'[s].at = "done" => posts[s].at = "done" \/ rows'[posts[s].req] > 0
  /\ posts'[s].waited => posts[s].waited

LEMMA PostOrigin ==
  ASSUME TInv, Next
  PROVE  \A s \in Slots : posts'[s].at # "free" =>
           \/ Continues(s)
           \/ posts'[s].req \in batch /\ posts'[s].at = "wire"
<1> DEFINE Goal == \A s \in Slots : posts'[s].at # "free" =>
                     \/ Continues(s)
                     \/ posts'[s].req \in batch /\ posts'[s].at = "wire"
<1>1. ASSUME posts' = posts PROVE Goal
  BY <1>1 DEF Continues
<1>2. ASSUME Post PROVE Goal
  <2>1. PICK r \in batch, s \in Slots :
          posts' = [posts EXCEPT ![s] = [req |-> r, at |-> "wire", waited |-> TRUE]]
    BY <1>2, PostTakesFreeSlot
  <2>2. posts'[s].req = r /\ posts'[s].at = "wire"
    BY <2>1 DEF TInv, TypeOK
  <2>3. \A t \in Slots : t # s => posts'[t] = posts[t]
    BY <2>1 DEF TInv, TypeOK
  <2> QED BY <2>2, <2>3 DEF Continues
<1>3. ASSUME Acknowledged \/ TimedOut PROVE Goal
  BY <1>3 DEF Acknowledged, TimedOut, TInv, TypeOK, Free, Continues
<1>4. ASSUME OtherAnswer PROVE Goal
  BY <1>4 DEF OtherAnswer, TInv, TypeOK, Free, Continues
<1>5. ASSUME CrashForwarder PROVE Goal
  BY <1>5 DEF CrashForwarder, TInv, TypeOK, Free, Continues
<1>6. ASSUME CrashReceiver PROVE Goal
  BY <1>6 DEF CrashReceiver, TInv, TypeOK, Free, Continues
<1>7. ASSUME NEW s \in Slots, LookUp(s) PROVE Goal
  <2>1. rows' = rows /\ posts[s].req \in Requests
    BY <1>7, SlotInUse DEF LookUp, TInv
  <2> QED BY <1>7, <2>1 DEF LookUp, Moves, TInv, TypeOK, Continues
<1>8. ASSUME NEW s \in Slots, Insert(s) PROVE Goal
  <2>1. rows' = rows /\ posts[s].req \in Requests
    BY <1>8, SlotInUse DEF Insert, TInv
  <2> QED BY <1>8, <2>1 DEF Insert, Conflict, Moves, TInv, TypeOK, Continues
<1>9. ASSUME NEW s \in Slots, CommitRow(s) PROVE Goal
  <2>1. posts[s].req \in Requests
    BY <1>9, SlotInUse DEF CommitRow, TInv
  <2>2. rows'[posts[s].req] > 0
    BY <1>9, <2>1 DEF CommitRow, TInv, TypeOK
  <2> QED BY <1>9, <2>2 DEF CommitRow, Moves, TInv, TypeOK, Continues
<1>10. ASSUME NEW s \in Slots, Finish(s) \/ Lose(s) PROVE Goal
  BY <1>10 DEF Finish, Lose, TInv, TypeOK, Free, Continues
<1>11. \/ posts' = posts
       \/ Post \/ Acknowledged \/ TimedOut \/ OtherAnswer \/ CrashForwarder \/ CrashReceiver
       \/ \E s \in Slots : LookUp(s) \/ Insert(s) \/ CommitRow(s) \/ Finish(s) \/ Lose(s)
  BY DEF Next, Forwarder, Handler, Submit, CommitIntake, Promise, Elapse, Recover, Claim,
         PassEnds, Disconnected, Conclude, StartForwarder, Abort, CrashField, receiver
<1> QED
  BY <1>1, <1>2, <1>3, <1>4, <1>5, <1>6, <1>7, <1>8, <1>9, <1>10, <1>11

LEMMA IntakeStep ==
  ASSUME CInv, Next
  PROVE  IntakeStored'
<1>1. CASE status' = status /\ intake' = intake
  BY <1>1 DEF CInv, IntakeStored
<1>2. ASSUME NEW r \in Requests, Submit(r) PROVE IntakeStored'
  BY <1>2 DEF Submit, table, CInv, TInv, TypeOK, IntakeStored
<1>3. ASSUME NEW r \in Requests, CommitIntake(r) PROVE IntakeStored'
  BY <1>3 DEF CommitIntake, CInv, TInv, TypeOK, IntakeStored
<1>4. CASE CrashField
  BY <1>4 DEF CrashField, table, CInv, TInv, TypeOK, IntakeStored
<1>5. CASE Recover
  BY <1>5 DEF Recover, field, CInv, TInv, TypeOK, IntakeStored
<1>6. CASE Claim
  BY <1>6 DEF Claim, Claimed, Due, field, CInv, TInv, TypeOK, IntakeStored
<1>7. CASE Conclude
  <2>1. status[current] # "absent" /\ current \in Requests
    BY <1>7, ConcludeStatus DEF CInv, BatchSending
  <2> QED BY <1>7, <2>1, ConcludeStatus DEF Conclude, field, CInv, IntakeStored
<1>8. \/ status' = status /\ intake' = intake
      \/ \E r \in Requests : Submit(r) \/ CommitIntake(r)
      \/ CrashField \/ Recover \/ Claim \/ Conclude
  BY DEF Next, Forwarder, Handler, Promise, Elapse, LookUp, Insert, CommitRow, Finish, Lose, Post,
         PassEnds, Acknowledged, Disconnected, TimedOut, OtherAnswer, Abort, StartForwarder,
         CrashForwarder, CrashReceiver, table, field
<1> QED BY <1>1, <1>2, <1>3, <1>4, <1>5, <1>6, <1>7, <1>8

LEMMA BatchStep ==
  ASSUME CInv, Next
  PROVE  BatchSending'
<1>1. CASE status' = status /\ batch' \in {batch, {}}
  BY <1>1 DEF CInv, BatchSending
<1>2. ASSUME NEW r \in Requests, CommitIntake(r) PROVE BatchSending'
  BY <1>2 DEF CommitIntake, process, CInv, TInv, TypeOK, IntakeStored, BatchSending
<1>3. CASE Recover
  BY <1>3 DEF Recover, CInv, TInv, Holds, BatchSending
<1>4. CASE Claim
  BY <1>4 DEF Claim, Claimed, Due, BatchSending
<1>5. CASE Conclude
  <2>1. batch' = batch \ {current} /\ batch \in SUBSET Requests
    BY <1>5 DEF Conclude, CInv, TInv, TypeOK
  <2> QED BY <1>5, <2>1, ConcludeStatus DEF CInv, BatchSending
<1>6. \/ status' = status /\ batch' \in {batch, {}}
      \/ \E r \in Requests : CommitIntake(r)
      \/ Recover \/ Claim \/ Conclude
  BY DEF Next, Forwarder, Handler, Submit, Promise, Elapse, LookUp, Insert, CommitRow, Finish, Lose,
         Post, PassEnds, Acknowledged, Disconnected, TimedOut, OtherAnswer, Abort, StartForwarder,
         CrashField, CrashForwarder, CrashReceiver, table, process
<1> QED BY <1>1, <1>2, <1>3, <1>4, <1>5, <1>6

LEMMA PostStep ==
  ASSUME CInv, TInv', Next
  PROVE  PostStored' /\ DoneReceived'
<1> SUFFICES ASSUME NEW s \in Slots, posts'[s].at # "free"
             PROVE  /\ status'[posts'[s].req] # "absent"
                    /\ posts'[s].at = "done" => rows'[posts'[s].req] > 0
  BY DEF PostStored, DoneReceived
<1>1. CASE Continues(s)
  <2>1. posts[s].req \in Requests
    BY <1>1, SlotInUse DEF Continues, CInv, TInv
  <2> QED BY <1>1, <2>1, RowsStay, StaysStored DEF Continues, CInv, PostStored, DoneReceived
<1>2. CASE posts'[s].req \in batch /\ posts'[s].at = "wire"
  BY <1>2, StaysStored DEF CInv, TInv, TypeOK, BatchSending
<1> QED BY <1>1, <1>2, PostOrigin DEF CInv

LEMMA AwaitedStep ==
  ASSUME CInv, Next
  PROVE  Awaited'
<1>1. ASSUME \A s \in Slots : ~posts'[s].waited PROVE Awaited'
  BY <1>1 DEF Awaited
<1>2. CASE Post
  <2>1. PICK r \in batch, s \in Slots :
          /\ current' = r
          /\ posts' = [posts EXCEPT ![s] = [req |-> r, at |-> "wire", waited |-> TRUE]]
    BY <1>2, PostTakesFreeSlot
  <2>2. forwarder = "deliver" /\ forwarder' = "wait"
    BY <1>2 DEF Post
  <2>3. posts'[s].req = r /\ \A t \in Slots : t # s => ~posts'[t].waited
    BY <2>1, <2>2 DEF CInv, TInv, TypeOK, Awaited
  <2> QED BY <2>1, <2>2, <2>3 DEF Awaited
<1>3. CASE Acknowledged \/ TimedOut \/ OtherAnswer
  <2>1. PICK s \in Slots : /\ posts[s].waited
                           /\ \/ posts' = [posts EXCEPT ![s] = Free]
                              \/ posts' = [posts EXCEPT ![s].waited = FALSE]
    BY <1>3 DEF Acknowledged, TimedOut, OtherAnswer
  <2>2. ~posts'[s].waited /\ \A t \in Slots : t # s => posts'[t] = posts[t]
    BY <2>1 DEF CInv, TInv, TypeOK, Free
  <2> QED BY <1>1, <2>1, <2>2 DEF CInv, Awaited
<1>4. CASE Disconnected
  BY <1>1, <1>4 DEF Disconnected, receiver
<1>5. CASE CrashForwarder
  BY <1>1, <1>5 DEF CrashForwarder, CInv, TInv, TypeOK, Free
<1>6. ASSUME Recover \/ Claim \/ PassEnds \/ Conclude \/ Abort \/ StartForwarder
      PROVE  Awaited'
  BY <1>1, <1>6 DEF Recover, Claim, PassEnds, Conclude, Abort, StartForwarder, receiver,
                    CInv, Awaited
<1>7. ASSUME UNCHANGED <<forwarder, current>>,
             \A s \in Slots : posts'[s].waited =>
                               posts[s].waited /\ posts'[s].req = posts[s].req
      PROVE  Awaited'
  BY <1>7 DEF CInv, Awaited
<1>8. CASE \/ \E r \in Requests : Submit(r) \/ CommitIntake(r) \/ Promise(r) \/ Elapse(r)
          \/ CrashField
  BY <1>7, <1>8 DEF Submit, CommitIntake, Promise, Elapse, CrashField, process, receiver
<1>9. CASE CrashReceiver
  BY <1>7, <1>9 DEF CrashReceiver, process, CInv, TInv, TypeOK, Free
<1>10. ASSUME NEW s \in Slots, Handler(s) \/ Lose(s) PROVE Awaited'
  <2>1. UNCHANGED <<forwarder, current>>
    BY <1>10 DEF Handler, LookUp, Insert, CommitRow, Finish, Lose, process
  <2>2. CASE Finish(s) \/ Lose(s)
    BY <1>7, <2>1, <2>2 DEF Finish, Lose, CInv, TInv, TypeOK, Free
  <2>3. CASE LookUp(s)
    BY <1>7, <2>1, <2>3 DEF LookUp, Moves, CInv, TInv, TypeOK
  <2>4. CASE Insert(s)
    BY <1>7, <2>1, <2>4 DEF Insert, Moves, CInv, TInv, TypeOK
  <2>5. CASE CommitRow(s)
    BY <1>7, <2>1, <2>5 DEF CommitRow, Moves, CInv, TInv, TypeOK
  <2> QED BY <1>10, <2>2, <2>3, <2>4, <2>5 DEF Handler
<1> QED
  BY <1>2, <1>3, <1>4, <1>5, <1>6, <1>8, <1>9, <1>10 DEF Next, Forwarder

LEMMA AnswerStep ==
  ASSUME CInv, Next
  PROVE  AnswerHeld'
BY DEF CInv, AnswerHeld, Next, Forwarder, Handler, Submit, CommitIntake, Promise, Elapse, LookUp,
       Insert, CommitRow, Finish, Lose, Recover, Claim, Post, PassEnds, Acknowledged, Disconnected,
       TimedOut, OtherAnswer, Concludes, Conclude, Abort, StartForwarder, CrashField,
       CrashForwarder, CrashReceiver, process

LEMMA ChainStep == CInv /\ [Next]_vars => CInv'
<1> SUFFICES ASSUME CInv, [Next]_vars PROVE CInv'
  OBVIOUS
<1>1. TInv'
  BY TypeStep DEF CInv
<1>2. CASE UNCHANGED vars
  BY <1>1, <1>2 DEF vars, field, table, process, receiver, CInv, IntakeStored, BatchSending,
                    PostStored, DoneReceived, Awaited, AnswerHeld
<1>3. CASE Next
  BY <1>1, <1>3, IntakeStep, BatchStep, PostStep, AwaitedStep, AnswerStep DEF CInv
<1> QED BY <1>2, <1>3

-----------------------------------------------------------------------------
(* The refinement: every step is a step of RescueService, or none.         *)

LEMMA InitRefines == Init => Abstract!Init
<1> SUFFICES ASSUME Init PROVE Abstract!Init
  OBVIOUS
<1>1. answersFirst \in SUBSET {"field", "receiver"}
  BY RescueAssumption DEF Init
<1>2. Storing = {} /\ Stored = {} /\ promised = {} /\ Receiving = {} /\ Received = {}
  BY DEF Init, Storing, Stored, Receiving, Received, Free
<1>3. Acked = {} /\ Delivered = {} /\ GivenUp = {}
  BY DEF Init, Acked, Delivered, GivenUp
<1> QED BY <1>1, <1>2, <1>3 DEF Abstract!Init

\* The sets of the service that come from the field node's intake, from the
\* receiver, and from the forwarder.
SameField == UNCHANGED <<answersFirst, Storing, promised>>
SameTeam == UNCHANGED <<Receiving, Received>>
SameStatus == UNCHANGED <<Stored, Delivered, GivenUp>>

LEMMA SameIsStutter ==
  ASSUME SameField, SameTeam, SameStatus, Acked' = Acked
  PROVE  UNCHANGED Abstract!vars
BY DEF SameField, SameTeam, SameStatus, Abstract!vars, Abstract!fieldSets, Abstract!teamSets,
       Abstract!outcomes

LEMMA FieldUnchanged == UNCHANGED field => SameField
BY DEF field, SameField, Storing

LEMMA StatusUnchanged == status' = status => SameStatus
BY DEF SameStatus, Stored, Delivered, GivenUp

\* What the receiver has begun depends on its open transactions only.
LEMMA TeamUnchanged ==
  ASSUME rows' = rows,
         \A s \in Slots : posts'[s].at = "open" <=> posts[s].at = "open",
         \A s \in Slots : posts[s].at = "open" => posts'[s].req = posts[s].req
  PROVE  SameTeam
BY DEF SameTeam, Receiving, Received

\* A step of one request's row shows in the sets as a step of one element.
LEMMA OneStatus ==
  ASSUME TInv, NEW r \in Requests, NEW new \in {"pending", "delivered", "failed"},
         status[r] \in {"absent", "sending"},
         \A q \in Requests : status'[q] = IF q = r THEN new ELSE status[q]
  PROVE  /\ Stored' = Stored \cup {r}
         /\ Delivered' = IF new = "delivered" THEN Delivered \cup {r} ELSE Delivered
         /\ GivenUp' = IF new = "failed" THEN GivenUp \cup {r} ELSE GivenUp
         /\ r \notin Delivered \cup GivenUp
BY DEF Stored, Delivered, GivenUp

LEMMA IntakeRefines ==
  ASSUME SInv, CInv, NEW r \in Requests, Submit(r) \/ CommitIntake(r) \/ Promise(r) \/ Elapse(r)
  PROVE  [Abstract!Next]_(Abstract!vars)
<1>2. CASE Submit(r)
  <2>1. r \notin Storing \cup Stored
    BY <1>2 DEF Submit, CInv, IntakeStored, Storing, Stored
  <2>2. Storing' = Storing \cup {r}
    BY <1>2 DEF Submit, CInv, TInv, TypeOK, Storing
  <2>3. SameStatus /\ UNCHANGED <<answersFirst, promised>>
    BY <1>2, StatusUnchanged DEF Submit, table
  <2>4. SameTeam /\ Acked' = Acked
    BY <1>2, TeamUnchanged DEF Submit, table, process, receiver, Acked, Delivered
  <2>5. Abstract!BeginStore(r)
    BY <2>1, <2>2, <2>3, <2>4
       DEF Abstract!BeginStore, Abstract!teamSets, Abstract!outcomes, SameStatus, SameTeam
  <2> QED BY <2>5 DEF Abstract!Next
<1>3. CASE CommitIntake(r)
  <2>1. status[r] = "absent" /\ r \in Storing
    BY <1>3 DEF CommitIntake, CInv, IntakeStored, Storing
  <2>2. \A q \in Requests : status'[q] = IF q = r THEN "pending" ELSE status[q]
    BY <1>3 DEF CommitIntake, CInv, TInv, TypeOK
  <2>3. Stored' = Stored \cup {r} /\ UNCHANGED <<Delivered, GivenUp>>
    BY <2>1, <2>2, OneStatus DEF CInv
  <2>4. Storing' = Storing \ {r}
    BY <1>3 DEF CommitIntake, CInv, TInv, TypeOK, Storing
  <2>5. SameTeam /\ Acked' = Acked /\ UNCHANGED <<answersFirst, promised>>
    BY <1>3, <2>3, TeamUnchanged DEF CommitIntake, process, receiver, Acked
  <2>6. Abstract!Store(r)
    BY <2>1, <2>3, <2>4, <2>5
       DEF Abstract!Store, Abstract!teamSets, Abstract!outcomes, SameTeam
  <2> QED BY <2>6 DEF Abstract!Next
<1>4. CASE Promise(r)
  <2>1. r \in Abstract!Vouched("field", Stored, Storing) \ promised
    BY <1>4 DEF Promise, CInv, IntakeStored, Storing, Stored, Abstract!Vouched
  <2>2. promised' = promised \cup {r} /\ UNCHANGED <<answersFirst, Storing>> /\ SameStatus
    BY <1>4, StatusUnchanged DEF Promise, table, Storing
  <2>3. SameTeam /\ Acked' = Acked
    BY <1>4, TeamUnchanged DEF Promise, table, process, receiver, Acked, Delivered
  <2>4. Abstract!Promise(r)
    BY <2>1, <2>2, <2>3
       DEF Abstract!Promise, Abstract!teamSets, Abstract!outcomes, SameStatus, SameTeam
  <2> QED BY <2>4 DEF Abstract!Next
<1>5. CASE Elapse(r)
  <2>1. SameField /\ SameStatus /\ SameTeam
    BY <1>5, FieldUnchanged, StatusUnchanged, TeamUnchanged DEF Elapse, receiver
  <2>2. Acked' = Acked
    BY <1>5 DEF Elapse, process, Acked, Delivered
  <2> QED BY <2>1, <2>2, SameIsStutter
<1> QED BY <1>2, <1>3, <1>4, <1>5

LEMMA CrashFieldRefines ==
  ASSUME SInv, CInv, CrashField
  PROVE  [Abstract!Next]_(Abstract!vars)
<1>1. Storing' = {} /\ UNCHANGED <<answersFirst, promised>>
  BY DEF CrashField, CInv, TInv, TypeOK, Storing
<1>2. SameStatus /\ SameTeam /\ Acked' = Acked
  BY StatusUnchanged, TeamUnchanged DEF CrashField, table, process, receiver, Acked, Delivered
<1>3. Abstract!LoseStoring
  BY <1>1, <1>2
     DEF Abstract!LoseStoring, Abstract!teamSets, Abstract!outcomes, SameStatus, SameTeam
<1> QED BY <1>3 DEF Abstract!Next

(* The passes of the forwarder, up to the answer.                          *)
LEMMA PassRefines ==
  ASSUME SInv, CInv,
         Recover \/ Claim \/ Post \/ PassEnds \/ StartForwarder \/ Disconnected \/ TimedOut
           \/ OtherAnswer
  PROVE  [Abstract!Next]_(Abstract!vars)
<1>1. SameField
  BY FieldUnchanged DEF Recover, Claim, Post, PassEnds, StartForwarder, Disconnected, TimedOut,
                        OtherAnswer
<1>2. SameStatus
  <2>1. CASE status' = status
    BY <2>1, StatusUnchanged
  <2>2. CASE Recover
    <3>1. \A r \in Requests :
            status'[r] = status[r] \/ (status[r] = "sending" /\ status'[r] = "pending")
      BY <2>2 DEF Recover
    <3> QED BY <3>1 DEF SameStatus, Stored, Delivered, GivenUp
  <2>3. CASE Claim
    <3>1. \A r \in Requests :
            status'[r] = status[r] \/ (status[r] = "pending" /\ status'[r] = "sending")
      BY <2>3 DEF Claim, Claimed, Due
    <3> QED BY <3>1 DEF SameStatus, Stored, Delivered, GivenUp
  <2> QED
    BY <2>1, <2>2, <2>3 DEF Post, PassEnds, StartForwarder, Disconnected, TimedOut, OtherAnswer, table
<1>3. Acked' = Acked
  <2>1. answer = "none"
    BY DEF CInv, AnswerHeld, Recover, Claim, Post, PassEnds, StartForwarder, Disconnected, TimedOut,
           OtherAnswer, Concludes
  <2>2. answer' # "ack"
    BY <2>1 DEF Recover, Claim, Post, PassEnds, StartForwarder, Disconnected, TimedOut, OtherAnswer,
                Concludes
  <2> QED BY <1>2, <2>1, <2>2 DEF Acked, SameStatus
<1>4. SameTeam
  <2>1. CASE UNCHANGED receiver
    BY <2>1, TeamUnchanged DEF receiver
  <2>2. CASE Post
    <3>1. PICK r \in batch, s \in Slots :
            /\ posts[s] = Free
            /\ posts' = [posts EXCEPT ![s] = [req |-> r, at |-> "wire", waited |-> TRUE]]
      BY <2>2, PostTakesFreeSlot
    <3>2. rows' = rows /\ \A t \in Slots : t # s => posts'[t] = posts[t]
      BY <2>2, <3>1 DEF Post, CInv, TInv, TypeOK
    <3>3. posts'[s].at # "open" /\ posts[s].at # "open"
      BY <3>1 DEF CInv, TInv, TypeOK, Free
    <3> QED BY <3>2, <3>3, TeamUnchanged
  <2>3. CASE TimedOut
    <3>1. rows' = rows /\ \A s \in Slots : posts'[s].at = posts[s].at /\ posts'[s].req = posts[s].req
      BY <2>3 DEF TimedOut, CInv, TInv, TypeOK, Free
    <3> QED BY <3>1, TeamUnchanged
  <2>4. CASE OtherAnswer
    <3>1. PICK s \in Slots : posts[s].at = "wire" /\ posts' = [posts EXCEPT ![s] = Free]
      BY <2>4 DEF OtherAnswer
    <3>2. /\ rows' = rows /\ posts'[s].at # "open"
          /\ \A t \in Slots : t # s => posts'[t] = posts[t]
      BY <2>4, <3>1 DEF OtherAnswer, CInv, TInv, TypeOK, Free
    <3> QED BY <3>1, <3>2, TeamUnchanged
  <2> QED
    BY <2>1, <2>2, <2>3, <2>4 DEF Recover, Claim, PassEnds, StartForwarder, Disconnected, receiver
<1> QED BY <1>1, <1>2, <1>3, <1>4, SameIsStutter

(* An acknowledgement, and what becomes of an answer.                      *)
LEMMA AcknowledgedRefines ==
  ASSUME SInv, CInv, Acknowledged
  PROVE  [Abstract!Next]_(Abstract!vars)
<1>1. PICK s \in Slots :
        /\ posts[s].waited
        /\ \/ posts[s].at = "done" /\ posts' = [posts EXCEPT ![s] = Free]
           \/ /\ posts[s].at = "open" /\ "receiver" \in answersFirst
              /\ posts' = [posts EXCEPT ![s].waited = FALSE]
  BY DEF Acknowledged
<1>2. /\ forwarder = "wait" /\ answer = "none" /\ answer' = "ack" /\ current' = current
      /\ UNCHANGED <<field, status, rows>>
  BY DEF Acknowledged, Concludes, CInv, AnswerHeld, table
<1>3. posts[s].req = current /\ current \in Requests /\ status[current] = "sending"
  BY <1>1, <1>2 DEF CInv, TInv, TypeOK, Holds, Awaited, BatchSending
<1>4. SameTeam
  <2>1. \A t \in Slots : t # s => posts'[t] = posts[t]
    BY <1>1 DEF CInv, TInv, TypeOK
  <2>2. /\ posts'[s].at = "open" <=> posts[s].at = "open"
        /\ posts[s].at = "open" => posts'[s].req = posts[s].req
    BY <1>1 DEF CInv, TInv, TypeOK, Free
  <2> QED BY <1>2, <2>1, <2>2, TeamUnchanged
<1>5. current \in Abstract!Vouched("receiver", Received, Receiving)
  <2>1. CASE posts[s].at = "done"
    BY <1>3, <2>1 DEF CInv, DoneReceived, Received, Abstract!Vouched
  <2>2. CASE posts[s].at = "open" /\ "receiver" \in answersFirst
    BY <1>3, <2>2 DEF Receiving, Abstract!Vouched
  <2> QED BY <1>1, <2>1, <2>2
<1>6. Acked = Delivered /\ Acked' = Delivered' \cup {current} /\ current \notin Delivered
  BY <1>2, <1>3 DEF Acked, Delivered
<1>7. SameField /\ SameStatus
  BY <1>2, FieldUnchanged, StatusUnchanged
<1>8. Abstract!Acknowledge(current)
  BY <1>4, <1>5, <1>6, <1>7
     DEF Abstract!Acknowledge, Abstract!fieldSets, Abstract!teamSets, SameField, SameStatus, SameTeam
<1> QED BY <1>3, <1>8 DEF Abstract!Next

LEMMA ConcludeRefines ==
  ASSUME SInv, CInv, Conclude
  PROVE  [Abstract!Next]_(Abstract!vars)
<1>1. PICK r \in Requests : r = current
  BY ConcludeStatus DEF CInv
<1>2. /\ status[r] = "sending" /\ r \in Stored
      /\ Recorded \in {"delivered", "pending", "failed"}
      /\ Recorded = "delivered" <=> answer = "ack"
  <2>1. answer \in {"ack", "transient", "permanent"}
    BY DEF Conclude, CInv, TInv, TypeOK, Holds, Answers
  <2> QED BY <1>1, <2>1, ConcludeStatus DEF CInv, BatchSending, Stored, Recorded
<1>3. /\ Stored' = Stored \cup {r}
      /\ Delivered' = IF Recorded = "delivered" THEN Delivered \cup {r} ELSE Delivered
      /\ GivenUp' = IF Recorded = "failed" THEN GivenUp \cup {r} ELSE GivenUp
      /\ r \notin Delivered \cup GivenUp
  BY <1>1, <1>2, ConcludeStatus, OneStatus DEF CInv
<1>4. SameField /\ SameTeam /\ Stored' = Stored
  BY <1>2, <1>3, FieldUnchanged, TeamUnchanged DEF Conclude, receiver
<1>5. Acked' = Acked
  BY <1>1, <1>2, <1>3 DEF Conclude, Acked
<1>6. CASE Recorded = "pending"
  BY <1>3, <1>4, <1>5, <1>6, SameIsStutter DEF SameStatus
<1>7. CASE Recorded = "delivered"
  <2>1. r \in Acked
    BY <1>1, <1>2, <1>7 DEF Acked
  <2>2. Abstract!Confirm(r)
    BY <1>3, <1>4, <1>5, <1>7, <2>1
       DEF Abstract!Confirm, Abstract!fieldSets, Abstract!teamSets, SameField, SameTeam
  <2> QED BY <2>2 DEF Abstract!Next
<1>8. CASE Recorded = "failed"
  <2>1. Abstract!Reject(r)
    BY <1>2, <1>3, <1>4, <1>5, <1>8
       DEF Abstract!Reject, Abstract!fieldSets, Abstract!teamSets, SameField, SameTeam
  <2> QED BY <2>1 DEF Abstract!Next
<1> QED BY <1>2, <1>6, <1>7, <1>8

LEMMA ForgetRefines ==
  ASSUME SInv, CInv, Abort \/ CrashForwarder
  PROVE  [Abstract!Next]_(Abstract!vars)
<1>1. SameField /\ SameStatus /\ answer' = "none"
  BY FieldUnchanged, StatusUnchanged DEF Abort, CrashForwarder, table
<1>2. SameTeam
  <2>1. CASE Abort
    BY <2>1, TeamUnchanged DEF Abort, receiver
  <2>2. CASE CrashForwarder
    <3>1. rows' = rows /\ \A s \in Slots : posts'[s] = [posts[s] EXCEPT !.waited = FALSE]
      BY <2>2 DEF CrashForwarder
    <3>2. ASSUME NEW s \in Slots
          PROVE  posts'[s].at = posts[s].at /\ posts'[s].req = posts[s].req
      <4>1. CASE posts[s] = Free
        BY <3>1, <4>1 DEF Free
      <4>2. CASE posts[s] \in [req: Requests, at: Places, waited: BOOLEAN]
        BY <3>1, <4>2
      <4> QED BY <4>1, <4>2 DEF CInv, TInv, TypeOK
    <3> QED BY <3>1, <3>2, TeamUnchanged
  <2> QED BY <2>1, <2>2
<1>3. Acked' = Delivered /\ Delivered' = Delivered
  BY <1>1 DEF Acked, SameStatus
<1>4. CASE answer # "ack"
  <2>1. Acked' = Acked
    BY <1>3, <1>4 DEF Acked
  <2> QED BY <1>1, <1>2, <2>1, SameIsStutter
<1>5. CASE answer = "ack"
  <2>1. current \in Requests /\ current \notin Delivered
    BY <1>5 DEF CInv, AnswerHeld, TInv, TypeOK, Holds, BatchSending, Delivered
  <2>2. Acked = Delivered \cup {current}
    BY <1>5 DEF Acked
  <2>3. Abstract!ForgetAcknowledged(current)
    BY <1>1, <1>2, <1>3, <2>1, <2>2
       DEF Abstract!ForgetAcknowledged, Abstract!fieldSets, Abstract!teamSets, SameField,
           SameStatus, SameTeam
  <2> QED BY <2>1, <2>3 DEF Abstract!Next
<1> QED BY <1>4, <1>5

(* The receiver.                                                           *)
LEMMA ReceiverRefines ==
  ASSUME SInv, CInv, \/ \E s \in Slots : Handler(s) \/ Lose(s)
                     \/ CrashReceiver
  PROVE  [Abstract!Next]_(Abstract!vars)
<1>1. SameField /\ SameStatus /\ Acked' = Acked
  <2>1. UNCHANGED <<field, table, process>>
    BY DEF Handler, LookUp, Insert, CommitRow, Finish, Lose, CrashReceiver
  <2> QED BY <2>1, FieldUnchanged, StatusUnchanged DEF table, process, Acked, Delivered
<1>2. ASSUME SameTeam PROVE [Abstract!Next]_(Abstract!vars)
  BY <1>1, <1>2, SameIsStutter
<1>3. ASSUME Receiving' = {}, Received' = Received PROVE [Abstract!Next]_(Abstract!vars)
  <2>1. Abstract!LoseReceiving
    BY <1>1, <1>3
       DEF Abstract!LoseReceiving, Abstract!fieldSets, Abstract!outcomes, SameField, SameStatus
  <2> QED BY <2>1 DEF Abstract!Next
<1>4. ASSUME NEW s \in Slots, LookUp(s) \/ Finish(s) PROVE SameTeam
  <2>1. posts[s].at \in {"wire", "done"} /\ rows' = rows
    BY <1>4 DEF LookUp, Finish
  <2>2. posts'[s].at # "open" /\ \A t \in Slots : t # s => posts'[t] = posts[t]
    BY <1>4 DEF LookUp, Finish, Moves, CInv, TInv, TypeOK, Free
  <2> QED BY <2>1, <2>2, TeamUnchanged
<1>5. ASSUME NEW s \in Slots, Lose(s) \/ CrashReceiver
      PROVE  SameTeam \/ (Receiving' = {} /\ Received' = Received)
  <2>1. rows' = rows /\ Received' = Received
    BY <1>5 DEF Lose, CrashReceiver, Received
  <2>2. CASE CrashReceiver
    <3>1. \A t \in Slots : posts'[t].at # "open"
      BY <2>2 DEF CrashReceiver, CInv, TInv, TypeOK, Free
    <3> QED BY <2>1, <3>1 DEF Receiving
  <2>3. CASE Lose(s)
    <3>1. posts'[s].at # "open" /\ \A t \in Slots : t # s => posts'[t] = posts[t]
      BY <2>3 DEF Lose, CInv, TInv, TypeOK, Free
    <3>2. CASE posts[s].at = "open"
      <4>1. \A t \in Slots : posts'[t].at # "open"
        BY <3>1, <3>2 DEF SInv, OneWriter
      <4> QED BY <2>1, <4>1 DEF Receiving
    <3>3. CASE posts[s].at # "open"
      BY <2>1, <3>1, <3>3, TeamUnchanged
    <3> QED BY <3>2, <3>3
  <2> QED BY <1>5, <2>2, <2>3
<1>6. ASSUME NEW s \in Slots, Insert(s) PROVE [Abstract!Next]_(Abstract!vars)
  <2>1. /\ posts[s].at = "insert" /\ rows' = rows /\ Received' = Received
        /\ \A t \in Slots : posts[t].at # "open"
    BY <1>6 DEF Insert, Writing, Received
  <2>2. PICK r \in Requests : r = posts[s].req
    BY <2>1, SlotInUse DEF CInv, TInv
  <2>3. /\ posts'[s].at = IF Conflict(r) THEN "done" ELSE "open"
        /\ posts'[s].req = r
        /\ \A t \in Slots : t # s => posts'[t] = posts[t]
    BY <1>6, <2>2 DEF Insert, Moves, CInv, TInv, TypeOK
  <2>4. CASE Conflict(r)
    BY <1>2, <2>1, <2>3, <2>4, TeamUnchanged
  <2>5. CASE ~Conflict(r)
    <3>1. Receiving = {} /\ Receiving' = {r}
      BY <2>1, <2>3, <2>5 DEF Receiving
    <3>2. r \in Stored \ Received
      BY <2>1, <2>2, <2>5 DEF CInv, PostStored, Stored, Conflict, Received
    <3>3. Abstract!BeginReceive(r)
      BY <1>1, <2>1, <3>1, <3>2
         DEF Abstract!BeginReceive, Abstract!fieldSets, Abstract!outcomes, SameField, SameStatus
    <3> QED BY <3>3 DEF Abstract!Next
  <2> QED BY <2>4, <2>5
<1>7. ASSUME NEW s \in Slots, CommitRow(s) PROVE [Abstract!Next]_(Abstract!vars)
  <2>1. posts[s].at = "open"
    BY <1>7 DEF CommitRow
  <2>2. PICK r \in Requests : r = posts[s].req
    BY <2>1, SlotInUse DEF CInv, TInv
  <2>3. \A t \in Slots : posts'[t].at # "open"
    BY <1>7, <2>1 DEF CommitRow, Moves, CInv, TInv, TypeOK, SInv, OneWriter
  <2>4. r \in Receiving /\ Receiving' = {}
    BY <2>1, <2>2, <2>3 DEF Receiving
  <2>5. Received' = Received \cup {r}
    BY <1>7, <2>2 DEF CommitRow, CInv, TInv, TypeOK, Received
  <2>6. Abstract!Receive(r)
    BY <1>1, <2>4, <2>5
       DEF Abstract!Receive, Abstract!fieldSets, Abstract!outcomes, SameField, SameStatus
  <2> QED BY <2>6 DEF Abstract!Next
<1>8. ASSUME NEW s \in Slots, Handler(s) \/ Lose(s) PROVE [Abstract!Next]_(Abstract!vars)
  BY <1>2, <1>3, <1>4, <1>5, <1>6, <1>7, <1>8 DEF Handler
<1>9. CASE CrashReceiver
  <2>1. PICK s \in Slots : TRUE
    BY <1>9 DEF CrashReceiver
  <2> QED BY <1>2, <1>3, <1>5, <1>9
<1> QED BY <1>8, <1>9

LEMMA NextRefines ==
  ASSUME SInv, CInv, [Next]_vars
  PROVE  [Abstract!Next]_(Abstract!vars)
<1>1. CASE UNCHANGED vars
  <2>1. UNCHANGED <<field, status, answer, current>> /\ UNCHANGED receiver
    BY <1>1 DEF vars, table, process
  <2>2. SameField /\ SameStatus /\ SameTeam /\ Acked' = Acked
    BY <2>1, FieldUnchanged, StatusUnchanged, TeamUnchanged DEF receiver, Acked, Delivered
  <2> QED BY <2>2, SameIsStutter
<1>2. CASE Next
  BY <1>2, IntakeRefines, CrashFieldRefines, PassRefines, AcknowledgedRefines, ConcludeRefines,
     ForgetRefines, ReceiverRefines DEF Next, Forwarder
<1> QED BY <1>1, <1>2

(* The chain of phone, field node, forwarder and receiver implements       *)
(* RescueService, whichever of the nodes answer before they commit,        *)
(* whatever crashes or is lost, and for any number of requests, posts and  *)
(* failures: nothing that was stored is forgotten, an answer stands for a  *)
(* row, or at worst for a transaction that was open when it was given, and *)
(* "delivered" rests on such an answer.                                    *)
THEOREM ImplementsService == Spec => Implements
<1>1. Spec => []SInv
  BY InitStore, StoreStep, PTL DEF Spec
<1>2. Spec => []CInv
  BY InitChain, ChainStep, PTL DEF Spec
<1>3. SInv /\ CInv /\ [Next]_vars => [Abstract!Next]_(Abstract!vars)
  BY NextRefines
<1> QED
  BY <1>1, <1>2, <1>3, InitRefines, PTL DEF Spec, Implements, Abstract!Spec

-----------------------------------------------------------------------------
(* What an answer is worth on a node that commits first.                   *)

\* An acknowledgement in hand is one of a row, too.
AckReceived ==
  "receiver" \notin answersFirst /\ answer = "ack" => current \in Received

WInv == CInv /\ AnswersHold /\ AckReceived

LEMMA SetsGrow ==
  ASSUME CInv, Next
  PROVE  /\ answersFirst' = answersFirst
         /\ Stored \subseteq Stored' /\ Received \subseteq Received'
<1>1. answersFirst' = answersFirst
  BY DEF Next, Forwarder, Handler, Submit, CommitIntake, Promise, Elapse, LookUp, Insert, CommitRow,
         Finish, Lose, Recover, Claim, Post, PassEnds, Acknowledged, Disconnected, TimedOut,
         OtherAnswer, Conclude, Abort, StartForwarder, CrashField, CrashForwarder, CrashReceiver,
         field
<1>2. Stored \subseteq Stored'
  BY StaysStored DEF CInv, Stored
<1>3. Received \subseteq Received'
  BY RowsStay DEF CInv, Received
<1> QED BY <1>1, <1>2, <1>3

LEMMA PromisedStep ==
  ASSUME WInv, Next, "field" \notin answersFirst
  PROVE  PromisedIsStored'
<1>1. promised \subseteq Stored /\ Stored \subseteq Stored'
  BY SetsGrow DEF WInv, AnswersHold, PromisedIsStored
<1>2. ASSUME NEW r \in Requests, Promise(r) PROVE PromisedIsStored'
  <2>1. r \in Stored
    BY <1>2 DEF Promise, WInv, CInv, IntakeStored, Stored
  <2> QED BY <1>1, <1>2, <2>1 DEF Promise, PromisedIsStored
<1>3. promised' = promised \/ \E r \in Requests : Promise(r)
  BY DEF Next, Forwarder, Handler, Submit, CommitIntake, Elapse, LookUp, Insert, CommitRow, Finish,
         Lose, Recover, Claim, Post, PassEnds, Acknowledged, Disconnected, TimedOut, OtherAnswer,
         Conclude, Abort, StartForwarder, CrashField, CrashForwarder, CrashReceiver, field
<1> QED BY <1>1, <1>2, <1>3 DEF PromisedIsStored

LEMMA DeliveredStep ==
  ASSUME WInv, Next, "receiver" \notin answersFirst
  PROVE  DeliveredIsReceived' /\ AckReceived'
<1>1. /\ Delivered \subseteq Received /\ Received \subseteq Received'
      /\ answer = "ack" => current \in Received
      /\ CInv /\ TInv
  BY SetsGrow DEF WInv, AnswersHold, DeliveredIsReceived, AckReceived, CInv
<1>2. CASE Acknowledged
  <2>1. PICK s \in Slots : posts[s].waited /\ posts[s].at = "done"
    BY <1>2 DEF Acknowledged
  <2>2. current \in Received
    BY <1>1, <2>1 DEF CInv, TInv, TypeOK, Holds, Awaited, DoneReceived, Received
  <2>3. current' = current /\ Delivered' = Delivered
    BY <1>2 DEF Acknowledged, table, Delivered
  <2> QED BY <1>1, <2>2, <2>3 DEF DeliveredIsReceived, AckReceived
<1>3. CASE Conclude
  <2>1. Delivered' \subseteq Delivered \cup (IF answer = "ack" THEN {current} ELSE {})
    BY <1>1, <1>3, ConcludeStatus DEF Delivered
  <2>2. answer' = "none"
    BY <1>3 DEF Conclude
  <2> QED BY <1>1, <2>1, <2>2 DEF DeliveredIsReceived, AckReceived
<1>4. CASE ~Acknowledged /\ ~Conclude
  <2>1. Delivered' \subseteq Delivered
    <3>1. CASE status' = status
      BY <3>1 DEF Delivered
    <3>2. CASE \E r \in Requests : CommitIntake(r)
      BY <1>1, <3>2 DEF CommitIntake, TInv, TypeOK, Delivered
    <3>3. CASE Recover
      BY <3>3 DEF Recover, Delivered
    <3>4. CASE Claim
      BY <3>4 DEF Claim, Delivered
    <3> QED BY <1>1, <1>4, <3>1, <3>2, <3>3, <3>4, StatusChanges
  <2>2. answer' # "ack" \/ UNCHANGED <<answer, current>>
    <3>1. CASE Post
      BY <1>1, <3>1 DEF Post, CInv, AnswerHeld
    <3>2. CASE ~Post
      BY <1>4, <3>2
         DEF Next, Forwarder, Handler, Submit, CommitIntake, Promise, Elapse, LookUp, Insert,
             CommitRow, Finish, Lose, Recover, Claim, PassEnds, Disconnected, TimedOut,
             OtherAnswer, Concludes, Abort, StartForwarder, CrashField, CrashForwarder,
             CrashReceiver, process
    <3> QED BY <3>1, <3>2
  <2> QED BY <1>1, <2>1, <2>2 DEF DeliveredIsReceived, AckReceived
<1> QED BY <1>2, <1>3, <1>4

LEMMA WordStep == WInv /\ [Next]_vars => WInv'
<1> SUFFICES ASSUME WInv, [Next]_vars PROVE WInv'
  OBVIOUS
<1>1. CInv'
  BY ChainStep DEF WInv
<1>2. CASE UNCHANGED vars
  BY <1>1, <1>2 DEF vars, field, table, process, receiver, WInv, AnswersHold, AckReceived,
                    PromisedIsStored, DeliveredIsReceived, Stored, Delivered, Received
<1>3. CASE Next
  <2>1. answersFirst' = answersFirst
    BY <1>3, SetsGrow DEF WInv
  <2>2. AnswersHold'
    BY <1>3, <2>1, PromisedStep, DeliveredStep DEF AnswersHold
  <2>3. AckReceived'
    BY <1>3, <2>1, DeliveredStep DEF AckReceived
  <2> QED BY <1>1, <2>2, <2>3 DEF WInv
<1> QED BY <1>2, <1>3

(* On a node whose framework commits before it answers an answer stands    *)
(* for a row that is there, whatever the other node does: what a phone was *)
(* told is stored is stored, and what counts as delivered the team has.    *)
THEOREM AnswersAreKept == Spec => []AnswersHold
<1>1. Init => WInv
  BY InitChain DEF Init, WInv, AnswersHold, AckReceived, PromisedIsStored, DeliveredIsReceived,
                   Delivered
<1>2. Spec => []WInv
  BY <1>1, WordStep, PTL DEF Spec
<1>3. WInv => AnswersHold
  BY DEF WInv
<1> QED BY <1>2, <1>3, PTL
=============================================================================
