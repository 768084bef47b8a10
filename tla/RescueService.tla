---------------------------- MODULE RescueService ----------------------------
(***************************************************************************)
(* What the rescue network promises about requests, whoever crashes and    *)
(* whatever the network loses: once stored a request stays stored, the     *)
(* rescue team receives only stored requests, and a request counts as      *)
(* delivered on the field node only when the rescue team said it has it.   *)
(*                                                                         *)
(* An answer vouches for what is committed.  On a node that answers before *)
(* it commits, it vouches for a transaction that may still be lost.        *)
(***************************************************************************)
EXTENDS FiniteSets

CONSTANT Requests  \* request_ids

VARIABLES
  answersFirst,  \* the nodes, "field" and "receiver", that answer before they commit
  storing,       \* in a transaction of the field node
  stored,        \* in the database of the field node
  promised,      \* the phone was told that they are stored
  receiving,     \* in a transaction of the rescue team's node
  received,      \* in the database of the rescue team
  acknowledged,  \* the field node was told that they are received
  confirmed,     \* the field node counts them as delivered
  rejected       \* the field node gave them up

fieldSets == <<storing, stored, promised>>
teamSets == <<receiving, received>>
outcomes == <<acknowledged, confirmed, rejected>>
vars == <<answersFirst, fieldSets, teamSets, outcomes>>

\* What an answer of the node vouches for.
Vouched(node, committed, begun) ==
  committed \cup (IF node \in answersFirst THEN begun ELSE {})

Init ==
  /\ answersFirst \in SUBSET {"field", "receiver"}
  /\ storing = {} /\ stored = {} /\ promised = {}
  /\ receiving = {} /\ received = {}
  /\ acknowledged = {} /\ confirmed = {} /\ rejected = {}

BeginStore(r) ==
  /\ r \notin storing \cup stored
  /\ storing' = storing \cup {r}
  /\ UNCHANGED <<answersFirst, stored, promised, teamSets, outcomes>>

Store(r) ==
  /\ r \in storing
  /\ storing' = storing \ {r} /\ stored' = stored \cup {r}
  /\ UNCHANGED <<answersFirst, promised, teamSets, outcomes>>

\* The field node dies: what it had not committed is gone.
LoseStoring ==
  /\ storing' = {}
  /\ UNCHANGED <<answersFirst, stored, promised, teamSets, outcomes>>

Promise(r) ==
  /\ r \in Vouched("field", stored, storing) \ promised
  /\ promised' = promised \cup {r}
  /\ UNCHANGED <<answersFirst, storing, stored, teamSets, outcomes>>

\* The rescue team's node writes one request at a time, and each once.
BeginReceive(r) ==
  /\ receiving = {} /\ r \in stored \ received
  /\ receiving' = {r}
  /\ UNCHANGED <<answersFirst, fieldSets, received, outcomes>>

Receive(r) ==
  /\ r \in receiving
  /\ receiving' = {} /\ received' = received \cup {r}
  /\ UNCHANGED <<answersFirst, fieldSets, outcomes>>

LoseReceiving ==
  /\ receiving' = {}
  /\ UNCHANGED <<answersFirst, fieldSets, received, outcomes>>

Acknowledge(r) ==
  /\ r \in Vouched("receiver", received, receiving) \ acknowledged
  /\ acknowledged' = acknowledged \cup {r}
  /\ UNCHANGED <<answersFirst, fieldSets, teamSets, confirmed, rejected>>

\* The field node dies before it has recorded the acknowledgement.
ForgetAcknowledged(r) ==
  /\ r \in acknowledged \ confirmed
  /\ acknowledged' = acknowledged \ {r}
  /\ UNCHANGED <<answersFirst, fieldSets, teamSets, confirmed, rejected>>

Confirm(r) ==
  /\ r \in acknowledged \ (confirmed \cup rejected)
  /\ confirmed' = confirmed \cup {r}
  /\ UNCHANGED <<answersFirst, fieldSets, teamSets, acknowledged, rejected>>

\* A permanent error; an earlier attempt may have been received all the same.
Reject(r) ==
  /\ r \in stored \ (confirmed \cup rejected)
  /\ rejected' = rejected \cup {r}
  /\ UNCHANGED <<answersFirst, fieldSets, teamSets, acknowledged, confirmed>>

Next ==
  \/ \E r \in Requests :
       \/ BeginStore(r) \/ Store(r) \/ Promise(r)
       \/ BeginReceive(r) \/ Receive(r)
       \/ Acknowledge(r) \/ ForgetAcknowledged(r) \/ Confirm(r) \/ Reject(r)
  \/ LoseStoring \/ LoseReceiving

Spec == Init /\ [][Next]_vars
=============================================================================
