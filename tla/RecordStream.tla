----------------------------- MODULE RecordStream -----------------------------
(***************************************************************************)
(* What a radar capture promises to the readers of its mission log: frames *)
(* that carry the epoch of the device's clock and a sequence number, and   *)
(* health records that say "ok" only when every fault has been reported by *)
(* a record that was accepted.  A record the recorder refuses leaves its   *)
(* number unused and is a fault itself.                                    *)
(***************************************************************************)
EXTENDS Naturals

CONSTANT Gaps   \* how many frames of the device may be missing before one

VARIABLES
  epoch, seq,   \* the header of the latest frame
  owed,         \* a fault is not in an accepted health record yet
  faulty,       \* there has been a fault
  cloud,        \* a frame with a point cloud has been decoded
  rec           \* the latest record that was accepted

vars == <<epoch, seq, owed, faulty, cloud, rec>>

Broken == {"duplicate", "reset_or_out_of_order"}
Transitions == {"first", "consecutive", "gap", "wrap"} \cup Broken
Qualities == {"points", "incomplete", "none"}

Frames == [kind: {"frame"}, epoch: Nat, seq: Nat, dropped: Gaps,
           transition: Transitions, quality: Qualities]
Healths == [kind: {"health"}, final: BOOLEAN,
            status: {"ok", "degraded", "starting", "stale"}]

Init ==
  /\ epoch = 1 /\ seq = 0
  /\ owed = FALSE /\ faulty = FALSE /\ cloud = FALSE
  /\ rec = [kind |-> "health", final |-> FALSE, status |-> "starting"]

Open == ~(rec.kind = "health" /\ rec.final)

\* A decoded frame: a reset of the device opens an epoch of its own.
Frame(dropped, transition, quality, accepted) ==
  LET harm == dropped > 0 \/ transition \in Broken \/ quality # "points" \/ ~accepted
  IN /\ Open
     /\ IF transition = "reset_or_out_of_order"
        THEN epoch' = epoch + 1 /\ seq' = 1
        ELSE epoch' = epoch /\ seq' = seq + 1
     /\ owed' = (owed \/ harm) /\ faulty' = (faulty \/ harm)
     /\ cloud' = (cloud \/ quality # "none")
     /\ rec' = IF accepted
               THEN [kind |-> "frame", epoch |-> epoch', seq |-> seq',
                     dropped |-> dropped, transition |-> transition,
                     quality |-> quality]
               ELSE rec

\* Bytes were discarded, or a frame was counted and never submitted.
Fault ==
  /\ Open
  /\ (owed' = TRUE /\ faulty' = TRUE) \/ UNCHANGED <<owed, faulty>>
  /\ cloud' \in {cloud, TRUE}
  /\ UNCHANGED <<epoch, seq, rec>>

Health(status, accepted) ==
  /\ Open
  /\ status \in IF owed THEN {"degraded"} ELSE IF cloud THEN {"ok"} ELSE {"starting", "degraded"}
  /\ IF accepted
     THEN /\ owed' = FALSE /\ faulty' = faulty
          /\ rec' = [kind |-> "health", final |-> FALSE, status |-> status]
     ELSE owed' = TRUE /\ faulty' = TRUE /\ rec' = rec
  /\ UNCHANGED <<epoch, seq, cloud>>

\* The last record of a run that ends by itself.
Final(status) ==
  /\ Open
  /\ status = "ok" => cloud /\ ~faulty
  /\ rec' = [kind |-> "health", final |-> TRUE, status |-> status]
  /\ UNCHANGED <<epoch, seq, owed, faulty, cloud>>

Next ==
  \/ \E d \in Gaps, t \in Transitions, q \in Qualities, a \in BOOLEAN : Frame(d, t, q, a)
  \/ Fault
  \/ \E s \in {"ok", "degraded", "starting"}, a \in BOOLEAN : Health(s, a)
  \/ \E s \in {"ok", "degraded", "stale"} : Final(s)

Spec == Init /\ [][Next]_vars
================================================================================
