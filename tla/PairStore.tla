----------------------------- MODULE PairStore -----------------------------
(***************************************************************************)
(* What the vault promises for one pair record: it is stored and deleted   *)
(* in one step ("Save a pair record to disk atomically"), and a power loss *)
(* brings back a complete earlier state, never a part of a record.         *)
(***************************************************************************)
CONSTANTS Records, NoRecord

VARIABLES
    stored,     \* what load_pair returns
    durable     \* what it returns after a power loss

Init == stored \in Records \cup {NoRecord} /\ durable = stored

Save   == stored' \in Records /\ UNCHANGED durable
Delete == stored' = NoRecord /\ UNCHANGED durable
Flush  == durable' = stored /\ UNCHANGED stored
Lose   == stored' = durable /\ UNCHANGED durable

Next == Save \/ Delete \/ Flush \/ Lose

Spec == Init /\ [][Next]_<<stored, durable>>

=============================================================================
