-------------------------- MODULE MCPinManagement --------------------------
(* Small instance of PinManagement for TLC: a new-scheme card, an old-scheme *)
(* card and a card whose root is not pinned. *)
EXTENDS PinManagement, TLC

CONSTANTS c1, c2, c3

ProcSymmetry == Permutations(Procs)

MCGeneration == [c \in Cards |-> IF c = c2 THEN "Older" ELSE "Newer"]

=============================================================================
