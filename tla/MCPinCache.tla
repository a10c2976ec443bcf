----------------------------- MODULE MCPinCache -----------------------------
(* Small instance of PinCache for TLC. *)
EXTENDS PinCache, TLC

MCSymmetry == Permutations(Callers) \cup Permutations(Serials) \cup Permutations(Pins)

=============================================================================
