----------------------------- MODULE MCPcscCard -----------------------------
(* Two processes on one reader, two files of different length. *)
EXTENDS PcscCard, TLC

CONSTANTS p1, p2, f1, f2

MCSize == f1 :> 2 @@ f2 :> 3

=============================================================================
