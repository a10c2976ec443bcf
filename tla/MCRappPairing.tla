--------------------------- MODULE MCRappPairing ---------------------------
(* Small instance of RappPairing for TLC. *)
EXTENDS RappPairing

\* The phone grants out of order and twice, or sends no list.
GrantListsDef == {<<"authentication", "card-status", "authentication">>, <<"absent">>}

=============================================================================
