---------------------------- MODULE MCRappVault ----------------------------
(* Small instance of RappVault for TLC. *)
EXTENDS RappVault

=============================================================================
