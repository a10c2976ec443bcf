--------------------------- MODULE MCSigningFlow ---------------------------
(* Two cards: a sealed organizational RSA card and an open P-384 card.      *)
EXTENDS SigningFlow

MCInfo == [rsa |-> [serial |-> "1001", key |-> "Rsa", scheme |-> "Organizational", sealed |-> TRUE],
           ec |-> [serial |-> "1002", key |-> "P384", scheme |-> "Citizen", sealed |-> FALSE]]
MCAuthorities == {<<>>, <<"default">>, <<"first", "second">>}
MCNonces == {<<0, 200>>, <<5>>}
=============================================================================
