------------------------------- MODULE Noise -------------------------------
(***************************************************************************)
(* The Noise handshakes of rapp/crypto.rs, symbolically.  A key pair is a  *)
(* name; a Diffie-Hellman secret is the set of the two names; a chaining   *)
(* key and a transcript hash are the sequences mixed into them, so two are *)
(* equal only when everything mixed was; a ciphertext is what it was       *)
(* sealed from and opens under the same key, counter and associated data   *)
(* only.  A message is the sequence of its fields.                         *)
(***************************************************************************)
EXTENDS Naturals, Sequences

None == <<>>

PAIRING_SUITE == <<"Noise_XXpsk3_25519_ChaChaPoly_SHA256">>
SESSION_SUITE == <<"Noise_KK_25519_ChaChaPoly_SHA256">>

\* Mutant: the last XX message does not mix the secret of the offer.
MutMessageTokens(pattern) ==
    IF pattern = "XxPsk3"
    THEN << <<"Ephemeral">>,
            <<"Ephemeral", "EphemeralEphemeral", "StaticKey", "EphemeralStatic">>,
            <<"StaticKey", "StaticEphemeral">> >>
    ELSE << <<"Ephemeral", "EphemeralStatic", "StaticStatic">>,
            <<"Ephemeral", "EphemeralEphemeral", "StaticEphemeral">> >>

\* The tokens of the messages of a pattern.
message_tokens(pattern) ==
    IF pattern = "XxPsk3"
    THEN << <<"Ephemeral">>,
            <<"Ephemeral", "EphemeralEphemeral", "StaticKey", "EphemeralStatic">>,
            <<"StaticKey", "StaticEphemeral", "PresharedKey">> >>
    ELSE << <<"Ephemeral", "EphemeralStatic", "StaticStatic">>,
            <<"Ephemeral", "EphemeralEphemeral", "StaticEphemeral">> >>

-----------------------------------------------------------------------------
(* NoiseCipherState: a key, if there is one, and a counter.                *)

encrypt(cipher, aad, plain) ==
    IF cipher.key = None THEN plain ELSE <<"sealed", cipher.key, cipher.counter, aad, plain>>

\* The plaintext in a singleton, or nothing.
decrypt(cipher, aad, text) ==
    IF cipher.key = None THEN <<text>>
    ELSE IF Len(text) = 5 /\ SubSeq(text, 1, 4) = <<"sealed", cipher.key, cipher.counter, aad>>
         THEN <<text[5]>> ELSE None

Used(cipher) == [cipher EXCEPT !.counter = IF cipher.key = None THEN @ ELSE @ + 1]
initialize_key(key) == [key |-> key, counter |-> 0]

-----------------------------------------------------------------------------
(* NoiseSymmetricState.                                                    *)

Symmetric(suite) == [ck |-> <<suite>>, h |-> <<suite>>, cipher |-> initialize_key(None)]

mix_hash(sym, data) == [sym EXCEPT !.h = Append(@, data)]

\* hkdf_derive: its outputs are those of this chaining key and no other.
mix_key(sym, material) ==
    LET ck == Append(sym.ck, material) IN
    [sym EXCEPT !.ck = ck, !.cipher = initialize_key(<<"rekey", ck>>)]

mix_key_and_hash(sym, material) ==
    LET ck == Append(sym.ck, material) IN
    [ck |-> ck, h |-> Append(sym.h, <<"mixed", ck>>), cipher |-> initialize_key(<<"rekey", ck>>)]

\* The end of encrypt_and_hash and decrypt_and_hash.  The associated data of a
\* ciphertext is the hash that it is mixed into, and is not repeated in it.
Hashed(sym, text) ==
    mix_hash([sym EXCEPT !.cipher = Used(@)],
             IF sym.cipher.key = None THEN text ELSE <<text[2], text[3], text[5]>>)

-----------------------------------------------------------------------------
(* NoiseHandshakeState.                                                    *)

\* NoiseHandshakeState::new, with the pre-messages of KK.  The ephemeral key
\* is fresh: the caller names it.
Handshaking(pattern, suite, prologue, initiator, static, remote, psk, ephemeral) ==
    LET base == mix_hash(Symmetric(suite), prologue)
        sym  == IF pattern # "Kk" THEN base
                ELSE IF initiator THEN mix_hash(mix_hash(base, static), remote)
                ELSE mix_hash(mix_hash(base, remote), static) IN
    [sym |-> sym, pattern |-> pattern, initiator |-> initiator, psk |-> psk, s |-> static,
     e |-> ephemeral, rs |-> remote, re |-> None, message_index |-> 0]

is_complete(hs) == hs.message_index >= Len(message_tokens(hs.pattern))
local_writes_next(hs) == (hs.message_index % 2 = 0) = hs.initiator

diffie_hellman(a, b) == <<"dh", {a, b}>>

\* What ee, es, se and ss mix, on either side.
Material(hs, token) ==
    CASE token = "EphemeralEphemeral" -> diffie_hellman(hs.e, hs.re)
      [] token = "EphemeralStatic" -> IF hs.initiator THEN diffie_hellman(hs.e, hs.rs)
                                      ELSE diffie_hellman(hs.s, hs.re)
      [] token = "StaticEphemeral" -> IF hs.initiator THEN diffie_hellman(hs.s, hs.re)
                                      ELSE diffie_hellman(hs.e, hs.rs)
      [] token = "StaticStatic" -> diffie_hellman(hs.s, hs.rs)

\* An ephemeral key goes into the hash and, in a pattern with a secret, into
\* the chaining key.
MixEphemeral(hs, key) ==
    LET sym == mix_hash(hs.sym, key) IN
    [hs EXCEPT !.sym = IF hs.pattern = "XxPsk3" THEN mix_key(sym, key) ELSE sym]

MixSecret(hs, token) ==
    [hs EXCEPT !.sym = IF token = "PresharedKey" THEN mix_key_and_hash(@, hs.psk)
                       ELSE mix_key(@, Material(hs, token))]

\* One token of a message being written, and of one being read.
WriteToken(st, token) ==
    CASE token = "Ephemeral" ->
           [hs |-> MixEphemeral(st.hs, st.hs.e), out |-> Append(st.out, st.hs.e)]
      [] token = "StaticKey" ->
           LET c == encrypt(st.hs.sym.cipher, st.hs.sym.h, st.hs.s) IN
           [hs |-> [st.hs EXCEPT !.sym = Hashed(@, c)], out |-> Append(st.out, c)]
      [] OTHER -> [st EXCEPT !.hs = MixSecret(@, token)]

ReadStatic(st) ==
    LET p  == decrypt(st.hs.sym.cipher, st.hs.sym.h, Head(st.in))
        hs == [st.hs EXCEPT !.rs = p[1], !.sym = Hashed(@, Head(st.in))] IN
    IF p = None THEN [st EXCEPT !.err = TRUE] ELSE [st EXCEPT !.hs = hs, !.in = Tail(@)]
ReadToken(st, token) ==
    IF st.err \/ (token \in {"Ephemeral", "StaticKey"} /\ st.in = <<>>)
    THEN [st EXCEPT !.err = TRUE]
    ELSE CASE token = "Ephemeral" ->
                [st EXCEPT !.hs = MixEphemeral([@ EXCEPT !.re = Head(st.in)], Head(st.in)),
                           !.in = Tail(@)]
           [] token = "StaticKey" -> ReadStatic(st)
           [] OTHER -> [st EXCEPT !.hs = MixSecret(@, token)]

\* The loops over the tokens of a message, of which none has more than four.
WriteTokens(start, tokens) ==
    LET At(st, k) == IF k > Len(tokens) THEN st ELSE WriteToken(st, tokens[k]) IN
    At(At(At(At(start, 1), 2), 3), 4)
ReadTokens(start, tokens) ==
    LET At(st, k) == IF k > Len(tokens) THEN st ELSE ReadToken(st, tokens[k]) IN
    At(At(At(At(start, 1), 2), 3), 4)

\* write_message with an empty payload, when it is this side's turn.
write_message(hs) ==
    LET end == WriteTokens([hs |-> hs, out |-> <<>>], message_tokens(hs.pattern)[hs.message_index + 1])
        payload == encrypt(end.hs.sym.cipher, end.hs.sym.h, <<"payload">>) IN
    [hs |-> [end.hs EXCEPT !.sym = Hashed(@, payload), !.message_index = @ + 1],
     message |-> Append(end.out, payload)]

\* read_message: nothing, when it is not the peer's turn or a field is missing
\* or does not open.
read_message(hs, message) ==
    IF is_complete(hs) \/ local_writes_next(hs) THEN None ELSE
    LET end == ReadTokens([hs |-> hs, in |-> message, err |-> FALSE],
                          message_tokens(hs.pattern)[hs.message_index + 1]) IN
    IF end.err \/ Len(end.in) # 1 THEN None
    ELSE IF decrypt(end.hs.sym.cipher, end.hs.sym.h, end.in[1]) = None THEN None
    ELSE <<[end.hs EXCEPT !.sym = Hashed(@, end.in[1]), !.message_index = @ + 1]>>

\* split: the keys to send and to receive under.
split(hs) ==
    LET first  == initialize_key(<<"initiator", hs.sym.ck>>)
        second == initialize_key(<<"responder", hs.sym.ck>>) IN
    IF hs.initiator THEN [send |-> first, recv |-> second] ELSE [send |-> second, recv |-> first]

-----------------------------------------------------------------------------
(* Derivations.                                                            *)

derive_pair_id(h) == <<"RAPP-pair-id-v1", h>>
derive_rendezvous_token(h) == <<"RAPP-rendezvous-v1", h>>

\* Sorted and without duplicates: what was granted, not how it was listed.
derive_grants_hash(profiles) == <<"grants", {profiles[k] : k \in DOMAIN profiles}>>

pairing_prologue(offer_hash, transport) == <<"RAPP-pairing-v1", PAIRING_SUITE, offer_hash, transport>>
session_prologue(pair_id, grants_hash, transport) ==
    <<"RAPP-session-v1", SESSION_SUITE, pair_id, grants_hash, transport>>

=============================================================================
