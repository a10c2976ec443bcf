---------------------------- MODULE SignCommands ----------------------------
(***************************************************************************)
(* The card commands of a signature or a decryption (sign.rs and           *)
(* sign/commands.rs): the MSE:SET templates, PSO:HASH, PSO:CDS and         *)
(* PSO:DECIPHER, and the programs the SignOps methods run with them.       *)
(*                                                                         *)
(* A command is its header and a body of data objects; octets of a value   *)
(* are a term with a length.  A program is a sequence of commands, each    *)
(* with the stage its error names.                                         *)
(***************************************************************************)
EXTENDS Integers, Sequences, SequencesExt

high_nibble == [None |-> 0, Sha1 |-> 1, Sha224 |-> 3, Sha256 |-> 4, Sha384 |-> 5, Sha512 |-> 6]
low_nibble == [RsaIso9796V2 |-> 1, RsaPkcs1V1_5 |-> 2, RsaRfc2409 |-> 3, Ecdsa |-> 4, RsaPss |-> 5]
SignatureAlgRef(hash, signature) == high_nibble[hash] * 16 + low_nibble[signature]
RSA_PKCS1_RAW == 64
RSASSA_PKCS1_V1_5 == 26

KeyRefByte == [Auth |-> 1, Sign |-> 2]

RSA_3072_SIG_BYTES == 384
ECDSA_P384_SIG_BYTES == 96
ECDSA_P256_SIG_BYTES == 64

\* ExternalHashValue::len_byte.
len_byte == [Sha1 |-> 20, Sha224 |-> 28, Sha256 |-> 32, Sha384 |-> 48, Sha512 |-> 64]

\* IntermediateHashState: the octets of the state and of its counter.
IntermediateHashStates ==
    {<<20, 8>>, <<32, 8>>, <<64, 8>>, <<64, 16>>}
xx_byte(state) == state[1] + state[2]

\* HashBlock::new.
HASH_BLOCK_MAX_LEN == 128
HashBlocks == 0..HASH_BLOCK_MAX_LEN

(***************************************************************************)
(* Commands                                                                *)
(***************************************************************************)

\* A data object of a command's body; tag 0 marks octets without a header.
DataObject(tag, len, value) == [tag |-> tag, len |-> len, value |-> value]
BodyLength(body) ==
    FoldSeq(LAMBDA d, sum : sum + d.len + (IF d.tag = 0 THEN 0 ELSE 2), 0, body)
MAX_SHORT == 255
MAX_EXTENDED == 65535

Command(stage, p1p2, chained, body, le) ==
    [stage |-> stage, p1p2 |-> p1p2, chained |-> chained, body |-> body, le |-> le]
NoLe == -1

\* MseSet::into_apdu for the templates that name an algorithm and a key.
mse_set(stage, p2, alg, key) ==
    Command(stage, <<65, p2>>, FALSE,
            <<DataObject(128, 1, alg), DataObject(132, 1, KeyRefByte[key])>>, NoLe)
mse_set_dst(alg, key) == mse_set("MSE:Set DST", 182, alg, key)
mse_set_ct(alg, key) == mse_set("MSE:Set CT", 184, alg, key)
mse_set_at(alg, key) == mse_set("MSE:Set AT", 164, alg, key)

\* PsoHash::into_apdu: a block for the card to hash, the last one, the state
\* of a hash begun outside with the last block, or a finished hash.
PsoHashBody(mode, state, block, hash) ==
    CASE mode = "EntirelyByCardBlock" -> <<DataObject(0, block, "block")>>
      [] mode = "EntirelyByCardFinal" -> <<DataObject(128, block, "block")>>
      [] mode = "PartiallyByCard" ->
           <<DataObject(144, xx_byte(state), "state"), DataObject(128, block, "block")>>
      [] mode = "External" -> <<DataObject(144, len_byte[hash.alg], hash)>>
PsoHash(mode, state, block, hash) ==
    Command("PSO:HASH", <<144, IF mode = "EntirelyByCardBlock" THEN 128 ELSE 160>>, FALSE,
            PsoHashBody(mode, state, block, hash), NoLe)
\* Every state with the longest block the type admits fits one short command.
ASSUME HashBlockAssumption ==
    \A state \in IntermediateHashStates, block \in HashBlocks :
      \A mode \in {"EntirelyByCardBlock", "EntirelyByCardFinal", "PartiallyByCard"} :
        BodyLength(PsoHashBody(mode, state, block, "")) <= MAX_SHORT
pso_hash_external(hash) == PsoHash("External", <<0, 0>>, 0, hash)

PsoCds == <<158, 154>>
pso_cds_empty(le) == Command("PSO:CDS", PsoCds, FALSE, <<>>, le)
pso_cds_hash(hash, le) ==
    Command("PSO:CDS", PsoCds, FALSE, <<DataObject(0, len_byte[hash.alg], hash)>>, le)

\* PsoDecipher::into_apdu: the last command of a chain asks for the answer.
PsoDecipher(stage, from, len, chained) ==
    Command(stage, <<128, 134>>, chained, <<DataObject(0, len, <<from, from + len>>)>>,
            IF chained THEN NoLe ELSE 0)

(***************************************************************************)
(* Programs                                                                *)
(***************************************************************************)

Program(commands, expect) == [err |-> "", commands |-> commands, expect |-> expect]
Refused(err) == [err |-> err, commands |-> <<>>, expect |-> 0]
AnyLength == 0

\* Mutant: a second half as long as the first.
MutHalves(n) == <<n \div 2, n \div 2>>

\* Octets n that one short command cannot carry, in two.
Halves(n) == <<n \div 2, n - n \div 2>>

\* pso_cds_with_data: one short command, or an extended one, and when the
\* card or the reader refuses that, two chained halves.
pso_cds_with_data(n) ==
    IF n <= MAX_SHORT THEN <<Command("PSO:CDS data", PsoCds, FALSE, <<DataObject(0, n, <<0, n>>)>>, 0)>>
    ELSE <<Command("PSO:CDS extended", PsoCds, FALSE, <<DataObject(0, n, <<0, n>>)>>, 0)>>
CdsHalves(n) ==
    LET h == Halves(n) IN
    IF h[1] > MAX_SHORT \/ h[2] > MAX_SHORT THEN Refused("InputTooLong")
    ELSE Program(<<Command("PSO:CDS chunk 1/2", PsoCds, TRUE, <<DataObject(0, h[1], <<0, h[1]>>)>>, NoLe),
                   Command("PSO:CDS chunk 2/2", PsoCds, FALSE,
                           <<DataObject(0, h[2], <<h[1], h[1] + h[2]>>)>>, 0)>>, AnyLength)

\* sign_rsa_raw: the authentication key is set in the AT template.
sign_rsa_raw(key, n) ==
    IF n > MAX_EXTENDED THEN Refused("InputTooLong")
    ELSE Program(<<IF key = "Auth" THEN mse_set_at(RSA_PKCS1_RAW, key)
                   ELSE mse_set_dst(RSA_PKCS1_RAW, key)>> \o pso_cds_with_data(n), AnyLength)

\* A hash made outside the card, signed with the algorithm that names it.
SignHash(signature, key, hash, le, expect) ==
    Program(<<mse_set_dst(SignatureAlgRef(hash.alg, signature), key),
              pso_hash_external(hash), pso_cds_empty(le)>>, expect)

sign_pre_hashed_sha256_rsa(key, hash) ==
    SignHash("RsaPkcs1V1_5", key, hash, 0, RSA_3072_SIG_BYTES)
sign_pre_hashed_sha256_rsa_hash_in_command(key, hash) ==
    Program(<<mse_set_dst(SignatureAlgRef("Sha256", "RsaPkcs1V1_5"), key), pso_cds_hash(hash, 0)>>,
            RSA_3072_SIG_BYTES)
sign_pre_hashed_sha384_ecdsa_p384(key, hash) ==
    SignHash("Ecdsa", key, hash, ECDSA_P384_SIG_BYTES, ECDSA_P384_SIG_BYTES)
\* The P-384 key with the other hashes the card takes.
sign_pre_hashed_ecdsa_p384(key, hash) ==
    SignHash("Ecdsa", key, hash, ECDSA_P384_SIG_BYTES, ECDSA_P384_SIG_BYTES)
sign_pre_hashed_sha256_ecdsa_p256(key, hash) ==
    SignHash("Ecdsa", key, hash, ECDSA_P256_SIG_BYTES, ECDSA_P256_SIG_BYTES)
sign_pre_hashed_rsa_pkcs1(key, hash) == SignHash("RsaPkcs1V1_5", key, hash, 0, AnyLength)
sign_pre_hashed_rsa_pss(key, hash) == SignHash("RsaPss", key, hash, 0, RSA_3072_SIG_BYTES)

\* pso_decipher: the padding indicator 81 and the ciphertext, in two commands
\* when one cannot carry them.
pso_decipher(n) ==
    LET m == n + 1
        h == Halves(m) IN
    IF m <= MAX_SHORT THEN <<PsoDecipher("PSO:DECIPHER", 0, m, FALSE)>>
    ELSE <<PsoDecipher("PSO:DECIPHER chunk 1/2", 0, h[1], TRUE),
           PsoDecipher("PSO:DECIPHER chunk 2/2", h[1], h[2], FALSE)>>

\* decrypt_rsa_pkcs1: only a ciphertext as long as the modulus is sent.
decrypt_rsa_pkcs1(key, n) ==
    IF n # RSA_3072_SIG_BYTES THEN Refused("UnexpectedSignatureLength")
    ELSE Program(<<mse_set_ct(RSASSA_PKCS1_V1_5, key)>> \o pso_decipher(n), AnyLength)
=============================================================================
