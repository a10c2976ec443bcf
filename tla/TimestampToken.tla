--------------------------- MODULE TimestampToken ---------------------------
(***************************************************************************)
(* RFC 3161 time-stamps (sign/timestamp.rs): the request's nonce, the      *)
(* grammar of a TimeStampResp, and verified_token, which binds a response  *)
(* to the digest and the nonce of the request and to one embedded          *)
(* certificate fit for time-stamping.                                      *)
(*                                                                         *)
(* A DER structure is the sequence of its fields, each with its tag; a     *)
(* structure that is not one, or has octets after it, has form "bad".      *)
(* Integers keep their octets.  Names, keys and hashes are terms.          *)
(***************************************************************************)
EXTENDS Integers, Sequences, FiniteSets, SequencesExt

STATUS_GRANTED == 0
STATUS_GRANTED_WITH_MODS == 1
None == <<>>
FirstOf(positions) == IF positions = {} THEN 0 ELSE Min(positions)

(***************************************************************************)
(* Octets                                                                  *)
(***************************************************************************)

\* positive_integer: the content octets of a DER INTEGER for a magnitude.
positive_integer(bytes) ==
    LET used == {i \in DOMAIN bytes : bytes[i] # 0}
        magnitude == SubSeq(bytes, Min(used), Len(bytes)) IN
    IF used = {} THEN <<0>>
    ELSE IF magnitude[1] >= 128 THEN <<0>> \o magnitude ELSE magnitude

nonnegative_der_integer(v) ==
    /\ v # <<>>
    /\ v[1] < 128
    /\ v[1] = 0 /\ Len(v) > 1 => v[2] >= 128

\* unsigned_integer: the value of at most eight octets after a sign octet, or
\* -1; values above three octets are all taken for Large, which no caller
\* tells from another.
Large == 256 * 256 * 256
unsigned_integer(v) ==
    IF ~nonnegative_der_integer(v) \/ Len(v) > 9 \/ (Len(v) = 9 /\ v[1] # 0) THEN -1
    ELSE IF Len(v) > 3 THEN Large
    ELSE LET FromEnd(k) == IF k < Len(v) THEN v[Len(v) - k] ELSE 0 IN
         FromEnd(0) + 256 * FromEnd(1) + 256 * 256 * FromEnd(2)

\* validate_bit_string: octets that begin with the number of unused bits.
validate_bit_string(v) ==
    /\ v # <<>>
    /\ v[1] <= 7
    /\ IF Len(v) = 1 THEN v[1] = 0 ELSE v[Len(v)] % 2^v[1] = 0

(***************************************************************************)
(* Fields in a fixed order                                                 *)
(***************************************************************************)

\* The place of a tag in the order of a structure's optional fields; 0 when
\* it has none.
Place(order, tag) == FirstOf({i \in DOMAIN order : order[i] = tag})

\* Every optional field is known and none comes twice or out of order.
InOrder(fields, order) ==
    /\ \A i \in DOMAIN fields : Place(order, fields[i].tag) # 0
    /\ \A i, j \in DOMAIN fields : i < j =>
           Place(order, fields[i].tag) < Place(order, fields[j].tag)

Field(fields, tag) == FirstOf({i \in DOMAIN fields : fields[i].tag = tag})

\* parse_accuracy: seconds, milliseconds and microseconds, at least one.
parse_accuracy(fields) ==
    /\ fields # <<>>
    /\ InOrder(fields, <<"INTEGER", "millis", "micros">>)
    /\ \A i \in DOMAIN fields :
           LET n == unsigned_integer(fields[i].value) IN
           IF fields[i].tag = "INTEGER" THEN n > 0 ELSE n \in 1..999

\* parse_status_info: the status, texts if any, a failure code if any; -1 for
\* a PKIStatusInfo that is malformed.
parse_status_info(fields) ==
    LET rest == Tail(fields) IN
    IF /\ fields # <<>>
       /\ fields[1].tag = "INTEGER"
       /\ InOrder(rest, <<"SEQUENCE", "BIT STRING">>)
       /\ \A i \in DOMAIN rest : IF rest[i].tag = "SEQUENCE"
            THEN rest[i].value # <<>> /\ \A j \in DOMAIN rest[i].value : rest[i].value[j] = "UTF8String"
            ELSE validate_bit_string(rest[i].value)
    THEN unsigned_integer(fields[1].value) ELSE -1

\* parse_algorithm_identifier: parameters are absent or NULL.
parse_algorithm_identifier(alg) == alg.parameters \in {"absent", "NULL"}

(***************************************************************************)
(* Certificate extensions                                                  *)
(***************************************************************************)

\* parse_basic_constraints: cA only as TRUE, a path length only after it.
parse_basic_constraints(fields) ==
    /\ InOrder(fields, <<"BOOLEAN", "INTEGER">>)
    /\ \A i \in DOMAIN fields : IF fields[i].tag = "BOOLEAN" THEN fields[i].value = <<255>>
                                ELSE i = 2 /\ unsigned_integer(fields[i].value) >= 0

\* parse_key_usage: named bits without trailing zero bits, none unknown.
parse_key_usage(v) ==
    /\ validate_bit_string(v)
    /\ Len(v) \in 2..3
    /\ v[Len(v)] # 0
    /\ (v[Len(v)] \div 2^v[1]) % 2 = 1
    /\ Len(v) = 3 => v[3] % 128 = 0
\* digitalSignature or nonRepudiation; keyCertSign or cRLSign.
allows_timestamp_signature(v) == v[2] \div 64 # 0
allows_ca_signing(v) == (v[2] \div 2) % 4 # 0

parse_extended_key_usage(oids) == oids # <<>> /\ IsInjective(oids)

\* parse_subject_alt_names: names of another kind only where the extension is
\* not critical.
parse_subject_alt_names(names, critical) ==
    /\ names # <<>>
    /\ \A i \in DOMAIN names : IF names[i].kind = "rfc822" THEN names[i].valid ELSE ~critical

\* One extension: its critical flag as the policy reads it, and its value.
ExtensionReads(x, policy) ==
    /\ x.form = "ok"
    /\ x.critical \in {"absent", "TRUE"} \/ (policy = "AllowExplicitFalse" /\ x.critical = "FALSE")
    /\ CASE x.oid = "SUBJECT_KEY_IDENTIFIER" -> x.value # <<>>
         [] x.oid = "BASIC_CONSTRAINTS" -> parse_basic_constraints(x.value)
         [] x.oid = "KEY_USAGE" -> parse_key_usage(x.value)
         [] x.oid = "EXT_KEY_USAGE" -> parse_extended_key_usage(x.value)
         [] x.oid = "SUBJECT_ALT_NAME" -> parse_subject_alt_names(x.value, x.critical = "TRUE")
         [] OTHER -> x.critical # "TRUE"

\* parse_extensions_with_policy: some extension, none twice.
parse_extensions_with_policy(exts, policy) ==
    /\ exts # <<>>
    /\ \A i \in DOMAIN exts : ExtensionReads(exts[i], policy)
    /\ \A i, j \in DOMAIN exts : exts[i].oid = exts[j].oid => i = j
parse_extensions(exts) == parse_extensions_with_policy(exts, "StrictDer")
Extension(exts, oid) == FirstOf({i \in DOMAIN exts : exts[i].oid = oid})

(***************************************************************************)
(* The token                                                               *)
(***************************************************************************)

\* parse_tst_info_optional_fields.
OptionalFieldsRead(optional) ==
    /\ InOrder(optional, <<"SEQUENCE", "BOOLEAN", "INTEGER", "[0]", "[1]">>)
    /\ \A i \in DOMAIN optional : LET f == optional[i] IN
         CASE f.tag = "SEQUENCE" -> parse_accuracy(f.value)
           [] f.tag = "BOOLEAN" -> f.value = <<255>>
           [] f.tag = "INTEGER" -> nonnegative_der_integer(f.value)
           [] f.tag = "[0]" -> f.value.kind \in {"directory", "rfc822"} /\ f.value.valid
           [] f.tag = "[1]" -> parse_extensions_with_policy(f.value, "AllowExplicitFalse")

\* parse_tst_info: version 1, policy, imprint, serial number, time.
parse_tst_info(tst) ==
    /\ tst.form = "ok"
    /\ unsigned_integer(tst.version) = 1
    /\ parse_algorithm_identifier(tst.imprint)
    /\ nonnegative_der_integer(tst.serial)
    /\ tst.gen_time >= 0
    /\ OptionalFieldsRead(tst.optional)
\* The value of an optional field, or None.
Optional(tst, tag) ==
    LET i == Field(tst.optional, tag) IN IF i = 0 THEN None ELSE tst.optional[i].value

\* certificate_matches_sid; "bad" when the extensions it must read do not.
certificate_matches_sid(c, sid) ==
    IF sid.kind = "IssuerAndSerialNumber"
    THEN IF c.issuer = sid.issuer /\ c.serial = sid.serial THEN "yes" ELSE "no"
    ELSE IF c.extensions = None THEN "no"
    ELSE IF ~parse_extensions(c.extensions) THEN "bad"
    ELSE LET i == Extension(c.extensions, "SUBJECT_KEY_IDENTIFIER") IN
         IF i # 0 /\ c.extensions[i].value = sid.ski THEN "yes" ELSE "no"

\* select_signer_certificate: exactly one embedded certificate, copies apart.
select_signer_certificate(certs, sid) ==
    LET parsed == {c \in Range(certs) : c.parses}
        found == {c \in parsed : certificate_matches_sid(c, sid) = "yes"} IN
    IF \E c \in parsed : certificate_matches_sid(c, sid) = "bad"
    THEN [err |-> "Malformed", cert |-> None]
    ELSE IF found = {} THEN [err |-> "NoMatchingTsaCertificate", cert |-> None]
    ELSE IF Cardinality(found) > 1 THEN [err |-> "AmbiguousTsaCertificate", cert |-> None]
    ELSE [err |-> "", cert |-> CHOOSE c \in found : TRUE]

\* tsa_name_matches_certificate.
tsa_name_matches_certificate(tsa, c) ==
    IF tsa.kind = "directory" THEN IF tsa.name = c.subject THEN "" ELSE "TsaNameMismatch"
    ELSE IF c.extensions = None THEN "TsaNameMismatch"
    ELSE IF ~parse_extensions(c.extensions) THEN "Malformed"
    ELSE LET i == Extension(c.extensions, "SUBJECT_ALT_NAME") IN
         IF i # 0 /\ \E n \in Range(c.extensions[i].value) : n.kind = "rfc822" /\ n.name = tsa.name
         THEN "" ELSE "TsaNameMismatch"

\* validate_issuer_serial: some name, and a serial number.
validate_issuer_serial(is) == is.names # {} /\ nonnegative_der_integer(is.serial)

\* parse_ess_certificate_reference: the hash algorithm is SHA-1 in version 1
\* and named, or SHA-256, in version 2.
EssHashAlgorithm(oid, ref) ==
    IF oid = "SIGNING_CERTIFICATE" THEN "Sha1" ELSE IF ref.alg = "absent" THEN "Sha256" ELSE ref.alg
EssReferenceReads(oid, ref) ==
    /\ ref.form = "ok"
    /\ EssHashAlgorithm(oid, ref) \in {"Sha1", "Sha256", "Sha384", "Sha512"}
    /\ ref.alg # "absent" => oid = "SIGNING_CERTIFICATE_V2"
    /\ ref.issuer_serial # None => validate_issuer_serial(ref.issuer_serial[1])

\* issuer_serial_matches.
issuer_serial_matches(is, c) == c.issuer \in is.names /\ is.serial = c.serial

\* verify_signing_certificate_attribute: one ESS attribute with one value, its
\* first reference the hash of this certificate.
verify_signing_certificate_attribute(attributes, c) ==
    LET ess == {i \in DOMAIN attributes :
                  attributes[i].oid \in {"SIGNING_CERTIFICATE", "SIGNING_CERTIFICATE_V2"}}
        a == attributes[CHOOSE i \in ess : TRUE]
        first == a.references[1] IN
    /\ Cardinality(ess) = 1
    /\ a.form = "ok"
    /\ a.references # <<>>
    /\ \A i \in DOMAIN a.references : EssReferenceReads(a.oid, a.references[i])
    /\ first.hash = <<"hash", EssHashAlgorithm(a.oid, first), c.der>>
    /\ first.issuer_serial # None => issuer_serial_matches(first.issuer_serial[1], c)
    /\ a.policies \in {"absent", "some"}

\* tsa_certificate_is_usable: valid at the time it attests, no CA, and for
\* time-stamping alone, critically so.
tsa_certificate_is_usable(c, gen_time) ==
    LET bc == Extension(c.extensions, "BASIC_CONSTRAINTS")
        ku == Extension(c.extensions, "KEY_USAGE")
        eku == Extension(c.extensions, "EXT_KEY_USAGE") IN
    /\ gen_time \in c.not_before..c.not_after
    /\ c.extensions # None
    /\ parse_extensions(c.extensions)
    /\ bc # 0 => Field(c.extensions[bc].value, "BOOLEAN") = 0
    /\ eku # 0
    /\ c.extensions[eku].critical = "TRUE"
    /\ c.extensions[eku].value = <<"KP_TIME_STAMPING">>
    /\ ku # 0 => /\ allows_timestamp_signature(c.extensions[ku].value)
                 /\ ~allows_ca_signing(c.extensions[ku].value)

\* SignedData::verify as check_binding uses it: the signature is over the
\* signed attributes, which hold the digest of the content.
CmsVerifies(token, key) ==
    token.signature = <<"signature", key, token.attributes, token.tst>>

\* Mutant: the nonce is not compared.
MutCheckBinding(token, digest, alg, nonce) ==
    LET signer == select_signer_certificate(token.certs, token.sid) IN
    IF token.form # "ok" \/ ~parse_tst_info(token.tst) THEN "Malformed"
    ELSE IF token.tst.imprint.alg # alg \/ token.tst.imprint.hash # digest THEN "ImprintMismatch"
    ELSE IF signer.err # "" THEN signer.err
    ELSE IF ~CmsVerifies(token, signer.cert.key) THEN "TokenSignatureInvalid"
    ELSE IF ~tsa_certificate_is_usable(signer.cert, token.tst.gen_time)
    THEN "NoUsableTsaCertificate" ELSE ""

\* check_binding: the first check that fails.
check_binding(token, digest, alg, nonce) ==
    LET tst == token.tst
        tsa == Optional(tst, "[0]")
        signer == select_signer_certificate(token.certs, token.sid)
        named == tsa_name_matches_certificate(tsa, signer.cert) IN
    IF \/ token.form # "ok" \/ token.content # "TST_INFO" \/ token.attributes = <<>>
       \/ ~parse_tst_info(tst)
    THEN "Malformed"
    ELSE IF tst.imprint.alg # alg \/ tst.imprint.hash # digest THEN "ImprintMismatch"
    ELSE IF Optional(tst, "INTEGER") # positive_integer(nonce) THEN "NonceMismatch"
    ELSE IF signer.err # "" THEN signer.err
    ELSE IF tsa # None /\ named # "" THEN named
    ELSE IF ~CmsVerifies(token, signer.cert.key) THEN "TokenSignatureInvalid"
    ELSE IF ~verify_signing_certificate_attribute(token.attributes, signer.cert)
    THEN "SigningCertificateAttributeInvalid"
    ELSE IF ~tsa_certificate_is_usable(signer.cert, tst.gen_time)
    THEN "NoUsableTsaCertificate" ELSE ""

\* verified_token: the status is read first, the token's frame next; a refusal
\* goes before a token that is absent or does not bind.
verified_token(response, digest, alg, nonce) ==
    LET status == parse_status_info(response.status)
        token == response.token
        bound == check_binding(token, digest, alg, nonce)
        err == IF response.form # "ok" \/ status = -1 \/ (token # None /\ token.form = "trailing")
               THEN "Malformed"
               ELSE IF status \notin {STATUS_GRANTED, STATUS_GRANTED_WITH_MODS} THEN "Rejected"
               ELSE IF token = None THEN "NoToken" ELSE bound IN
    [err |-> err, token |-> token]

\* VerifiedTimestampToken: the fields of a response verified_token accepted.
SignerCertificate(token) == select_signer_certificate(token.certs, token.sid).cert
GeneratedAt(token) == token.tst.gen_time
=============================================================================
