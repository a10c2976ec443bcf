---------------------------- MODULE Certificates ----------------------------
(***************************************************************************)
(* X.509 certificates as x509.rs reads them.                               *)
(*                                                                         *)
(* An element is [tag, value]; the value of a constructed element is the   *)
(* sequence of its elements, that of a primitive one its octets or a term. *)
(* Tag "bad" stands for octets that are no element.  Two readers exist: a  *)
(* lenient one (extract_...), which skips what it cannot read, and a       *)
(* strict one (path_extension_profile), which refuses it.                  *)
(***************************************************************************)
EXTENDS Integers, Sequences, FiniteSets, SequencesExt

Absent == <<>>
Elem(tag, value) == [tag |-> tag, value |-> value]
Ok(r) == r.err = ""
FirstOf(positions) == IF positions = {} THEN 0 ELSE Min(positions)
\* The number that octets spell; bound: 24 bits, the last three octets.
FromEnd(octets, k) == IF k < Len(octets) THEN octets[Len(octets) - k] ELSE 0
BigEndian(octets) == 256 * (256 * FromEnd(octets, 2) + FromEnd(octets, 1)) + FromEnd(octets, 0)

(***************************************************************************)
(* Public keys and signatures                                              *)
(***************************************************************************)

\* RsaModulus and exponent octets: the magnitude of a positive, minimal DER
\* INTEGER; Absent for any other.
magnitude(v) ==
    IF v = <<>> THEN Absent
    ELSE IF v[1] = 0 /\ Len(v) > 1 /\ v[2] >= 128 THEN Tail(v)
    ELSE IF v[1] \in 1..127 THEN v ELSE Absent

\* rsa_public_key_parts: a SEQUENCE of two such integers and nothing else.
rsa_public_key_parts(key) ==
    IF /\ key.tag = "SEQUENCE"
       /\ Len(key.value) = 2
       /\ \A i \in 1..2 : key.value[i].tag = "INTEGER" /\ magnitude(key.value[i].value) # Absent
    THEN <<magnitude(key.value[1].value), magnitude(key.value[2].value)>>
    ELSE Absent

\* The number of bits of a magnitude.
Log2(octet) == CHOOSE k \in 0..8 : 2^k > octet /\ (k = 0 \/ 2^(k - 1) <= octet)
BitLength(m) == 8 * (Len(m) - 1) + Log2(m[1])

\* explicit_curve_field_bits: the prime of the field, 0 when it is not found.
explicit_curve_field_bits(params) ==
    IF \/ Len(params) < 2
       \/ params[2].tag # "SEQUENCE"
       \/ Len(params[2].value) < 2
       \/ params[2].value[2].tag # "INTEGER"
       \/ params[2].value[2].value \in {<<>>, <<0>>}
    THEN 0
    ELSE LET prime == params[2].value[2].value IN
         BitLength(IF prime[1] = 0 THEN Tail(prime) ELSE prime)

Curves == {"Secp256r1", "Secp384r1", "BrainpoolP256r1", "BrainpoolP384r1"}

\* PublicKeyAlgorithm::from_spki; Absent for a key that is malformed.
from_spki(info) ==
    CASE info.alg = "rsaEncryption" ->
           LET parts == rsa_public_key_parts(info.key) IN
           IF parts = Absent THEN Absent ELSE <<"Rsa", BitLength(parts[1])>>
      [] info.alg = "ecPublicKey" ->
           IF info.parameters = Absent THEN Absent
           ELSE IF info.parameters[1].tag = "OID"
           THEN <<"Ec", IF info.parameters[1].value \in Curves THEN info.parameters[1].value ELSE "Other">>
           ELSE <<"EcExplicit", explicit_curve_field_bits(info.parameters[1].value)>>
      [] OTHER -> <<"Other">>

\* TryFrom for SpkiDer: octet-aligned, and an algorithm that reads.
SpkiReads(info) == info.form = "ok" /\ info.aligned /\ from_spki(info) # Absent

\* SignatureAlgorithm::from_oid: the family and the hash.
from_oid(oid) ==
    CASE oid \in {"sha256WithRSA", "sha384WithRSA", "sha512WithRSA"} -> "Rsa"
      [] oid \in {"ecdsaSha256", "ecdsaSha384", "ecdsaSha512"} -> "Ecdsa"
      [] OTHER -> "Other"

\* verify_tbs_signature: the issuer's key is of the family the algorithm
\* names and the signature is its signature over these octets.
verify_tbs_signature(tbs, oid, bits, spki) ==
    LET kind == from_spki(spki) IN
    CASE from_oid(oid) = "Other" -> "Unsupported"
      [] from_oid(oid) = "Rsa" /\ kind[1] # "Rsa" -> "BadIssuerKey"
      [] from_oid(oid) = "Ecdsa" /\ kind[1] \notin {"Ec", "EcExplicit"} -> "BadIssuerKey"
      [] OTHER -> IF bits = <<"signature", oid, spki.key, tbs>> THEN "" ELSE "BadSignature"

(***************************************************************************)
(* Certificate                                                             *)
(***************************************************************************)

\* parse_tbs: an optional version, then serialNumber, signature, issuer,
\* validity, subject, key; of later fields the last [3] holds the extensions.
parse_tbs(fields) ==
    LET f == IF fields # <<>> /\ fields[1].tag = "[0]" THEN Tail(fields) ELSE fields
        more == {i \in DOMAIN f : i > 6 /\ f[i].tag = "[3]"} IN
    IF Len(f) < 6 \/ \E i \in DOMAIN f : f[i].tag = "bad" THEN [err |-> "UnexpectedStructure"]
    ELSE IF f[4].tag # "Validity" THEN [err |-> "InvalidTime"]
    ELSE IF ~SpkiReads(f[6].value) THEN [err |-> "UnexpectedStructure"]
    ELSE [err |-> "", serial |-> f[1].value, issuer |-> f[3].value, subject |-> f[5].value,
          not_before |-> f[4].value[1], not_after |-> f[4].value[2], spki |-> f[6].value,
          extensions |-> IF more = {} THEN Absent ELSE <<f[Max(more)].value>>]

\* Certificate::from_der: tbsCertificate, signatureAlgorithm, signature; what
\* follows them is not looked at.
Certificate_from_der(der) ==
    IF der.tag # "SEQUENCE" \/ Len(der.value) < 3
       \/ \E i \in 1..3 : der.value[i].tag = "bad"
    THEN [err |-> "UnexpectedStructure"]
    ELSE LET tbs == parse_tbs(der.value[1].value) IN
         IF ~Ok(tbs) THEN tbs
         ELSE [raw |-> der, tbs |-> der.value[1].value, alg |-> der.value[2].value,
               bits |-> der.value[3].value] @@ tbs

\* Certificate::verify_signed_by.
verify_signed_by(c, issuer) == verify_tbs_signature(c.tbs, c.alg, c.bits, issuer.spki)

\* decode_directory_string: Absent when the octets are not of the string's type.
decode_directory_string(e) ==
    CASE e.tag = "UTF8String" -> IF e.value.utf8 THEN <<e.value.text>> ELSE Absent
      [] e.tag \in {"PrintableString", "IA5String", "TeletexString"} ->
           IF e.value.ascii THEN <<e.value.text>> ELSE Absent
      [] e.tag = "BMPString" -> IF e.value.bmp THEN <<e.value.text>> ELSE Absent
      [] OTHER -> Absent

\* Name::dn_attribute: the last attribute of that type that decodes.
dn_attribute(name, oid) ==
    LET atvs == FlattenSeq([i \in DOMAIN name |-> IF name[i].tag = "SET" THEN name[i].value ELSE <<>>])
        found == {i \in DOMAIN atvs : atvs[i].tag = "SEQUENCE" /\ atvs[i].value[1] = oid
                                      /\ decode_directory_string(atvs[i].value[2]) # Absent} IN
    IF found = {} THEN Absent ELSE decode_directory_string(atvs[Max(found)].value[2])

(***************************************************************************)
(* Extensions, leniently                                                   *)
(***************************************************************************)

\* find_extension_with_meta: the first extension of that type; elements that
\* are not a SEQUENCE are passed over, any octet other than zero is TRUE.
find_extension_with_meta(exts, oid) ==
    LET at == FirstOf({i \in DOMAIN exts : exts[i].tag = "bad" \/ (exts[i].tag = "SEQUENCE" /\ exts[i].oid = oid)}) IN
    IF at = 0 THEN Absent
    ELSE IF exts[at].tag = "bad" \/ exts[at].value.tag = "bad" THEN Absent
    ELSE <<[value |-> exts[at].value, critical |-> exts[at].critical \notin {-1, 0}]>>

KeyUsageNames == <<"digitalSignature", "nonRepudiation", "keyEncipherment", "dataEncipherment",
                   "keyAgreement", "keyCertSign", "cRLSign", "encipherOnly">>
\* KeyUsage from the two octets of its bits.
KeyUsageBits(b0, b1) ==
    {KeyUsageNames[i] : i \in {j \in 1..8 : (b0 \div 2^(8 - j)) % 2 = 1}}
    \cup (IF b1 >= 128 THEN {"decipherOnly"} ELSE {})

\* extract_key_usage and extract_key_usage_meta.
extract_key_usage(exts) ==
    LET x == find_extension_with_meta(exts, "KEY_USAGE") IN
    IF x = Absent THEN Absent
    ELSE LET v == x[1].value.value IN
         IF x[1].value.tag # "BIT STRING" \/ v = <<>> THEN Absent
         ELSE <<KeyUsageBits(IF Len(v) > 1 THEN v[2] ELSE 0, IF Len(v) > 2 THEN v[3] ELSE 0)>>

Tagged(v, tag) == {i \in DOMAIN v : v[i].tag = tag}
\* extract_basic_constraints: absent when it does not read.
extract_basic_constraints(exts) ==
    LET x == find_extension_with_meta(exts, "BASIC_CONSTRAINTS")
        none == [ca |-> FALSE, path_len |-> Absent, critical |-> FALSE, present |-> FALSE] IN
    IF x = Absent \/ x[1].value.tag # "SEQUENCE" THEN none
    ELSE LET v == x[1].value.value
             flags == Tagged(v, "BOOLEAN")
             lens == Tagged(v, "INTEGER") IN
         [ca |-> flags # {} /\ v[Max(flags)].value \notin {<<>>, <<0>>},
          path_len |-> IF lens = {} THEN Absent
                       ELSE <<BigEndian(v[Max(lens)].value)>>,
          critical |-> x[1].critical, present |-> TRUE]

\* extract_extended_key_usage_meta.
extract_extended_key_usage_meta(exts) ==
    LET x == find_extension_with_meta(exts, "EXT_KEY_USAGE") IN
    IF x = Absent \/ x[1].value.tag # "SEQUENCE" THEN Absent
    ELSE <<[critical |-> x[1].critical,
            oids |-> {e.value : e \in {y \in Range(x[1].value.value) : y.tag = "OID"}}]>>

\* aia_urls_for: the addresses of one access method, in order.
aia_urls_for(exts, method) ==
    LET x == find_extension_with_meta(exts, "AUTHORITY_INFO_ACCESS") IN
    IF x = Absent \/ x[1].value.tag # "SEQUENCE" THEN <<>>
    ELSE LET ads == SelectSeq(x[1].value.value, LAMBDA d : d.tag = "SEQUENCE" /\ d.value[1] = method
                                                           /\ d.value[2].tag = "URI") IN
         [i \in DOMAIN ads |-> ads[i].value[2].value]
extract_ocsp_urls(exts) == aia_urls_for(exts, "AD_OCSP")
extract_ca_issuers_urls(exts) == aia_urls_for(exts, "AD_CA_ISSUERS")

\* extract_crl_distribution_urls: the URIs in the full names of all points.
extract_crl_distribution_urls(exts) ==
    LET x == find_extension_with_meta(exts, "CRL_DISTRIBUTION_POINTS") IN
    IF x = Absent \/ x[1].value.tag # "SEQUENCE" THEN <<>>
    ELSE LET points == SelectSeq(x[1].value.value, LAMBDA p : p.tag = "fullName")
             names == FlattenSeq([i \in DOMAIN points |-> points[i].value])
             uris == SelectSeq(names, LAMBDA n : n.tag = "URI") IN
         [i \in DOMAIN uris |-> uris[i].value]

(***************************************************************************)
(* Extensions, strictly                                                    *)
(***************************************************************************)

\* parse_path_length: a minimal DER INTEGER of at most four octets; -1
\* otherwise.
parse_path_length(v) ==
    LET m == IF v[1] = 0 /\ Len(v) > 1 THEN Tail(v) ELSE v IN
    IF v = <<>> THEN -1
    ELSE IF v[1] >= 128 \/ (v[1] = 0 /\ Len(v) > 1 /\ v[2] < 128) \/ Len(m) > 4 THEN -1
    ELSE BigEndian(m)

\* parse_path_basic_constraints; Absent when malformed.
parse_path_basic_constraints(value, critical) ==
    LET v == value.value
        flag == value.tag = "SEQUENCE" /\ v # <<>> /\ v[1].tag = "BOOLEAN"
        ca == flag /\ v[1].value = <<255>>
        rest == IF flag THEN Tail(v) ELSE v IN
    IF \/ value.tag # "SEQUENCE"
       \/ flag /\ v[1].value \notin {<<0>>, <<255>>}
       \/ Len(rest) > 1
       \/ Len(rest) = 1 /\ (rest[1].tag # "INTEGER" \/ ~ca \/ parse_path_length(rest[1].value) = -1)
    THEN Absent
    ELSE <<[ca |-> ca, critical |-> critical, present |-> TRUE,
            path_len |-> IF rest = <<>> THEN Absent ELSE <<parse_path_length(rest[1].value)>>]>>

\* parse_path_key_usage: a DER named bit list; Absent when malformed.
MutParsePathKeyUsage(value) ==                        \* Mutant: the count of unused bits is read as bits
    <<KeyUsageBits(value.value[1], value.value[2])>>
parse_path_key_usage(value) ==
    LET v == value.value
        last == v[Len(v)] IN
    IF \/ value.tag # "BIT STRING"
       \/ Len(v) \notin 2..3 \/ v[1] > 7
       \/ last = 0 \/ last % 2^v[1] # 0 \/ (last \div 2^v[1]) % 2 = 0
       \/ Len(v) = 3 /\ v[3] % 128 # 0
    THEN Absent
    ELSE <<KeyUsageBits(v[2], IF Len(v) = 3 THEN v[3] ELSE 0)>>

\* parse_path_extended_key_usage: purposes, some and none twice.
parse_path_extended_key_usage(value) ==
    /\ value.tag = "SEQUENCE"
    /\ value.value # <<>>
    /\ \A i \in DOMAIN value.value : value.value[i].tag = "OID"
    /\ IsInjective(value.value)

\* parse_path_ocsp_no_check: NULL, and not critical.
parse_path_ocsp_no_check(value, critical) == ~critical /\ value.tag = "NULL"

\* One extension of path_extension_profile: "" or its error.
PathExtensionError(x) ==
    IF x.tag # "SEQUENCE" \/ x.critical \notin {-1, 255} \/ x.value.tag = "bad" \/ x.trailing
    THEN "Malformed"
    ELSE LET ok == CASE x.oid = "BASIC_CONSTRAINTS" ->
                          parse_path_basic_constraints(x.value, x.critical = 255) # Absent
                     [] x.oid = "KEY_USAGE" -> parse_path_key_usage(x.value) # Absent
                     [] x.oid = "EXT_KEY_USAGE" -> parse_path_extended_key_usage(x.value)
                     [] OTHER -> TRUE IN
         CASE x.oid = "OCSP_NO_CHECK" ->
                IF parse_path_ocsp_no_check(x.value, x.critical = 255) THEN "" ELSE "InvalidOcspNoCheck"
           [] x.oid \in {"BASIC_CONSTRAINTS", "KEY_USAGE", "EXT_KEY_USAGE", "NAME_CONSTRAINTS"} ->
                IF ok THEN "" ELSE "Malformed"
           [] OTHER -> IF x.critical = 255 THEN "UnsupportedCritical" ELSE ""

\* path_extension_profile: the first error in the order of the extensions, a
\* repeated type included, or the profile.
Repeats(exts, i) == \E j \in 1..(i - 1) : exts[j].tag = "SEQUENCE" /\ exts[j].oid = exts[i].oid
ErrorAt(exts, i) ==
    IF exts[i].tag = "SEQUENCE" /\ Repeats(exts, i)
    THEN IF exts[i].oid = "OCSP_NO_CHECK" THEN "InvalidOcspNoCheck" ELSE "Duplicate"
    ELSE PathExtensionError(exts[i])
Faulty(exts) == {i \in DOMAIN exts : ErrorAt(exts, i) # ""}
PositionOf(exts, oid) == FirstOf({i \in DOMAIN exts : exts[i].oid = oid})
path_extension_profile(exts) ==
    LET bc == PositionOf(exts, "BASIC_CONSTRAINTS")
        ku == PositionOf(exts, "KEY_USAGE")
        eku == PositionOf(exts, "EXT_KEY_USAGE") IN
    IF Faulty(exts) # {} THEN [err |-> ErrorAt(exts, Min(Faulty(exts)))]
    ELSE [err |-> "",
          basic_constraints |-> IF bc = 0
             THEN [ca |-> FALSE, path_len |-> Absent, critical |-> FALSE, present |-> FALSE]
             ELSE parse_path_basic_constraints(exts[bc].value, exts[bc].critical = 255)[1],
          key_usage |-> IF ku = 0 THEN Absent ELSE parse_path_key_usage(exts[ku].value),
          eku |-> eku # 0,
          ocsp_signing |-> eku # 0 /\ \E e \in Range(exts[eku].value.value) : e.value = "KP_OCSP_SIGNING",
          ocsp_no_check |-> PositionOf(exts, "OCSP_NO_CHECK") # 0,
          name_constraints |-> PositionOf(exts, "NAME_CONSTRAINTS") # 0]
=============================================================================
