-------------------------------- MODULE Cms --------------------------------
(***************************************************************************)
(* CMS SignedData and the LDS security object it carries, as cms.rs reads  *)
(* and verifies them.  Elements are those of Certificates; a Result is a   *)
(* record with err, "" for Ok, or a value that is Absent for Err.          *)
(***************************************************************************)
EXTENDS Certificates

\* Malformed stands for UnexpectedStructure and Ber, with their texts.
Malformed == [err |-> "Malformed"]
Reads(v) == \A i \in DOMAIN v : v[i].tag # "bad"

\* HashAlgorithm::from_oid, and digest.
HashAlgorithms == {"SHA-256", "SHA-384", "SHA-512"}
digest(alg, octets) == <<alg, octets>>

\* decode_content_info: the content of an exact ContentInfo of SignedData.
decode_content_info(e) ==
    IF /\ e.tag = "SEQUENCE"
       /\ Len(e.value) = 2
       /\ e.value[1] = Elem("OID", "SIGNED_DATA")
       /\ e.value[2].tag = "[0]"
       /\ Len(e.value[2].value) = 1
       /\ e.value[2].value[1].tag = "SEQUENCE"
    THEN <<e.value[2].value[1].value>>
    ELSE Absent

\* parse_algorithm_identifier: an OID and at most one parameter.
parse_algorithm_identifier(e) ==
    IF /\ e.tag = "SEQUENCE"
       /\ Reads(e.value)
       /\ Len(e.value) \in 1..2
       /\ e.value[1].tag = "OID"
    THEN <<e.value[1].value>>
    ELSE Absent

\* parse_digest_algorithms: some, all of them readable.
parse_digest_algorithms(v) ==
    IF v = <<>> \/ \E i \in DOMAIN v : parse_algorithm_identifier(v[i]) = Absent THEN Absent
    ELSE <<{parse_algorithm_identifier(v[i])[1] : i \in DOMAIN v}>>

\* parse_certificates: X.509 certificates only, and some.
parse_certificates(v) ==
    IF v = <<>> \/ \E i \in DOMAIN v : v[i].tag # "SEQUENCE" THEN Absent ELSE <<v>>

\* validate_nonempty_tlv_stream.
validate_nonempty_tlv_stream(v) == v # <<>> /\ Reads(v)

\* parse_signer_identifier: the choice agrees with the version.
parse_signer_identifier(sid, version) ==
    CASE sid.tag = "SEQUENCE" -> /\ version = <<1>>
                                 /\ Len(sid.value) = 2
                                 /\ sid.value[1].tag = "NAME"
                                 /\ sid.value[2].tag = "INTEGER"
                                 /\ sid.value[2].value # <<>>
      [] sid.tag = "[0]" -> version = <<3>> /\ sid.value # <<>>
      [] OTHER -> FALSE

\* parse_attributes: each a type and a set of values; of the signed ones
\* contentType and messageDigest once each, with one value.
parse_attributes(v, require_mandatory_signed) ==
    LET At(oid) == {i \in DOMAIN v : v[i].value[1].value = oid}
        One(oid, tag) == \E i \in DOMAIN v : /\ At(oid) = {i}
                                             /\ Len(v[i].value[2].value) = 1
                                             /\ v[i].value[2].value[1].tag = tag
        Value(oid) == v[CHOOSE i \in DOMAIN v : i \in At(oid)].value[2].value[1].value IN
    IF \E i \in DOMAIN v : \/ v[i].tag # "SEQUENCE"
                           \/ Len(v[i].value) # 2
                           \/ v[i].value[1].tag # "OID"
                           \/ v[i].value[2].tag # "SET"
                           \/ ~validate_nonempty_tlv_stream(v[i].value[2].value)
    THEN Malformed
    ELSE IF ~require_mandatory_signed THEN [err |-> ""]
    ELSE IF ~One("CONTENT_TYPE", "OID") \/ ~One("MESSAGE_DIGEST", "OCTET STRING") THEN Malformed
    ELSE [err |-> "", content_type |-> Value("CONTENT_TYPE"), message_digest |-> Value("MESSAGE_DIGEST")]

\* parse_signer_info: version, sid, digestAlgorithm, [0] signedAttrs
\* optional, signatureAlgorithm, signature, [1] unsignedAttrs optional.
parse_signer_info(v, expected_content_type) ==
    LET signed == Len(v) > 3 /\ v[4].tag = "[0]"
        f == IF signed THEN SubSeq(v, 1, 3) \o SubSeq(v, 5, Len(v)) ELSE v IN
    IF \/ ~Reads(v)
       \/ Len(f) \notin 5..6
       \/ v[1].tag # "INTEGER"
       \/ ~parse_signer_identifier(v[2], v[1].value)
       \/ parse_algorithm_identifier(f[3]) = Absent
       \/ parse_algorithm_identifier(f[4]) = Absent
       \/ f[5].tag # "OCTET STRING"
       \/ Len(f) = 6 /\ (f[6].tag # "[1]" \/ ~Ok(parse_attributes(f[6].value, FALSE)))
    THEN Malformed
    ELSE LET attrs == IF signed THEN parse_attributes(v[4].value, TRUE)
                      ELSE [err |-> "", content_type |-> expected_content_type, message_digest |-> Absent] IN
         IF ~Ok(attrs) \/ attrs.content_type # expected_content_type THEN Malformed
         ELSE [err |-> "", digest |-> parse_algorithm_identifier(f[3])[1],
               alg |-> parse_algorithm_identifier(f[4])[1], signature |-> f[5].value,
               signed |-> IF signed THEN <<v[4].value>> ELSE Absent,
               message_digest |-> attrs.message_digest]

\* parse_signed_data_body: the fields in order, exactly one signer, whose
\* digest algorithm is one of those announced.
parse_signed_data_body(v) ==
    LET encap == v[3].value
        certs == Len(v) > 3 /\ v[4].tag = "[0]"
        more == SubSeq(v, IF certs THEN 5 ELSE 4, Len(v))
        crls == more # <<>> /\ more[1].tag = "[1]"
        last == IF crls THEN Tail(more) ELSE more IN
    IF \/ ~Reads(v)
       \/ Len(v) < 4
       \/ v[1].tag # "INTEGER" \/ v[1].value = <<>>
       \/ v[2].tag # "SET" \/ parse_digest_algorithms(v[2].value) = Absent
       \/ v[3].tag # "SEQUENCE" \/ encap = <<>> \/ encap[1].tag # "OID"
    THEN Malformed
    ELSE IF Len(encap) = 1 \/ encap[2].tag # "[0]" THEN [err |-> "DetachedNotSupported"]
    ELSE IF \/ Len(encap) # 2
            \/ Len(encap[2].value) # 1 \/ encap[2].value[1].tag # "OCTET STRING"
            \/ certs /\ parse_certificates(v[4].value) = Absent
            \/ crls /\ ~validate_nonempty_tlv_stream(more[1].value)
            \/ Len(last) # 1 \/ last[1].tag # "SET"
            \/ Len(last[1].value) # 1 \/ last[1].value[1].tag # "SEQUENCE"
    THEN Malformed
    ELSE LET signer == parse_signer_info(last[1].value[1].value, encap[1].value) IN
         IF ~Ok(signer) \/ signer.digest \notin parse_digest_algorithms(v[2].value)[1] THEN Malformed
         ELSE [err |-> "", econtent_type |-> encap[1].value, econtent |-> encap[2].value[1].value,
               certificates |-> IF certs THEN v[4].value ELSE <<>>, signer |-> signer]

\* SignedData::parse: EF.SOD's wrapper, a ContentInfo or the bare body.
SignedData_parse(e) ==
    LET info == CASE e.tag = "77" /\ Len(e.value) = 1 -> decode_content_info(e.value[1])
                  [] e.tag = "SEQUENCE" /\ e.value # <<>> ->
                       IF e.value[1].tag = "OID" THEN decode_content_info(e) ELSE <<e.value>>
                  [] OTHER -> Absent IN
    IF info = Absent THEN Malformed ELSE parse_signed_data_body(info[1])

\* verify_dispatch and rsa_verify_with_hash: rsaEncryption and ecPublicKey
\* take the hash of the signer's digest algorithm.
verify_dispatch(alg, fallback, spki, payload, signature) ==
    LET family == CASE alg \in {"sha256WithRSA", "sha384WithRSA", "sha512WithRSA", "rsaEncryption"} -> "Rsa"
                    [] alg \in {"ecdsaSha256", "ecdsaSha384", "ecdsaSha512", "ecPublicKey"} -> "Ecdsa"
                    [] OTHER -> "Other"
        hash == CASE alg \in {"sha256WithRSA", "ecdsaSha256"} -> "SHA-256"
                  [] alg \in {"sha384WithRSA", "ecdsaSha384"} -> "SHA-384"
                  [] alg \in {"sha512WithRSA", "ecdsaSha512"} -> "SHA-512"
                  [] OTHER -> fallback
        kind == from_spki(spki)[1] IN
    CASE family = "Other" -> "UnsupportedSignatureAlgorithm"
      [] family = "Rsa" /\ kind # "Rsa" -> "BadSignerKey"
      [] family = "Ecdsa" /\ kind \notin {"Ec", "EcExplicit"} -> "BadSignerKey"
      [] OTHER -> IF signature = <<"signature", family, spki.key, digest(hash, payload)>> THEN "" ELSE "BadSignature"

\* SignedData::verify: the content through messageDigest, the attributes
\* through the signature; without attributes the content itself.
verify(sd, spki) ==
    LET s == sd.signer IN
    IF s.digest \notin HashAlgorithms THEN "UnsupportedDigestAlgorithm"
    ELSE IF s.signed # Absent /\ s.message_digest # digest(s.digest, sd.econtent) THEN "SignerHashMismatch"
    ELSE verify_dispatch(s.alg, s.digest, spki, IF s.signed = Absent THEN sd.econtent ELSE s.signed[1], s.signature)

\* LdsSecurityObject::parse: the hashes in order; entries that are no
\* SEQUENCE, or whose number or hash is of another type, are passed over.
LdsSecurityObject_parse(e) ==
    IF \/ e.tag # "SEQUENCE"
       \/ Len(e.value) < 3
       \/ ~Reads(SubSeq(e.value, 1, 3))
       \/ e.value[2].tag # "SEQUENCE"
       \/ e.value[2].value = <<>> \/ e.value[2].value[1].tag # "OID"
    THEN Malformed
    ELSE IF e.value[2].value[1].value \notin HashAlgorithms THEN [err |-> "UnsupportedDigestAlgorithm"]
    ELSE LET entries == SelectSeq(e.value[3].value, LAMBDA x : x.tag = "SEQUENCE")
             read == SelectSeq(entries, LAMBDA x : x.value[1].tag = "INTEGER" /\ x.value[2].tag = "OCTET STRING")
             Cut(v) == \/ v = <<>> \/ v[1].tag = "bad"
                       \/ v[1].tag = "INTEGER" /\ (Len(v) = 1 \/ v[2].tag = "bad") IN
         IF \/ e.value[3].tag # "SEQUENCE" \/ ~Reads(e.value[3].value)
            \/ \E i \in DOMAIN entries : Cut(entries[i].value)
         THEN Malformed
         ELSE [err |-> "", alg |-> e.value[2].value[1].value,
               hashes |-> [i \in DOMAIN read |-> [dg |-> read[i].value[1].value, hash |-> read[i].value[2].value]]]
=============================================================================
