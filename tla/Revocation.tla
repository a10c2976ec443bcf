----------------------------- MODULE Revocation -----------------------------
(***************************************************************************)
(* OCSP responses (ocsp.rs), certificate revocation lists (crl.rs) and the *)
(* answer they give for a certificate (revocation.rs).  Elements are those *)
(* of Certificates; a hash is the term of what was hashed.                 *)
(***************************************************************************)
EXTENDS Certificates

UnexpectedStructure == [err |-> "UnexpectedStructure"]
IsTime(e) == e.tag = "GeneralizedTime"

(***************************************************************************)
(* OCSP                                                                    *)
(***************************************************************************)

\* IssuerNameHash::from_name and IssuerKeyHash::from_subject_public_key.
IssuerNameHash(name) == <<"SHA-1", name>>
IssuerKeyHash(spki) == <<"SHA-1", spki.key>>

\* OcspHelpers::encode_request: one CertID with SHA-1, and the nonce.
encode_request(name_hash, key_hash, serial, nonce) ==
    [cert_id |-> [alg |-> "SHA-1", name |-> name_hash, key |-> key_hash, serial |-> serial],
     nonce |-> nonce]

\* parse_responder_id.
ResponderIdReads(e) ==
    \/ e.tag = "[1]"
    \/ e.tag = "[2]" /\ e.value.tag = "OCTET STRING" /\ e.value.len = 20

\* parse_extensions: some, none twice, critical only as TRUE, and a critical
\* one only if it is the nonce of the whole response.
ExtensionsRead(e, scope) ==
    /\ e.tag = "SEQUENCE" /\ e.value # <<>>
    /\ \A i \in DOMAIN e.value :
         /\ e.value[i].tag = "SEQUENCE" /\ e.value[i].critical \in {-1, 255}
         /\ \A j \in 1..(i - 1) : e.value[j].oid # e.value[i].oid
         /\ IF scope = "Response" /\ e.value[i].oid = "NONCE"
            THEN e.value[i].value.tag = "OCTET STRING"
            ELSE e.value[i].critical = -1
nonce_from_extensions(e) ==
    LET at == FirstOf({i \in DOMAIN e.value : e.value[i].oid = "NONCE"}) IN
    IF at = 0 THEN Absent ELSE <<e.value[at].value.value>>

\* CrlReason::from_code: an unknown code is no reason.
CrlReason(code) == IF code \in (0..6) \cup (8..10) THEN <<code>> ELSE Absent

\* parse_cert_status.
CertStatusReads(e) ==
    \/ e.tag \in {"good", "unknown"} /\ e.value = <<>>
    \/ /\ e.tag = "revoked" /\ Len(e.value) \in 1..2 /\ IsTime(e.value[1])
       /\ Len(e.value) = 2 => e.value[2].tag = "[0]"
parse_cert_status(e) ==
    [kind |-> e.tag, at |-> IF e.tag = "revoked" THEN <<e.value[1].value>> ELSE Absent,
     reason |-> IF e.tag = "revoked" /\ Len(e.value) = 2 THEN CrlReason(e.value[2].value) ELSE Absent]

\* parse_cert_id: the hash algorithm has no parameters or NULL.
CertIdReads(e) == e.tag = "SEQUENCE" /\ e.params \in {"absent", "NULL"} /\ ~e.trailing

\* parse_single_response: nextUpdate and the extensions, each at most once
\* and in this order.
SingleResponseReads(e) ==
    LET v == e.value IN
    /\ e.tag = "SEQUENCE" /\ Len(v) >= 3
    /\ CertIdReads(v[1]) /\ CertStatusReads(v[2]) /\ IsTime(v[3])
    /\ LET tags == [i \in 1..(Len(v) - 3) |-> v[i + 3].tag] IN
       tags \in {<<>>, <<"[0]">>, <<"[1]">>, <<"[0]", "[1]">>}
    /\ \A i \in 4..Len(v) : IF v[i].tag = "[0]" THEN IsTime(v[i].value)
                            ELSE ExtensionsRead(v[i].value, "Single")
parse_single_response(e) ==
    [cert_id |-> e.value[1].value, status |-> parse_cert_status(e.value[2]),
     this_update |-> e.value[3].value,
     next_update |-> IF Len(e.value) >= 4 /\ e.value[4].tag = "[0]"
                     THEN <<e.value[4].value.value>> ELSE Absent]

\* parse_response_data: version 1 if any is given, at least one response, no
\* CertID twice.
parse_response_data(e) ==
    LET versioned == e.tag = "SEQUENCE" /\ e.value # <<>> /\ e.value[1].tag = "[0]"
        v == IF versioned THEN Tail(e.value) ELSE e.value IN
    IF \/ e.tag # "SEQUENCE"
       \/ versioned /\ e.value[1].value # <<0>>
       \/ Len(v) \notin 3..4
    THEN UnexpectedStructure
    ELSE IF \/ ~ResponderIdReads(v[1])
            \/ ~IsTime(v[2])
            \/ v[3].tag # "SEQUENCE" \/ v[3].value = <<>>
            \/ \E i \in DOMAIN v[3].value : ~SingleResponseReads(v[3].value[i])
            \/ \E i, j \in DOMAIN v[3].value :
                 i < j /\ v[3].value[i].value[1].value = v[3].value[j].value[1].value
            \/ Len(v) = 4 /\ (v[4].tag # "[1]" \/ ~ExtensionsRead(v[4].value, "Response"))
    THEN UnexpectedStructure
    ELSE [err |-> "", responder_id |-> v[1], produced_at |-> v[2].value,
          responses |-> [i \in DOMAIN v[3].value |-> parse_single_response(v[3].value[i])],
          nonce |-> IF Len(v) = 4 THEN nonce_from_extensions(v[4].value) ELSE Absent]

\* BasicOcspResponse::parse.
BasicOcspResponse_parse(e) ==
    LET v == e.value IN
    IF \/ e.tag # "SEQUENCE" \/ Len(v) \notin 3..4
       \/ v[2].tag # "SEQUENCE" \/ v[2].params \notin {"absent", "NULL"}
       \/ v[3].tag # "BIT STRING" \/ v[3].unused # 0
       \/ Len(v) = 4 /\ v[4].tag # "[0]"
    THEN UnexpectedStructure
    ELSE LET data == parse_response_data(v[1]) IN
         IF ~Ok(data) THEN data
         ELSE data @@ [tbs |-> v[1].value, alg |-> v[2].value, bits |-> v[3].value,
                       embedded |-> IF Len(v) = 4 THEN v[4].value ELSE <<>>]

\* OcspResponse::parse: only a successful answer has a body, and a body of
\* another type is none.
OcspResponse_parse(e) ==
    IF e.tag # "SEQUENCE" \/ e.status.tag # "ENUMERATED" \/ Len(e.status.value) # 1
    THEN UnexpectedStructure
    ELSE IF e.status.value # <<0>>
    THEN IF e.value = <<>> THEN [err |-> "", status |-> e.status.value[1], basic |-> Absent]
         ELSE UnexpectedStructure
    ELSE IF Len(e.value) # 1 \/ e.value[1].tag # "[0]" THEN UnexpectedStructure
    ELSE IF e.value[1].type # "BASIC_OCSP_RESPONSE" THEN [err |-> "", status |-> 0, basic |-> Absent]
    ELSE LET basic == BasicOcspResponse_parse(e.value[1].value) IN
         IF Ok(basic) THEN [err |-> "", status |-> 0, basic |-> <<basic>>] ELSE basic

\* ResponderId::matches_certificate.
matches_certificate(id, c) ==
    IF id.tag = "[1]" THEN id.value = c.subject ELSE id.value.value = IssuerKeyHash(c.spki)

\* authorize_responder_extensions.
ResponderProfile(p) ==
    CASE ~Ok(p) -> IF p.err = "InvalidOcspNoCheck" THEN "MalformedNoCheck" ELSE "UnauthorizedResponder"
      [] Ok(p) /\ \/ p.basic_constraints.ca \/ p.name_constraints
                  \/ ~p.eku \/ ~p.ocsp_signing
                  \/ p.key_usage # Absent /\ "digitalSignature" \notin p.key_usage[1] ->
           "UnauthorizedResponder"
      [] OTHER -> IF p.ocsp_no_check THEN "" ELSE "ResponderRevocationRequired"
authorize_responder_extensions(exts) == ResponderProfile(path_extension_profile(exts))

\* authorize_signer: the issuer itself, or a responder the issuer delegated,
\* valid when the response was produced.
authorize_signer(signer, issuer, produced_at) ==
    CASE signer.raw = issuer.raw -> ""
      [] \/ signer.issuer # issuer.subject
         \/ produced_at < signer.not_before \/ produced_at > signer.not_after
         \/ verify_signed_by(signer, issuer) # ""
         \/ signer.extensions = Absent -> "UnauthorizedResponder"
      [] OTHER -> authorize_responder_extensions(signer.extensions[1])

\* VerifiedOcspResponse::verify.
VerifiedOcspResponse_verify(basic, signer, issuer) ==
    CASE ~matches_certificate(basic.responder_id, signer) -> "ResponderIdMismatch"
      [] verify_tbs_signature(basic.tbs, basic.alg, basic.bits, signer.spki) # "" -> "Signature"
      [] OTHER -> authorize_signer(signer, issuer, basic.produced_at)

\* CertId::matches_request; VerifiedOcspResponse::response_for.
matches_request(id, name_hash, key_hash, serial) ==
    id = [alg |-> "SHA-1", name |-> name_hash, key |-> key_hash, serial |-> serial]
response_for(basic, name_hash, key_hash, serial) ==
    LET at == FirstOf({i \in DOMAIN basic.responses :
                        matches_request(basic.responses[i].cert_id, name_hash, key_hash, serial)}) IN
    IF at = 0 THEN Absent ELSE <<basic.responses[at]>>

(***************************************************************************)
(* Revocation lists                                                        *)
(***************************************************************************)

RecognizedExtensions == [Crl |-> {"AUTHORITY_KEY_IDENTIFIER", "ISSUER_ALT_NAME", "CRL_NUMBER", "FRESHEST_CRL"},
                         Entry |-> {"CRL_REASONS", "HOLD_INSTRUCTION_CODE", "INVALIDITY_DATE"}]
RefusedExtensions == [Crl |-> {"DELTA_CRL_INDICATOR", "ISSUING_DISTRIBUTION_POINT"},
                      Entry |-> {"CERTIFICATE_ISSUER"}]

\* validate_extensions.
validate_extensions(exts, scope) ==
    /\ exts # <<>>
    /\ \A i \in DOMAIN exts :
         /\ \A j \in 1..(i - 1) : exts[j].oid # exts[i].oid
         /\ exts[i].oid \notin RefusedExtensions[scope]
         /\ exts[i].critical => exts[i].oid \in RecognizedExtensions[scope]

\* validate_typed_crl, on the fields of tbsCertList.
validate_typed_crl(t) ==
    /\ t.signature = t.outer
    /\ (t.extensions # Absent \/ \E x \in Range(t.revoked) : x.extensions # Absent) => t.version = "v2"
    /\ t.extensions # Absent => validate_extensions(t.extensions[1], "Crl")
    /\ \A x \in Range(t.revoked) : x.extensions # Absent => validate_extensions(x.extensions[1], "Entry")

\* Crl::parse and parse_tbs_cert_list: the typed reading first, then the
\* fields in their order.
Crl_parse(e) ==
    LET t == e.tbs IN
    IF \/ e.tag # "SEQUENCE" \/ ~validate_typed_crl(t)
       \/ e.unused # 0 \/ e.trailing
       \/ t.version \notin {"absent", "v2"}
       \/ t.order \notin {<<>>, <<"next">>, <<"revoked">>, <<"ext">>, <<"next", "revoked">>,
                          <<"next", "ext">>, <<"revoked", "ext">>, <<"next", "revoked", "ext">>}
    THEN UnexpectedStructure
    ELSE [err |-> "", raw |-> e, tbs |-> t, alg |-> t.outer, bits |-> e.bits, issuer |-> t.issuer,
          this_update |-> t.this_update, next_update |-> t.next_update, revoked |-> t.revoked]

\* Crl::find_serial, with find_reason_code.
find_serial(crl, serial) ==
    LET at == FirstOf({i \in DOMAIN crl.revoked : crl.revoked[i].serial = serial})
        x == crl.revoked[at] IN
    IF at = 0 THEN Absent
    ELSE <<[at |-> x.date,
            reason |-> IF x.extensions = Absent THEN Absent
                       ELSE LET k == FirstOf({j \in DOMAIN x.extensions[1] : x.extensions[1][j].oid = "CRL_REASONS"}) IN
                            IF k = 0 THEN Absent ELSE CrlReason(x.extensions[1][k].value)]>>

\* VerifiedCrl::verify.
VerifiedCrl_verify(crl, issuer) ==
    LET usage == IF issuer.extensions = Absent THEN Absent ELSE extract_key_usage(issuer.extensions[1]) IN
    CASE crl.issuer # issuer.subject -> "IssuerNameMismatch"
      [] usage = Absent \/ (usage # Absent /\ "cRLSign" \notin usage[1]) -> "IssuerNotAuthorized"
      [] OTHER -> verify_tbs_signature(crl.tbs, crl.alg, crl.bits, issuer.spki)

(***************************************************************************)
(* The answer for a certificate                                            *)
(***************************************************************************)

\* check_against_crl: of another issuer, past nextUpdate, listed, or good.
check_against_crl(c, crl, now) ==
    CASE crl.issuer # c.issuer -> "Inapplicable"
      [] crl.next_update # Absent /\ now > crl.next_update[1] -> "Stale"
      [] OTHER -> IF find_serial(crl, c.serial) = Absent THEN "Good" ELSE "Revoked"

\* check_against_ocsp_response.
check_against_ocsp_response(c, basic, issuer, now) ==
    LET r == response_for(basic, IssuerNameHash(issuer.subject), IssuerKeyHash(issuer.spki), c.serial) IN
    CASE r = Absent -> "Inapplicable"
      [] r # Absent /\ r[1].next_update # Absent /\ now > r[1].next_update[1] -> "Stale"
      [] OTHER -> CASE r[1].status.kind = "good" -> "Good"
                    [] r[1].status.kind = "revoked" -> "Revoked"
                    [] OTHER -> "Unknown"

\* RevocationEvidence::from_ocsp and from_crl: kept until nextUpdate.
EvidenceFromOcsp(c, basic, issuer, now) ==
    LET r == response_for(basic, IssuerNameHash(issuer.subject), IssuerKeyHash(issuer.spki), c.serial) IN
    [status |-> check_against_ocsp_response(c, basic, issuer, now), checked_at |-> now,
     valid_until |-> IF r = Absent THEN Absent ELSE r[1].next_update]
EvidenceFromCrl(c, crl, now) ==
    [status |-> check_against_crl(c, crl, now), checked_at |-> now, valid_until |-> crl.next_update]

\* RevocationEvidence::is_fresh, and what RevocationCache::get gives out.
is_fresh(ev, now) == ev.valid_until # Absent /\ now <= ev.valid_until[1]
Usable(ev, now) == ev.status = "Revoked" \/ is_fresh(ev, now)

\* RevocationCache::insert: a certificate of the same issuer and serial is
\* replaced; get.
cache_insert(entries, c, ev) ==
    LET id == <<c.issuer, c.serial>>
        at == FirstOf({i \in DOMAIN entries : entries[i].id = id}) IN
    IF at = 0 THEN Append(entries, [id |-> id, evidence |-> ev])
    ELSE [entries EXCEPT ![at].evidence = ev]
cache_get(entries, c, now) ==
    LET at == FirstOf({i \in DOMAIN entries : entries[i].id = <<c.issuer, c.serial>>}) IN
    IF at # 0 /\ Usable(entries[at].evidence, now) THEN <<entries[at].evidence>> ELSE Absent
=============================================================================
