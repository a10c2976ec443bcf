---------------------------- MODULE CertReports ----------------------------
(***************************************************************************)
(* What `card` says of one certificate of a card: its chain, its           *)
(* revocation list and its OCSP answer (build_cert_report and below in     *)
(* card_check.rs).  web maps an address to what it answers, Absent when it *)
(* does not.                                                               *)
(***************************************************************************)
EXTENDS Revocation
CONSTANTS PinnedRootDer,   \* PINNED_ROOT_DER and PINNED_ROOT_SHA256
          SecondsPerDay
ASSUME DayAssumption == SecondsPerDay \in Nat \ {0}

Fetch(web, url) == IF url \in DOMAIN web THEN web[url] ELSE Absent

\* is_pinned_root: no caller of these programs fills the cache of roots.
is_pinned_root(der) == der \in Range(PinnedRootDer)

Skipped(why) == <<"Skipped", why>>
Failed(why) == <<"Failed", why>>

\* AiaIssuerCertStatus: the first caIssuers address, once.
AiaIssuerCert(urls, web) ==
    LET Parsed(c) == IF Ok(c) THEN c ELSE [err |-> "ParseFailed"]
        Got(a) == IF a = Absent THEN [err |-> "Unavailable"] ELSE Parsed(Certificate_from_der(a[1])) IN
    IF urls = <<>> THEN [err |-> "Unavailable"] ELSE Got(Fetch(web, urls[1]))

\* run_chain_check: root is Absent or the card's own root certificate.
MutRunChainCheck(leaf, issuer, root) ==       \* Mutant: the on-card root needs no pin
    IF Ok(issuer) /\ root # Absent /\ verify_signed_by(leaf, issuer) = "" /\ verify_signed_by(issuer, root[1]) = ""
    THEN <<"Ok">> ELSE Skipped("no chain")
run_chain_check(leaf, issuer, root) ==
    CASE ~Ok(issuer) -> Skipped(issuer.err)
      [] Ok(issuer) /\ verify_signed_by(leaf, issuer) # "" -> Failed("leaf")
      [] OTHER ->
           IF root # Absent /\ verify_signed_by(issuer, root[1]) = ""
           THEN IF is_pinned_root(root[1].raw) THEN <<"Ok">> ELSE Skipped("root not pinned")
           ELSE IF \E r \in Range(PinnedRootDer) : verify_signed_by(issuer, Certificate_from_der(r)) = ""
           THEN <<"Ok">>
           ELSE IF root = Absent THEN Skipped("no anchor") ELSE Failed("no anchor")

\* verify_crl.
verify_crl(crl, issuer) ==
    IF ~Ok(issuer) THEN issuer.err
    ELSE IF crl.issuer # issuer.subject THEN "IssuerNameMismatch" ELSE VerifiedCrl_verify(crl, issuer)

\* run_crl_check: <<>> when there is neither file nor address.
run_crl_check(cert, urls, file, issuer, web, now) ==
    LET Checked(crl) == IF ~Ok(crl) THEN Skipped("parse")
                        ELSE IF verify_crl(crl, issuer) # "" THEN Skipped("signature")
                        ELSE <<"Status", check_against_crl(cert, crl, now)>>
        Got(a) == IF a = Absent THEN Skipped("fetch") ELSE Checked(Crl_parse(a[1])) IN
    IF file # Absent THEN <<Got(file)>> ELSE IF urls = <<>> THEN Absent ELSE <<Got(Fetch(web, urls[1]))>>

\* verify_ocsp_response: by the issuer itself, or by the first embedded
\* responder that verifies.
verify_ocsp_response(basic, issuer) ==
    LET Delegate(c) == Ok(c) /\ VerifiedOcspResponse_verify(basic, c, issuer) = "" IN
    \/ VerifiedOcspResponse_verify(basic, issuer, issuer) = ""
    \/ \E i \in DOMAIN basic.embedded : Delegate(Certificate_from_der(basic.embedded[i]))

\* ocsp_nonce_check.
ocsp_nonce_check(nonce, basic) ==
    IF basic.nonce = Absent THEN "Skipped" ELSE IF basic.nonce[1] = nonce THEN "Ok" ELSE "Failed"

\* run_ocsp_check: an answer may come with a nonce that is not ours; the
\* status is reported all the same, with the nonce's outcome beside it.  No
\* nonce (Absent: the system's random numbers fail) is no request.
Abort == <<<<"Abort">>>>
run_ocsp_check(cert, urls, issuer, web, nonce, now) ==
    LET Basic(b) == IF ~verify_ocsp_response(b, issuer) THEN Skipped("signature")
                    ELSE <<"Status", check_against_ocsp_response(cert, b, issuer, now), ocsp_nonce_check(nonce[1], b)>>
        Parsed(r) == IF ~Ok(r) THEN Skipped("parse")
                     ELSE IF r.status # 0 \/ r.basic = Absent THEN Skipped("status") ELSE Basic(r.basic[1])
        Got(a) == IF a = Absent THEN Skipped("post") ELSE Parsed(OcspResponse_parse(a[1])) IN
    IF urls = <<>> THEN Absent
    ELSE IF ~Ok(issuer) THEN <<Skipped(issuer.err)>>
    ELSE IF nonce = Absent THEN Abort ELSE <<Got(Fetch(web, urls[1]))>>

\* days_between: truncated toward zero.
days_between(a, b) ==
    IF b >= a THEN (b - a) \div SecondsPerDay ELSE -((a - b) \div SecondsPerDay)

\* build_cert_report.  ctx: offline, now, crl (the file given), root, web,
\* nonce.  Without a nonce the whole check ends.
build_cert_report(slot, der, ctx) ==
    LET silent == slot = "RootCa" \/ ctx.offline
        Report(cert, exts, issuer) ==
          [err |-> "", slot |-> slot, der |-> der, days |-> days_between(ctx.now, cert.not_after),
           chain |-> IF slot = "RootCa" THEN Absent
                     ELSE <<IF ctx.offline THEN Skipped("offline") ELSE run_chain_check(cert, issuer, ctx.root)>>,
           crl |-> IF silent THEN Absent
                   ELSE run_crl_check(cert, extract_crl_distribution_urls(exts), ctx.crl, issuer, ctx.web, ctx.now),
           ocsp |-> IF silent THEN Absent
                    ELSE run_ocsp_check(cert, extract_ocsp_urls(exts), issuer, ctx.web, ctx.nonce, ctx.now)]
        Unless(r) == IF r.ocsp = Abort THEN [err |-> "Rng"] ELSE r
        Issued(cert, exts) == Unless(Report(cert, exts, IF silent THEN [err |-> "Unavailable"]
                                                        ELSE AiaIssuerCert(extract_ca_issuers_urls(exts), ctx.web)))
        Parsed(cert) == IF ~Ok(cert) THEN [err |-> "CertParse"]
                        ELSE Issued(cert, IF cert.extensions = Absent THEN <<>> ELSE cert.extensions[1]) IN
    Parsed(Certificate_from_der(der))
=============================================================================
