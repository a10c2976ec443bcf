----------------------------- MODULE TrustWalk ------------------------------
(***************************************************************************)
(* Certificate paths and the evidence for them (validation_material.rs),   *)
(* the path display of cert_chain.rs and the purposes of cert_state.rs.    *)
(* A certificate in hand is its name in Der; its DER is Der[name], and two *)
(* names have different DER.  Every fetch is a request of HttpClient.      *)
(***************************************************************************)
EXTENDS Revocation, HttpClient
CONSTANTS
    Der,                   \* the certificates of this world, by name
    Starts,                \* the calls that may be made, see NoStart
    Url,                   \* the addresses certificates name
    OcspDer,               \* the responders' answers, by kind and nonce
    CrlDer,                \* the lists, by kind
    Now,                   \* evidence_time: the clock, read once
    MAX_CLOCK_SKEW, MAX_OCSP_AGE_WITHOUT_NEXT_UPDATE, MAX_DEPTH, DISPLAY_DEPTH
VARIABLES
    calls,                 \* the chains still to walk, the first is in work
    w,                     \* the walk
    candidates,            \* Collection: certificates at hand
    material,              \* ValidationMaterial
    nonces,                \* how many nonces were drawn
    seen,                  \* history: the status answers that were judged
    cache                  \* RevocationCache of a caller, and its clock

vars == <<http, calls, w, candidates, material, nonces, seen, cache>>
MaxAddresses == 3          \* MAX_CERTIFICATE_ADDRESSES

\* What the readers make of them: functions of the octets, applied once.
Certs == [n \in DOMAIN Der |-> Certificate_from_der(Der[n])]
Responses == [k \in DOMAIN OcspDer |-> [n \in DOMAIN OcspDer[k] |-> OcspResponse_parse(OcspDer[k][n])]]
Lists == [k \in DOMAIN CrlDer |-> Crl_parse(CrlDer[k])]
Cert(name) == Certs[name]
Reads(name) == name \in DOMAIN Certs /\ Ok(Cert(name))
Exts(c) == IF c.extensions = Absent THEN <<>> ELSE c.extensions[1]

\* What a fetched body reads as; another kind of body does not read.
ParsedResponse(body, nonce) ==
    IF body \in DOMAIN Responses /\ nonce \in DOMAIN Responses[body] THEN Responses[body][nonce] ELSE UnexpectedStructure
ParsedList(body) == IF body \in DOMAIN Lists THEN Lists[body] ELSE UnexpectedStructure

\* ChainStart, and the call it is part of: "collect" (collect_chains),
\* "verify" (verify_chain_to_approved_anchor) or "display" (walk_chain, with
\* aia for --aia-fetch).
NoStart == [call |-> "collect", leaf |-> "", reference_time |-> 0, anchors |-> <<>>,
            nonce_policy |-> "RequireEcho", include_leaf |-> TRUE, include_anchor |-> TRUE, aia |-> FALSE]
NoWalk == [pc |-> "start", current |-> "", visited |-> <<>>, cas |-> 0, issuer |-> "",
           urls |-> <<>>, rng |-> FALSE, failures |-> 0, nonce |-> 0, result |-> ""]

\* Collection::push_candidate, push_certificate and push_status: once each.
Push(seq, x) == IF x \in Range(seq) THEN seq ELSE Append(seq, x)

\* bounded_certificate_addresses: the first three distinct ones.
bounded_certificate_addresses(addresses) ==
    LET new == {i \in DOMAIN addresses : \A j \in 1..(i - 1) : addresses[j] # addresses[i]}
        first == FirstOf(new)
        second == FirstOf(new \ {first})
        third == FirstOf(new \ {first, second}) IN
    IF first = 0 THEN <<>>
    ELSE IF second = 0 THEN <<addresses[first]>>
    ELSE IF third = 0 THEN <<addresses[first], addresses[second]>>
    ELSE <<addresses[first], addresses[second], addresses[third]>>

(***************************************************************************)
(* What makes a certificate an issuer                                      *)
(***************************************************************************)

\* validate_certificate_time.
validate_certificate_time(c, t) == t >= c.not_before /\ t <= c.not_after

\* enforce_non_anchor_extension_policy and validate_path_extensions.
enforce_policy(p) ==
    IF Ok(p) /\ (p.name_constraints \/ (p.basic_constraints.ca /\ p.eku))
    THEN [err |-> "Policy"] ELSE p
validate_path_extensions(c) == enforce_policy(path_extension_profile(Exts(c)))

\* enforce_path_length.
enforce_path_length(path_len, cas) == path_len = Absent \/ (path_len # Absent /\ cas <= path_len[1])

\* validate_issuing_certificate, on the time and on the profile.
MaySign(p, cas) ==
    /\ Ok(p)
    /\ p.basic_constraints.present /\ p.basic_constraints.ca /\ p.basic_constraints.critical
    /\ enforce_path_length(p.basic_constraints.path_len, cas)
    /\ p.key_usage # Absent /\ "keyCertSign" \in p.key_usage[1]
validate_issuing_certificate(c, t, cas) ==
    validate_certificate_time(c, t) /\ MaySign(validate_path_extensions(c), cas)

\* validate_direct_issuer_for_path: an approved anchor needs only be in time.
validate_direct_issuer_for_path(subject, issuer, t, cas, anchor) ==
    /\ subject.issuer = issuer.subject
    /\ IF anchor THEN validate_certificate_time(issuer, t) ELSE validate_issuing_certificate(issuer, t, cas)
    /\ verify_signed_by(subject, issuer) = ""

\* check_crl_times and check_ocsp_times.
check_crl_times(this_update, next_update) ==
    /\ this_update <= Now + MAX_CLOCK_SKEW
    /\ next_update # Absent
    /\ next_update[1] > this_update
    /\ Now <= next_update[1] + MAX_CLOCK_SKEW
check_ocsp_times(produced_at, this_update, next_update) ==
    /\ produced_at <= Now + MAX_CLOCK_SKEW
    /\ this_update <= Now + MAX_CLOCK_SKEW
    /\ this_update <= produced_at + MAX_CLOCK_SKEW
    /\ IF next_update # Absent
       THEN next_update[1] > this_update /\ Now <= next_update[1] + MAX_CLOCK_SKEW
       ELSE Now <= this_update + MAX_OCSP_AGE_WITHOUT_NEXT_UPDATE + MAX_CLOCK_SKEW

\* check_response: signed by the issuer or by an embedded responder it
\* authorised, for this nonce, about this certificate, and current; r is what
\* OcspResponse::parse makes of the body.
MutCheckResponse(policy, r, subject, issuer, nonce) ==  \* Mutant: an answer about another certificate will do
    IF ~Ok(r) \/ r.basic = Absent THEN "Revocation"
    ELSE IF VerifiedOcspResponse_verify(r.basic[1], issuer, issuer) # "" THEN "Revocation"
    ELSE IF r.basic[1].responses[1].status.kind = "good" THEN "" ELSE "Revoked"
Signed(basic, issuer) ==
    \E signer \in {issuer} \cup {Cert(e) : e \in {x \in Range(basic.embedded) : Reads(x)}} :
        VerifiedOcspResponse_verify(basic, signer, issuer) = ""
Verdict(answer, produced_at) ==
    IF answer = Absent THEN "Revocation"
    ELSE IF ~check_ocsp_times(produced_at, answer[1].this_update, answer[1].next_update) THEN "Revocation"
    ELSE CASE answer[1].status.kind = "good" -> ""
           [] answer[1].status.kind = "revoked" -> "Revoked"
           [] OTHER -> "Revocation"
check_response(policy, r, subject, issuer, nonce) ==
    LET basic == r.basic[1] IN
    IF ~Ok(r) THEN "Revocation"
    ELSE IF r.status # 0 \/ r.basic = Absent THEN "Revocation"
    ELSE IF ~Signed(basic, issuer) THEN "Revocation"
    ELSE IF IF basic.nonce = Absent THEN policy = "RequireEcho" ELSE basic.nonce[1] # nonce THEN "Revocation"
    ELSE Verdict(response_for(basic, IssuerNameHash(subject.issuer), IssuerKeyHash(issuer.spki), subject.serial),
                 basic.produced_at)

\* One list of collect_crl_status: "" when it clears the certificate.
check_list(list, subject, issuer) ==
    IF ~Ok(list) THEN "Revocation"
    ELSE IF ~check_crl_times(list.this_update, list.next_update) THEN "Revocation"
    ELSE IF VerifiedCrl_verify(list, issuer) # "" THEN "Revocation"
    ELSE CASE check_against_crl(subject, list, Now) = "Good" -> ""
           [] check_against_crl(subject, list, Now) = "Revoked" -> "Revoked"
           [] OTHER -> "Revocation"

(***************************************************************************)
(* The walk                                                                *)
(***************************************************************************)

start == calls[1]
IsAnchor(name) == name \in Range(start.anchors)
Done(result) == [w EXCEPT !.pc = "done", !.result = result]
Continue(pc) == [w EXCEPT !.pc = pc, !.urls = <<>>]

\* The world: elements, answers and lists have the shape their readers count
\* on, and the addresses that certificates and callers name lead somewhere.
IsSequence(s) == s \in Seq(Range(s))
ExtensionsForm(exts) ==
    /\ IsSequence(exts)
    /\ \A i \in DOMAIN exts :
         /\ exts[i].value.tag = "SEQUENCE" => IsSequence(exts[i].value.value)
         /\ exts[i].value.tag = "BIT STRING" => exts[i].value.value \in Seq(0..255)
         /\ exts[i].oid = "BASIC_CONSTRAINTS" /\ exts[i].value.tag = "SEQUENCE" =>
              \A j \in DOMAIN exts[i].value.value : exts[i].value.value[j].value \in Seq(0..255)
CertificateForm(c) ==
    /\ c.not_before \in Int /\ c.not_after \in Int
    /\ c.extensions # Absent => ExtensionsForm(c.extensions[1])
    /\ \A urls \in {extract_ca_issuers_urls(Exts(c)), extract_ocsp_urls(Exts(c)), extract_crl_distribution_urls(Exts(c))} :
         urls \in Seq(DOMAIN Url)
CallForm(c) ==
    /\ c.reference_time \in Int
    /\ c.call = "authority" => c.leaf \in DOMAIN Url /\ c.credentials \in BOOLEAN
ASSUME TrustAssumption ==
    /\ MAX_DEPTH \in Nat /\ DISPLAY_DEPTH \in Nat /\ MAX_DEPTH <= DISPLAY_DEPTH
    /\ \A n \in DOMAIN Der : Reads(n) => CertificateForm(Cert(n))
    /\ \A k \in DOMAIN OcspDer : \A n \in DOMAIN OcspDer[k] :
         LET r == Responses[k][n] IN
         Ok(r) /\ r.basic # Absent => IsSequence(r.basic[1].responses)
    /\ \A k \in DOMAIN CrlDer : Ok(Lists[k]) => IsSequence(Lists[k].revoked)
    /\ \A u \in DOMAIN Url : u \in DOMAIN Streams /\ Url[u].host \in DOMAIN DnsAnswers
    /\ \A s \in Starts : IsSequence(s.calls) /\ s.calls # <<>> /\ \A i \in DOMAIN s.calls : CallForm(s.calls[i])

Init ==
    /\ \E s \in Starts :
         /\ calls = s.calls
         /\ candidates = s.candidates
    /\ http = NoRequest /\ w = NoWalk /\ nonces = 0 /\ seen = {}
    /\ cache = [entries |-> <<>>, now |-> Now, got |-> Absent]
    /\ material = [certificates |-> <<>>, ocsp |-> <<>>, crls |-> <<>>]

\* collect_chains_seeded_with, verify_chain_to_approved_anchor: the leaves
\* are candidates for all chains; walk_chain has only its directory.
Begin ==
    /\ w.pc = "start" /\ calls # <<>> /\ start.call \notin {"cache", "authority"}
    /\ candidates' = IF start.call = "display" THEN SelectSeq(candidates, Reads) ELSE FoldLeft(LAMBDA acc, c : Push(acc, c.leaf), candidates, calls)
    /\ w' = IF start.call # "display" /\ start.anchors = <<>> THEN Done("NoTrustAnchor")
            ELSE [NoWalk EXCEPT !.pc = "enter", !.current = start.leaf]
    /\ material' = IF start.call = "collect" /\ start.include_leaf /\ start.anchors # <<>>
                   THEN [material EXCEPT !.certificates = Push(@, start.leaf)] ELSE material
    /\ UNCHANGED <<http, calls, nonces, seen, cache>>

\* WalkGuard::enter: "" or why not.
MutGuardEnter(visited, name) == ""                    \* Mutant: no guard
guard_enter(visited, name) ==
    IF name \in Range(visited) THEN "ChainCycle"
    ELSE IF Len(visited) >= MAX_DEPTH THEN "ChainTooDeep" ELSE ""

\* The head of the loop of walk and verify_chain_with: parse, time, guard,
\* anchor, extensions.  The path and the count of CAs never pass MAX_DEPTH
\* under the guard; they are capped there.
Enter ==
    /\ w.pc = "enter" /\ start.call # "display"
    /\ LET c == Cert(w.current)
           guard == guard_enter(w.visited, w.current)
           p == validate_path_extensions(c)
           entered == [w EXCEPT !.visited = IF guard = "" /\ Len(@) < MAX_DEPTH THEN Append(@, w.current) ELSE @]
           anchored == [entered EXCEPT !.pc = "done", !.result = "ok"] IN
       /\ w' = CASE ~Reads(w.current) -> Done("Certificate")
                 [] Reads(w.current) /\ ~validate_certificate_time(c, start.reference_time) -> Done("Certificate")
                 [] OTHER ->
                      IF guard # "" THEN Done(guard)
                      ELSE IF IsAnchor(w.current) THEN anchored
                      ELSE IF ~Ok(p) THEN [entered EXCEPT !.pc = "done", !.result = "Certificate"]
                      ELSE [entered EXCEPT !.pc = "search",
                              !.cas = IF p.basic_constraints.ca /\ c.issuer # c.subject /\ @ < MAX_DEPTH THEN @ + 1 ELSE @]
       /\ material' = IF w'.result = "ok" /\ start.call = "collect" /\ start.include_anchor
                      THEN [material EXCEPT !.certificates = Push(@, w.current)] ELSE material
    /\ UNCHANGED <<http, calls, candidates, nonces, seen, cache>>

Accepts(name) ==
    /\ Reads(name)
    /\ validate_direct_issuer_for_path(Cert(w.current), Cert(name), start.reference_time, w.cas, IsAnchor(name))

\* find_issuer, among the anchors and then the candidates: the first that
\* will do; else the addresses in the certificate.
FindIssuer ==
    /\ w.pc = "search"
    /\ LET at_hand == start.anchors \o candidates IN
       \E k \in {SelectInSeq(at_hand, LAMBDA n : n # w.current /\ Accepts(n))},
          urls \in {bounded_certificate_addresses(extract_ca_issuers_urls(Exts(Cert(w.current))))} :
       w' = IF k # 0 THEN [w EXCEPT !.pc = "linked", !.issuer = at_hand[k]]
            ELSE IF urls = <<>> THEN Done("NoIssuer")
            ELSE [w EXCEPT !.pc = "fetch", !.urls = urls]
    /\ UNCHANGED <<http, calls, candidates, material, nonces, seen, cache>>

\* http::get and http::post for the first of the addresses that are left.
Request ==
    /\ w.pc \in {"fetch", "ocsp", "crl"} /\ w.urls # <<>> /\ http.st = "idle"
    /\ \/ /\ w.pc # "ocsp" /\ StartRequest("GET", Url[w.urls[1]], "CertificateMaterial", FALSE, w.urls[1])
          /\ UNCHANGED <<w, nonces>>
       \/ /\ w.pc = "ocsp" /\ StartRequest("POST", Url[w.urls[1]], "CertificateMaterial", FALSE, w.urls[1])
          /\ nonces' = nonces + 1
          /\ w' = [w EXCEPT !.nonce = nonces + 1]
    /\ UNCHANGED <<calls, candidates, material, seen, cache>>

\* OcspNonce::random fails: no responder is asked, the lists still are.
NoRandom ==
    /\ w.pc = "ocsp" /\ w.urls # <<>> /\ http.st = "idle"
    /\ w' = [Continue("crl?") EXCEPT !.rng = TRUE]
    /\ UNCHANGED <<http, calls, candidates, material, nonces, seen, cache>>

Fetched == http.st = "done"
NextUrl == [w EXCEPT !.urls = Tail(@), !.failures = @ + 1]

\* The rest of find_issuer for one address.
IssuerFetched ==
    /\ w.pc = "fetch" /\ Fetched
    /\ http' = NoRequest
    /\ w' = IF http.result.err = "" /\ Reads(http.result.body) /\ Accepts(http.result.body)
            THEN [w EXCEPT !.pc = "linked", !.issuer = http.result.body, !.urls = <<>>]
            ELSE IF Len(w.urls) = 1 THEN Done("NoIssuer") ELSE NextUrl
    /\ UNCHANGED <<calls, candidates, material, nonces, seen, cache>>

\* After find_issuer: the link is checked once more, and its status is asked
\* for; verify_chain_with asks for none.
Linked ==
    /\ w.pc = "linked"
    /\ LET urls == bounded_certificate_addresses(extract_ocsp_urls(Exts(Cert(w.current)))) IN
       w' = IF ~Accepts(w.issuer) THEN Done("InvalidIssuer")
            ELSE IF start.call = "verify" THEN Continue("climb")
            ELSE IF Cert(w.current).extensions = Absent THEN Done("Revocation")
            ELSE IF urls = <<>> THEN Continue("crl?")
            ELSE [w EXCEPT !.pc = "ocsp", !.urls = urls]
    /\ UNCHANGED <<http, calls, candidates, material, nonces, seen, cache>>

Saw(verdict) == seen' = seen \cup {[subject |-> w.current, verdict |-> verdict]}

\* collect_ocsp_status for one responder: revoked is final, anything else but
\* a good answer is a failure and the next one is asked.
MutOcspVerdict(verdict) == IF verdict = "Revoked" THEN "Revocation" ELSE verdict  \* Mutant: revoked is one failure more
OcspVerdict(verdict) == verdict
Failed(pc) == IF Len(w.urls) = 1 THEN [NextUrl EXCEPT !.pc = pc] ELSE NextUrl
OcspJudged(v) ==
    /\ Saw(v)
    /\ w' = CASE OcspVerdict(v) = "" -> Continue("climb")
              [] OcspVerdict(v) = "Revoked" -> Done("Revoked")
              [] OTHER -> Failed("crl?")
    /\ material' = IF v = "" THEN [material EXCEPT !.ocsp = Push(@, <<http.result.body, w.nonce>>)]
                   ELSE material
OcspAnswered ==
    /\ w.pc = "ocsp" /\ Fetched
    /\ http' = NoRequest
    /\ IF http.result.err # "" THEN w' = Failed("crl?") /\ UNCHANGED <<material, seen>>
       ELSE OcspJudged(check_response(start.nonce_policy, ParsedResponse(http.result.body, w.nonce),
                                      Cert(w.current), Cert(w.issuer), w.nonce))
    /\ UNCHANGED <<calls, candidates, nonces, cache>>

\* collect_crl_status: an issuer that may not sign lists ends it at the first
\* address; collect_status when no address is left.
NoStatus == IF w.rng THEN Done("Rng") ELSE Done("Revocation")
CrlStart ==
    /\ w.pc = "crl?"
    /\ \E urls \in {bounded_certificate_addresses(extract_crl_distribution_urls(Exts(Cert(w.current))))},
          usage \in {extract_key_usage(Exts(Cert(w.issuer)))} :
         w' = IF urls = <<>> \/ usage = Absent \/ (usage # Absent /\ "cRLSign" \notin usage[1]) THEN NoStatus
              ELSE [w EXCEPT !.pc = "crl", !.urls = urls]
    /\ UNCHANGED <<http, calls, candidates, material, nonces, seen, cache>>
CrlJudged(v) ==
    /\ Saw(v)
    /\ w' = CASE v = "" -> Continue("climb")
              [] v = "Revoked" -> Done("Revoked")
              [] OTHER -> IF Len(w.urls) = 1 THEN NoStatus ELSE NextUrl
    /\ material' = IF v = "" THEN [material EXCEPT !.crls = Push(@, http.result.body)] ELSE material
CrlAnswered ==
    /\ w.pc = "crl" /\ Fetched
    /\ http' = NoRequest
    /\ IF http.result.err # ""
       THEN /\ w' = IF Len(w.urls) = 1 THEN NoStatus ELSE NextUrl
            /\ UNCHANGED <<material, seen>>
       ELSE CrlJudged(check_list(ParsedList(http.result.body), Cert(w.current), Cert(w.issuer)))
    /\ UNCHANGED <<calls, candidates, nonces, cache>>

\* The end of the loop: the issuer is kept and becomes the current one.
Climb ==
    /\ w.pc = "climb"
    /\ candidates' = Push(candidates, w.issuer)
    /\ material' = IF start.call = "collect" /\ (~IsAnchor(w.issuer) \/ start.include_anchor)
                   THEN [material EXCEPT !.certificates = Push(@, w.issuer)] ELSE material
    /\ w' = [w EXCEPT !.pc = "enter", !.current = w.issuer, !.issuer = "", !.rng = FALSE, !.failures = 0, !.nonce = 0]
    /\ UNCHANGED <<http, calls, nonces, seen, cache>>

\* collect_chains_seeded_with: the next chain, or the error of this one.
NextChain ==
    /\ w.pc = "done" /\ w.result = "ok" /\ Len(calls) > 1
    /\ calls' = Tail(calls)
    /\ w' = NoWalk
    /\ UNCHANGED <<http, candidates, material, nonces, seen, cache>>

(***************************************************************************)
(* walk_chain: a display of the path, without times or extensions          *)
(***************************************************************************)

\* process_self_signed, and the search by name in the directory.
DisplayEnter ==
    /\ w.pc = "enter" /\ start.call = "display"
    /\ LET c == Cert(w.current)
           at == SelectInSeq(candidates, LAMBDA n : Cert(n).subject = c.issuer)
           urls == extract_ca_issuers_urls(Exts(c))
           here == [w EXCEPT !.visited = Append(@, w.current)] IN
       w' = CASE ~Reads(w.current) -> Done("Decode")
              [] Reads(w.current) /\ Len(w.visited) >= DISPLAY_DEPTH -> Done("no root")
              [] OTHER ->
                   IF c.subject = c.issuer
                   THEN [here EXCEPT !.pc = "done", !.result = IF verify_signed_by(c, c) = "" THEN "root" ELSE "no root"]
                   ELSE IF at # 0 THEN [here EXCEPT !.pc = "display", !.issuer = candidates[at]]
                   ELSE IF ~start.aia \/ urls = <<>> THEN [here EXCEPT !.pc = "done", !.result = "no root"]
                   ELSE IF Url[urls[1]].scheme = "https" THEN [here EXCEPT !.pc = "done", !.result = "no root"]
                   ELSE [here EXCEPT !.pc = "display fetch", !.urls = <<urls[1]>>]
    /\ UNCHANGED <<http, calls, candidates, material, nonces, seen, cache>>

\* fetch_aia_cert and try_aia_fetch: only the first address, over HTTP.
DisplayRequest ==
    /\ w.pc = "display fetch" /\ http.st = "idle"
    /\ StartRequest("GET", Url[w.urls[1]], "CertificateMaterial", FALSE, w.urls[1])
    /\ UNCHANGED <<calls, w, candidates, material, nonces, seen, cache>>
DisplayFetched ==
    /\ w.pc = "display fetch" /\ Fetched
    /\ http' = NoRequest
    /\ LET ok == /\ http.result.err = "" /\ Reads(http.result.body)
                 /\ Cert(http.result.body).subject = Cert(w.current).issuer IN
       /\ w' = IF ok THEN [w EXCEPT !.pc = "display", !.issuer = http.result.body, !.urls = <<>>]
               ELSE Done("no root")
       /\ candidates' = IF ok THEN Append(candidates, http.result.body) ELSE candidates
    /\ UNCHANGED <<calls, material, nonces, seen, cache>>

\* The rest of the loop of walk_chain.
DisplayLink ==
    /\ w.pc = "display"
    /\ w' = IF verify_signed_by(Cert(w.current), Cert(w.issuer)) = ""
            THEN [w EXCEPT !.pc = "enter", !.current = w.issuer, !.issuer = ""]
            ELSE Done("no root")
    /\ UNCHANGED <<http, calls, candidates, material, nonces, seen, cache>>

(***************************************************************************)
(* RevocationCache: a caller keeps evidence and asks for it later          *)
(***************************************************************************)

Caching == calls # <<>> /\ start.call = "cache"
CacheInsert ==
    /\ Caching
    /\ LET c == Cert(start.leaf)
           issuer == Cert(start.anchors[1]) IN
       \E kind \in start.evidence :
         LET ev == IF kind \in DOMAIN CrlDer
                   THEN EvidenceFromCrl(c, Lists[kind], cache.now)
                   ELSE EvidenceFromOcsp(c, Responses[kind][0].basic[1], issuer, cache.now) IN
         cache' = [cache EXCEPT !.entries = cache_insert(@, c, ev), !.got = Absent]
    /\ UNCHANGED <<http, calls, w, candidates, material, nonces, seen>>
CacheGet ==
    /\ Caching
    /\ cache' = [cache EXCEPT !.got = cache_get(cache.entries, Cert(start.leaf), cache.now)]
    /\ UNCHANGED <<http, calls, w, candidates, material, nonces, seen>>
CacheTick ==
    /\ Caching /\ cache.now < Now + MAX_OCSP_AGE_WITHOUT_NEXT_UPDATE
    /\ cache' = [cache EXCEPT !.now = @ + 1, !.got = Absent]
    /\ UNCHANGED <<http, calls, w, candidates, material, nonces, seen>>

HttpProgress == HttpStep /\ UNCHANGED <<calls, w, candidates, material, nonces, seen, cache>>

\* post_authority, for a time-stamp, with and without credentials.
AskAuthority ==
    /\ calls # <<>> /\ start.call = "authority" /\ w.pc = "start"
    /\ IF http.st = "done" THEN w' = Done(http.result.err) /\ http' = http
       ELSE StartRequest("POST", Url[start.leaf], "Authority", start.credentials, start.leaf) /\ w' = w
    /\ UNCHANGED <<calls, candidates, material, nonces, seen, cache>>

Walk == \/ Enter \/ FindIssuer \/ Request \/ NoRandom \/ IssuerFetched \/ Linked
        \/ OcspAnswered \/ CrlStart \/ CrlAnswered \/ Climb \/ NextChain
Display == DisplayEnter \/ DisplayRequest \/ DisplayFetched \/ DisplayLink
Progress == Begin \/ Walk \/ Display \/ AskAuthority \/ HttpProgress
Next == Progress \/ CacheInsert \/ CacheGet \/ CacheTick

Spec == Init /\ [][Next]_vars
\* The walk is one thread that never waits but for a request, and a request ends
\* by its own time-outs, except where a TLS server is silent: the read is tried
\* again for as long as it takes (Framing::read_response), and nothing says that
\* the server ever speaks or closes.
Stalled == http.st = "stalled" /\ http.url.scheme = "https"
FairSpec == Spec /\ WF_vars(~Stalled /\ Progress)

(***************************************************************************)
(* Purposes (cert_state.rs)                                                *)
(***************************************************************************)

\* CertPurpose::matches_key_usage.
matches_key_usage(purpose, usage) ==
    CASE purpose = "Auth" -> {"digitalSignature", "keyEncipherment", "dataEncipherment"} \subseteq usage
      [] purpose = "NonRep" -> usage = {"nonRepudiation"}
      [] purpose = "Csca" -> {"keyCertSign", "cRLSign"} \subseteq usage
      [] purpose = "Dsc" -> "digitalSignature" \in usage /\ usage \cap {"nonRepudiation", "keyCertSign", "cRLSign"} = {}
      [] purpose = "Mls" -> "digitalSignature" \in usage

\* RevocationCheckedCert::bind_to_purpose.
bind_to_purpose(c, status, purpose) ==
    LET usage == IF c.extensions = Absent THEN Absent ELSE extract_key_usage(c.extensions[1]) IN
    CASE status # "Good" -> IF status = "Revoked" THEN "Revoked" ELSE "RevocationUnknown"
      [] status = "Good" /\ usage = Absent -> "NoKeyUsage"
      [] OTHER -> IF matches_key_usage(purpose, usage[1]) THEN "" ELSE "WrongKeyUsage"

(***************************************************************************)
(* Properties                                                              *)
(***************************************************************************)

Verdicts == {"", "Revoked", "Revocation"}
Pcs == {"start", "enter", "search", "fetch", "linked", "ocsp", "crl?", "crl", "climb", "done",
        "display", "display fetch"}
\* The walk's state is well formed: one record per step, the path a sequence
\* of known certificates, the addresses at most three.
TypeOK ==
    /\ w.pc \in Pcs /\ w.cas \in 0..MAX_DEPTH
    /\ Len(w.visited) <= DISPLAY_DEPTH /\ Range(w.visited) \subseteq DOMAIN Der
    /\ Len(w.urls) <= MaxAddresses /\ Range(w.urls) \subseteq DOMAIN Url
    /\ \A x \in seen : x.subject \in DOMAIN Der /\ x.verdict \in Verdicts

Path == w.visited
Accepted == w.result = "ok"

\* walk and verify_chain_with: an accepted path ends in an approved anchor;
\* every certificate on it is in time and signed by the next; every issuer
\* that is not the anchor is a CA that may sign certificates, with no more
\* CAs below it than it allows, whoever supplied it.
PathIsTrusted ==
    Accepted =>
        /\ Path[Len(Path)] \in Range(start.anchors)
        /\ \A i \in DOMAIN Path :
             LET c == Cert(Path[i]) IN
             /\ start.reference_time \in c.not_before..c.not_after
             /\ i < Len(Path) => /\ c.issuer = Cert(Path[i + 1]).subject
                                 /\ verify_signed_by(c, Cert(Path[i + 1])) = ""
             /\ i \in 2..(Len(Path) - 1) =>
                  LET bc == extract_basic_constraints(Exts(c))
                      below == {j \in 2..(i - 1) : Cert(Path[j]).issuer # Cert(Path[j]).subject} IN
                  /\ bc.ca /\ "keyCertSign" \in extract_key_usage(Exts(c))[1]
                  /\ bc.path_len # Absent => Cardinality(below) <= bc.path_len[1]

\* Whose key a response was made with: the issuer's, or that of a responder
\* the issuer certified for this purpose.
SignedFor(basic, issuer) ==
    \E n \in DOMAIN Der :
        LET s == Cert(n) IN
        /\ Ok(s) /\ basic.bits = <<"signature", basic.alg, s.spki.key, basic.tbs>>
        /\ \/ s.raw = issuer.raw
           \/ /\ s.issuer = issuer.subject /\ verify_signed_by(s, issuer) = ""
              /\ \E eku \in Range(extract_extended_key_usage_meta(Exts(s))) : "KP_OCSP_SIGNING" \in eku.oids
ClearedByOcsp(x, c, issuer, policy) ==
    LET basic == ParsedResponse(x[1], x[2]).basic[1] IN
    /\ SignedFor(basic, issuer)
    /\ IF basic.nonce = Absent THEN policy # "RequireEcho" ELSE basic.nonce[1] = x[2]
    /\ \E r \in Range(basic.responses) :
         /\ r.cert_id = encode_request(IssuerNameHash(issuer.subject), IssuerKeyHash(issuer.spki), c.serial, x[2]).cert_id
         /\ r.status.kind = "good"
         /\ r.next_update # Absent => Now <= r.next_update[1] + MAX_CLOCK_SKEW
ClearedByCrl(x, c, issuer) ==
    LET list == ParsedList(x) IN
    /\ list.bits = <<"signature", list.alg, issuer.spki.key, list.tbs>>
    /\ "cRLSign" \in extract_key_usage(Exts(issuer))[1]
    /\ list.issuer = c.issuer /\ Now <= list.next_update[1] + MAX_CLOCK_SKEW
    /\ c.serial \notin {x2.serial : x2 \in Range(list.revoked)}

\* collect_status: what is collected with a path clears every certificate of
\* it but the anchor: an answer about that certificate of that issuer, from
\* one that may give it, current, and with the nonce of the request where
\* the policy asks for it.
EvidenceForEveryLink ==
    Accepted /\ start.call = "collect" =>
        \A i \in 1..(Len(Path) - 1) :
            LET c == Cert(Path[i])
                issuer == Cert(Path[i + 1]) IN
            \/ \E x \in Range(material.ocsp) : ClearedByOcsp(x, c, issuer, start.nonce_policy)
            \/ \E x \in Range(material.crls) : ClearedByCrl(x, c, issuer)

\* collect_ocsp_status and collect_crl_status: once an acceptable answer says
\* a certificate of the path is revoked, no later answer of another source
\* makes the path good.
RevokedStopsTheWalk ==
    [][\A x \in seen : x.verdict = "Revoked" /\ x.subject \in Range(Path') => w'.result # "ok"]_vars

\* x509.rs has two readers of the same extensions: where the strict one of
\* the path accepts a certificate, the lenient one the rest of the program
\* uses reads the same constraints, key usage and purposes from it.
ReadersAgree ==
    Reads(w.current) =>
        LET exts == Exts(Cert(w.current))
            p == path_extension_profile(exts) IN
        Ok(p) => /\ extract_basic_constraints(exts) = p.basic_constraints
                 /\ extract_key_usage(exts) = p.key_usage
                 /\ (extract_extended_key_usage_meta(exts) # Absent) = p.eku

\* bind_to_purpose: no certificate serves both authentication and
\* non-repudiation, nor both signs documents and certificates.
OnePurposePerCertificate ==
    Reads(w.current) =>
        LET Binds(p) == bind_to_purpose(Cert(w.current), "Good", p) = "" IN
        ~(Binds("Auth") /\ Binds("NonRep")) /\ ~(Binds("Dsc") /\ Binds("Csca"))
        /\ ~(Binds("NonRep") /\ Binds("Mls"))

\* RevocationCache::get: what is given out is a revocation, or evidence that
\* is still within the time its issuer promised.
CacheServesCurrent ==
    cache.got # Absent /\ cache.got[1].status # "Revoked" =>
        cache.got[1].valid_until # Absent /\ cache.now <= cache.got[1].valid_until[1]

\* What the program relies on is proved: the path, the evidence for every
\* link of it, and what the cache gives out.
AcceptedIsProved == TypeOK /\ PathIsTrusted /\ EvidenceForEveryLink /\ CacheServesCurrent

\* A certificate means one thing, whichever reader and purpose it meets.
CertificateReadOneWay == ReadersAgree /\ OnePurposePerCertificate

\* WalkGuard and the bounds on addresses and redirects: every call ends,
\* whatever the certificates name each other as issuers, unless a TLS server it
\* asks stays silent for ever; then the call waits for that server, and the
\* other addresses it knows are not tried.
WalkEnds == []<>(calls # <<>> /\ start.call # "cache") => []<>(w.pc = "done") \/ <>[]Stalled
=============================================================================
