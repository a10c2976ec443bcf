---------------------------- MODULE SigningFlow ----------------------------
(***************************************************************************)
(* One signing, from the request to the file (client/card_sign.rs,         *)
(* cli/card_sign_document.rs, cli/card_sign.rs, client/card_decrypt.rs,    *)
(* client/card_manager.rs and the batch loop of the graphical client):     *)
(* the level that was asked for, the card session with its certificate,    *)
(* PIN and command program, the time-stamps, the evidence and the file.    *)
(*                                                                         *)
(* The session is not exclusive (ReaderAccessCap::Read), except the one of *)
(* a decryption: between two commands another process may set the card's   *)
(* security environment, give it another hash or reset it.  Authorities    *)
(* answer with any response of Answers, or not at all.  The card, the      *)
(* other process, the authorities and the collected evidence are external. *)
(***************************************************************************)
EXTENDS SignCommands, TimestampToken

CONSTANTS
    Cards,        \* the cards that may be in the reader
    Info,         \* what is on each: serial, key, scheme, sealed
    Displayed,    \* the card the graphical client shows
    Formats,      \* document formats asked for
    Authorities,  \* the lists of time-stamping authorities configured
    TlsAuthorities, \* those of the command line with an https address
    Origins,      \* which clients start a signing
    Nonces,       \* octets a random nonce may have
    Flaws,        \* how an answer may deviate from an honest one
    Tries,        \* the card's PIN attempts
    MaxDocs,      \* PDFs in one batch
    MaxForeign,   \* steps of the other process
    Skew,         \* MAX_TIMESTAMP_CLOCK_SKEW
    MaxClock
\* A card's serial number is its own: what a card is told apart by.
ASSUME SigningAssumption ==
    /\ Displayed \in Cards
    /\ \A c \in Cards : Info[c].serial = Info[Displayed].serial => c = Displayed
    /\ Tries \in Nat /\ MaxDocs \in Nat \ {0} /\ MaxForeign \in Nat /\ MaxClock \in Nat
\* A nonce is octets; the ways an answer may deviate are those of Answer.
ASSUME AnswersAssumption ==
    /\ Nonces \subseteq Seq(0..255) /\ Skew \in Nat
    /\ Flaws \subseteq {"none", "digest", "replay", "stale", "expired", "twin", "other signer",
                        "field twice", "refused", "no token"}

VARIABLES
    req,      \* the request: DocumentRequest, SignOptions and the flags behind it
    run,      \* the locals of sign_with_slot
    card,     \* the card in the reader and its volatile state
    tries,    \* attempts left for the PIN on each card
    sent,     \* every VERIFY: the card, the attempts it had, whether the PIN was right
    disk,     \* what was written for each document
    status,   \* the exit status of the client, per document
    clock,
    foreign

vars == <<req, run, card, tries, sent, disk, status, clock, foreign>>

Cold == [app |-> FALSE, sm |-> FALSE, verified |-> {}, mse |-> None, hash |-> None, data |-> 0,
         stale |-> FALSE]
NoRun == [stage |-> "idle", doc |-> 1, err |-> "", can |-> FALSE, reran |-> FALSE,
          program |-> <<>>, expect |-> 0, sig |-> None, key |-> None, scheme |-> "Citizen",
          at |-> 1, nonce |-> None, asked |-> 0, tokens |-> {}, material |-> {},
          archive |-> None, answer |-> "none"]
NoRequest == [origin |-> "none", pin |-> "none"]

(***************************************************************************)
(* What is asked for                                                       *)
(***************************************************************************)

Archivable(format) == format \in {"Pades", "AsicECades"}

\* expand_authority and the default authority: an option that is no URL names
\* a known set; a list keeps an address once.
expand_authority(options, no_timestamp) ==
    IF options = <<>> /\ ~no_timestamp THEN <<"default">> ELSE options

\* resolve_levels: the options and opt-outs of the command line.
resolve_levels(f) ==
    IF f.no_long_term /\ (f.long_term \/ f.archive) THEN [err |-> "BadValue"]
    ELSE IF f.no_archive /\ f.archive THEN [err |-> "BadValue"]
    ELSE IF f.archive /\ ~Archivable(f.format) THEN [err |-> "BadValue"]
    ELSE LET archive == /\ ~(f.no_timestamp \/ f.no_long_term \/ f.no_archive)
                        /\ f.archive \/ Archivable(f.format) IN
         [err |-> "", archive |-> archive,
          long_term |-> f.long_term \/ archive \/ ~(f.no_timestamp \/ f.no_long_term)]

\* Mutant: evidence without an attested time is only refused after the PIN.
MutCheckLevelIsReachable(long_term, n) == TRUE
check_level_is_reachable(long_term, n) == long_term => n # 0

\* Format::is_single_file.
is_single_file(format) == format \in {"Cades", "CadesDetached", "Pades"}

\* SignDocumentArgs::resolve, in the order of its refusals.
resolve(f) ==
    LET urls == expand_authority(f.timestamps, f.no_timestamp)
        levels == resolve_levels(f) IN
    IF f.no_timestamp /\ f.timestamps # <<>> THEN [err |-> "BadValue"]
    ELSE IF is_single_file(f.format) /\ f.inputs > 1 THEN [err |-> "BadValue"]
    ELSE IF levels.err # "" THEN levels
    ELSE IF ~check_level_is_reachable(levels.long_term, Len(urls)) THEN [err |-> "BadValue"]
    ELSE [err |-> "", origin |-> "cli", kind |-> "document", slot |-> f.slot, format |-> f.format,
          long_term |-> levels.long_term, archive |-> levels.archive, authorities |-> urls,
          credentials |-> FALSE, https |-> FALSE, expected |-> None, docs |-> 1,
          save_cert |-> FALSE, can |-> f.can, pin |-> "none"]

Flags == [format : Formats, long_term : BOOLEAN, archive : BOOLEAN, no_timestamp : BOOLEAN,
          no_long_term : BOOLEAN, no_archive : BOOLEAN, timestamps : Authorities,
          inputs : {1, 2}, slot : {"Auth", "Sign"}, can : BOOLEAN]

\* pdf_document_request and sign_asice: one authority, perhaps with
\* credentials, and the serial number of the card on display.
GuiRequest(format, docs, credentials, https) ==
    [err |-> "", origin |-> "gui", kind |-> "document", slot |-> "Sign", format |-> format,
     long_term |-> TRUE, archive |-> format = "Pades", authorities |-> <<"default">>,
     credentials |-> credentials, https |-> https, expected |-> <<Info[Displayed].serial>>,
     docs |-> IF format = "Pades" THEN docs ELSE 1, save_cert |-> FALSE, can |-> TRUE, pin |-> "none"]

\* SignArgs::run and DecryptArgs::run: signature or plaintext octets alone.
BareRequest(kind, slot, save_cert, can) ==
    [err |-> "", origin |-> "cli", kind |-> kind, slot |-> slot, format |-> "none",
     long_term |-> FALSE, archive |-> FALSE, authorities |-> <<>>, credentials |-> FALSE,
     https |-> FALSE, expected |-> None, docs |-> 1, save_cert |-> save_cert, can |-> can,
     pin |-> "none", op |-> None]

\* A program of its own that calls the signing trait: which method, and the
\* hash or the number of octets it passes.
LibraryOps ==
    {<<"raw", n>> : n \in {MAX_SHORT, MAX_SHORT + 1, RSA_3072_SIG_BYTES, 2 * MAX_SHORT + 1, MAX_EXTENDED + 1}}
    \cup {<<op, alg>> : op \in {"RsaPkcs1V1_5", "RsaPss", "Ecdsa"}, alg \in DOMAIN len_byte}
    \cup {<<"P256", "Sha256">>}
LibraryRequest(op, slot) == [BareRequest("library", slot, FALSE, FALSE) EXCEPT !.op = op]

requires_long_term_material(r) == r.long_term \/ r.archive

\* validate_signing_policy.
validate_signing_policy(r) ==
    IF requires_long_term_material(r) /\ r.authorities = <<>> THEN "Timestamp"
    ELSE IF r.credentials /\ (Len(r.authorities) # 1 \/ ~r.https) THEN "Timestamp"
    ELSE IF r.archive /\ ~Archivable(r.format) THEN "Document"
    ELSE ""

Init ==
    /\ req = NoRequest
    /\ run = NoRun
    /\ \E c \in Cards : card = [in |-> c, vol |-> Cold]
    /\ tries = [c \in Cards |-> Tries]
    /\ sent = <<>>
    /\ disk = [d \in 1..MaxDocs |-> None]
    /\ status = [d \in 1..MaxDocs |-> "none"]
    /\ clock = 0
    /\ foreign = 0

\* The PIN was asked for: no request was refused before.
PinTyped == req.pin # "none"

\* The command line is parsed, then the PIN is asked for: right, wrong, or
\* too short for the card to be asked.
Ask(r, pin) ==
    /\ IF r.err # ""
       THEN /\ req' = [origin |-> "cli", kind |-> "document", pin |-> "none"]
            /\ run' = [NoRun EXCEPT !.stage = "failed", !.err = r.err]
       ELSE /\ req' = [r EXCEPT !.pin = pin]
            /\ run' = [NoRun EXCEPT !.stage = "policy", !.can = r.can]
    /\ UNCHANGED <<card, tries, sent, disk, status, clock, foreign>>

\* The other card is put into the reader before the session opens.
SwapCard(c) ==
    /\ run.stage \in {"policy", "open"}
    /\ card' = [in |-> c, vol |-> Cold]
    /\ c # card.in
    /\ foreign < MaxForeign
    /\ foreign' = foreign + 1
    /\ UNCHANGED <<req, run, tries, sent, disk, status, clock>>

(***************************************************************************)
(* The card session                                                        *)
(***************************************************************************)

Step(next) == run' = [run EXCEPT !.stage = next]
FailWith(err) == run' = [run EXCEPT !.stage = "failed", !.err = err]
Vol == card.vol
Volatile(vol) == card' = [card EXCEPT !.vol = vol]
Rest == UNCHANGED <<req, tries, sent, disk, status, clock, foreign>>

Policy ==
    /\ run.stage = "policy"
    /\ LET err == IF req.kind = "document" THEN validate_signing_policy(req) ELSE "" IN
       IF err # "" THEN FailWith(err) ELSE Step("open")
    /\ UNCHANGED card /\ Rest

\* pick_single_reader, the input, open_session.
OpenSession(outcome) ==
    /\ run.stage = "open"
    /\ IF outcome # "ok" THEN FailWith(outcome) /\ UNCHANGED card
       ELSE Step("select") /\ Volatile([Vol EXCEPT !.stale = FALSE])
    /\ Rest

\* SELECT of the PKCS#15 application; a contactless card answers 6982 outside
\* a PACE channel.
SelectApplication ==
    /\ run.stage = "select"
    /\ IF Vol.stale THEN FailWith("CertUnavailable") /\ UNCHANGED card
       ELSE IF ~Info[card.in].sealed \/ Vol.sm
       THEN Volatile([Vol EXCEPT !.app = TRUE])
            /\ Step(IF req.kind \in {"decrypt", "library"} THEN "scheme" ELSE "cert")
       ELSE /\ UNCHANGED card
            /\ IF req.kind \in {"decrypt", "library"} THEN FailWith("Pkcs15Select")
               ELSE IF run.can THEN Step("reset") ELSE FailWith("NeedCan")
    /\ Rest

\* Mutant: any refused session is run again once a CAN was typed.
MutMayRerun(r) == r.origin = "cli" /\ ~run.reran
\* SignArgs::run and SignDocumentArgs::run: only NeedCan is run again.
may_rerun(r) == r.origin = "cli" /\ ~run.reran /\ run.err = "NeedCan"

\* The session could not be opened without a CAN; the command line asks for
\* it once, when it can, and starts over with the same PIN.
Rerun ==
    /\ run.stage = "failed"
    /\ PinTyped
    /\ may_rerun(req)
    /\ run' = [NoRun EXCEPT !.stage = "policy", !.can = TRUE, !.reran = TRUE]
    /\ UNCHANGED card /\ Rest

ResetCard ==
    /\ run.stage = "reset"
    /\ Volatile(Cold)
    /\ Step("pace")
    /\ Rest

\* SELECT MF, run_pace_with_can, SELECT under secure messaging.
Pace(outcome) ==
    /\ run.stage = "pace"
    /\ IF Vol.stale THEN FailWith("Pace") /\ UNCHANGED card
       ELSE IF outcome # "ok" THEN FailWith(outcome) /\ UNCHANGED card
       ELSE Volatile([Cold EXCEPT !.sm = TRUE, !.app = TRUE]) /\ Step("cert")
    /\ Rest

\* A command gets an answer while the session is not stale and, where the card
\* wants it, inside the secure channel.
Answers9000 == ~Vol.stale /\ Vol.app /\ (Info[card.in].sealed => Vol.sm)

\* read_certificate on the slot or on the alternative one, and its parse.
ReadCertificate(outcome) ==
    /\ run.stage = "cert"
    /\ IF ~Answers9000 \/ outcome # "ok" THEN FailWith("CertUnavailable")
       ELSE run' = [run EXCEPT !.key = <<card.in, req.slot>>,
                               !.stage = IF req.kind = "document" THEN "serial" ELSE "scheme"]
    /\ UNCHANGED card /\ Rest

\* ensure_displayed_card and ensure_expected_serial.
ensure_displayed_card(r, live) ==
    IF r.expected = None THEN ""
    ELSE IF live = "none" \/ <<live>> # r.expected THEN "DisplayedCard" ELSE ""

CheckDisplayedCard ==
    /\ run.stage = "serial"
    /\ LET err == ensure_displayed_card(req, Info[card.in].serial) IN
       IF req.expected # None /\ ~Answers9000 THEN FailWith("DisplayedCard")
       ELSE IF err # "" THEN FailWith(err) ELSE Step("plan")
    /\ UNCHANGED card /\ Rest

\* document_signer: the digest and signature algorithm of the key.
document_signer(key) ==
    CASE key = "Rsa" -> "Sha256" [] key = "P384" -> "Sha384" [] OTHER -> "none"

\* document_signer, load_data_objects, document_metadata and plan; the last
\* three refuse what outcome says.
PlanDocument(outcome) ==
    /\ run.stage = "plan"
    /\ IF document_signer(Info[card.in].key) = "none" THEN FailWith("UnsupportedDocumentKey")
       ELSE IF outcome # "ok" THEN FailWith(outcome) ELSE Step("scheme")
    /\ UNCHANGED card /\ Rest

\* resolve_pin_reference_scheme.
ResolveScheme ==
    /\ run.stage = "scheme"
    /\ IF ~Answers9000 THEN FailWith("Transport")
       ELSE run' = [run EXCEPT !.scheme = IF req.kind = "decrypt" THEN "Citizen"
                                          ELSE Info[card.in].scheme, !.stage = "verify"]
    /\ UNCHANGED card /\ Rest

\* verify_pin_with_scheme and its outcome.
VerifyPin ==
    /\ run.stage = "verify"
    /\ LET left == tries[card.in]
           right == req.pin = "right" IN
       IF req.pin = "short" THEN FailWith("PinPolicy") /\ UNCHANGED <<card, tries, sent>>
       ELSE IF ~Answers9000 THEN FailWith("Transport") /\ UNCHANGED <<card, tries, sent>>
       ELSE /\ sent' = Append(sent, [card |-> card.in, left |-> left, right |-> right,
                                     doc |-> run.doc])
            /\ IF right /\ left > 0
               THEN /\ Volatile([Vol EXCEPT !.verified = @ \cup {req.slot}])
                    /\ tries' = [tries EXCEPT ![card.in] = Tries]
                    /\ Step("dispatch")
               ELSE /\ tries' = [tries EXCEPT ![card.in] = IF left > 0 THEN left - 1 ELSE 0]
                    /\ FailWith("PinRejected")
                    /\ UNCHANGED card
    /\ UNCHANGED <<req, disk, status, clock, foreign>>

(***************************************************************************)
(* The signature                                                           *)
(***************************************************************************)

\* The octets to be signed: the document's, or for a bare signature the input.
Hash(alg) == [alg |-> alg, of |-> <<"octets", run.doc>>]

\* sign_dispatch_by_alg before the card answers.
sign_dispatch_by_alg(key, scheme, slot) ==
    CASE key = "Rsa" -> IF scheme = "Citizen" THEN sign_pre_hashed_sha256_rsa(slot, Hash("Sha256"))
                        ELSE sign_pre_hashed_sha256_rsa_hash_in_command(slot, Hash("Sha256"))
      [] key = "P384" -> sign_pre_hashed_sha384_ecdsa_p384(slot, Hash("Sha384"))
      [] key \in {"P256", "Brainpool"} -> Refused("UnsupportedCurve")
      [] OTHER -> Refused("UnsupportedKeyType")

LibraryProgram(op, slot) ==
    CASE op[1] = "raw" -> sign_rsa_raw(slot, op[2])
      [] op[1] = "RsaPkcs1V1_5" -> sign_pre_hashed_rsa_pkcs1(slot, Hash(op[2]))
      [] op[1] = "RsaPss" -> sign_pre_hashed_rsa_pss(slot, Hash(op[2]))
      [] op[1] = "Ecdsa" -> sign_pre_hashed_ecdsa_p384(slot, Hash(op[2]))
      [] op[1] = "P256" -> sign_pre_hashed_sha256_ecdsa_p256(slot, Hash(op[2]))

Dispatch ==
    /\ run.stage = "dispatch"
    /\ LET p == CASE req.kind = "decrypt" -> decrypt_rsa_pkcs1("Auth", RSA_3072_SIG_BYTES)
                  [] req.kind = "library" -> LibraryProgram(req.op, req.slot)
                  [] OTHER -> sign_dispatch_by_alg(Info[card.in].key, run.scheme, req.slot) IN
       IF p.err # "" THEN FailWith(p.err)
       ELSE run' = [run EXCEPT !.stage = "sign", !.program = p.commands, !.expect = p.expect]
    /\ UNCHANGED card /\ Rest

\* What the card does with a command: its security environment, the hash it
\* was given, the octets of a chain, and the operation itself.
CardRuns(cmd, vol) ==
    CASE cmd.p1p2[1] = 65 ->
           [vol EXCEPT !.mse = <<cmd.p1p2[2], cmd.body[1].value, cmd.body[2].value>>]
      [] cmd.p1p2 = <<144, 160>> -> [vol EXCEPT !.hash = <<cmd.body[1].value>>]
      [] OTHER -> [vol EXCEPT !.data = (IF cmd.body = <<>> THEN 0 ELSE cmd.body[1].len) + @]
CardRefuses(cmd, vol) ==
    \/ ~Answers9000
    \/ cmd.p1p2[1] # 65 /\ vol.mse = None
    \/ cmd.p1p2 = PsoCds /\ cmd.body = <<>> /\ vol.hash = None
    \/ cmd.le # NoLe /\ \A s \in vol.verified : KeyRefByte[s] # vol.mse[3]

\* The signature or plaintext of an operation: the algorithm and key of the
\* security environment over the hash, or the octets, the card holds.
Result(cmd, vol) ==
    <<"result", vol.mse[2], vol.mse[3],
      CASE cmd.stage = "PSO:CDS" /\ cmd.body = <<>> -> vol.hash[1]
        [] cmd.stage = "PSO:CDS" /\ cmd.body # <<>> -> cmd.body[1].value
        [] OTHER -> vol.data + cmd.body[1].len>>

\* One command of the program; the last answer is the signature, refused when
\* its length is not the one the key gives.
SignExchange(length_ok) ==
    /\ run.stage = "sign"
    /\ LET cmd == Head(run.program)
           last == Len(run.program) = 1 IN
       IF CardRefuses(cmd, Vol) THEN FailWith("SignSw") /\ UNCHANGED card
       ELSE /\ IF ~last THEN run' = [run EXCEPT !.program = Tail(@)]
               ELSE IF ~length_ok /\ run.expect # AnyLength THEN FailWith("UnexpectedSignatureLength")
               ELSE run' = [run EXCEPT !.sig = Result(cmd, Vol), !.program = <<>>,
                              !.stage = IF req.kind \in {"decrypt", "library"} THEN "write" ELSE "check"]
            /\ Volatile(IF last THEN [Vol EXCEPT !.hash = None, !.data = 0] ELSE CardRuns(cmd, Vol))
    /\ Rest

\* pso_cds_with_data: the card or the reader takes no extended command.
ExtendedRefused ==
    /\ run.stage = "sign"
    /\ run.program[1].stage = "PSO:CDS extended"
    /\ LET p == CdsHalves(run.program[1].body[1].len) IN
       IF p.err # "" THEN FailWith(p.err) ELSE run' = [run EXCEPT !.program = p.commands]
    /\ UNCHANGED card /\ Rest

\* Another process, between two commands: it selects another application,
\* gives the card a hash of its own, sets another key or algorithm, or resets
\* the card.  A plain command ends the secure channel.
Foreign(act) ==
    /\ foreign < MaxForeign
    /\ run.stage \in {"select", "pace", "cert", "serial", "plan", "scheme", "verify", "dispatch", "sign"}
    /\ req.kind \notin {"decrypt", "library"}
    /\ act = "hash" => Vol.app
    /\ Volatile([(CASE act = "hash" -> [Vol EXCEPT !.hash = <<[alg |-> "Sha256", of |-> <<"other", 0>>]>>]
                   [] act = "mse" -> [Vol EXCEPT !.mse = <<182, SignatureAlgRef("Sha256", "RsaPkcs1V1_5"),
                                                          KeyRefByte["Auth"]>>]
                   [] act = "select" -> [Vol EXCEPT !.app = FALSE]
                   [] act = "reset" -> [Cold EXCEPT !.stale = TRUE]) EXCEPT !.sm = FALSE])
    /\ foreign' = foreign + 1
    /\ UNCHANGED <<req, run, tries, sent, disk, status, clock>>

\* The signature the certificate's key gives over the planned octets.
Expected ==
    LET key == Info[run.key[1]].key IN
    <<"result", IF key = "Rsa" THEN SignatureAlgRef("Sha256", "RsaPkcs1V1_5")
                ELSE SignatureAlgRef("Sha384", "Ecdsa"),
      KeyRefByte[run.key[2]], Hash(document_signer(key))>>

\* Mutant: what the card returned is written without verifying it.
MutLocalVerify(sig) == TRUE
\* verify_pkcs1v15_sha256 or verify_p384_sha384_raw with the certificate's key.
local_verify(sig) == sig = Expected

LocalVerify ==
    /\ run.stage = "check"
    /\ IF ~local_verify(run.sig) THEN FailWith("LocalVerifyFailed")
       ELSE IF req.kind = "bare" THEN Step("write")
       ELSE run' = [run EXCEPT !.stage = "stamp", !.at = 1]
    /\ UNCHANGED card /\ Rest

(***************************************************************************)
(* Time-stamps and evidence                                                *)
(***************************************************************************)

\* What a token must attest: the digest of the signature; for the archive that
\* of the finished PDF with its tokens and evidence, or of the archive manifest
\* of a container, which names the signature value and neither of the two.
Stamped == IF run.stage \in {"await", "stamp"} THEN <<"digest", run.sig>>
           ELSE IF req.format = "AsicECades" THEN <<"digest", run.sig, "manifest">>
           ELSE <<"digest", run.sig, run.tokens, run.material>>
DigestAlg == document_signer(Info[run.key[1]].key)

\* Mutant: one authority in a list is retried for ever too.
MutRetryTransient(n) == n >= 1
\* retry_transient_authority_failures.
retry_transient(n) == n = 1

\* fetch_timestamp and request_token up to the POST.
RequestToken(nonce) ==
    /\ run.stage \in {"stamp", "archive"}
    /\ run.at <= Len(req.authorities)
    /\ run' = [run EXCEPT !.stage = IF run.stage = "stamp" THEN "await" ELSE "await archive",
                          !.nonce = nonce, !.asked = clock]
    /\ UNCHANGED card /\ Rest

NextAuthority(r) ==
    [r EXCEPT !.at = run.at + 1, !.nonce = None,
              !.stage = IF run.stage = "await" THEN "stamp" ELSE "archive"]

\* post_timestamp_query without an answer: after a pause the same query is
\* repeated when the only authority may recover, given up otherwise.
PostFails(retryable) ==
    /\ run.stage \in {"await", "await archive"}
    /\ IF retryable /\ retry_transient(Len(req.authorities))
       THEN Step(IF run.stage = "await" THEN "pause" ELSE "pause archive")
       ELSE run' = NextAuthority(run)
    /\ UNCHANGED card /\ Rest
PostAgain ==
    /\ run.stage \in {"pause", "pause archive"}
    /\ Step(IF run.stage = "pause" THEN "await" ELSE "await archive")
    /\ UNCHANGED card /\ Rest

Tick ==
    /\ run.stage \in {"await", "await archive"}
    /\ clock < MaxClock
    /\ clock' = clock + 1
    /\ UNCHANGED <<req, run, card, tries, sent, disk, status, foreign>>

\* require_live_timestamp_time.
require_live_timestamp_time(gen_time, asked, received) ==
    gen_time \in (asked - Skew)..(received + Skew)

\* timestamp_validation_material: the chain of the token's certificate, when
\* its evidence could be collected.
EvidenceOf(token) == {SignerCertificate(token).der, <<"root", SignerCertificate(token).issuer>>}

\* require_archive_path_covered.
require_archive_path_covered(path, material) == path # {} /\ path \subseteq material

\* authenticate_archive_timestamp.
authenticate_archive_timestamp(token, evidence) ==
    require_archive_path_covered(EvidenceOf(token), run.material) /\ evidence

\* An answer: verified against the request, its time against the clock, and,
\* where evidence is kept, with the evidence for its chain.
TokenArrives(response, evidence) ==
    /\ run.stage \in {"await", "await archive"}
    /\ LET v == verified_token(response, Stamped, DigestAlg, run.nonce)
           live == v.err = "" /\ require_live_timestamp_time(GeneratedAt(v.token), run.asked, clock)
           kept == live /\ IF run.stage = "await"
                           THEN requires_long_term_material(req) => evidence
                           ELSE authenticate_archive_timestamp(v.token, evidence)
           answer == IF response.honest /\ ~live THEN "honest refused" ELSE "fine"
           stamp == [token |-> v.token, asked |-> run.asked, nonce |-> run.nonce, got |-> clock,
                     of |-> Stamped] IN
       run' = [(IF ~kept THEN NextAuthority(run)
                ELSE IF run.stage = "await"
                THEN [NextAuthority(run) EXCEPT !.tokens = @ \cup {stamp},
                        !.material = @ \cup (IF requires_long_term_material(req)
                                             THEN EvidenceOf(v.token) ELSE {})]
                ELSE [NextAuthority(run) EXCEPT !.archive = <<stamp>>, !.stage = "write"])
               EXCEPT !.answer = answer]
    /\ UNCHANGED card /\ Rest

\* The end of collect_document_timestamps, and the signer's own chain.
CollectMaterial(evidence) ==
    /\ run.stage = "stamp"
    /\ run.at > Len(req.authorities)
    /\ IF (req.authorities # <<>> \/ requires_long_term_material(req)) /\ run.tokens = {}
       THEN FailWith("Timestamp")
       ELSE IF ~requires_long_term_material(req) THEN Step("write")
       ELSE IF ~evidence THEN FailWith("Material")
       ELSE run' = [run EXCEPT !.material = @ \cup {<<"chain", run.key>>}, !.at = 1,
                               !.stage = IF req.archive THEN "archive" ELSE "write"]
    /\ UNCHANGED card /\ Rest

\* first_answering_token with no authority left.
ArchiveRefused ==
    /\ run.stage = "archive"
    /\ run.at > Len(req.authorities)
    /\ FailWith("Timestamp")
    /\ UNCHANGED card /\ Rest

(***************************************************************************)
(* The file and the report                                                 *)
(***************************************************************************)

\* reported_timestamp_tokens and describe_level.
reported_timestamp_tokens == Cardinality(run.tokens) + Len(run.archive)
describe_level(timestamps, long_term, archive) ==
    LET n == timestamps - (IF archive THEN 1 ELSE 0) IN
    IF n = 0 THEN "B" ELSE IF ~long_term THEN "T" ELSE IF archive THEN "LTA" ELSE "LT"

\* std::fs::write of the output, and of the certificate when it is wanted.
WriteOutput(outcome) ==
    /\ run.stage = "write"
    /\ IF outcome = "output fails" THEN FailWith("SignatureWrite") /\ UNCHANGED <<disk, status>>
       ELSE /\ disk' = [disk EXCEPT ![run.doc] =
                          <<[sig |-> run.sig, key |-> run.key, tokens |-> run.tokens,
                             material |-> run.material, archive |-> run.archive]>>]
            /\ IF req.save_cert /\ outcome = "certificate fails"
               THEN FailWith("SignatureWrite") /\ UNCHANGED status
               ELSE /\ status' = [status EXCEPT ![run.doc] =
                         describe_level(reported_timestamp_tokens, req.long_term, req.archive)]
                    /\ Step("done")
    /\ UNCHANGED <<req, card, tries, sent, clock, foreign>>

more_documents(r) == run.doc < r.docs

\* run_pdf_signing: the next document of a batch, whatever became of this one.
NextDocument ==
    /\ run.stage \in {"done", "failed"}
    /\ req.origin = "gui"
    /\ more_documents(req)
    /\ run' = [NoRun EXCEPT !.stage = "policy", !.doc = run.doc + 1, !.can = req.can]
    /\ card' = [card EXCEPT !.vol = Cold]
    /\ Rest

Ended ==
    /\ run.stage \in {"done", "failed"}
    /\ PinTyped /\ req.origin = "gui" => run.doc >= req.docs
Finished == Ended /\ UNCHANGED vars

(***************************************************************************)
(* What an authority answers                                               *)
(***************************************************************************)

TsaCert(a, key) ==
    [parses |-> TRUE, issuer |-> "tsa ca", serial |-> <<7>>, subject |-> a, key |-> key,
     der |-> <<"certificate", a, key>>, not_before |-> 0, not_after |-> MaxClock,
     extensions |-> <<[oid |-> "EXT_KEY_USAGE", form |-> "ok", critical |-> "TRUE",
                       value |-> <<"KP_TIME_STAMPING">>],
                      [oid |-> "KEY_USAGE", form |-> "ok", critical |-> "TRUE",
                       value |-> <<6, 192>>]>>]

\* A granted response by the authority's key over what was asked.
Response(certs, key, tst, honest) ==
    LET c == CHOOSE x \in Range(certs) : x.key = key
        attributes == <<[oid |-> "SIGNING_CERTIFICATE_V2", form |-> "ok", policies |-> "absent",
                         references |-> <<[form |-> "ok", alg |-> "absent", issuer_serial |-> None,
                                           hash |-> <<"hash", "Sha256", c.der>>]>>]>> IN
    [form |-> "ok", honest |-> honest, status |-> <<[tag |-> "INTEGER", value |-> <<0>>]>>,
     token |-> [form |-> "ok", content |-> "TST_INFO", attributes |-> attributes, tst |-> tst,
                certs |-> certs,
                sid |-> [kind |-> "IssuerAndSerialNumber", issuer |-> c.issuer, serial |-> c.serial],
                signature |-> <<"signature", key, attributes, tst>>]]

Tst(digest, nonce, time, more) ==
    [form |-> "ok", version |-> <<1>>, imprint |-> [alg |-> DigestAlg, parameters |-> "absent",
     hash |-> digest], serial |-> <<1>>, gen_time |-> time,
     optional |-> <<[tag |-> "INTEGER", value |-> nonce]>> \o more]

\* Honest answers, and the ways an answer may deviate: another digest, the
\* nonce of another request, a time outside the exchange, a certificate that
\* expired, a second certificate with the signer's name and serial number,
\* another signer than the one of the signature's token, a field twice, a
\* refusal and a token cut short.
Answer(flaw) ==
    LET a == req.authorities[run.at]
        cert == TsaCert(a, "key")
        nonce == positive_integer(run.nonce)
        good == Tst(Stamped, nonce, clock, <<>>) IN
    CASE flaw = "none" -> Response(<<cert>>, "key", good, TRUE)
      [] flaw = "digest" -> Response(<<cert>>, "key", Tst(<<"digest", <<"other">>>>, nonce, clock, <<>>), FALSE)
      [] flaw = "replay" -> Response(<<cert>>, "key", Tst(Stamped, <<9>>, clock, <<>>), FALSE)
      [] flaw = "stale" -> Response(<<cert>>, "key", Tst(Stamped, nonce, clock + Skew + 1, <<>>), FALSE)
      [] flaw = "expired" ->
           Response(<<[cert EXCEPT !.not_after = clock - 1]>>, "key", good, FALSE)
      [] flaw = "twin" ->
           Response(<<cert, [cert EXCEPT !.key = "twin", !.der = <<"certificate", a, "twin">>]>>,
                    "key", good, FALSE)
      [] flaw = "other signer" -> Response(<<TsaCert(a, "next key")>>, "next key", good, FALSE)
      [] flaw = "field twice" ->
           Response(<<cert>>, "key", Tst(Stamped, nonce, clock, <<[tag |-> "INTEGER", value |-> <<9>>]>>), FALSE)
      [] flaw = "refused" ->
           [Response(<<cert>>, "key", good, FALSE) EXCEPT !.status[1].value = <<2>>]
      [] flaw = "no token" -> [Response(<<cert>>, "key", good, FALSE) EXCEPT !.token = None]

(***************************************************************************)
(* Next state                                                              *)
(***************************************************************************)

Pins == {"right", "wrong", "short"}
AskCli ==
    /\ run.stage = "idle" /\ "cli" \in Origins
    /\ \E f \in Flags, pin \in Pins : Ask(resolve(f), pin)
AskBare ==
    /\ run.stage = "idle" /\ "bare" \in Origins
    /\ \E kind \in {"bare", "decrypt"}, slot \in {"Auth", "Sign"}, save \in BOOLEAN, can \in BOOLEAN,
          pin \in Pins : Ask(BareRequest(kind, slot, save, can), pin)
AskLibrary ==
    /\ run.stage = "idle" /\ "bare" \in Origins
    /\ \E op \in LibraryOps, slot \in {"Auth", "Sign"}, pin \in Pins : Ask(LibraryRequest(op, slot), pin)
AskGui ==
    /\ run.stage = "idle" /\ "gui" \in Origins
    /\ \E f \in {"Pades", "AsicEXades"}, cred \in BOOLEAN, https \in BOOLEAN, pin \in Pins :
         Ask(GuiRequest(f, MaxDocs, cred, https), pin)

Next ==
    \/ AskCli \/ AskBare \/ AskLibrary \/ AskGui
    \/ \E c \in Cards : SwapCard(c)
    \/ Policy
    \/ \E outcome \in {"ok", "Transport"} : OpenSession(outcome)
    \/ SelectApplication
    \/ Rerun
    \/ ResetCard
    \/ \E outcome \in {"ok", "Pace"} : Pace(outcome)
    \/ \E outcome \in {"ok", "unreadable"} : ReadCertificate(outcome)
    \/ CheckDisplayedCard
    \/ \E outcome \in {"ok", "Document"} : PlanDocument(outcome)
    \/ ResolveScheme
    \/ VerifyPin
    \/ Dispatch
    \/ \E length_ok \in BOOLEAN : SignExchange(length_ok)
    \/ ExtendedRefused
    \/ \E act \in {"hash", "mse", "select", "reset"} : Foreign(act)
    \/ LocalVerify
    \/ \E nonce \in Nonces : RequestToken(nonce)
    \/ \E retryable \in BOOLEAN : PostFails(retryable)
    \/ PostAgain
    \/ Tick
    \/ \E flaw \in Flaws, evidence \in BOOLEAN :
         run.stage \in {"await", "await archive"} /\ TokenArrives(Answer(flaw), evidence)
    \/ \E evidence \in BOOLEAN : CollectMaterial(evidence)
    \/ ArchiveRefused
    \/ \E outcome \in {"ok", "output fails", "certificate fails"} : WriteOutput(outcome)
    \/ NextDocument
    \/ Finished

\* Places where the code may wait without end.  An answer over TLS has no limit of
\* time (Framing::read_response takes a timed-out read for WouldBlock and reads
\* on), be it the authority's or that of a server asked for evidence; plain HTTP
\* fails after its read timeout.
Awaiting == run.stage \in {"await", "await archive"}
OverTls == req.https \/ req.authorities[run.at] \in TlsAuthorities
MayHang ==
    \/ Awaiting /\ (OverTls \/ requires_long_term_material(req))
    \/ run.stage = "stamp" /\ run.at > Len(req.authorities) /\ requires_long_term_material(req)

\* The client's thread runs on wherever the code does not wait for TLS.
Spec == Init /\ [][Next]_vars
FairSpec == Spec /\ WF_vars(~MayHang /\ Next)

(***************************************************************************)
(* Properties                                                              *)
(***************************************************************************)

Stages == {"idle", "policy", "open", "select", "reset", "pace", "cert", "serial", "plan", "scheme",
    "verify", "dispatch", "sign", "check", "stamp", "await", "pause", "archive", "await archive",
    "pause archive", "write", "done", "failed"}

\* The stages of a signing, the card's counters and the files keep their
\* types.
TypeOK ==
    /\ run.stage \in Stages
    /\ run.doc \in 1..MaxDocs
    /\ card.in \in Cards
    /\ tries \in [Cards -> 0..Tries]
    /\ \A i \in DOMAIN sent : sent[i].card \in Cards /\ sent[i].left \in 0..Tries
    /\ DOMAIN disk = 1..MaxDocs
    /\ status \in [1..MaxDocs -> {"none", "B", "T", "LT", "LTA"}]
    /\ clock \in 0..MaxClock
    /\ foreign \in 0..MaxForeign

Written == {d \in 1..MaxDocs : disk[d] # None}

\* sign_dispatch_by_alg: whatever another process does to the card between two
\* commands, a file holds a signature over this document's own octets by the
\* key of the certificate that was read, or the decryption of the whole
\* ciphertext.
WrittenResultIsTheRightOne ==
    \A d \in Written :
        LET f == disk[d][1] IN
        IF req.kind = "decrypt" THEN f.sig[4] = RSA_3072_SIG_BYTES + 1
        ELSE IF req.kind = "library" THEN
             /\ f.sig[3] = KeyRefByte[req.slot]
             /\ IF req.op[1] = "raw" THEN f.sig[4] = req.op[2] ELSE f.sig[4] = Hash(req.op[2])
        ELSE /\ f.sig[3] = KeyRefByte[req.slot] /\ f.key[2] = req.slot
             /\ f.sig[4].of = <<"octets", d>>
             /\ f.sig[4].alg = document_signer(Info[f.key[1]].key)

\* ensure_displayed_card: the graphical client sends the PIN to the card it
\* shows and to no other, also when cards are swapped during a batch.
PinOnlyToDisplayedCard ==
    PinTyped /\ req.origin = "gui" => \A i \in DOMAIN sent : sent[i].card = Displayed

\* SignArgs::run, SignDocumentArgs::run: one typed PIN costs at most one attempt,
\* although the session is run again with a CAN.
OneAttemptPerTypedPin ==
    PinTyped /\ req.origin = "cli" => Len(sent) <= 1

\* A typed PIN goes to the card it was typed for, and from the command line
\* once.
PinSpentAsMeant == PinOnlyToDisplayedCard /\ OneAttemptPerTypedPin

\* SignDocumentArgs::resolve and validate_signing_policy: no request is refused
\* by the policy after the PIN for it was typed on the command line.
NoPinForARefusedRequest ==
    [][run.stage = "policy" /\ req.origin = "cli" => run'.stage # "failed"]_vars

\* assemble_document and describe_level: the level reported for a file is one
\* its tokens, evidence and archive time-stamp support.
ReportedLevelIsReached ==
    \A d \in Written : status[d] # "none" =>
        LET f == disk[d][1]
            certs == {SignerCertificate(t.token).der : t \in f.tokens} IN
        /\ status[d] = "B" => f.tokens = {}
        /\ status[d] \in {"T", "LT", "LTA"} => f.tokens # {}
        /\ status[d] \in {"LT", "LTA"} => certs \cup {<<"chain", f.key>>} \subseteq f.material
        /\ status[d] = "LTA" => /\ f.archive # None
                                /\ SignerCertificate(f.archive[1].token).der \in f.material

\* check_binding and require_live_timestamp_time: every token in a file was
\* made for this file's own signature and this request's nonce, while the
\* request was open, by the one certificate it can name, which was valid then.
TokensAreForThisRequest ==
    \A d \in Written : \A t \in disk[d][1].tokens \cup Range(disk[d][1].archive) :
        LET named == {c \in Range(t.token.certs) : c.parses /\ c.issuer = t.token.sid.issuer
                                                   /\ c.serial = t.token.sid.serial}
            nonces == {i \in DOMAIN t.token.tst.optional : t.token.tst.optional[i].tag = "INTEGER"} IN
        /\ t.token.tst.imprint.hash = t.of /\ t.of[2] = disk[d][1].sig
        /\ {t.token.tst.optional[i].value : i \in nonces} = {positive_integer(t.nonce)}
        /\ t.token.tst.gen_time \in (t.asked - Skew)..(t.got + Skew)
        /\ Cardinality(named) = 1
        /\ \A c \in named : t.token.tst.gen_time \in c.not_before..c.not_after

\* positive_integer, verified_token: an honest answer is accepted whatever
\* octets the random nonce has.
HonestAnswerAccepted == run.answer # "honest refused"

\* What is said about a written file is true of it, and no honest authority
\* is the reason for saying less.
ReportIsTrue ==
    TypeOK /\ ReportedLevelIsReached /\ TokensAreForThisRequest /\ HonestAnswerAccepted

\* The only authority failed in a way that may pass, and is asked again later.
Retrying == run.stage \in {"pause", "pause archive"} /\ Len(req.authorities) = 1

\* retry_timestamp_query, Framing::read_response: a signing ends, however the
\* authorities fail and whatever they answer, with exactly two exceptions: a TLS
\* server that is asked and stays silent for ever, and a single authority that
\* fails transiently again and again, for which there is no last attempt.  In a
\* list of several the next one always gets its turn.
SigningEnds == []<>PinTyped => []<>Ended \/ <>[]MayHang \/ []<>Retrying

=============================================================================
