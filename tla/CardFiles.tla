----------------------------- MODULE CardFiles -----------------------------
(***************************************************************************)
(* The files of a FINEID card as a session reads them: pkcs15.rs,          *)
(* card_access.rs and the questions of auth.rs that present no secret.     *)
(*                                                                         *)
(* A session is [card, dir, channel, live]: the card it was opened on, the *)
(* directory selected there, the secure channel ("plain", "secure", or     *)
(* "ended" when the card dropped it) and whether the card is still in the  *)
(* reader.  An operation, on a card k in session s, gives [s, err, value]. *)
(*                                                                         *)
(* A card is a record: contactless, sealed (the CAN that opens it), atr,   *)
(* forms (the SELECT forms it answers), files (by directory and name) and  *)
(* its answers to VERIFY without data and to GET DATA.  A file is its      *)
(* first octets, its size and the element it holds.                        *)
(***************************************************************************)
EXTENDS Identity
CONSTANTS
    NoCard,
    MAX_CERT_BYTES
ASSUME SizeAssumption == MAX_CERT_BYTES \in Nat

Session(c) == [card |-> c, dir |-> "MF", channel |-> "plain", live |-> c # NoCard]
Answer(s, err, value) == [s |-> s, err |-> err, value |-> value]
Done(s) == Answer(s, "", Absent)

\* Whether a command of this session is answered at all.
Answered(s) == s.live /\ s.channel # "ended"

\* A command in several forms: the first the card accepts, else the last
\* status word.
TryForms(k, s, forms, after) ==
    IF ~Answered(s) THEN Answer(s, "Transport", Absent)
    ELSE IF forms \cap k.forms # {} THEN Done(after) ELSE Answer(s, "FileNotFound", Absent)

\* Pkcs15Ops::select_mf.  In a secure channel the card ends the channel.
select_mf(k, s) ==
    TryForms(k, s, {"mf by id", "mf by name"},
             [s EXCEPT !.dir = "MF", !.channel = IF s.channel = "secure" THEN "ended" ELSE s.channel])

\* Pkcs15Ops::select_child_df.
select_child_df(k, s, fid) == TryForms(k, s, {"child", "df by id"}, [s EXCEPT !.dir = fid])

\* Pkcs15Ops::select_pkcs15_application: a sealed card refuses it in plain.
select_pkcs15_application(k, s) ==
    IF ~Answered(s) THEN Answer(s, "Transport", Absent)
    ELSE IF k.contactless /\ s.channel = "plain" THEN Answer(s, "SecurityNotSatisfied", Absent)
    ELSE TryForms(k, s, {"application"}, [s EXCEPT !.dir = "App"])

\* Pkcs15Ops::select_ef, and the file.
FileAt(k, s, fid) == k.files[s.dir][fid]
select_ef(k, s, fid) ==
    IF ~Answered(s) THEN Answer(s, "Transport", Absent)
    ELSE IF s.dir \in DOMAIN k.files /\ fid \in DOMAIN k.files[s.dir]
    THEN Answer(s, "", FileAt(k, s, fid)) ELSE Answer(s, "FileNotFound", Absent)

\* der_object_total_length: <<>> while the header is not there yet, <<-1>>
\* for a length that is not of one or two octets.
der_object_total_length(prefix) ==
    LET octet_count == prefix[2] % 128 IN
    IF Len(prefix) < 2 THEN <<>>
    ELSE IF prefix[2] < 128 THEN <<2 + prefix[2]>>
    ELSE IF octet_count \notin 1..2 THEN <<-1>>
    ELSE IF Len(prefix) < 2 + octet_count THEN <<>>
    ELSE <<2 + octet_count + BigEndian(SubSeq(prefix, 3, 2 + octet_count))>>

\* Pkcs15Ops::read_binary_der_object: exactly the object at the start; the
\* first chunk holds the header of any file it accepts.
read_binary_der_object(s, file) ==
    LET total == der_object_total_length(SubSeq(file.head, 1, IF file.size < 4 THEN file.size ELSE 4)) IN
    IF ~Answered(s) THEN Answer(s, "Transport", Absent)
    ELSE IF file.size = 0 THEN Answer(s, "Empty", Absent)
    ELSE IF total \in {<<>>, <<-1>>} THEN Answer(s, "InvalidData", Absent)
    ELSE IF total[1] > MAX_CERT_BYTES THEN Answer(s, "TooLarge", Absent)
    ELSE IF total[1] > file.size THEN Answer(s, "InvalidData", Absent)
    ELSE Answer(s, "", <<file.object, total[1]>>)

(***************************************************************************)
(* Certificates                                                            *)
(***************************************************************************)

\* CertSlot: all, path, fid and requires_mf_traversal.
CertSlot_all == <<"Authentication", "Signature", "AuthenticationAlt", "RootCa", "SignatureAlt">>
CertSlot_path(slot) ==
    CASE slot = "Authentication" -> "UnderPkcs15App"
      [] slot \in {"Signature", "AuthenticationAlt", "SignatureAlt"} -> "UnderDf5016"
      [] slot \in {"RootCa", "IssuingCaEcc"} -> "UnderMf"
requires_mf_traversal(slot) == CertSlot_path(slot) # "UnderPkcs15App"

\* select_ef and read_binary_der_object in the directory selected by sel.
Object(file) == IF file.err # "" THEN file ELSE read_binary_der_object(file.s, file.value)
ReadIn(k, sel, fid) == IF sel.err # "" THEN sel ELSE Object(select_ef(k, sel.s, fid))
Under5016(k, mf) == IF mf.err # "" THEN mf ELSE select_child_df(k, mf.s, "5016")
\* Pkcs15Ops::read_certificate.
Directory(k, s, slot) ==
    CASE CertSlot_path(slot) = "UnderPkcs15App" -> select_pkcs15_application(k, s)
      [] CertSlot_path(slot) = "UnderMf" -> select_mf(k, s)
      [] OTHER -> Under5016(k, select_mf(k, s))
read_certificate(k, s, slot) == ReadIn(k, Directory(k, s, slot), slot)

(***************************************************************************)
(* EF.TokenInfo                                                            *)
(***************************************************************************)

\* TokenInfo::default.
NoToken == [version |-> Absent, serial |-> Absent, manufacturer |-> Absent, label |-> Absent]

\* TokenInfo::parse: version and serial by position, then the first string
\* is the manufacturer, the second the label unless [0] gives one.
TokenInfo_parse(e) ==
    LET v == e.value
        rest == SubSeq(v, 3, Len(v))
        Step(acc, x) == CASE x.tag = "[0]" -> [acc EXCEPT !.label = <<x.value>>]
                          [] x.tag \in {"UTF8String", "PrintableString"} ->
                               IF acc.manufacturer = Absent THEN [acc EXCEPT !.manufacturer = <<x.value>>]
                               ELSE IF acc.label = Absent THEN [acc EXCEPT !.label = <<x.value>>] ELSE acc
                          [] OTHER -> acc
        head == [NoToken EXCEPT
                   !.version = IF v # <<>> /\ v[1].tag = "INTEGER" THEN <<v[1].value>> ELSE Absent,
                   !.serial = IF Len(v) > 1 /\ v[2].tag = "OCTET STRING" THEN <<v[2].value>> ELSE Absent]
        read[i \in 0..Len(rest)] == IF i = 0 THEN head ELSE Step(read[i - 1], rest[i]) IN
    IF e.tag # "SEQUENCE" THEN [err |-> "bad"] ELSE [err |-> "", info |-> read[Len(rest)]]

\* Pkcs15Ops::read_token_info.
TokenIn(r) ==
    LET Result(p) == IF p.err # "" THEN Answer(r.s, "InvalidData", Absent) ELSE Answer(r.s, "", p.info) IN
    IF r.err # "" THEN r ELSE Result(TokenInfo_parse(r.value[1]))
read_token_info(k, s) == TokenIn(ReadIn(k, select_pkcs15_application(k, s), "TokenInfo"))

(***************************************************************************)
(* EF.CardAccess                                                           *)
(***************************************************************************)

\* PaceProtocol::from_oid.
PaceProtocols == {"ECDH-GM-128", "ECDH-GM-192", "ECDH-GM-256", "ECDH-CAM-128", "ECDH-CAM-256"}
\* CardAccessHelpers::u32_be.
u32_be(v) == BigEndian(v)

\* PaceSecurityInfo::parse: an object identifier, a version, and perhaps a
\* parameter; what follows is not looked at.
PaceSecurityInfo_parse(v) ==
    IF v = <<>> THEN [err |-> "IncompletePaceInfo"]
    ELSE IF v[1].tag # "OID" THEN [err |-> "MalformedSecurityInfo"]
    ELSE IF v[1].value \notin PaceProtocols THEN [err |-> "UnsupportedProtocol"]
    ELSE IF Len(v) = 1 THEN [err |-> "IncompletePaceInfo"]
    ELSE IF v[2].tag # "INTEGER" THEN [err |-> "MalformedSecurityInfo"]
    ELSE [err |-> "", protocol |-> v[1].value, version |-> u32_be(v[2].value),
          parameter |-> IF Len(v) > 2 /\ v[3].tag = "INTEGER" THEN <<u32_be(v[3].value)>> ELSE Absent]

\* CardAccess::parse: infos of other protocols are passed over, any other
\* fault refuses the file, and so does a file without a protocol known here.
CardAccess_parse(e, trailing) ==
    LET infos == [i \in DOMAIN e.value |-> IF e.value[i].tag # "SEQUENCE" THEN [err |-> "MalformedSecurityInfo"]
                                           ELSE PaceSecurityInfo_parse(e.value[i].value)]
        bad == {i \in DOMAIN infos : infos[i].err \notin {"", "UnsupportedProtocol"}} IN
    IF e.tag \notin {"SET", "SEQUENCE"} THEN [err |-> "NotSetOrSequence"]
    ELSE IF trailing THEN [err |-> "TrailingBytes"]
    ELSE IF bad # {} THEN [err |-> infos[Min(bad)].err]
    ELSE IF SelectSeq(infos, Ok) = <<>> THEN [err |-> "UnsupportedProtocol"]
    ELSE [err |-> "", infos |-> SelectSeq(infos, Ok)]

\* CardAccessOps::read_card_access.
AccessIn(r) ==
    LET Result(p) == IF p.err # "" THEN Answer(r.s, "InvalidData", Absent) ELSE Answer(r.s, "", p.infos) IN
    IF r.err # "" THEN r ELSE Result(CardAccess_parse(r.value[1], FALSE))
read_card_access(k, s) == AccessIn(ReadIn(k, select_mf(k, s), "CardAccess"))

(***************************************************************************)
(* PIN and PUK status without a secret                                     *)
(***************************************************************************)

\* classify_pin_status_sw.
classify_pin_status_sw(sw) ==
    CASE sw = <<"Success">> -> <<"Verified">>
      [] sw[1] = "PinIncorrect" -> <<"Remaining", sw[2]>>
      [] sw = <<"AuthenticationFailed">> -> <<"NoInfo">>
      [] sw \in {<<"AuthenticationBlocked">>, <<"ReferenceDataInvalidated">>} -> <<"Locked">>
      [] OTHER -> <<"Other">>

\* reference_probe_sw and VERIFY without data in general.
Probe(k, s, scheme, what) == k.probe[scheme][what]

\* PinOps::resolve_pin_reference_scheme; Citizen when the card is gone.
resolve_pin_reference_scheme(k, s) ==
    IF /\ Answered(s)
       /\ Probe(k, s, "Citizen", "pin1") = <<"ReferenceDataNotFound">>
       /\ classify_pin_status_sw(Probe(k, s, "Organizational", "pin1")) # <<"Other">>
    THEN "Organizational" ELSE "Citizen"

\* PinOps::pin_status_with_scheme.
pin_status_with_scheme(k, s, what, scheme) ==
    IF Answered(s) THEN <<classify_pin_status_sw(Probe(k, s, scheme, what))>> ELSE Absent

\* GetPinInfo and GetPukInfo: the answer, [sw, attributes, changed].
Info(k, s, what) == k.info[what]

\* PinInfoResponse::try_counter_from_response_body: four octets, the first
\* the tries; changed_flag_from_response_body.
TryCounter(info) == IF info.attributes = Absent THEN Absent ELSE <<info.attributes[1] % 16>>
\* policy_counters_from_response_body: the second the uses, the third the
\* unblockings left, of which some values mean nothing.
PolicyCounters(info) ==
    LET usage == info.attributes[2]
        unblocking == info.attributes[3]
        Counter(v, unlimited) == CASE v = 0 -> <<"Exhausted">> [] v = unlimited -> <<"NoLimit">> [] OTHER -> <<"Limited", v>> IN
    IF info.attributes = Absent THEN Absent
    ELSE IF unblocking > 15 /\ unblocking # 165 THEN Absent
    ELSE <<[usage |-> Counter(usage, 255), unblocking |-> Counter(unblocking, 165)]>>

\* classify_puk_status_sw and PinOps::puk_status.
puk_status(k, s) ==
    LET sw == Info(k, s, "puk").sw
        tries == TryCounter(Info(k, s, "puk")) IN
    IF ~Answered(s) THEN Absent
    ELSE CASE sw = <<"Success">> -> <<IF tries = Absent THEN <<"NoInfo">> ELSE <<"Remaining", tries[1]>>>>
           [] sw[1] = "PinIncorrect" -> <<<<"Remaining", sw[2]>>>>
           [] sw = <<"AuthenticationFailed">> -> <<<<"NoInfo">>>>
           [] sw = <<"AuthenticationBlocked">> -> <<<<"Locked">>>>
           [] sw = <<"ReferenceDataInvalidated">> -> <<<<"Invalidated">>>>
           [] OTHER -> <<<<"Other">>>>
\* PinOps::puk_status_with_scheme.
puk_status_with_scheme(k, s, scheme) ==
    IF scheme = "Citizen" \/ ~Answered(s) THEN puk_status(k, s)
    ELSE LET st == classify_pin_status_sw(Probe(k, s, scheme, "puk")) IN
         <<IF st = <<"Verified">> THEN <<"NoInfo">> ELSE st>>

\* PinOps::pin_policy_counters and puk_policy_counters.
policy_counters(k, s, what) ==
    IF Answered(s) /\ Info(k, s, what).sw = <<"Success">> THEN PolicyCounters(Info(k, s, what)) ELSE Absent
\* PinOps::pin_changed_flag.
pin_changed_flag(k, s, what) ==
    IF Answered(s) /\ Info(k, s, what).sw = <<"Success">> THEN Info(k, s, what).changed ELSE Absent

(***************************************************************************)
(* The generation of a card                                                *)
(***************************************************************************)

\* classify_card_generation_by_issuance: from 13 January 2026 on.
classify_card_generation_by_issuance(d) ==
    IF \/ d.year > 2026
       \/ d.year = 2026 /\ (d.month > 1 \/ d.day >= 13)
    THEN "Newer" ELSE "Older"

(***************************************************************************)
(* Finding the reader                                                      *)
(***************************************************************************)

\* render_token_serial: octets that are all printable are their characters,
\* any others stay in hexadecimal.
render_token_serial(serial) == IF serial.text # Absent THEN serial.text[1] ELSE serial.hex

\* probe_fineid_identity: a card with a token serial, and the names of its
\* authentication certificate where one reads.  c is in the reader.
SubjectIdentity(cert) ==
    LET Given(g) == SplitGivenNames(IF g = Absent THEN <<>> ELSE IF FreeText(g[1]) THEN g[1] ELSE <<>>)
        Whole(split, surname, id) ==
          [NoIdentity EXCEPT !.surname = IF surname = Absent THEN Absent ELSE NewText(surname[1]),
                             !.first_name = split.first, !.second_name = split.second,
                             !.additional_names = split.additional,
                             !.peuin = IF id = Absent THEN Absent ELSE Peuin(id[1])] IN
    IF ~Ok(cert) THEN NoIdentity
    ELSE Whole(Given(dn_attribute(cert.subject, "givenName")), dn_attribute(cert.subject, "surname"),
               dn_attribute(cert.subject, "serialNumber"))
ProbeNames(k, auth) ==
    LET Names(der) == IF der.err # "" THEN NoIdentity ELSE SubjectIdentity(Certificate_from_der(der.value[1])) IN
    Names(IF auth.err = "" THEN auth ELSE read_certificate(k, auth.s, "AuthenticationAlt"))
ProbeToken(k, token) ==
    IF token.err # "" THEN Absent
    ELSE IF token.value.serial = Absent THEN Absent
    ELSE <<[ProbeNames(k, read_certificate(k, token.s, "Authentication")) EXCEPT
              !.printed_serial = derive_printed_serial(render_token_serial(token.value.serial[1]))]>>
probe_fineid_identity(k, c) == ProbeToken(k, read_token_info(k, Session(c)))

\* probe_card_access.
probe_card_access(k, c) == read_card_access(k, Session(c)).err = ""

\* The choice pick_fineid_reader makes among the readers that answered; a
\* filter is Absent or the readers it names.
Choose(filter, answered) ==
    LET matched == {r \in answered : filter = Absent \/ r \in filter[1]} IN
    CASE Cardinality(matched) = 1 -> <<"", CHOOSE r \in matched : TRUE>>
      [] filter = Absent -> <<"MultipleReadersNoFilter">>
      [] matched = {} -> <<"NoMatchingReader">>
      [] OTHER -> <<"AmbiguousFilter">>

\* pick_fineid_reader: of the readers, those with a card and those whose card
\* answered the probe.
pick_fineid_reader(readers, present, probed, filter) ==
    CASE readers = {} -> <<"NoReaders">>
      [] present = {} -> <<"NoCardPresent">>
      [] probed = {} -> <<"NoFineidCard">>
      [] OTHER -> Choose(filter, probed)
=============================================================================
