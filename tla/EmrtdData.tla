----------------------------- MODULE EmrtdData -----------------------------
(***************************************************************************)
(* What emrtd.rs makes of the files of an electronic travel document, and  *)
(* what card_emrtd.rs reports of them.  A file is read as octets; Meaning  *)
(* gives the element that whole octets encode.  The elements of a data     *)
(* group are tagged with the ICAO tag in hexadecimal; tag "bad" ends a     *)
(* walk.                                                                   *)
(***************************************************************************)
EXTENDS Identity, Cms
CONSTANTS
    Meaning,               \* from the octets of a file to its element
    LONG_FORM              \* CONTINUATION_OR_LONG_FORM_MASK, 0x80
ASSUME DataAssumption == LONG_FORM \in Nat

\* BerTlv::<Wrapper>::parse: octets that are cut short encode nothing.
Parsed(octets) == IF octets \in DOMAIN Meaning THEN Meaning[octets] ELSE Elem("bad", 0)
Inside(e, tag) == IF e.tag = tag THEN <<e.value>> ELSE Absent
Wrapped(octets, tag) == Inside(Parsed(octets), tag)

\* decode_outer_total_length: of the whole object, from its first octets;
\* the octets at hand where the length does not read.  HighTag is a tag of
\* several octets.
HighTag(b) == b % 32 = 31
decode_outer_total_length(header) ==
    LET ends == {i \in 2..Len(header) : header[i] < LONG_FORM /\ \A j \in 2..(i - 1) : header[j] >= LONG_FORM}
        tag == IF ~HighTag(header[1]) THEN 1 ELSE IF ends = {} THEN Len(header) ELSE Min(ends)
        first == header[tag + 1]
        n == first - LONG_FORM
        size == FoldLeft(LAMBDA acc, b : acc * 2 * LONG_FORM + b, 0, SubSeq(header, tag + 2, tag + 1 + n)) IN
    IF tag + 1 > Len(header) THEN Len(header)
    ELSE IF first < LONG_FORM THEN tag + 1 + first
    ELSE IF tag + 1 + n > Len(header) THEN Len(header)
    ELSE tag + 1 + n + size

(***************************************************************************)
(* DG1: the machine-readable zone                                          *)
(***************************************************************************)

\* extract_mrz_string: the first 5F1F before anything unreadable.
extract_mrz_string(v) ==
    LET at == SelectInSeq(v, LAMBDA e : e.tag \in {"bad", "5F1F"}) IN
    IF at = 0 \/ v[at].tag = "bad" THEN Absent ELSE <<v[at].value>>

\* MrzNameField::split: at the first double filler.
MrzNameSplit(line) ==
    LET t == TrimFillers(line)
        marks == {i \in 1..(Len(t) - 1) : t[i] = "<" /\ t[i + 1] = "<"} IN
    IF marks = {} THEN <<t, <<>>>> ELSE <<SubSeq(t, 1, Min(marks) - 1), SubSeq(t, Min(marks) + 2, Len(t))>>

\* MrzField::trim_fillers: at both ends.
trim_fillers(t) == Reverse(TrimFillers(Reverse(TrimFillers(t))))
\* IcaoCountry::new.
IcaoCountry(t) == Len(t) \in 1..3 /\ \A i \in DOMAIN t : t[i] \in Upper

\* ParsedMrz::parse_td1: three lines of thirty.
Field(mrz, line, from, to) == SubSeq(mrz, 30 * (line - 1) + from + 1, 30 * (line - 1) + to)
Td1(mrz, names, birth, expiry) ==
    IF \/ Len(mrz) # 90
       \/ ~IcaoCountry(trim_fillers(Field(mrz, 1, 2, 5)))
       \/ birth = Absent \/ expiry = Absent
       \/ ~IcaoCountry(trim_fillers(Field(mrz, 2, 15, 18)))
       \/ ~MrzName(names[1]) \/ ~MrzName(names[2])
    THEN Absent
    ELSE <<[document_number |-> trim_fillers(Field(mrz, 1, 5, 14)), date_of_birth |-> birth[1], date_of_expiry |-> expiry[1],
            sex |-> MrzSex(Field(mrz, 2, 7, 8)[1]), primary_identifier |-> names[1], secondary_identifier |-> names[2]]>>
ByFields(mrz) ==
    Td1(mrz, MrzNameSplit(Field(mrz, 3, 0, 30)), from_mrz_yymmdd(Field(mrz, 2, 0, 6)), from_mrz_yymmdd(Field(mrz, 2, 8, 14)))
parse_td1(raw) == ByFields(SelectSeq(raw, LAMBDA c : c # " "))

\* DG1 as read_personal_data takes it apart.
Dg1Fields(mrz) == IF mrz = Absent THEN [err |-> "ParseFailure"] ELSE [err |-> "", mrz |-> mrz]
Dg1Text(text) == IF text = Absent THEN [err |-> "ParseFailure"] ELSE Dg1Fields(parse_td1(text[1]))
Dg1Outer(outer) == IF outer = Absent THEN [err |-> "Ber"] ELSE Dg1Text(extract_mrz_string(outer[1]))
Dg1Read(octets) == Dg1Outer(Wrapped(octets, "61"))

(***************************************************************************)
(* DG2, DG7: images; DG11, DG12: details; DG14, DG15: keys                 *)
(***************************************************************************)

\* DocumentImage::parse: a JPEG anywhere before a JPEG 2000 anywhere.
scan_for_magic(octets, magic) ==
    {i \in 1..(Len(octets) - Len(magic) + 1) : SubSeq(octets, i, i + Len(magic) - 1) = magic}
JPEG_MAGIC == <<255, 216, 255>>
JP2_MAGIC == <<0, 0, 0, 12, 106, 80, 32, 32>>
DocumentImage(octets) ==
    LET jpeg == scan_for_magic(octets, JPEG_MAGIC)
        jp2 == scan_for_magic(octets, JP2_MAGIC)
        From(at, kind) == <<[kind |-> kind, bytes |-> SubSeq(octets, Min(at), Len(octets))]>> IN
    IF jpeg # {} THEN From(jpeg, "Jpeg") ELSE IF jp2 # {} THEN From(jp2, "Jpeg2000") ELSE Absent

\* The elements a walk reaches, and the last of a tag; read_string trims.
Walk(v) == LET at == SelectInSeq(v, LAMBDA e : e.tag = "bad") IN IF at = 0 THEN v ELSE SubSeq(v, 1, at - 1)
LastOf(v, tag) ==
    LET at == {i \in DOMAIN Walk(v) : v[i].tag = tag} IN IF at = {} THEN Absent ELSE <<v[Max(at)].value>>
TextOf(v, tag) == LET last == LastOf(v, tag) IN IF last = Absent THEN Absent ELSE NewText(Trim(last[1]))
DateOf(v, tag) == LET last == LastOf(v, tag) IN IF last = Absent THEN Absent ELSE from_yyyymmdd(last[1])
ImageOf(v, tag) == LET last == LastOf(v, tag) IN IF last = Absent THEN Absent ELSE DocumentImage(last[1])
\* extract_nested_5f0f and extract_nested_5f1a: every one in every A0.
Nested(v, tag) ==
    LET boxes == SelectSeq(Walk(v), LAMBDA e : e.tag = "A0")
        all == FlattenSeq([i \in DOMAIN boxes |-> SelectSeq(Walk(boxes[i].value), LAMBDA e : e.tag = tag)])
        texts == [i \in DOMAIN all |-> Trim(all[i].value)] IN
    SelectSeq(texts, FreeText)

\* parse_dg11 with walk_personal_tags.
parse_dg11(v) ==
    [full_name |-> TextOf(v, "5F0E"), personal_number |-> TextOf(v, "5F10"), full_date_of_birth |-> DateOf(v, "5F2B"),
     place_of_birth |-> TextOf(v, "5F11"), permanent_address |-> TextOf(v, "5F42"), telephone |-> TextOf(v, "5F12"),
     profession |-> TextOf(v, "5F13"), title |-> TextOf(v, "5F14"), personal_summary |-> TextOf(v, "5F15"),
     proof_of_citizenship |-> ImageOf(v, "5F16"), custody_information |-> TextOf(v, "5F18"),
     other_names |-> Nested(v, "5F0F")]

\* parse_dg12.
parse_dg12(v) ==
    LET time == LastOf(v, "5F55") IN
    [issuing_authority |-> TextOf(v, "5F19"), date_of_issue |-> DateOf(v, "5F26"), endorsements |-> TextOf(v, "5F1B"),
     tax_exit |-> TextOf(v, "5F1C"), image_front |-> ImageOf(v, "5F1D"), image_rear |-> ImageOf(v, "5F1E"),
     personalisation_time |-> IF time = Absent THEN Absent ELSE from_yyyymmddhhmmss(time[1]),
     personalisation_device_serial |-> TextOf(v, "5F56"), other_persons |-> Nested(v, "5F1A")]

\* classify_dg14_entry: the family of the OID, and the key that follows it.
classify_dg14_entry(seq) ==
    LET oid == seq[1].value IN
    CASE oid.prefix = "CA" /\ Len(oid.tail) >= 2 -> [kind |-> "ChipAuthenticationInfo", oid |-> oid]
      [] oid.prefix = "PK" -> [kind |-> "ChipAuthenticationPublicKeyInfo",
                               spki |-> IF Len(seq) > 1 /\ seq[2].tag = "SPKI" THEN <<seq[2].value>> ELSE Absent]
      [] oid.prefix = "TA" -> [kind |-> "TerminalAuthenticationInfo"]
      [] oid.prefix = "PACE" -> [kind |-> "PaceInfo"]
      [] OTHER -> [kind |-> "Other"]
\* Dg14Bytes and parse_dg14: entries that are no SEQUENCE with an OID are
\* passed over.
Dg14Entries(outer) ==
    IF outer = Absent \/ outer[1] = <<>> THEN Absent
    ELSE IF outer[1][1].tag # "SET" THEN Absent
    ELSE LET seqs == SelectSeq(Walk(outer[1][1].value),
                               LAMBDA e : IF e.tag = "SEQUENCE" THEN e.value # <<>> /\ e.value[1].tag = "OID" ELSE FALSE) IN
         <<[i \in DOMAIN seqs |-> classify_dg14_entry(seqs[i].value)]>>
parse_dg14(octets) == Dg14Entries(Wrapped(octets, "6E"))

\* CaHelpers::pick_protocol: ECDH with AES-256 only, and pick_public_key: the
\* first key that is a point of the curve.
pick_protocol(entries) ==
    \E i \in DOMAIN entries : /\ entries[i].kind = "ChipAuthenticationInfo"
                              /\ SubSeq(entries[i].oid.tail, 1, 2) = <<2, 4>>
pick_public_key(entries) ==
    LET keys == SelectSeq(entries, LAMBDA e : IF e.kind = "ChipAuthenticationPublicKeyInfo" /\ e.spki # Absent
                                              THEN e.spki[1].point # Absent ELSE FALSE) IN
    IF keys = <<>> THEN Absent ELSE keys[1].spki[1].point

\* Dg15Bytes, parse_dg15_spki and extract_rsa_public_key.
Dg15Key(outer) ==
    IF outer = Absent THEN Absent
    ELSE IF outer[1].form # "ok" \/ outer[1].alg # "rsaEncryption" THEN Absent
    ELSE IF rsa_public_key_parts(outer[1].key) = Absent THEN Absent ELSE <<outer[1].key>>
parse_dg15(octets) == Dg15Key(Wrapped(octets, "6F"))

(***************************************************************************)
(* Passive authentication                                                  *)
(***************************************************************************)

\* DgInventory: the groups the security object lists, signed or not.
Listed(lds) == IF ~Ok(lds) THEN {} ELSE {lds.hashes[i].dg : i \in DOMAIN lds.hashes}
ListedIn(sd) == IF ~Ok(sd) THEN {} ELSE Listed(LdsSecurityObject_parse(sd.econtent))
DgInventory(sod) == IF sod = Absent THEN {} ELSE ListedIn(SignedData_parse(Parsed(sod[1])))

\* write_passive_auth_dg_hashes: the last hash listed for a group decides.
HashLine(lds, dg, octets) ==
    LET at == {i \in DOMAIN lds.hashes : lds.hashes[i].dg = dg} IN
    IF at # {} /\ lds.hashes[Max(at)].hash = digest(lds.alg, octets) THEN "ok" ELSE "MISMATCH"
write_passive_auth_dg_hashes(lds, dg1, dg2) ==
    IF ~Ok(lds) THEN <<"FAILED">> ELSE <<HashLine(lds, 1, dg1), HashLine(lds, 2, dg2)>>

\* verify_dsc_against_csca_dir: the first file that holds a certificate with
\* the issuer's name whose key signed the DSC.
Signs(csca, dsc) == IF ~Ok(csca) THEN FALSE ELSE csca.subject = dsc.issuer /\ verify_signed_by(dsc, csca) = ""
verify_dsc_against_csca_dir(dsc, dir) ==
    IF \E i \in DOMAIN dir : Signs(Certificate_from_der(dir[i]), dsc) THEN "ok" ELSE "FAILED"

\* write_passive_auth with write_passive_auth_sod_sig and
\* write_passive_auth_dsc_csca: hashes are compared only under a verified
\* signature.
PassiveReport(data, csca_dir, sd, dsc, verified) ==
    [kind |-> "checked",
     hashes |-> IF verified THEN write_passive_auth_dg_hashes(LdsSecurityObject_parse(sd.econtent), data.dg1, data.dg2)
                ELSE <<"not checked">>,
     sod |-> IF ~Ok(dsc) THEN "skipped" ELSE IF verified THEN "ok" ELSE "FAILED",
     csca |-> IF ~Ok(dsc) \/ csca_dir = Absent THEN "skipped" ELSE verify_dsc_against_csca_dir(dsc, csca_dir[1])]
ReportOf(data, csca_dir, sd, dsc) == PassiveReport(data, csca_dir, sd, dsc, Ok(dsc) /\ verify(sd, dsc.spki) = "")
SodReport(data, csca_dir, sd) ==
    IF ~Ok(sd) THEN [kind |-> "FAILED"]
    ELSE ReportOf(data, csca_dir, sd, IF sd.certificates = <<>> THEN Malformed ELSE Certificate_from_der(sd.certificates[1]))
write_passive_auth(data, csca_dir) ==
    IF data.sod = Absent THEN [kind |-> "skipped"] ELSE SodReport(data, csca_dir, SignedData_parse(Parsed(data.sod[1])))
=============================================================================
