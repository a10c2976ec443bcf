---------------------------- MODULE MasterLists ----------------------------
(***************************************************************************)
(* The ICAO master lists `card --icao-pkd` reads: the LDIF reader          *)
(* (ldif.rs), the lists (icao_pkd.rs), the trust in their signers and the  *)
(* check of a document signer against the CSCAs they hold (card_check.rs). *)
(*                                                                         *)
(* A text is a sequence of lines, a line a sequence of tokens: an          *)
(* attribute's name, ":", ";", " " and characters.  Octets become an       *)
(* element through Blob.                                                   *)
(***************************************************************************)
EXTENDS Cms
CONSTANTS
    Blob,                  \* from octets to the element they encode
    AttributeName,         \* from a name as spelled to it in small letters
    IcaoRoots              \* ICAO_PKD_ROOT_PEMS with ICAO_PKD_ROOT_SHA256

Sha256(der) == <<"SHA-256", der>>

(***************************************************************************)
(* LDIF                                                                    *)
(***************************************************************************)

Alphabet == <<"A", "B", "C", "D", "E", "F", "G", "H", "I", "J", "K", "L", "M", "N", "O", "P", "Q", "R", "S", "T",
              "U", "V", "W", "X", "Y", "Z", "a", "b", "c", "d", "e", "f", "g", "h", "i", "j", "k", "l", "m", "n",
              "o", "p", "q", "r", "s", "t", "u", "v", "w", "x", "y", "z", "0", "1", "2", "3", "4", "5", "6", "7",
              "8", "9", "+", "/">>
\* base64_sextet; -1 for another character.
base64_sextet(c) == FirstOf({i \in DOMAIN Alphabet : Alphabet[i] = c}) - 1

\* LdifHelpers::base64_decode_strict: quadruples of which each may end in one
\* or two "="; Absent when the text is no such thing.
base64_decode_strict(t) ==
    LET Pad(c) == IF c[4] # "=" THEN 0 ELSE IF c[3] # "=" THEN 1 ELSE IF c[2] # "=" THEN 2 ELSE 3
        Sextets(c, pad) == [i \in 1..4 |-> IF i > 4 - pad THEN 0 ELSE base64_sextet(c[i])]
        Octets(v, pad) == SubSeq(<<4 * v[1] + v[2] \div 16, (v[2] % 16) * 16 + v[3] \div 4, (v[3] % 4) * 64 + v[4]>>,
                                 1, 3 - pad)
        Decode(v, pad) == IF pad = 3 \/ -1 \in Range(v) THEN Absent ELSE <<Octets(v, pad)>>
        Chunk(c) == Decode(Sextets(c, Pad(c)), Pad(c))
        Join_(parts) == IF Absent \in Range(parts) THEN Absent
                        ELSE <<FlattenSeq([k \in DOMAIN parts |-> parts[k][1]])>> IN
    IF Len(t) % 4 # 0 THEN Absent
    ELSE Join_([k \in 1..(Len(t) \div 4) |-> Chunk(SubSeq(t, 4 * k - 3, 4 * k))])

\* LdifHelpers::parse_attribute_line and canonical_attribute_name: options
\* after ";" are dropped; "::" announces base64.
AttributeValue(name, rest) ==
    LET Binary(bytes) == IF bytes = Absent THEN [err |-> "BadBase64"]
                         ELSE [err |-> "", name |-> name, kind |-> "Binary", value |-> bytes[1]]
        solid == {i \in DOMAIN rest : rest[i] # " "} IN
    IF rest # <<>> /\ rest[1] = ":"
    THEN Binary(base64_decode_strict(SelectSeq(Tail(rest), LAMBDA x : x # " ")))
    ELSE [err |-> "", name |-> name, kind |-> "Text",
          value |-> IF solid = {} THEN <<>> ELSE SubSeq(rest, Min(solid), Len(rest))]
canonical_attribute_name(name) ==
    IF name = <<>> THEN "" ELSE IF name[1] = ";" THEN "" ELSE AttributeName[name[1]]
parse_attribute_line(line) ==
    LET Split(colon) == IF colon = 0 THEN [err |-> "MissingColon"]
                        ELSE AttributeValue(canonical_attribute_name(SubSeq(line, 1, colon - 1)),
                                            SubSeq(line, colon + 1, Len(line))) IN
    Split(FirstOf({i \in DOMAIN line : line[i] = ":"}))

\* The first pass of ldif::parse: a line that starts with a space or a tab
\* continues the line before it.
LogicalLines(lines) ==
    LET Step(acc, l) == IF acc.err # "" THEN acc
                        ELSE IF l = <<>> \/ (l # <<>> /\ l[1] \notin {" ", "TAB"})
                        THEN [acc EXCEPT !.lines = Append(acc.lines, l)]
                        ELSE IF acc.lines = <<>> THEN [acc EXCEPT !.err = "OrphanContinuation"]
                        ELSE [acc EXCEPT !.lines[Len(acc.lines)] = @ \o Tail(l)]
        read[i \in 0..Len(lines)] == IF i = 0 THEN [err |-> "", lines |-> <<>>] ELSE Step(read[i - 1], lines[i]) IN
    read[Len(lines)]

\* ldif::parse: empty lines end a record; comments and the version are
\* passed over.
ldif_parse(text) ==
    LET Flush(acc) == IF acc.current = <<>> THEN acc
                      ELSE [acc EXCEPT !.records = Append(acc.records, acc.current), !.current = <<>>]
        Add(acc, a) == IF a.err # "" THEN [acc EXCEPT !.err = a.err]
                       ELSE [acc EXCEPT !.current = Append(acc.current, a)]
        Step(acc, l) == IF acc.err # "" THEN acc
                        ELSE IF l = <<>> THEN Flush(acc)
                        ELSE IF l[1] = "#" \/ (l[1] = "version" /\ Len(l) > 1 /\ l[2] = ":") THEN acc
                        ELSE Add(acc, parse_attribute_line(l))
        Read(lines) ==
          LET read[i \in 0..Len(lines)] == IF i = 0 THEN [err |-> "", records |-> <<>>, current |-> <<>>]
                                           ELSE Step(read[i - 1], lines[i]) IN
          read[Len(lines)]
        Records(logical) ==
          IF logical.err # "" THEN [err |-> logical.err, records |-> <<>>] ELSE Flush(Read(logical.lines)) IN
    Records(LogicalLines(text))

\* LdifRecord::binary_values and has_object_class.
binary_values(record, name) ==
    LET found == SelectSeq(record, LAMBDA a : a.name = name /\ a.kind = "Binary") IN
    [i \in DOMAIN found |-> found[i].value]
has_object_class(record, class) ==
    \E i \in DOMAIN record : record[i].name = "objectclass" /\ record[i].kind = "Text" /\ record[i].value = <<class>>

\* extract_master_list_ders_from_ldif.
extract_master_list_ders_from_ldif(text) ==
    LET Ders(blobs) == IF blobs = <<>> THEN [err |-> "LdifNoMasterLists"]
                       ELSE [err |-> "", ders |-> [i \in DOMAIN blobs |-> Blob[blobs[i]]]]
        Blobs(lists) == FlattenSeq([i \in DOMAIN lists |-> binary_values(lists[i], "pkdmasterlistcontent")])
        Lists(parsed) == IF parsed.err # "" THEN [err |-> parsed.err]
                         ELSE Ders(Blobs(SelectSeq(parsed.records, LAMBDA r : has_object_class(r, "pkdmasterlist")))) IN
    Lists(ldif_parse(text))

(***************************************************************************)
(* Master lists                                                            *)
(***************************************************************************)

\* Name::country and IsoAlpha2::new: the values that are two letters.
IsoCountries == {"FI", "UT", "UN"}
Country(name) ==
    LET c == dn_attribute(name, "countryName") IN
    IF c = Absent THEN Absent ELSE IF c[1] \in IsoCountries THEN c ELSE Absent

\* IcaoMasterList::parse_certlist: a version and a SET of certificates;
\* Absent when malformed.
parse_certlist(e) ==
    IF \/ e.tag # "SEQUENCE" \/ Len(e.value) < 2
       \/ e.value[1].tag = "bad"
       \/ e.value[2].tag # "SET"
       \/ \E i \in DOMAIN e.value[2].value : e.value[2].value[i].tag # "SEQUENCE"
    THEN Absent ELSE <<e.value[2].value>>

\* CscaEntry::from_cert.
CscaEntry(der, cert) == [der |-> der, country |-> Country(cert.subject), sha256 |-> Sha256(der)]

\* parse_master_list: the first certificate is the signer's; every entry of
\* the list must be a certificate.
Entries(ders) == [i \in DOMAIN ders |-> CscaEntry(ders[i], Certificate_from_der(ders[i]))]
VerifiedList(sd, list) ==
    IF list = Absent THEN [err |-> "PayloadStructure"]
    ELSE IF \E i \in DOMAIN list[1] : ~Ok(Certificate_from_der(list[1][i])) THEN [err |-> "CertParse"]
    ELSE [err |-> "", signer |-> sd.certificates[1], embedded |-> sd.certificates, cscas |-> Entries(list[1])]
ListOf(sd) ==
    LET Signed(signer) == IF ~Ok(signer) THEN [err |-> "CertParse"]
                          ELSE IF verify(sd, signer.spki) # "" THEN [err |-> "SignatureInvalid"]
                          ELSE VerifiedList(sd, parse_certlist(sd.econtent)) IN
    IF ~Ok(sd) THEN [err |-> "Cms"]
    ELSE IF sd.econtent_type # "CSCA_MASTER_LIST" THEN [err |-> "UnexpectedContentType"]
    ELSE IF sd.certificates = <<>> THEN [err |-> "SignerNotEmbedded"]
    ELSE Signed(Certificate_from_der(sd.certificates[1]))
parse_master_list(der) == ListOf(SignedData_parse(der))

(***************************************************************************)
(* Trust in a list's signer                                                *)
(***************************************************************************)

\* CardCheckHelpers::check_signer_eku: SignerEkuCheck.
check_signer_eku(signer) ==
    LET Verdict(eku) == CASE eku = Absent -> "ExtensionMissing"
                          [] eku # Absent /\ ~eku[1].critical -> "NotCritical"
                          [] eku # Absent /\ eku[1].critical /\ "ICAO_ML_SIGNER" \notin eku[1].oids -> "MissingMlSignerOid"
                          [] OTHER -> "Compliant" IN
    Verdict(IF signer.extensions = Absent THEN Absent ELSE extract_extended_key_usage_meta(signer.extensions[1]))

\* CardCheckHelpers::check_signer_basic_constraints.
check_signer_basic_constraints(signer) ==
    IF signer.extensions = Absent THEN "Compliant"
    ELSE IF extract_basic_constraints(signer.extensions[1]).ca THEN "CaAsserted" ELSE "Compliant"

\* CardCheckHelpers::check_ml_signer_trust: of the bundled roots, those that
\* have their pinned hash or do not decode stay; one of them, embedded in the
\* list, has signed the signer.
check_ml_signer_trust(ml, signer) ==
    LET Survives(r) == IF r.pem = Absent THEN TRUE ELSE Sha256(r.pem[1]) = r.sha256
        SignedBy(root) == Ok(root) /\ verify_signed_by(signer, root) = ""
        Search(found) == IF \E i \in DOMAIN found : SignedBy(Certificate_from_der(found[i])) THEN "Pinned"
                         ELSE IF found # <<>> THEN "SignatureFailed" ELSE "NoMatchingIssuer"
        Against(pins) ==
          CASE ~Ok(signer) -> "SignatureFailed"
            [] Ok(signer) /\ pins = {} ->
                 IF \E r \in Range(IcaoRoots) : ~Survives(r) THEN "PinHashMismatch" ELSE "NoMatchingIssuer"
            [] OTHER -> Search(SelectSeq(ml.embedded, LAMBDA d : Sha256(d) \in pins)) IN
    Against({r.sha256 : r \in {x \in Range(IcaoRoots) : Survives(x)}})

\* LoadedMl.
LoadedMl(ml) ==
    LET Judged(signer) ==
          [ml |-> ml, trust |-> check_ml_signer_trust(ml, signer),
           eku |-> IF Ok(signer) THEN check_signer_eku(signer) ELSE "ExtensionMissing",
           basic_constraints |-> IF Ok(signer) THEN check_signer_basic_constraints(signer) ELSE "Compliant"] IN
    Judged(Certificate_from_der(ml.signer))
\* is_ml_fully_trusted.
is_ml_fully_trusted(m) == m.trust = "Pinned" /\ m.eku = "Compliant" /\ m.basic_constraints = "Compliant"

\* CardCheckHelpers::load_icao_pkd: one list in DER, whose fault is fatal, or
\* lists in LDIF, of which the faulty ones are passed over.
Pool(mls) == [err |-> "", mls |-> [i \in DOMAIN mls |-> LoadedMl(mls[i])]]
load_icao_pkd(file) ==
    LET One(ml) == IF Ok(ml) THEN Pool(<<ml>>) ELSE [err |-> "IcaoPkdParse"]
        Good(ders) == SelectSeq([i \in DOMAIN ders |-> parse_master_list(ders[i])], Ok)
        Many(ldif) == IF ldif.err # "" THEN [err |-> "IcaoPkdParse"] ELSE Pool(Good(ldif.ders)) IN
    CASE file.kind = "unreadable" -> [err |-> "IcaoPkdRead"]
      [] file.kind = "not utf8" -> [err |-> "IcaoPkdParse"]
      [] file.kind = "ldif" -> Many(extract_master_list_ders_from_ldif(file.text))
      [] file.kind = "der" -> One(parse_master_list(file.element))

\* IcaoTrustPool::trusted_cscas.
trusted_cscas(pool) ==
    FlattenSeq([i \in DOMAIN pool.mls |-> IF is_ml_fully_trusted(pool.mls[i]) THEN pool.mls[i].ml.cscas ELSE <<>>])

(***************************************************************************)
(* The document signer                                                     *)
(***************************************************************************)

\* CardCheckHelpers::check_dsc_key_usage: critical, and digitalSignature only.
check_dsc_key_usage(dsc) ==
    LET Verdict(ku) == CASE ku = Absent -> "ExtensionMissing"
                         [] ku # Absent /\ ~find_extension_with_meta(dsc.extensions[1], "KEY_USAGE")[1].critical -> "NotCritical"
                         [] OTHER -> IF "digitalSignature" \notin ku[1] THEN "MissingDigitalSignature"
                                     ELSE IF ku[1] # {"digitalSignature"} THEN "ExtraBitsAsserted" ELSE "Compliant" IN
    Verdict(IF dsc.extensions = Absent THEN Absent ELSE extract_key_usage(dsc.extensions[1]))

\* CardCheckHelpers::dsc_csca_check_for_sod and run_dsc_csca_check: sod is
\* Absent or EF.SOD; the security object's own signature is not looked at.
Signs(csca, dsc) == csca.subject = dsc.issuer /\ verify_signed_by(dsc, csca) = ""
run_dsc_csca_check(dsc, pool) ==
    LET Among(candidates) ==
          IF candidates = <<>> THEN "CountryAbsent"
          ELSE IF \E i \in DOMAIN candidates : Signs(Certificate_from_der(candidates[i].der), dsc) THEN "Ok" ELSE "NoMatch"
        From(country) ==
          IF country = Absent THEN "DscCountryUnknown"
          ELSE Among(SelectSeq(trusted_cscas(pool), LAMBDA c : c.country = country)) IN
    IF ~Ok(dsc) THEN "DscParseFailed"
    ELSE IF check_dsc_key_usage(dsc) # "Compliant" THEN "KeyUsageNonCompliant" ELSE From(Country(dsc.issuer))
dsc_csca_check_for_sod(sod, pool) ==
    LET First(sd) == IF ~Ok(sd) THEN "NoDscInSod"
                     ELSE IF sd.certificates = <<>> THEN "NoDscInSod"
                     ELSE run_dsc_csca_check(Certificate_from_der(sd.certificates[1]), pool) IN
    IF sod = Absent THEN "NoDscInSod" ELSE First(SignedData_parse(sod[1]))
=============================================================================
