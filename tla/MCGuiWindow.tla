---------------------------- MODULE MCGuiWindow ----------------------------
(***************************************************************************)
(* Cards: two that come and go in front of the window, one behind PACE,    *)
(* one with a root of its own, a bank card, and some that are spoilt.      *)
(* Worlds: what answers in the net, and the master lists on the disk.      *)
(***************************************************************************)
EXTENDS GuiWindow

MCUpper == {"A", "B", "E", "I", "N", "O", "V"}
MCLower == [u \in MCUpper |-> u]
MCExpansion == [ae |-> <<"A", "E">>]

(***************************************************************************)
(* Certificates, as in MCTrustWalk                                         *)
(***************************************************************************)
Alg == "sha256WithRSA"
Key(n) == Elem("SEQUENCE", <<Elem("INTEGER", <<n, 1>>), Elem("INTEGER", <<1, 0, 1>>)>>)
Spki(n) == [form |-> "ok", aligned |-> TRUE, alg |-> "rsaEncryption", parameters |-> Absent, key |-> Key(n)]
Sign(n, tbs) == <<"signature", Alg, Key(n), tbs>>
Attribute(oid, text) == Elem("SET", <<Elem("SEQUENCE", <<oid, Elem("UTF8String", [utf8 |-> TRUE, text |-> text])>>)>>)
Of(country, name) == <<Attribute("countryName", country), Attribute("organization", name)>>
Person(given, surname, id) ==
    <<Attribute("countryName", "FI"), Attribute("givenName", given), Attribute("surname", surname),
      Attribute("serialNumber", id), Attribute("commonName", given \o <<" ">> \o surname)>>
Ext(oid, critical, value) == [tag |-> "SEQUENCE", oid |-> oid, critical |-> critical, value |-> value, trailing |-> FALSE]
BC == Ext("BASIC_CONSTRAINTS", 255, Elem("SEQUENCE", <<Elem("BOOLEAN", <<255>>)>>))
KU(v) == Ext("KEY_USAGE", 255, Elem("BIT STRING", v))
EKU(oid, critical) == Ext("EXT_KEY_USAGE", critical, Elem("SEQUENCE", <<Elem("OID", oid)>>))
AIA(issuer, ocsp) ==
    Ext("AUTHORITY_INFO_ACCESS", -1, Elem("SEQUENCE", <<Elem("SEQUENCE", <<"AD_CA_ISSUERS", Elem("URI", issuer)>>),
                                                        Elem("SEQUENCE", <<"AD_OCSP", Elem("URI", ocsp)>>)>>))
CDP(url) == Ext("CRL_DISTRIBUTION_POINTS", -1, Elem("SEQUENCE", <<Elem("fullName", <<Elem("URI", url)>>)>>))
CaExts == <<BC, KU(<<1, 6>>)>>
MkCert(serial, subject, key, issuer, by, valid, exts) ==
    LET tbs == <<Elem("[0]", 2), Elem("INTEGER", serial), Elem("ALG", Alg), Elem("NAME", issuer),
                 Elem("Validity", valid), Elem("NAME", subject), Elem("SPKI", Spki(key)), Elem("[3]", exts)>> IN
    Elem("SEQUENCE", <<Elem("SEQUENCE", tbs), Elem("ALG", Alg), Elem("BIT STRING", Sign(by, tbs))>>)

Root == MkCert(1, Of("FI", "Root"), 1, Of("FI", "Root"), 1, <<0, 20>>, CaExts)
Ca == MkCert(2, Of("FI", "CA"), 2, Of("FI", "Root"), 1, <<0, 20>>, CaExts)
OwnRoot == MkCert(1, Of("FI", "Root"), 3, Of("FI", "Root"), 3, <<0, 20>>, CaExts)
OwnCa == MkCert(2, Of("FI", "CA"), 4, Of("FI", "Root"), 3, <<0, 20>>, CaExts)
Responder == MkCert(20, Of("FI", "Resp"), 20, Of("FI", "CA"), 2, <<0, 20>>,
                    <<KU(<<7, 128>>), EKU("KP_OCSP_SIGNING", -1), Ext("OCSP_NO_CHECK", -1, Elem("NULL", <<>>))>>)
OwnResponder == MkCert(21, Of("FI", "Resp"), 4, Of("FI", "CA"), 4, <<0, 20>>,
                       <<KU(<<7, 128>>), EKU("KP_OCSP_SIGNING", -1), Ext("OCSP_NO_CHECK", -1, Elem("NULL", <<>>))>>)
Leaf(serial, subject, by, issuer, valid) ==
    MkCert(serial, subject, serial, Of("FI", "CA"), by, valid, <<KU(<<4, 176>>), AIA(issuer, "ocsp"), CDP("crl")>>)
Nine(a) == <<"1", "2", "3", "4", "5", "6", "7", "8", a>>
AinoAuth == Leaf(5, Person(<<"A", "I", "N", "O", " ", "E", "V", "A">>, <<"I", "O">>, Nine("A")), 2, "issuer", <<1, 20>>)
AinoSign == Leaf(6, Person(<<"A", "I", "N", "O">>, <<"I", "O">>, Nine("A")), 2, "issuer", <<1, 20>>)
EevaAuth == Leaf(7, Person(<<"E", "V", "A">>, <<"N", "O">>, Nine("B")), 2, "issuer", <<0, 20>>)
OwnAuth == Leaf(5, Person(<<"A", "I", "N", "O">>, <<"I", "O">>, Nine("A")), 4, "own issuer", <<0, 20>>)
Junk == Elem("SEQUENCE", <<Elem("bad", 0)>>)

(***************************************************************************)
(* Revocation                                                              *)
(***************************************************************************)
Time(t) == Elem("GeneralizedTime", t)
Single(serial, status, next) ==
    Elem("SEQUENCE", <<[tag |-> "SEQUENCE", params |-> "NULL", trailing |-> FALSE,
                        value |-> [alg |-> "SHA-1", name |-> <<"SHA-1", Of("FI", "CA")>>, key |-> <<"SHA-1", Key(2)>>,
                                   serial |-> serial]],
                      status, Time(5), Elem("[0]", Time(next))>>)
Good == Elem("good", <<>>)
Response(name, by, of7, next, nonce, embedded) ==
    LET tbs == <<Elem("[1]", name), Time(5), Elem("SEQUENCE", <<Single(5, Good, next), Single(6, Good, next), Single(7, of7, next)>>),
                 Elem("[1]", Elem("SEQUENCE", <<[tag |-> "SEQUENCE", oid |-> "NONCE", critical |-> -1,
                                                 value |-> Elem("OCTET STRING", nonce)]>>))>> IN
    [tag |-> "SEQUENCE", status |-> Elem("ENUMERATED", <<0>>),
     value |-> <<[tag |-> "[0]", type |-> "BASIC_OCSP_RESPONSE",
                  value |-> Elem("SEQUENCE", <<Elem("SEQUENCE", tbs),
                                              [tag |-> "SEQUENCE", params |-> "absent", value |-> Alg],
                                              [tag |-> "BIT STRING", unused |-> 0, value |-> Sign(by, tbs)],
                                              Elem("[0]", embedded)>>)]>>]
Gone == Elem("revoked", <<Time(4), Elem("[0]", 1)>>)
List(by, next, serials) ==
    LET tbs == [signature |-> Alg, outer |-> Alg, version |-> "v2", issuer |-> Of("FI", "CA"), this_update |-> 4,
                next_update |-> <<next>>, order |-> <<"next", "revoked", "ext">>,
                revoked |-> [i \in DOMAIN serials |-> [serial |-> serials[i], date |-> 4, extensions |-> Absent]],
                extensions |-> <<<<[oid |-> "CRL_NUMBER", critical |-> FALSE]>>>>] IN
    [tag |-> "SEQUENCE", tbs |-> tbs, unused |-> 0, trailing |-> FALSE, bits |-> Sign(by, tbs)]
Net(issuer, ocsp, crl) == ("issuer" :> <<issuer>> @@ "own issuer" :> <<OwnCa>>) @@ [ocsp |-> <<ocsp>>, crl |-> <<crl>>]
CaName == Of("FI", "CA")
Web(n) ==
    CASE n \in {"honest", "norandom"} -> Net(Ca, Response(CaName, 2, Gone, 9, 8, <<>>), List(2, 9, <<99, 7>>))
      [] n = "delegate" -> Net(Ca, Response(Of("FI", "Resp"), 20, Gone, 9, 8, <<Junk, Responder>>), List(2, 9, <<7>>))
      [] n = "forged" -> Net(Ca, Response(Of("FI", "Resp"), 4, Good, 9, 8, <<OwnResponder>>), List(4, 9, <<>>))
     \* the authority's own answer of an earlier day
      [] n = "old" -> Net(Ca, Response(CaName, 2, Good, 6, 8, <<>>), List(2, 6, <<>>))
      [] n = "replayed" -> Net(Ca, Response(CaName, 2, Good, 9, 3, <<>>), List(2, 6, <<>>))
      [] n = "own" -> Net(OwnCa, Response(CaName, 4, Good, 9, 8, <<>>), List(4, 9, <<>>))
      [] n = "broken" -> Net(Junk, Junk @@ [status |-> Elem("ENUMERATED", <<>>)], [List(2, 9, <<>>) EXCEPT !.unused = 1])
      [] n = "later" -> Net(Ca, [tag |-> "SEQUENCE", status |-> Elem("ENUMERATED", <<3>>), value |-> <<>>], List(2, 9, <<7>>))
      [] n = "down" -> <<>>

(***************************************************************************)
(* Travel documents and master lists                                       *)
(***************************************************************************)
UnRoot == MkCert(60, Of("UN", "Root"), 60, Of("UN", "Root"), 60, <<0, 20>>, CaExts)
SignerCert(key, by, eku) == MkCert(key, Of("UN", "Signer"), key, Of("UN", "Root"), by, <<0, 20>>, <<KU(<<7, 128>>)>> \o eku)
MlSigner == SignerCert(61, 60, <<EKU("ICAO_ML_SIGNER", 255)>>)
NoEkuSigner == SignerCert(62, 60, <<EKU("ICAO_ML_SIGNER", -1)>>)
OtherUnRoot == MkCert(60, Of("UN", "Root"), 63, Of("UN", "Root"), 63, <<0, 20>>, CaExts)
OtherSigner == SignerCert(64, 63, <<EKU("ICAO_ML_SIGNER", 255)>>)
Csca(key) == MkCert(70, Of("FI", "CSCA"), key, Of("FI", "CSCA"), key, <<0, 20>>, CaExts)
UtoCsca == MkCert(71, Of("UT", "CSCA"), 75, Of("UT", "CSCA"), 75, <<0, 20>>, CaExts)
Dsc(key, csca, usage) == MkCert(key, Of("FI", "DSC"), key, Of("FI", "CSCA"), csca, <<0, 20>>, <<KU(usage)>>)
Signed(type, content, digested, certs, key) ==
    LET algorithm == Elem("SEQUENCE", <<Elem("OID", "SHA-256"), Elem("NULL", <<>>)>>)
        attributes == <<Elem("SEQUENCE", <<Elem("OID", "CONTENT_TYPE"), Elem("SET", <<Elem("OID", type)>>)>>),
                        Elem("SEQUENCE", <<Elem("OID", "MESSAGE_DIGEST"),
                                           Elem("SET", <<Elem("OCTET STRING", <<"SHA-256", digested>>)>>)>>)>>
        by == <<Elem("INTEGER", <<1>>), Elem("SEQUENCE", <<Elem("NAME", 0), Elem("INTEGER", <<2>>)>>), algorithm,
                    Elem("[0]", attributes), Elem("SEQUENCE", <<Elem("OID", "rsaEncryption")>>),
                    Elem("OCTET STRING", <<"signature", "Rsa", Key(key), <<"SHA-256", attributes>>>>)>> IN
    Elem("SEQUENCE", <<Elem("OID", "SIGNED_DATA"), Elem("[0]", <<Elem("SEQUENCE",
        <<Elem("INTEGER", <<3>>), Elem("SET", <<algorithm>>),
          Elem("SEQUENCE", <<Elem("OID", type), Elem("[0]", <<Elem("OCTET STRING", content)>>)>>),
          Elem("[0]", certs), Elem("SET", <<Elem("SEQUENCE", by)>>)>>)>>)>>)
CscaList(cscas) == Elem("SEQUENCE", <<Elem("INTEGER", <<0>>), Elem("SET", cscas)>>)
RealList == CscaList(<<UtoCsca, Csca(70)>>)
OwnList == CscaList(<<Csca(72)>>)
MasterList(list, digested, certs, key) == Signed("CSCA_MASTER_LIST", list, digested, certs, key)
HonestMl == MasterList(RealList, RealList, <<MlSigner, UnRoot>>, 61)
AlteredMl == MasterList(OwnList, RealList, <<MlSigner, UnRoot>>, 61)
SelfMl == MasterList(OwnList, OwnList, <<OtherSigner, OtherUnRoot>>, 64)
NoEkuMl == MasterList(OwnList, OwnList, <<NoEkuSigner, UnRoot>>, 62)

MCBlob == (<<0, 1, 2, 0, 1, 3>> :> HonestMl) @@ (<<0>> :> AlteredMl) @@ (<<0, 1>> :> SelfMl)
MCAttributeName == [n \in {"dn", "objectClass", "pkdMasterListContent"} |->
                      CASE n = "dn" -> "dn" [] n = "objectClass" -> "objectclass" [] OTHER -> "pkdmasterlistcontent"]
Entry(blob) == <<<<"dn", ":", " ", "c", "=", "f", "i">>, <<"objectClass", ":", " ", "pkdmasterlist">>,
                 <<"pkdMasterListContent", ";", "b", ":", ":", " ">> \o blob>>
Continued == Entry(<<"A", "A", "E", "C">>) \o <<<<" ", "A", "A", "E", "D">>>>
Ldif(text) == [kind |-> "ldif", text |-> text]
DerFile(e) == [kind |-> "der", element |-> e]
FileOf(n) ==
    CASE n = "honest" -> Ldif(<<<<"version", ":", " ", "1">>, <<"#", "x">>>> \o Continued \o <<<<>>>> \o Entry(<<"A", "A", "=", "=">>))
      [] n \in {"delegate", "norandom"} -> DerFile(HonestMl)
      [] n = "forged" -> Ldif(Entry(<<"A", "A", "=", "=">>) \o <<<<>>>> \o Entry(<<"A", "A", "E", "=">>))
      [] n = "old" -> DerFile(NoEkuMl)
      [] n = "replayed" -> Ldif(Entry(<<"A", "A", "E">>))
      [] n = "own" -> DerFile(SelfMl)
      [] n = "broken" -> Ldif(<<<<" ", "A">>>>)
      [] n = "later" -> [kind |-> "not utf8"]
      [] n = "down" -> [kind |-> "unreadable"]

Names == {"honest", "delegate", "forged", "old", "replayed", "own", "broken", "later", "down", "norandom"}
MCWorlds == [n \in Names |-> [web |-> Web(n), now |-> 7, nonce |-> IF n = "norandom" THEN <<>> ELSE <<8>>, crl |-> List(2, 9, <<7>>), pkd |-> FileOf(n)]]
MCHonestLists == {"honest", "delegate", "norandom"}
MCIcaoRoots == <<[pem |-> <<UnRoot>>, sha256 |-> <<"SHA-256", UnRoot>>], [pem |-> <<OtherUnRoot>>, sha256 |-> <<"SHA-256", Root>>]>>

(***************************************************************************)
(* Cards                                                                   *)
(***************************************************************************)
File(e) == [head |-> <<48, 2, 0, 0>>, size |-> 4, object |-> e]
TokenFile(serial) == File(Elem("SEQUENCE", <<Elem("INTEGER", 1), Elem("OCTET STRING", serial), Elem("UTF8String", "DVV"),
                                             Elem("PrintableString", "FINEID"), Elem("[0]", "label")>>))
AccessFile == File(Elem("SET", <<Elem("SEQUENCE", <<Elem("OID", "TA")>>),
                                 Elem("SEQUENCE", <<Elem("OID", "ECDH-GM-128"), Elem("INTEGER", <<2>>), Elem("INTEGER", <<13>>)>>)>>))
Text(serial) == [text |-> <<serial>>, hex |-> <<>>]
SerialAino == Text([i \in 1..20 |-> "1"])
SerialEeva == Text(<<"A", "1">> \o Nine("2"))
PinObject(sw, tries, changed) == [sw |-> sw, attributes |-> <<<<tries, 255, 165, 0>>>>[1], changed |-> changed]
Probes(pin1, pin2, puk) == [pin1 |-> pin1, pin2 |-> pin2, puk |-> puk]
NotFound == <<"ReferenceDataNotFound">>
Success == <<"Success">>
MkCard(serial, atr, auth, root) ==
    [contactless |-> FALSE, sealed |-> 1, atr |-> atr, model |-> <<"FINEID">>,
     forms |-> {"mf by id", "child", "application"},
     files |-> [MF |-> [RootCa |-> File(root), CardAccess |-> AccessFile],
                App |-> [Authentication |-> File(auth), TokenInfo |-> TokenFile(serial)]] @@ ("5016" :> [x \in {} |-> 0]),
     probe |-> [Citizen |-> Probes(<<"PinIncorrect", 5>>, <<"AuthenticationBlocked">>, <<"PinIncorrect", 5>>),
                Organizational |-> Probes(NotFound, NotFound, NotFound)],
     info |-> Probes(PinObject(Success, 5, <<TRUE>>), PinObject(Success, 0, <<TRUE>>), PinObject(Success, 5, Absent)),
     serial |-> serial, issued |-> [Authentication |-> auth, RootCa |-> root], emrtd |-> Absent]
Document(dsc) == <<[sod |-> <<Signed("LDS", Elem("SEQUENCE", <<>>), Elem("SEQUENCE", <<>>), <<dsc>>, 0)>>, dsc |-> dsc]>>
RealDsc == Dsc(80, 70, <<7, 128>>)
OwnDsc == Dsc(81, 72, <<7, 128>>)
WideDsc == Dsc(82, 70, <<6, 192>>)
AinoCard == [MkCard(SerialAino, "ATR 1", AinoAuth, Root) EXCEPT !.emrtd = Document(RealDsc)]
EevaCard == [MkCard(SerialEeva, "ATR 2", EevaAuth, Root) EXCEPT
               !.forms = {"mf by name", "df by id", "application"},
               !.info["pin1"] = PinObject(Success, 5, <<FALSE>>), !.probe["Citizen"]["pin1"] = <<"PinIncorrect", 4>>]
InDf(card, slot_, e) == [card EXCEPT !.files = ("5016" :> (slot_ :> File(e)) @@ @["5016"]) @@ @,
                                     !.issued = (slot_ :> e) @@ @]
CardNames == {"aino", "eeva", "full", "own", "nfc", "wide", "bare", "work", "alt", "spoilt", "junk", "bank", "none"}
CardOf(c) ==
    CASE c = "aino" -> AinoCard
      [] c = "eeva" -> EevaCard
      [] c = "full" -> [InDf(InDf(AinoCard, "Signature", AinoSign), "AuthenticationAlt", EevaAuth) EXCEPT !.emrtd = Document(RealDsc)]
      [] c = "own" -> [MkCard(SerialAino, "ATR 3", OwnAuth, OwnRoot) EXCEPT !.emrtd = Document(OwnDsc)]
      [] c = "nfc" -> [InDf(MkCard(SerialEeva, "ATR 4", AinoAuth, Root), "Signature", AinoSign) EXCEPT
                !.contactless = TRUE, !.emrtd = Document(RealDsc)]
      [] c = "wide" -> [AinoCard EXCEPT !.emrtd = Document(WideDsc)]
      [] c = "bare" -> [AinoCard EXCEPT !.emrtd = <<[sod |-> Absent, dsc |-> Junk]>>]
      [] c = "work" -> [AinoCard EXCEPT !.probe = [Citizen |-> Probes(NotFound, NotFound, NotFound),
                                          Organizational |-> Probes(Success, <<"AuthenticationFailed">>, Success)],
                               !.serial = [text |-> Absent, hex |-> <<"0", "1">>],
                               !.files["App"]["TokenInfo"] = TokenFile([text |-> Absent, hex |-> <<"0", "1">>]),
                               !.info = Probes([sw |-> NotFound, attributes |-> Absent, changed |-> Absent],
                                               [sw |-> Success, attributes |-> Absent, changed |-> Absent],
                                               PinObject(Success, 16, Absent))]
      [] c = "alt" -> [InDf(AinoCard, "AuthenticationAlt", AinoSign) EXCEPT
                !.files["App"] = [TokenInfo |-> TokenFile(SerialAino)], !.files["MF"] = [CardAccess |-> File(Junk)]]
      [] c = "spoilt" -> [AinoCard EXCEPT !.issued = [Authentication |-> Junk, RootCa |-> Junk],
                                 !.files["App"]["Authentication"] = [head |-> <<48, 130, 255, 255>>, size |-> 4, object |-> Junk],
                                 !.files["MF"]["RootCa"] = [head |-> <<48, 131, 1, 1>>, size |-> 9, object |-> Junk]]
      [] c = "junk" -> [AinoCard EXCEPT !.files["App"]["Authentication"] = File(Junk), !.issued = [Authentication |-> Junk, RootCa |-> Junk],
                               !.files["MF"]["CardAccess"] = [head |-> <<48>>, size |-> 1, object |-> Junk],
                               !.files["MF"]["RootCa"] = [head |-> <<>>, size |-> 0, object |-> Junk]]
      [] c = "bank" -> [AinoCard EXCEPT !.forms = {}]
MCCards == [c \in CardNames \ {"none"} |-> CardOf(c)]
MCGenuine == {Root, Ca, AinoAuth, AinoSign, EevaAuth, RealDsc}
MCRevoked == {EevaAuth}
MCPinnedRootDer == <<Root>>

(***************************************************************************)
(* The programs                                                            *)
(***************************************************************************)
MCReaders == <<"r1", "r2">>
Slots(a, b) == [r1 |-> a, r2 |-> b]
Opt(world) == [filter |-> Absent, offline |-> FALSE, can |-> Absent, crl_file |-> "none", save_cert_dir |-> "none",
               icao_pkd |-> FALSE, world |-> world]
MCInspectOptions == [Opt("down") EXCEPT !.offline = TRUE]
Start(a, b, opts, changes) == [slot |-> Slots(a, b), opts |-> opts, changes |-> changes]
WithCan(world, can) == [Opt(world) EXCEPT !.can = <<can>>, !.icao_pkd = TRUE]
MCCliStarts ==
    {Start(c, "eeva", Opt(w), 0) : c \in {"full", "own", "none"}, w \in Names}
    \cup {Start(c, "none", WithCan(w, 1), 0) : c \in {"full", "own", "nfc", "wide", "bare"}, w \in Names}
    \cup {Start(c, "none", MCInspectOptions, 0) : c \in CardNames}
    \cup {Start("aino", "eeva", [Opt("honest") EXCEPT !.crl_file = f, !.save_cert_dir = d, !.filter = <<{"r2"}>>], 0) :
            f \in {"none", "ok", "bad"}, d \in {"ok", "bad"}}
    \cup {Start("nfc", "none", WithCan("honest", 2), 0), Start("unplugged", "unplugged", Opt("down"), 1),
          Start("nfc", "aino", Opt("down"), 0)}
    \cup {Start(x[1], x[2], [Opt("down") EXCEPT !.can = <<1>>, !.offline = TRUE], 2) :
            x \in {<<"aino", "eeva">>, <<"nfc", "none">>}}
GuiStart(a, b, changes, count, pairing_) ==
    [slot |-> Slots(a, b), changes |-> changes, clicks |-> count, pairing |-> pairing_]
MCGuiStarts ==
    {GuiStart("aino", "eeva", 2, 0, "off"), GuiStart("aino", "unplugged", 1, 3, "off"),
     GuiStart("aino", "unplugged", 1, 2, "idle"), GuiStart("aino", "eeva", 0, 3, "idle"),
     GuiStart("aino", "eeva", 1, 1, "off"), GuiStart("eeva", "unplugged", 1, 2, "off"),
     GuiStart("aino", "unplugged", 0, 4, "idle")}
MCDateOf == [t \in 0..20 |-> [year |-> IF t = 0 THEN 2026 ELSE 2025, month |-> 2, day |-> 1]]
MCNewPins == {<<2, 7, 4, 0, 1, 9>>, <<1, 2, 3, 4, 5, 6>>}
MCDENIED_PINS == {<<1, 2, 3, 4, 5, 6>>}
MCPhones == [phone |-> [name |-> "phone", cert |-> <<AinoSign>>]]
=============================================================================
