--------------------------- MODULE MCEmrtdReading ---------------------------
(***************************************************************************)
(* Documents: two genuine ones, a copy, one with another's page under a    *)
(* copied signature, one without a security object, one whose files are    *)
(* shorter than they say, three that list a group they lack (refusing it   *)
(* in the clear or under protection), one with keys the reader does not    *)
(* know, one with a portrait longer than an offset can reach, and a card   *)
(* that does not speak PACE.                                               *)
(***************************************************************************)
EXTENDS EmrtdReading

MCUpper == {"A", "B", "C", "D", "E", "F", "G", "H", "I", "J", "K", "L", "M", "N", "O", "P", "Q", "R", "S", "T",
            "U", "V", "W", "X", "Y", "Z"}
MCLower == [u \in MCUpper |-> u]
MCExpansion == [ae |-> <<"A", "E">>]                  \* the letter A with dots

\* Certificates, as in MCTrustWalk.
Alg == "sha256WithRSA"
Key(n) == Elem("SEQUENCE", <<Elem("INTEGER", <<n, 1>>), Elem("INTEGER", <<1, 0, 1>>)>>)
Spki(n) == [form |-> "ok", aligned |-> TRUE, alg |-> "rsaEncryption", parameters |-> Absent, key |-> Key(n)]
MkCert(serial, subject, key, issuer, signer) ==
    LET tbs == <<Elem("[0]", 2), Elem("INTEGER", serial), Elem("ALG", Alg), Elem("NAME", issuer),
                 Elem("Validity", <<0, 20>>), Elem("NAME", subject), Elem("SPKI", Spki(key))>> IN
    Elem("SEQUENCE", <<Elem("SEQUENCE", tbs), Elem("ALG", Alg), Elem("BIT STRING", <<"signature", Alg, Key(signer), tbs>>)>>)
Csca == MkCert(1, "CSCA", 1, "CSCA", 1)
Dsc == MkCert(2, "DSC", 2, "CSCA", 1)
MCCscaDirs == {Absent, <<<<Elem("SEQUENCE", <<>>), MkCert(3, "CSCA", 3, "CSCA", 3), Csca>>>>}

\* Holders and the machine-readable zone.
Fill(s, n) == s \o [i \in 1..(n - Len(s)) |-> "<"]
Aino == [NoIdentity EXCEPT !.surname = <<<<"M", "ae", "K", "I">>>>, !.first_name = <<<<"A", "I", "N", "O">>>>]
Eeva == [NoIdentity EXCEPT !.surname = <<<<"A", "-", "B">>>>, !.first_name = <<<<"E", "V", "A">>>>,
                           !.second_name = <<<<"U", "'", "A">>>>]
MrzText(name, birth) ==
    Fill(<<"I", "<", "F", "I", "N", "1", "2", "3">>, 30)
    \o Fill(birth \o <<"0", "F", "3", "0", "0", "1", "0", "1", "0", "F", "I", "N">>, 30) \o Fill(name, 30)
MrzAino == <<"M", "A", "E", "K", "I", "<", "<", "A", "I", "N", "O">>
MrzEeva == <<"A", "<", "B", "<", "<", "E", "V", "A", "<", "U", "A">>
Birth90 == <<"9", "0", "0", "2", "2", "8">>
Born(d) == Elem("5F2B", <<"1", "9">> \o d)
NameOf(id) == Elem("5F0E", <<" ">> \o id.surname[1] \o <<"<", "<">> \o Join(iter_given_names(id), "<"))

\* The files.
Dg1A == <<97, 5, 1, 128, 0, 0, 1>>
Dg1B == <<97, 5, 2, 128, 0, 0, 1>>
Dg2A == <<117, 4, 255, 216, 255, 128>>
Dg2B == <<117, 9, 0, 0, 0, 12, 106, 80, 32, 32, 0>>
Dg2Short == <<117, 9, 255, 216, 255>>
Dg2Long == <<117, 34, 255, 216>> \o [i \in 1..32 |-> i]
Dg7B == <<103, 2, 1, 2>>
Dg11A == <<107, 2, 1, 0>>
Dg11B == <<107, 2, 2, 0>>
Dg12B == <<108, 2, 1, 0>>
Dg14A == <<110, 3, 1, 0, 0>>
Dg14X == <<110, 3, 2, 0, 0>>
Dg15A == <<111, 2, 1, 0>>
Dg15X == <<111, 2, 2, 0>>
SodA == <<119, 129, 3, 1, 0, 0>>
SodB == <<119, 129, 3, 2, 0, 0>>
SodForged == <<119, 129, 3, 3, 0, 0>>
SodMissing == <<119, 129, 3, 4, 0, 0>>
SodX == <<119, 129, 3, 5, 0, 0>>
SodLong == <<119, 129, 3, 6, 0, 0>>

Info(oid, more) == Elem("SEQUENCE", <<Elem("OID", oid)>> \o more)
Oid(prefix, tail) == [prefix |-> prefix, tail |-> tail]
SecurityInfos(cipher, n) ==
    Elem("6E", <<Elem("SET", <<Elem("INTEGER", 0), Info(Oid("PACE", <<>>), <<>>), Info(Oid("TA", <<>>), <<>>),
                               Info(Oid("CA", <<2>>), <<>>), Info(Oid("CA", <<2, cipher>>), <<>>),
                               Info(Oid("PK", <<>>), <<>>),
                               Info(Oid("PK", <<>>), <<Elem("SPKI", [point |-> <<n>>])>>)>>)>>)
Lds(groups) ==
    Elem("SEQUENCE", <<Elem("INTEGER", <<0>>), Elem("SEQUENCE", <<Elem("OID", "SHA-256")>>),
        Elem("SEQUENCE", <<Elem("NULL", <<>>)>> \o
            [i \in DOMAIN groups |-> Elem("SEQUENCE", <<Elem("INTEGER", groups[i][1]),
                                                        Elem("OCTET STRING", digest("SHA-256", groups[i][2]))>>)])>>)
Attributes(content) ==
    <<Elem("SEQUENCE", <<Elem("OID", "CONTENT_TYPE"), Elem("SET", <<Elem("OID", "LDS")>>)>>),
      Elem("SEQUENCE", <<Elem("OID", "MESSAGE_DIGEST"), Elem("SET", <<Elem("OCTET STRING", digest("SHA-256", content))>>)>>)>>
\* EF.SOD with the content, the attributes of signed, and key's signature.
Sod(content, signed, key) ==
    LET algorithm == Elem("SEQUENCE", <<Elem("OID", "SHA-256"), Elem("NULL", <<>>)>>)
        signer == <<Elem("INTEGER", <<1>>), Elem("SEQUENCE", <<Elem("NAME", "CSCA"), Elem("INTEGER", <<2>>)>>), algorithm,
                    Elem("[0]", Attributes(signed)), Elem("SEQUENCE", <<Elem("OID", "rsaEncryption")>>),
                    Elem("OCTET STRING", <<"signature", "Rsa", Key(key), digest("SHA-256", Attributes(signed))>>)>> IN
    Elem("77", <<Elem("SEQUENCE", <<Elem("OID", "SIGNED_DATA"), Elem("[0]", <<Elem("SEQUENCE",
        <<Elem("INTEGER", <<3>>), Elem("SET", <<algorithm>>),
          Elem("SEQUENCE", <<Elem("OID", "LDS"), Elem("[0]", <<Elem("OCTET STRING", content)>>)>>),
          Elem("[0]", <<Dsc>>), Elem("SET", <<Elem("SEQUENCE", signer)>>)>>)>>)>>)>>)
LdsA == Lds(<<<<1, Dg1A>>, <<2, Dg2A>>, <<11, Dg11A>>, <<14, Dg14A>>, <<15, Dg15A>>>>)
LdsB == Lds(<<<<1, Dg1B>>, <<2, Dg2B>>, <<7, Dg7B>>, <<11, Dg11B>>, <<12, Dg12B>>, <<14, Dg14A>>, <<15, Dg15A>>>>)
LdsForged == Lds(<<<<1, Dg1B>>, <<2, Dg2A>>, <<14, Dg14A>>>>)
LdsMissing == Lds(<<<<1, Dg1A>>, <<2, Dg2A>>, <<7, Dg7B>>, <<11, Dg11A>>, <<14, Dg14A>>, <<15, Dg15A>>>>)
LdsX == Lds(<<<<1, Dg1A>>, <<2, Dg2A>>, <<14, Dg14X>>, <<15, Dg15X>>>>)
LdsLong == Lds(<<<<1, Dg1A>>, <<2, Dg2Long>>>>)

Contents ==
    Dg1A :> Elem("61", <<Elem("5F1F", MrzText(MrzAino, Birth90))>>)
    @@ Dg1B :> Elem("61", <<Elem("5F01", 0), Elem("5F1F", MrzText(MrzEeva, Birth90))>>)
    @@ Dg11A :> Elem("6B", <<NameOf(Aino), Born(Birth90), Elem("bad", 0), Elem("5F0E", <<"X">>)>>)
    @@ Dg11B :> Elem("6B", <<NameOf(Eeva), Elem("A0", <<Elem("5F0F", <<"Z">>)>>), Elem("5F16", Dg2B)>>)
    @@ Dg12B :> Elem("6C", <<Elem("5F19", <<"F">>), Elem("5F55", <<"2", "0", "2", "5", "0", "2", "3", "0", "1", "0", "0", "0", "0", "0">>)>>)
    @@ Dg14A :> SecurityInfos(4, 5)
    @@ Dg14X :> SecurityInfos(2, 5)
    @@ Dg15A :> Elem("6F", Spki(6))
    @@ Dg15X :> Elem("6F", [Spki(6) EXCEPT !.alg = "ecPublicKey"])
    @@ SodA :> Sod(LdsA, LdsA, 2)
    @@ SodB :> Sod(LdsB, LdsB, 2)
    @@ SodForged :> Sod(LdsForged, LdsA, 2)
    @@ SodMissing :> Sod(LdsMissing, LdsMissing, 2)
    @@ SodX :> Sod(LdsX, LdsX, 2)
    @@ SodLong :> Sod(LdsLong, LdsLong, 2)

MCMeaning == Contents
FilesA == [DG1 |-> Dg1A, DG2 |-> Dg2A, SOD |-> SodA, DG11 |-> Dg11A, DG14 |-> Dg14A, DG15 |-> Dg15A]
FilesB == [DG1 |-> Dg1B, DG2 |-> Dg2B, SOD |-> SodB, DG7 |-> Dg7B, DG11 |-> Dg11B, DG12 |-> Dg12B, DG14 |-> Dg14A, DG15 |-> Dg15A]
MkChip(can, files, ca, aa) ==
    [pace |-> TRUE, can |-> can, files |-> files, ca_key |-> ca, aa_key |-> aa, recorded |-> <<6, 7>>,
     refuses_clear |-> TRUE]
MCChips ==
    [aino |-> MkChip(1, FilesA, 5, 6), eeva |-> MkChip(1, FilesB, 5, 6),
     copy |-> MkChip(1, FilesA, 0, 0),
     forged |-> MkChip(1, [DG1 |-> Dg1B, DG2 |-> Dg2A, SOD |-> SodForged, DG14 |-> Dg14A], 5, 0),
     bare |-> MkChip(2, [DG1 |-> Dg1A, DG2 |-> Dg2A], 5, 6),
     short |-> MkChip(1, [DG1 |-> Dg1A, DG2 |-> Dg2Short, SOD |-> Dg2Short], 5, 6),
     lacking |-> MkChip(1, [SOD |-> SodMissing] @@ FilesA, 5, 6),
     polite |-> [MkChip(1, [SOD |-> SodMissing] @@ FilesA, 5, 6) EXCEPT !.refuses_clear = FALSE],
     gap |-> MkChip(1, [f \in DOMAIN FilesA \ {"DG15"} |-> FilesA[f]], 5, 6),
     long |-> MkChip(1, [DG1 |-> Dg1A, DG2 |-> Dg2Long, SOD |-> SodLong], 5, 6),
     other |-> MkChip(1, [DG1 |-> Dg1A, DG2 |-> Dg2A, SOD |-> SodX, DG14 |-> Dg14X, DG15 |-> Dg15X], 5, 6),
     mute |-> [MkChip(1, FilesA, 5, 6) EXCEPT !.pace = FALSE],
     spoilt |-> MkChip(1, [DG1 |-> <<97, 5, 1>>], 5, 6)]
MCHolders == [chip \in DOMAIN MCChips |-> CASE chip \in {"aino", "copy", "mute"} -> <<Aino>>
                                            [] chip \in {"eeva"} -> <<Eeva>>
                                            [] OTHER -> Absent]
MCBearer == [chip \in DOMAIN MCChips |-> IF MCChips[chip].files["DG1"] = Dg1A THEN <<Aino>>
                                         ELSE IF MCChips[chip].files["DG1"] = Dg1B THEN <<Eeva>> ELSE Absent]
MCIssued == {<<Dg1A, Dg2A>>, <<Dg1B, Dg2B>>, <<Dg1A, Dg2Long>>}
=============================================================================
