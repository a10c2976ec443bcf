---------------------------- MODULE EmrtdReading ----------------------------
(***************************************************************************)
(* card emrtd: read_first of the client around read_personal_data of       *)
(* emrtd.rs, with PACE (pace.rs), chip authentication (ca.rs) and active   *)
(* authentication (aa.rs).                                                 *)
(*                                                                         *)
(*   t        the reading process: where it is and what it holds           *)
(*   sm       its SmTransport                                              *)
(*   c, link  the chip in the field and the link to it                     *)
(*   used     history: the (key, counter) pairs of protected commands, and *)
(*            whether one came again                                       *)
(***************************************************************************)
EXTENDS EmrtdData, SecureMessaging
CONSTANTS
    Holders,               \* chip |-> the certificate identity on its contact side, Absent if contactless
    Bearer,                \* chip |-> the holder its DG1 describes, in the certificate's words; Absent if unknown
    Issued,                \* the pairs DG1, DG2 the issuer signed
    Cans,                  \* what may be typed
    CscaDirs,              \* what --csca-dir may name: Absent or a sequence of files
    MAX_CHUNK,             \* READ BINARY at most, 0xE0
    OFFSETS,               \* what P1 and P2 of READ BINARY can name, 2^15
    MaxFaults              \* bound: exchanges that go wrong
VARIABLES t, sm, c, link, used
vars == <<t, sm, c, link, used>>

FileNames == {"DG1", "DG2", "SOD", "DG7", "DG11", "DG12", "DG14", "DG15"}
\* read_optional_dgs: the groups asked for when the inventory lists them.
Optional == <<"DG7", "DG11", "DG12", "DG14", "DG15">>
Number_(file) == CASE file = "DG7" -> 7 [] file = "DG11" -> 11 [] file = "DG12" -> 12
                   [] file = "DG14" -> 14 [] file = "DG15" -> 15

Init ==
    /\ \E chip \in DOMAIN InField : c = Fresh(chip)
    /\ \E can \in Cans, dir \in CscaDirs, save \in BOOLEAN :
          t = [pc |-> "pick", can |-> can, csca_dir |-> dir, save |-> save, identity |-> Absent,
               nonce |-> 0, point |-> 0, file |-> "", got |-> <<>>, total |-> 0, file_read |-> Absent, todo |-> <<>>,
               data |-> [f \in FileNames |-> Absent], mrz |-> Absent,
               ca |-> "none", aa |-> "none", random |-> 0, saved |-> <<>>, result |-> ""]
    /\ sm = [key |-> NoKey, ssc |-> 0]
    /\ link = [up |-> TRUE, faults |-> MaxFaults, last |-> <<>>]
    /\ used = [pairs |-> {}, again |-> FALSE]

End(s, result) == [s EXCEPT !.pc = "done", !.result = result]
\* crate::rng::fill: a number that was not drawn before.
Draw(s) == s.random + 1

(***************************************************************************)
(* Picking the reader                                                      *)
(***************************************************************************)

\* read_first up to open_session: the identity is read now, over contacts.
Pick ==
    /\ t.pc = "pick"
    /\ t' = [t EXCEPT !.pc = "open", !.identity = Holders[c.chip]]
    /\ UNCHANGED <<sm, c, link, used>>
\* Another card is laid on the reader before the session is opened.
Swap ==
    /\ t.pc = "open"
    /\ \E chip \in DOMAIN InField \ {c.chip} : c' = Fresh(chip)
    /\ UNCHANGED <<t, sm, link, used>>
\* open_session and reset; or the reader is gone.
Open ==
    /\ t.pc = "open"
    /\ \/ t' = [t EXCEPT !.pc = "MSE"] /\ c' = Fresh(c.chip) /\ link' = link
       \/ /\ link.faults > 0
          /\ t' = End(t, "Pcsc")
          /\ link' = [link EXCEPT !.up = FALSE, !.faults = @ - 1]
          /\ c' = c
    /\ UNCHANGED <<sm, used>>

(***************************************************************************)
(* PACE                                                                    *)
(***************************************************************************)

\* The mapping of PaceError in read_personal_data.
PaceError(r) ==
    CASE r.kind = "CardReset" -> "CardReset"
      [] r.kind = "response" /\ r.sw = 25344 -> "BadCan"
      [] OTHER -> "Pace"

\* The reply to a GENERAL AUTHENTICATE: 7C holding the tag asked for, with a
\* value that decodes.
Dynamic_(r, tag) ==
    IF r.body # <<>> /\ r.body[1].tag = "7C" /\ r.body[1].value.tag = tag /\ r.body[1].value.a # -1
    THEN <<r.body[1].value>> ELSE Absent

\* One exchange in the clear, and what the process makes of the reply.
Plain(command, Then(_)) ==
    \E x \in Exchange(c, link, [command |-> command, mac |-> None]) :
        /\ c' = x.c
        /\ link' = x.link
        /\ t' = IF x.r.kind = "response" /\ x.r.sw = 36864 THEN Then(x.r) ELSE End(t, PaceError(x.r))
        /\ UNCHANGED used

\* set_authentication_template.
SetAuthenticationTemplate ==
    /\ t.pc = "MSE"
    /\ Plain(Command("MSE", 0, 18, None), LAMBDA r : [t EXCEPT !.pc = "GA1"])
    /\ UNCHANGED sm
\* get_encrypted_nonce: decrypted with the CAN typed, whatever comes out.
Nonce(can, a) == IF a = can THEN 1 ELSE a + 100
GetEncryptedNonce ==
    /\ t.pc = "GA1"
    /\ Plain(Command("GA1", 0, 2, <<0>>),
             LAMBDA r : LET v == Dynamic_(r, "80") IN
                        IF v = Absent THEN End(t, "Pace")
                        ELSE [t EXCEPT !.pc = "GA2", !.nonce = Nonce(t.can, v[1].a)])
    /\ UNCHANGED sm
\* map_nonce_and_key_agreement: two exchanges of points.
MapNonce ==
    /\ t.pc = "GA2"
    /\ Plain(Command("GA2", 0, 101, <<0>>),
             LAMBDA r : LET v == Dynamic_(r, "82") IN
                        IF v = Absent THEN End(t, "Pace")
                        ELSE [t EXCEPT !.pc = "GA3", !.point = v[1].a])
    /\ UNCHANGED sm
KeyAgreement ==
    /\ t.pc = "GA3"
    /\ Plain(Command("GA3", 0, 101, <<0>>),
             LAMBDA r : LET v == Dynamic_(r, "84") IN
                        IF v = Absent THEN End(t, "Pace")
                        ELSE [t EXCEPT !.pc = "GA4", !.total = v[1].a])
    /\ UNCHANGED sm
\* run_pace_step_5: tokens under the new key, both ways.
MutualAuthentication ==
    /\ t.pc = "GA4"
    /\ LET key == <<"pace", t.nonce, t.point, t.total>> IN
       /\ Plain(Command("GA4", key, 12, <<0>>),
                LAMBDA r : LET v == Dynamic_(r, "86") IN
                           IF v = Absent THEN End(t, "Pace")
                           ELSE IF v[1].key # key THEN End(t, "BadCan")
                           ELSE [t EXCEPT !.pc = "select", !.total = 0])
       /\ sm' = IF t'.pc = "select" THEN [key |-> key, ssc |-> 0] ELSE sm

(***************************************************************************)
(* Reading files under secure messaging                                    *)
(***************************************************************************)

\* The history after a command protected with the next counter.
Counted == LET pair == <<sm.key, increment(sm.ssc)>> IN
           [pairs |-> used.pairs \cup {pair}, again |-> used.again \/ pair \in used.pairs]

\* One protected exchange; Then is given the reply.
Secured(command, Then(_)) ==
    \E x \in transmit_outcome(sm, c, link, command) :
        /\ sm' = x.sm
        /\ c' = x.c
        /\ link' = x.link
        /\ used' = Counted
        /\ t' = Then(x.r)

\* map_sm_emrtd_error of a failed exchange.
SmError(r) == CASE r.kind \in {"Malformed", "MacMismatch", "CommandTooLong"} -> "SecureMessaging" [] OTHER -> "Transport"

\* select_application.
SelectApplication ==
    /\ t.pc = "select"
    /\ Secured(Command("SELECT", 0, 7, None),
               LAMBDA r : IF r.kind # "response" THEN End(t, SmError(r))
                          ELSE IF r.sw # 36864 THEN End(t, "Sw")
                          ELSE [t EXCEPT !.pc = "read", !.file = "DG1"])

\* DG14 and DG15 taken apart, when they were read.
Dg14Of(s) == IF s.data["DG14"] = Absent THEN Absent ELSE parse_dg14(s.data["DG14"][1])
Dg15Of(s) == IF s.data["DG15"] = Absent THEN Absent ELSE parse_dg15(s.data["DG15"][1])
\* What read_personal_data does next, when no file is left: chip
\* authentication if DG14 reads, active authentication if DG15 does.
AuthenticateBy(s, entries, next) ==
    CASE s.pc = "read" /\ entries # Absent ->
           IF pick_protocol(entries[1]) /\ pick_public_key(entries[1]) # Absent THEN [s EXCEPT !.pc = "ca_mse"]
           ELSE [s EXCEPT !.pc = next, !.ca = "NoSupportedProtocol"]
      [] OTHER -> [s EXCEPT !.pc = next]
Authenticate(s) ==
    AuthenticateBy(s, Dg14Of(s), IF Dg15Of(s) # Absent THEN "aa" ELSE "save")

\* The next optional file the inventory lists, or on to the authentications.
ListedLeft(s) == LET dgs == DgInventory(s.data["SOD"]) IN SelectSeq(s.todo, LAMBDA f : Number_(f) \in dgs)
NextFile(s, left) ==
    IF left = <<>> THEN Authenticate([s EXCEPT !.file = "", !.todo = <<>>])
    ELSE [s EXCEPT !.file = left[1], !.todo = Tail(left)]

\* What read_file returned: DG1 must parse, DG2 must be there, the others are
\* optional (got is Absent where the card refused).
AfterDg1(s, dg1) == IF dg1.err # "" THEN End(s, dg1.err) ELSE [s EXCEPT !.mrz = dg1.mrz, !.file = "DG2"]
TakeFile ==
    /\ t.pc = "take"
    /\ \E s \in {[t EXCEPT !.pc = "read", !.data[t.file] = t.file_read, !.got = <<>>, !.total = 0]} :
          \/ t.file = "DG1" /\ t' = AfterDg1(s, Dg1Read(t.file_read[1]))
          \/ t.file = "DG2" /\ t' = [s EXCEPT !.file = "SOD", !.todo = Optional]
          \/ t.file \notin {"DG1", "DG2"} /\ t' = NextFile(s, ListedLeft(s))
    /\ UNCHANGED <<sm, c, link, used>>

\* read_optional_dg: a refused status is a file that is not there.
Taken(s, file_read) == [s EXCEPT !.pc = "take", !.file_read = file_read]
FileRefused(s) == IF s.file \in {"DG1", "DG2"} THEN End(s, "Sw") ELSE Taken(s, Absent)

\* read_chunk's reply in read_file: Success and EndOfFile give octets.  The
\* loop stops at the length announced, at an empty chunk, and where the offset
\* would pass sixteen bits.
MutGathered(s, octets, got, total) ==                  \* Mutant: an empty chunk does not end the file
    IF (s.got = <<>> /\ Len(got) < 2) \/ Len(got) >= total \/ Len(got) >= 2 * OFFSETS THEN Taken(s, <<got>>)
    ELSE [s EXCEPT !.got = got, !.total = total]
Gathered(s, octets, got, total) ==
    IF (s.got = <<>> /\ Len(got) < 2) \/ octets = <<>> \/ Len(got) >= total \/ Len(got) >= 2 * OFFSETS
    THEN Taken(s, <<got>>)
    ELSE [s EXCEPT !.got = got, !.total = total]
ChunkRead(s, octets) ==
    Gathered(s, octets, s.got \o octets, IF s.got = <<>> THEN decode_outer_total_length(octets) ELSE s.total)

\* ReadBinaryByOffset::into_apdu: the top bit of the offset is masked away.
OnWire(offset) == offset % OFFSETS
\* One step of read_file: the header by its identifier, then chunks of at
\* most MAX_CHUNK at the offset reached.
ReadFile ==
    /\ t.pc = "read"
    /\ LET want == IF t.got = <<>> THEN 4 ELSE Min({MAX_CHUNK, t.total - Len(t.got)}) IN
       Secured(Command("READ", [file |-> IF t.got = <<>> THEN t.file ELSE "", offset |-> OnWire(Len(t.got))], 0, <<want>>),
               LAMBDA r : IF r.kind # "response" THEN End(t, SmError(r))
                          ELSE IF r.sw \in {36864, 25218} THEN ChunkRead(t, r.body)
                          ELSE FileRefused(t))

(***************************************************************************)
(* Chip and active authentication                                          *)
(***************************************************************************)

\* run_chip_authentication, an exchange at a time.  A failed exchange is
\* dropped by ok(): the result stays None and the reading goes on.
Left(s, outcome) == Authenticate([s EXCEPT !.ca = outcome])
CaMse ==
    /\ t.pc = "ca_mse"
    /\ Secured(Command("CA_MSE", 0, 12, None),
               LAMBDA r : IF r.kind # "response" THEN Left(t, "none")
                          ELSE IF r.sw # 36864 THEN Left(t, "MseRejected")
                          ELSE [t EXCEPT !.pc = "ca_ga", !.random = Draw(t)])
CaGa ==
    /\ t.pc = "ca_ga"
    /\ \E x \in transmit_outcome(sm, c, link, Command("CA_GA", t.random, 101, <<0>>)) :
          LET ok == x.r.kind = "response" /\ x.r.sw = 36864 IN
          /\ c' = x.c
          /\ link' = x.link
          /\ used' = Counted
          /\ sm' = IF ok THEN rekey(x.sm, <<"ca", pick_public_key(parse_dg14(t.data["DG14"][1])[1])[1], t.random, 0>>) ELSE x.sm
          /\ t' = IF ok THEN [t EXCEPT !.pc = "ca_probe"]
                  ELSE Left(t, IF x.r.kind = "response" THEN "GaRejected" ELSE "none")
\* The probe under the new keys.
MutProbe(r) == TRUE                                    \* Mutant: the reply of the probe is not looked at
Probe(r) == r.kind = "response" /\ r.sw = 36864
CaProbe ==
    /\ t.pc = "ca_probe"
    /\ Secured(Command("READ", [file |-> "DG1", offset |-> 0], 0, <<4>>),
               LAMBDA r : Left(t, IF Probe(r) THEN "Verified" ELSE "VerificationFailed"))

\* run_active_authentication: over a challenge of its own.
Challenge(s) == Draw(s)
ActiveAuthentication ==
    /\ t.pc = "aa"
    /\ LET challenge == Challenge(t)
           key == parse_dg15(t.data["DG15"][1])[1].value[1].value[1]
           s == [t EXCEPT !.pc = "save", !.random = challenge] IN
       Secured(Command("AA", challenge, 8, <<0>>),
               LAMBDA r : [s EXCEPT !.aa = IF r.kind # "response" THEN "none"
                                           ELSE IF r.sw # 36864 THEN "CardRejected"
                                           ELSE IF r.body = <<key, challenge>> THEN "Verified"
                                           ELSE "SignatureInvalid"])

(***************************************************************************)
(* Saving and reporting                                                    *)
(***************************************************************************)

\* The artefacts read_first writes, in its order: the image of the face, that
\* of the signature or the whole DG7, the security object, its certificate.
Image(s, f) == IF s.data[f] = Absent THEN Absent ELSE DocumentImage(s.data[f][1])
DscOf(sd) == IF ~Ok(sd) THEN <<>> ELSE IF sd.certificates = <<>> THEN <<>> ELSE <<"DSC">>
Artefacts(s) ==
    (IF Image(s, "DG2") # Absent THEN <<"face">> ELSE <<>>)
    \o (IF Image(s, "DG7") # Absent THEN <<"signature">> ELSE IF s.data["DG7"] # Absent THEN <<"DG7 (raw)">> ELSE <<>>)
    \o (IF s.data["SOD"] = Absent THEN <<>> ELSE <<"EF.SOD">> \o DscOf(SignedData_parse(Parsed(s.data["SOD"][1]))))

\* write_artefact: one file, or the end of the command.
Save ==
    /\ t.pc = "save"
    /\ \E all \in {IF t.save THEN Artefacts(t) ELSE <<>>} :
       \/ Len(t.saved) = Len(all) /\ t' = End(t, "Ok")
       \/ Len(t.saved) < Len(all) /\ t' = [t EXCEPT !.saved = Append(@, all[Len(@) + 1])]
       \/ Len(t.saved) < Len(all) /\ t' = End(t, "SaveFile")
    /\ UNCHANGED <<sm, c, link, used>>

\* Display of EmrtdReadReport: the name as people write it, write_dg11 and
\* write_dg12, write_name_consistency and write_passive_auth.
Native(surname, given) == IF surname = Absent \/ given = Absent THEN Absent ELSE given \o surname
Content(file, tag) == IF file = Absent THEN Absent ELSE Wrapped(file[1], tag)
Dg11Of(s) ==
    LET content == Content(s.data["DG11"], "6B") IN
    IF content = Absent THEN Absent ELSE <<parse_dg11(content[1])>>
Dg12Of(s) ==
    LET content == Content(s.data["DG12"], "6C") IN
    IF content = Absent THEN Absent ELSE <<parse_dg12(content[1])>>
Consistency(s, dg11) ==
    verify_emrtd_consistency(IF s.identity = Absent THEN NoIdentity ELSE s.identity[1],
                             IF dg11 = Absent THEN Absent ELSE dg11[1].full_name,
                             IF dg11 = Absent THEN Absent ELSE dg11[1].full_date_of_birth, s.mrz[1])
Report(s) ==
    [native |-> Native(to_native(s.mrz[1].primary_identifier), to_native(s.mrz[1].secondary_identifier)),
     dg11 |-> Dg11Of(s), dg12 |-> Dg12Of(s),
     consistency |-> Consistency(s, Dg11Of(s)),
     passive |-> write_passive_auth([sod |-> s.data["SOD"], dg1 |-> s.data["DG1"][1], dg2 |-> s.data["DG2"][1]], s.csca_dir)]

Done == t.pc = "done" /\ UNCHANGED vars
Progress ==
    \/ Pick \/ Open
    \/ SetAuthenticationTemplate \/ GetEncryptedNonce \/ MapNonce \/ KeyAgreement \/ MutualAuthentication
    \/ SelectApplication \/ ReadFile \/ TakeFile
    \/ CaMse \/ CaGa \/ CaProbe \/ ActiveAuthentication \/ Save
Next == Progress \/ Swap \/ Done
\* Weak fairness of Progress, with what its being enabled comes to written out.
Fairness == []<>(t.pc = "done") \/ []<><<Progress>>_vars
Spec == Init /\ [][Next]_vars /\ Fairness

(***************************************************************************)
(* Properties                                                              *)
(***************************************************************************)

\* The chip in the field, and whether every exchange so far went well.
Chip == InField[c.chip]
Undisturbed == link.faults = MaxFaults
Results == {"", "Ok", "Pcsc", "BadCan", "CardReset", "Pace", "SecureMessaging", "Transport", "Sw", "Ber",
            "ParseFailure", "SaveFile"}
TypeOK ==
    /\ c.chip \in DOMAIN InField
    /\ link.up \in BOOLEAN /\ link.faults \in 0..MaxFaults /\ Len(link.last) <= 1
    /\ sm.ssc \in 0..(SSC_MODULUS - 1) /\ c.ssc \in 0..(SSC_MODULUS - 1)
    /\ t.result \in Results /\ (t.pc = "done" <=> t.result # "")
    /\ t.ca \in {"none", "NoSupportedProtocol", "MseRejected", "GaRejected", "Verified", "VerificationFailed"}
    /\ t.aa \in {"none", "CardRejected", "Verified", "SignatureInvalid"}
    /\ used.again \in BOOLEAN

\* read_file over secure messaging: whatever is lost, altered or answered
\* again, the octets held are the beginning of that file of this chip, as far
\* as an offset reaches.  Of a longer file the octets past that point are not:
\* the chip is asked for its beginning again.
Addressable(octets) == SubSeq(octets, 1, Min({OFFSETS, Len(octets)}))
FromFile(got, file) == Len(got) <= Len(file) /\ IsPrefix(Addressable(got), file)
DataIsTheChips ==
    /\ t.pc = "read" /\ t.got # <<>> => FromFile(t.got, Chip.files[t.file])
    /\ \A f \in FileNames : t.data[f] # Absent => FromFile(t.data[f][1], Chip.files[f])

\* SmTransport: no two commands are protected under the same key and
\* counter, over both key agreements and every failed exchange.
CountersUsedOnce == ~used.again

\* run_chip_authentication and run_active_authentication say Verified only
\* of a chip that holds the private key of its data group.
VerifiedMeansGenuine ==
    /\ t.ca = "Verified" => Chip.ca_key = pick_public_key(parse_dg14(t.data["DG14"][1])[1])[1]
    /\ t.aa = "Verified" => Chip.aa_key = parse_dg15(t.data["DG15"][1])[1].value[1].value[1]

\* read_personal_data: undisturbed, "CAN did not match" is said exactly when
\* a chip that speaks PACE has another CAN.
CanVerdict ==
    t.pc = "done" /\ Undisturbed => (t.result = "BadCan" <=> Chip.pace /\ t.can # Chip.can)

\* read_personal_data: undisturbed, both mandatory groups and every group the
\* security object lists are read in full if an offset reaches their end, up to
\* the first one the chip does not have and refuses in the clear.  There the
\* counters part: nothing after it is read, and neither authentication
\* is completed.  Where they stay together both are answered, the second unless
\* the first found a copy.
InInventory(f) == Number_(f) \in DgInventory(t.data["SOD"])
PartedAt(f) == Chip.refuses_clear /\ InInventory(f) /\ f \notin DOMAIN Chip.files
Reached(i) == \A j \in 1..i : ~PartedAt(Optional[j])
Together == Reached(Len(Optional))
FileOf(f) == IF f \in DOMAIN Chip.files THEN <<Chip.files[f]>> ELSE Absent
Whole(f) == t.data[f] = FileOf(f) \/ Len(Chip.files[f]) > OFFSETS
ReadInFull ==
    t.pc \in {"save", "done"} /\ t.mrz # Absent /\ Undisturbed =>
        /\ Whole("DG1") /\ Whole("DG2")
        /\ \A i \in DOMAIN Optional : InInventory(Optional[i]) =>
              IF Reached(i) THEN Whole(Optional[i]) ELSE t.data[Optional[i]] = Absent
        /\ Together => t.ca \notin {"MseRejected", "GaRejected"} /\ (t.ca # "VerificationFailed" => t.aa # "CardRejected")
        /\ ~Together => t.ca \in {"none", "NoSupportedProtocol", "MseRejected"} /\ t.aa = "none"

\* write_passive_auth: when the hashes, the signature of the security object
\* and its certificate are all reported ok, the holder's page and portrait
\* are ones the issuer signed.
Confirmed(p) == IF p.kind = "checked" THEN p.hashes = <<"ok", "ok">> /\ p.sod = "ok" /\ p.csca = "ok" ELSE FALSE
SignedMeansIssued ==
    t.result = "Ok" => (Confirmed(Report(t).passive) => <<t.data["DG1"][1], t.data["DG2"][1]>> \in Issued)

\* verify_emrtd_consistency: the certificate's holder, read before the card
\* could be exchanged, is reported to differ from the document's exactly when
\* it is another person's.
Differs(r) == <<FALSE>> \in {r.dg11_surname, r.dg11_given, r.mrz_surname, r.mrz_given}
HolderVerdict ==
    t.result = "Ok" /\ t.identity # Absent /\ Bearer[c.chip] # Absent =>
        (Differs(Report(t).consistency) <=> t.identity # Bearer[c.chip])

\* What was read is the chip's, as far as it can be read, and under fresh counters.
ReadingFaithful == TypeOK /\ DataIsTheChips /\ CountersUsedOnce /\ ReadInFull

\* Every verdict of the report is true of the chip in the field.
VerdictsTrue == VerifiedMeansGenuine /\ CanVerdict /\ SignedMeansIssued /\ HolderVerdict

\* read_file and the steps around it come to an end.
ReadingEnds == <>(t.pc = "done")
=============================================================================
