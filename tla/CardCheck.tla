----------------------------- MODULE CardCheck -----------------------------
(***************************************************************************)
(* check_all of card_check.rs: every card in every reader is inspected,    *)
(* one after another, while cards come and go.  `card` runs it once; the   *)
(* window (GuiWindow) runs it in a thread and in its event loop.           *)
(*                                                                         *)
(* chk[p] is the run of process p: the readers still to probe (todo), the  *)
(* picks, the session on the first pick's reader (s), the slots still to   *)
(* read, the report under construction (rep) and the finished ones (out).  *)
(* since, for the properties, is the value of swaps when it began.         *)
(***************************************************************************)
EXTENDS CardFiles, MasterLists, CertReports
CONSTANTS
    Cards,                 \* the records of all cards, by name
    Readers,               \* the names of the readers, a sequence
    Processes,             \* who may run check_all
    Worlds,                \* by name: [web, now, nonce, crl, pkd], what is outside
    Unplugged,             \* a reader that is not connected
    Deck,                  \* the cards that are changed while programs run
    Genuine,               \* what is true of certificates: issued by the real
    Revoked,               \*   authorities, revoked, and the worlds whose
    HonestLists,           \*   master lists are the real ones
    MaxSwaps               \* bound: insertions, removals, plugs
ASSUME BoundAssumption == MaxSwaps \in Nat
\* Readers are listed in an order; the cards that are exchanged are cards.
ASSUME WorldAssumption ==
    /\ Readers \in Seq(Range(Readers)) /\ Deck \subseteq DOMAIN Cards
    /\ DOMAIN Cards \cap {NoCard, Unplugged} = {} /\ NoCard # Unplugged
    /\ Processes = {"inspection", "ui", "cli"}
\* What a card is said to carry (issued, serial) is what its files hold,
\* wherever on the card they are.
ASSUME CardAssumption ==
    \A c \in DOMAIN Cards : LET k == Cards[c] IN
      \A d \in DOMAIN k.files : \A name \in DOMAIN k.files[d] :
        /\ name \in Range(CertSlot_all) => name \in DOMAIN k.issued /\ k.issued[name] = k.files[d][name].object
        /\ name = "TokenInfo" /\ TokenInfo_parse(k.files[d][name].object).err = "" =>
             TokenInfo_parse(k.files[d][name].object).info.serial \in {Absent, <<k.serial>>}

VARIABLES
    slot,                  \* the card in each reader
    swaps,                 \* how often that changed
    chk

\* CardCheckOptions: crl_file is "none", "ok" or "bad", save_cert_dir too.
Options == [filter : {Absent} \cup {<<{r}>> : r \in Range(Readers)}, offline : BOOLEAN, can : {Absent, <<1>>, <<2>>},
            crl_file : {"none", "ok", "bad"}, save_cert_dir : {"none", "ok", "bad"}, icao_pkd : BOOLEAN,
            world : DOMAIN Worlds]

\* CardCheckReport, before anything is read.
NoReport ==
    [reader |-> "", identity |-> NoIdentity, atr |-> "", token |-> NoToken, access |-> Absent, certs |-> <<>>,
     scheme |-> "Citizen", pin1 |-> Absent, pin2 |-> Absent, puk |-> Absent, pin1_policy |-> Absent,
     pin2_policy |-> Absent, puk_policy |-> Absent, pin1_changed |-> Absent, pin2_changed |-> Absent,
     emrtd |-> Absent, emrtd_error |-> "", dsc |-> Absent]

Idle == [pc |-> "idle", opts |-> Absent, pool |-> Absent, todo |-> {}, picks |-> <<>>, s |-> Session(NoCard),
         slots |-> <<>>, ders |-> <<>>, rep |-> NoReport, out |-> <<>>, err |-> "", since |-> 0]
Called(opts) == [Idle EXCEPT !.pc = "load", !.opts = <<opts>>, !.since = swaps]

Opts(p) == chk[p].opts[1]
World(p) == Worlds[Opts(p).world]
Reader(p) == chk[p].picks[1].reader
Goes(p, c) == chk' = [chk EXCEPT ![p] = c] /\ UNCHANGED <<slot, swaps>>
\* `?`: nothing of what was read is returned.
Fails(p, err) == Goes(p, [Idle EXCEPT !.pc = "done", !.opts = chk[p].opts, !.err = err, !.since = chk[p].since])

(***************************************************************************)
(* Which readers                                                           *)
(***************************************************************************)

Plugged == {r \in Range(Readers) : slot[r] # Unplugged}
\* PcscBackend::enumerate and the filter; the readers are taken in their order.
Present(p) == {r \in Plugged : slot[r] # NoCard /\ (Opts(p).filter = Absent \/ r \in Opts(p).filter[1])}
FirstReader(readers) == Readers[FirstOf({i \in DOMAIN Readers : Readers[i] \in readers})]
Accessible(c) == c # NoCard /\ probe_card_access(Cards[c], c)
Probed(c) == IF c = NoCard THEN Absent ELSE probe_fineid_identity(Cards[c], c)
CardIn(r) == IF slot[r] = Unplugged THEN NoCard ELSE slot[r]

\* check_all: the master lists first, whose faults end it; then
\* enumerate_fineid_readers lists the readers and probes one after another.
EnumerateFineid(p) ==
    /\ chk[p].pc = "load"
    /\ \E pool \in {IF Opts(p).icao_pkd THEN load_icao_pkd(World(p).pkd) ELSE [err |-> "", mls |-> <<>>]} :
         IF ~Ok(pool) THEN Fails(p, pool.err)
         ELSE Goes(p, [chk[p] EXCEPT !.pc = "probe", !.todo = Present(p),
                                     !.pool = IF Opts(p).icao_pkd THEN <<pool>> ELSE Absent])
ProbeFineid(p) ==
    /\ chk[p].pc = "probe"
    /\ chk[p].todo # {}
    /\ \E r \in {FirstReader(chk[p].todo)} : \E id \in {Probed(CardIn(r))} :
         Goes(p, [chk[p] EXCEPT !.todo = @ \ {r},
                                !.picks = IF id = Absent THEN @ ELSE Append(@, [reader |-> r, identity |-> id[1]])])

\* enumerate_contactless_readers, when no reader has answered; no readers at
\* all is an error here only.
EnumerateContactless(p) ==
    /\ chk[p].pc = "probe" /\ chk[p].todo = {} /\ chk[p].picks = <<>>
    /\ IF Plugged = {} THEN Fails(p, "NoReaders")
       ELSE Goes(p, [chk[p] EXCEPT !.pc = "probe access", !.todo = Present(p)])
ProbeContactless(p) ==
    /\ chk[p].pc = "probe access"
    /\ chk[p].todo # {}
    /\ \E r \in {FirstReader(chk[p].todo)} :
         Goes(p, [chk[p] EXCEPT !.todo = @ \ {r},
                                !.picks = IF Accessible(CardIn(r))
                                          THEN Append(@, [reader |-> r, identity |-> NoIdentity]) ELSE @])

\* The loop of check_all has no pick (left).
Finished(p, out) == [Idle EXCEPT !.pc = "done", !.opts = chk[p].opts, !.out = out, !.since = chk[p].since]
NobodyAnswers(p) ==
    /\ chk[p].pc = "probe access" /\ chk[p].todo = {} /\ chk[p].picks = <<>>
    /\ Goes(p, Finished(p, <<>>))
\* The report is done: the next reader.
Concluded(p, rep) ==
    IF Len(chk[p].picks) = 1 THEN Finished(p, Append(chk[p].out, rep))
    ELSE [chk[p] EXCEPT !.pc = "next", !.picks = Tail(@), !.s = Session(NoCard), !.ders = <<>>, !.rep = NoReport,
                        !.out = Append(@, rep)]

(***************************************************************************)
(* One reader                                                              *)
(***************************************************************************)

\* check_for_reader, up to the section: the session, the ATR, EF.CardAccess
\* and the CRL file.  No card in the reader any more ends the whole run.
OpenReader(p) ==
    /\ chk[p].pc \in {"next", "probe", "probe access"}
    /\ chk[p].todo = {} /\ chk[p].picks # <<>>
    /\ IF CardIn(Reader(p)) = NoCard THEN Fails(p, "Pcsc")
       ELSE IF Opts(p).crl_file = "bad" THEN Fails(p, "CrlRead")
       ELSE \E k \in {Cards[slot[Reader(p)]]} : \E a \in {read_card_access(k, Session(slot[Reader(p)]))} :
              Goes(p, [chk[p] EXCEPT !.pc = "section", !.s = a.s, !.ders = <<>>,
                         !.rep = [NoReport EXCEPT !.reader = Reader(p), !.identity = chk[p].picks[1].identity,
                                                  !.atr = k.atr,
                                                  !.access = IF a.err = "" THEN <<a.value>> ELSE Absent]])

\* open_pkcs15_section: the application is selected in plain; a card that
\* wants PACE first is reset when there is a CAN.
InSection(p, plain) ==
    CASE plain.err = "" -> Goes(p, [chk[p] EXCEPT !.pc = "token", !.s = plain.s])
      [] plain.err = "SecurityNotSatisfied" ->
           IF Opts(p).can = Absent THEN Fails(p, "NeedCan") ELSE Goes(p, [chk[p] EXCEPT !.pc = "reset"])
      [] OTHER -> Fails(p, "CertRead")
MutOpenSection(p) ==                          \* Mutant: the section opens the reader again
    /\ chk[p].pc = "section" /\ CardIn(Reader(p)) # NoCard
    /\ \E k \in {Cards[CardIn(Reader(p))]} :
         InSection(p, select_pkcs15_application(k, Session(CardIn(Reader(p)))))
OpenSection(p) ==
    /\ chk[p].pc = "section"
    /\ InSection(p, select_pkcs15_application(Cards[chk[p].s.card], chk[p].s))
\* PcscCard::reset: SCardReconnect may fail; it connects to the card that is
\* in the reader now, whichever that is.
ResetCard(p) ==
    /\ chk[p].pc = "reset"
    /\ \/ Fails(p, "Pace")
       \/ /\ CardIn(Reader(p)) # NoCard
          /\ Goes(p, [chk[p] EXCEPT !.pc = "mf", !.s = Session(CardIn(Reader(p)))])
SelectMasterFile(p) ==
    /\ chk[p].pc = "mf"
    /\ \E mf \in {select_mf(Cards[chk[p].s.card], chk[p].s)} :
         IF mf.err # "" THEN Fails(p, "Pace") ELSE Goes(p, [chk[p] EXCEPT !.pc = "pace", !.s = mf.s])
\* run_pace_with_can, whose exchange is EmrtdReading's, and
\* pace_err_to_check_error.
RunPace(p) ==
    /\ chk[p].pc = "pace"
    /\ IF ~Answered(chk[p].s) THEN Fails(p, "Pace")
       ELSE IF Opts(p).can[1] # Cards[chk[p].s.card].sealed THEN Fails(p, "BadCan")
       ELSE Goes(p, [chk[p] EXCEPT !.pc = "sm", !.s.channel = "secure"])
SelectSecurely(p) ==
    /\ chk[p].pc = "sm"
    /\ \E sm \in {select_pkcs15_application(Cards[chk[p].s.card], chk[p].s)} :
         IF sm.err # "" THEN Fails(p, "Pace") ELSE Goes(p, [chk[p] EXCEPT !.pc = "token", !.s = sm.s])

Secure(p) == chk[p].s.channel # "plain"

\* read_pkcs15_section: EF.TokenInfo, ...
ReadToken(p) ==
    /\ chk[p].pc = "token"
    /\ \E t \in {read_token_info(Cards[chk[p].s.card], chk[p].s)} :
         Goes(p, [chk[p] EXCEPT !.pc = "slots", !.s = t.s, !.slots = CertSlot_all,
                                !.rep.token = IF t.err = "" THEN t.value ELSE NoToken])

\* ... read_all_cert_slots, slot after slot, ...
ReadSlot(p) ==
    /\ chk[p].pc = "slots"
    /\ chk[p].slots # <<>>
    /\ IF Secure(p) /\ requires_mf_traversal(chk[p].slots[1]) THEN Goes(p, [chk[p] EXCEPT !.slots = Tail(@)])
       ELSE \E r \in {read_certificate(Cards[chk[p].s.card], chk[p].s, chk[p].slots[1])} :
              IF r.err \notin {"", "FileNotFound"} /\ chk[p].slots[1] = "Authentication" THEN Fails(p, "CertRead")
              ELSE Goes(p, [chk[p] EXCEPT !.slots = Tail(@), !.s = r.s,
                                          !.ders = IF r.err = "" THEN Append(@, <<chk[p].slots[1], r.value[1]>>) ELSE @])

\* The card's own root, and a report for each certificate.
CertReports(p, ders, w) ==
    LET roots == SelectSeq(ders, LAMBDA d : d[1] = "RootCa")
        RootOf(c) == IF Ok(c) THEN <<c>> ELSE Absent
        Reports_(root) == [i \in DOMAIN ders |-> build_cert_report(ders[i][1], ders[i][2],
            [offline |-> Opts(p).offline, now |-> w.now, web |-> w.web, nonce |-> w.nonce,
             crl |-> IF Opts(p).crl_file = "none" THEN Absent ELSE <<w.crl>>, root |-> root])] IN
    Reports_(IF roots = <<>> THEN Absent ELSE RootOf(Certificate_from_der(roots[1][2])))

\* save_slot_ders, the reports (the first that fails ends the run), and the
\* counters.  In a secure channel the PUK and PIN2's object are
\* not asked: that would end the channel.  The session ends here; without a
\* CAN the report is done.
Asks(p, what) == what = "pin1" \/ ~Secure(p)
WithPins(p, certs, k, s, scheme) ==
    LET Policy(what) == IF Asks(p, what) THEN policy_counters(k, s, what) ELSE Absent IN
    [chk[p].rep EXCEPT !.scheme = scheme, !.pin1 = pin_status_with_scheme(k, s, "pin1", scheme),
                       !.pin2 = pin_status_with_scheme(k, s, "pin2", scheme),
                       !.puk = IF Asks(p, "puk") THEN puk_status_with_scheme(k, s, scheme) ELSE Absent,
                       !.pin1_policy = Policy("pin1"), !.pin2_policy = Policy("pin2"),
                       !.puk_policy = Policy("puk"), !.pin1_changed = pin_changed_flag(k, s, "pin1"),
                       !.pin2_changed = IF Asks(p, "pin2") THEN pin_changed_flag(k, s, "pin2") ELSE Absent,
                       !.certs = certs]
ReadPins(p) ==
    /\ chk[p].pc = "slots"
    /\ chk[p].slots = <<>>
    /\ \E certs \in {CertReports(p, chk[p].ders, World(p))} :
         IF Opts(p).save_cert_dir = "bad" THEN Fails(p, "CrlRead")
         ELSE IF \E i \in DOMAIN certs : ~Ok(certs[i])
         THEN Fails(p, certs[FirstOf({i \in DOMAIN certs : ~Ok(certs[i])})].err)
         ELSE \E k \in {Cards[chk[p].s.card]} :
              \E rep \in {WithPins(p, certs, k, chk[p].s, resolve_pin_reference_scheme(k, chk[p].s))} :
                IF Opts(p).can = Absent THEN Goes(p, Concluded(p, rep))
                ELSE Goes(p, [chk[p] EXCEPT !.pc = "emrtd", !.rep = rep, !.s = Session(NoCard)])

\* read_emrtd_section_for, in a session of its own on whatever card is there,
\* and run_dsc_csca_check.
EmrtdOf(c, can) ==
    LET Of(k) == IF k.emrtd = Absent THEN [err |-> "Pace", data |-> Absent]
                 ELSE IF can # k.sealed THEN [err |-> "BadCan", data |-> Absent] ELSE [err |-> "", data |-> k.emrtd] IN
    IF c = NoCard THEN [err |-> "PC/SC", data |-> Absent] ELSE Of(Cards[c])
ReadEmrtd(p) ==
    /\ chk[p].pc = "emrtd"
    /\ \E r \in {EmrtdOf(CardIn(Reader(p)), Opts(p).can[1])} :
       \E dsc \in {IF chk[p].pool = Absent \/ ~Ok(r) THEN Absent
                   ELSE <<dsc_csca_check_for_sod(r.data[1].sod, chk[p].pool[1])>>} :
         Goes(p, Concluded(p, [chk[p].rep EXCEPT !.emrtd = r.data, !.emrtd_error = r.err, !.dsc = dsc]))

CheckStep(p) ==
    \/ EnumerateFineid(p) \/ ProbeFineid(p) \/ EnumerateContactless(p) \/ ProbeContactless(p) \/ NobodyAnswers(p)
    \/ OpenReader(p) \/ OpenSection(p) \/ ResetCard(p) \/ SelectMasterFile(p) \/ RunPace(p) \/ SelectSecurely(p)
    \/ ReadToken(p) \/ ReadSlot(p) \/ ReadPins(p) \/ ReadEmrtd(p)

(***************************************************************************)
(* The holder of the cards                                                 *)
(***************************************************************************)

\* A card is put in, taken out or exchanged for another before anyone looks;
\* a reader is unplugged when it is empty.  A session on a card that was taken
\* out stays dead.
Swap(r, c) ==
    /\ swaps < MaxSwaps
    /\ slot[r] # c
    /\ Unplugged \in {slot[r], c} => NoCard \in {slot[r], c}
    /\ c \in {NoCard, Unplugged} \/ \A q \in DOMAIN slot : slot[q] # c
    /\ swaps' = swaps + 1
    /\ slot' = [slot EXCEPT ![r] = c]
    /\ chk' = [p \in Processes |-> IF chk[p].picks # <<>> /\ chk[p].s.live /\ Reader(p) = r
                                   THEN [chk[p] EXCEPT !.s.live = FALSE] ELSE chk[p]]

(***************************************************************************)
(* Properties                                                              *)
(***************************************************************************)

SectionSteps == {"section", "reset", "mf", "pace", "sm", "token", "slots"}
\* The types.
CheckTypeOK ==
    /\ slot \in [Range(Readers) -> DOMAIN Cards \cup {NoCard, Unplugged}]
    /\ swaps \in 0..MaxSwaps
    /\ \A p \in Processes :
         /\ chk[p].pc \in {"idle", "load", "probe", "probe access", "next", "done"} \cup SectionSteps \cup {"emrtd"}
         /\ chk[p].s.channel \in {"plain", "secure", "ended"}
         /\ chk[p].err # "" => chk[p].out = <<>>

\* What a report says, in the parts it is read in: by the probe, at the
\* opening of the reader, in the section, in the travel document's session.
\* c is the card a part is of, and what is missing says nothing.
IdentityOf(identity, c) == identity = NoIdentity \/ Probed(c) = <<identity>>
OpenedOn(rep, c) ==
    /\ rep.atr = Cards[c].atr
    /\ rep.access \in {Absent, <<read_card_access(Cards[c], Session(c)).value>>}
TokenOf(token, c) ==
    \/ token = NoToken
    \/ \E d \in DOMAIN Cards[c].files : /\ "TokenInfo" \in DOMAIN Cards[c].files[d]
                                        /\ token = TokenInfo_parse(Cards[c].files[d]["TokenInfo"].object).info
CountersOf(rep, k, s) ==
    /\ rep.pin1 \in {Absent, pin_status_with_scheme(k, s, "pin1", rep.scheme)}
    /\ rep.pin2 \in {Absent, pin_status_with_scheme(k, s, "pin2", rep.scheme)}
    /\ rep.puk \in {Absent, puk_status_with_scheme(k, s, rep.scheme)}
    /\ rep.pin1_policy \in {Absent, policy_counters(k, s, "pin1")}
    /\ rep.pin2_policy \in {Absent, policy_counters(k, s, "pin2")}
    /\ rep.puk_policy \in {Absent, policy_counters(k, s, "puk")}
    /\ rep.pin1_changed \in {Absent, pin_changed_flag(k, s, "pin1")}
    /\ rep.pin2_changed \in {Absent, pin_changed_flag(k, s, "pin2")}
CertsOf(certs, c) == \A x \in Range(certs) : x.slot \in DOMAIN Cards[c].issued /\ x.der = Cards[c].issued[x.slot]
SectionOf(rep, c) == TokenOf(rep.token, c) /\ CountersOf(rep, Cards[c], Session(c)) /\ CertsOf(rep.certs, c)
\* A report put together from these cards: the section is of the card the
\* reader was opened on, unless that one wanted PACE and was reset.
Composed(rep, cards) ==
    /\ \E c \in cards : IdentityOf(rep.identity, c)
    /\ \E opened \in cards : /\ OpenedOn(rep, opened)
                             /\ \E c \in cards : (c = opened \/ Cards[opened].contactless) /\ SectionOf(rep, c)
    /\ \E c \in cards : rep.emrtd \in {Absent, Cards[c].emrtd}
\* The cards that can have been in a reader since a run began: the one that
\* is there when none was exchanged, any otherwise.
Seen(since, r) == {c \in DOMAIN Cards : since = swaps => slot[r] = c}
\* While cards come and go, a report's token information, counters, flags and
\* certificates are of one card, and without PACE that is the card whose ATR
\* and EF.CardAccess it shows; the identity and the travel document are each
\* of one card, perhaps another.  When no card is exchanged during the run,
\* all of it is of the card in that reader.
ReportOfItsCards ==
    \A p \in Processes : \A i \in DOMAIN chk[p].out : Composed(chk[p].out[i], Seen(chk[p].since, chk[p].out[i].reader))
\* The inspection of a card behind PACE never ends the secure channel: no
\* slot it reads and no counter it asks for makes the card drop it.
ChannelKept == \A p \in Processes : chk[p].s.channel # "ended"

Reports == UNION {Range(chk[p].out) : p \in {q \in Processes : chk[q].out # <<>>}}
Certs == UNION {Range(rep.certs) : rep \in Reports}
ChainOk(c) == c.chain = <<<<"Ok">>>>
\* "Ok" for a chain means that the real authorities issued the certificate,
\* whatever the card carries as its root and whatever the address in the
\* certificate answers.
ChainOkIsGenuine == \A c \in Certs : ChainOk(c) => c.der \in Genuine
\* A certificate whose chain is "Ok" and that is called good, by a list or by
\* an answer with the nonce that was sent, is not revoked.
GoodIsNotRevoked ==
    \A c \in Certs :
      /\ ChainOk(c)
      /\ c.crl = <<<<"Status", "Good">>>> \/ c.ocsp = <<<<"Status", "Good", "Ok">>>>
      => c.der \notin Revoked
\* A document signer that checks against the master lists is a real one: no
\* list, and no signer of a list, vouches for itself.
DscOkIsGenuine == \A rep \in Reports : rep.dsc = <<"Ok">> => rep.emrtd[1].dsc \in Genuine
\* With the real master lists, in LDIF or DER, a real document is recognised
\* and the lists are no reason to end the run.
DocumentRecognised ==
    \A p \in Processes : chk[p].pc = "done" /\ chk[p].opts # Absent =>
      (chk[p].opts[1].icao_pkd /\ chk[p].opts[1].world \in HonestLists =>
         /\ chk[p].err \notin {"IcaoPkdRead", "IcaoPkdParse"}
         /\ \A rep \in Range(chk[p].out) :
              rep.emrtd # Absent /\ rep.emrtd[1].dsc \in Genuine => rep.dsc = <<"Ok">>)

\* The facts of a report are of the cards it is about, read over an unbroken
\* channel.
ReportFaithful == CheckTypeOK /\ ReportOfItsCards /\ ChannelKept
\* The verdicts of a report are true of the certificates it names.
VerdictsGenuine == ChainOkIsGenuine /\ GoodIsNotRevoked /\ DscOkIsGenuine /\ DocumentRecognised
=============================================================================
