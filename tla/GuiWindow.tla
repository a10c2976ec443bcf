----------------------------- MODULE GuiWindow -----------------------------
(***************************************************************************)
(* The window of the graphical client (main.rs of refineid-gui and         *)
(* card_manager.rs): an event loop that must not block, an inspection      *)
(* thread, a presence monitor, a signing thread and a pairing thread.      *)
(*                                                                         *)
(* win is what the event loop owns; the threads reach it by two channels   *)
(* (results, signed) that timers poll and by closures posted to the loop.  *)
(* Handlers run one at a time; the one that inspects by itself (after an   *)
(* unblocking) keeps the loop until it is done.  The .slint file disables  *)
(* every button while busy is set, cancelling a pairing apart, but not the *)
(* fields.                                                                 *)
(***************************************************************************)
EXTENDS CardCheck
CONSTANTS
    DateOf,                \* calendar dates of the times in certificates
    NewPins,               \* what the user may type for a new PIN, as digits
    DENIED_PINS,
    Phones,                \* by name: [name, cert], cert perhaps Absent
    InspectOptions,        \* inspect_cards: offline, no CAN, no filter
    GuiStarts,             \* the cards in the readers when the window opens,
                           \*   and what will be done at most:
                           \*   [slot, changes, clicks, pairing]
    CliStarts,             \* and when `card` runs: [slot, opts, changes]
    MaxDocuments,          \* bound: documents chosen
    MaxClicks              \* bound: what the user does
ASSUME WindowAssumption ==
    /\ MaxDocuments \in Nat \ {0} /\ MaxClicks \in Nat
    /\ InspectOptions \in Options /\ \A x \in CliStarts : x.opts \in Options
    /\ \A x \in GuiStarts \cup CliStarts : /\ x.slot \in [Range(Readers) -> DOMAIN Cards \cup {NoCard, Unplugged}]
                                         /\ x.changes \in 0..MaxSwaps
    /\ \A x \in GuiStarts : x.clicks \in 0..MaxClicks /\ x.pairing \in {"off", "idle"}
\* The entry of a phone is called "Mobile: ..." and no reader is.
ASSUME PhoneAssumption == \A n \in DOMAIN Phones : Phones[n].name \notin Range(Readers)

VARIABLES
    win, posted, results, managed,
    monitor, signer, signed, pairing, pairs,
    misdirected,           \* the secrets sent to another card than typed for
    clicks                 \* how often the user did something
threads == <<monitor, signer, signed, pairing, pairs>>
guiVars == <<win, posted, results, managed, monitor, signer, signed, pairing, pairs, misdirected>>
vars == <<slot, swaps, chk, guiVars, clicks>>

Closed == [open |-> FALSE, busy |-> FALSE, in_flight |-> FALSE, cards |-> <<>>, selected_reader |-> Absent,
           displayed_serial |-> Absent, shown |-> 0, form |-> Absent, pdf_pin2 |-> Absent, documents |-> 0,
           image |-> Absent, cache |-> <<>>, pairing_active |-> FALSE]

(***************************************************************************)
(* What is shown                                                           *)
(***************************************************************************)

\* disarm_management_forms, with disarm_recovery_form, and disarm_pdf_signing.
disarm_management_forms(w) == [w EXCEPT !.form = Absent]
disarm_pdf_signing(w) == [w EXCEPT !.pdf_pin2 = Absent]

\* clear_card_data: the images stay, on purpose.
clear_card_data(w) == [disarm_pdf_signing(disarm_management_forms(w)) EXCEPT !.shown = 0]
clear_card_context(w) ==
    clear_card_data([w EXCEPT !.cards = <<>>, !.selected_reader = Absent, !.displayed_serial = Absent])

\* card_key: the serial, else the name and the ATR.
card_key(m) == IF m.serial # Absent THEN <<"serial", m.serial[1]>> ELSE <<"fallback", m.person, m.atr>>

\* pin_locked and pin_change_available.
pin_locked(st) == st = <<<<"Locked">>>> \/ st = <<<<"Remaining", 0>>>>
pin_change_available(st) ==
    st # Absent /\ (st[1] = <<"Verified">> \/ (st[1][1] = "Remaining" /\ st[1][2] > 2))
\* show_selected_card: the operations the window offers for a card.
operations(m) ==
    LET factory == m.pin1_changed = <<FALSE>>
        activation == /\ m.context # Absent
                      /\ \/ m.context[1].generation = "Newer" /\ factory
                         \/ m.context[1].generation = "Older" /\ factory /\ pin_locked(m.pin1) IN
    IF activation THEN {"activate"}
    ELSE {k \in {"unblock1", "unblock2"} : m.context # Absent /\ pin_locked(IF k = "unblock1" THEN m.pin1 ELSE m.pin2)}
         \cup {k \in {"change1", "change2"} : pin_change_available(IF k = "change1" THEN m.pin1 ELSE m.pin2)}
kind(op) == CASE op \in {"unblock1", "unblock2"} -> "unblock" [] op \in {"change1", "change2"} -> "change" [] OTHER -> op

\* show_cached_images.
show_cached_images(w, m) ==
    [w EXCEPT !.image = IF card_key(m) \in DOMAIN w.cache THEN w.cache[card_key(m)] ELSE Absent]

\* show_selected_card.
show_selected_card(w, i) ==
    IF i \notin DOMAIN w.cards THEN clear_card_data([w EXCEPT !.displayed_serial = Absent])
    ELSE LET m == w.cards[i] IN
         show_cached_images([w EXCEPT !.shown = i,
             !.displayed_serial = IF m.serial = Absent THEN Absent ELSE <<render_token_serial(m.serial[1])>>], m)

\* apply_inspected_cards.
MutApplyInspectedCards(w, cards) ==           \* Mutant: a PIN typed for signing stays
    IF cards = <<>> THEN clear_card_context(w)
    ELSE show_selected_card([disarm_management_forms(w) EXCEPT !.cards = cards, !.selected_reader = <<cards[1].reader>>], 1)
apply_inspected_cards(w, cards) ==
    LET clean == [disarm_pdf_signing(disarm_management_forms(w)) EXCEPT !.displayed_serial = Absent]
        kept == FirstOf({i \in DOMAIN cards : w.selected_reader = <<cards[i].reader>>})
        selected == IF kept = 0 THEN 1 ELSE kept IN
    IF cards = <<>> THEN clear_card_context(clean)
    ELSE show_selected_card([clean EXCEPT !.cards = cards, !.selected_reader = <<cards[selected].reader>>], selected)

\* management_state_matches.
management_state_matches(current, fresh) ==
    /\ Len(current) = Len(fresh)
    /\ \A i \in DOMAIN current : \E j \in DOMAIN fresh :
         /\ current[i].serial # Absent
         /\ \A f \in {"reader", "serial", "pin1", "pin2", "puk", "pin1_changed", "pin2_changed"} :
              current[i][f] = fresh[j][f]

(***************************************************************************)
(* Inspections                                                             *)
(***************************************************************************)

\* request_card_inspection: at most one thread; busy only when one is started.
request_card_inspection(w) == [w EXCEPT !.busy = TRUE, !.in_flight = TRUE]
Request(w) ==
    IF w.in_flight THEN win' = w /\ UNCHANGED chk
    ELSE win' = request_card_inspection(w) /\ chk' = [chk EXCEPT !["inspection"] = Called(InspectOptions)]

\* prepare_activation with the reader's name as filter, in sessions of its
\* own: establish_trusted_session and classify_card_for_activation.
SerialOf(token) ==
    IF token.err # "" THEN Absent
    ELSE IF token.value.serial = Absent THEN Absent ELSE <<render_token_serial(token.value.serial[1])>>
Trusted(k, root, auth) ==
    LET Context(cert, serial) ==
          IF ~Ok(cert) \/ serial = Absent THEN Absent
          ELSE <<[generation |-> classify_card_generation_by_issuance(DateOf[cert.not_before]), serial |-> serial[1]]>> IN
    IF root.err # "" THEN Absent
    ELSE IF ~is_pinned_root(root.value[1]) \/ auth.err # "" THEN Absent
    ELSE Context(Certificate_from_der(auth.value[1]), SerialOf(read_token_info(k, root.s)))
ContextOf(k, c) ==
    IF k.model = Absent THEN Absent
    ELSE Trusted(k, read_certificate(k, Session(c), "RootCa"), read_certificate(k, Session(c), "Authentication"))
\* The reader a command finds by its name.
Picked(r) ==
    LET present == {q \in Plugged : slot[q] # NoCard} IN
    pick_fineid_reader(Plugged, present, {q \in present : Probed(slot[q]) # Absent}, <<{r}>>)
activation_context(r) ==
    LET At(pick) == IF pick[1] # "" THEN Absent ELSE ContextOf(Cards[slot[pick[2]]], slot[pick[2]]) IN
    At(Picked(r))

\* ManagedCard: what the window uses of a report.
ManagedCard(rep, context) ==
    [reader |-> rep.reader, serial |-> rep.token.serial, person |-> person_string(rep.identity), atr |-> rep.atr,
     pin1 |-> rep.pin1, pin2 |-> rep.pin2, puk |-> rep.puk, pin1_changed |-> rep.pin1_changed,
     pin2_changed |-> rep.pin2_changed, context |-> context]
\* The cards of paired phones, from their cached certificates.
MobileCard(phone) ==
    LET Split(cn, blank) ==
          IF blank = 0 THEN [NoIdentity EXCEPT !.surname = NewText(cn)]
          ELSE [NoIdentity EXCEPT !.first_name = NewText(SubSeq(cn, 1, blank - 1)),
                                  !.surname = NewText(SubSeq(cn, blank + 1, Len(cn)))]
        Id(cn) == IF cn = Absent THEN NoIdentity ELSE Split(cn[1], FirstOf({i \in DOMAIN cn[1] : cn[1][i] = " "}))
        Card(cert) == IF ~Ok(cert) THEN <<>>
          ELSE <<[ManagedCard(NoReport, Absent) EXCEPT
                    !.reader = phone.name, !.serial = <<[text |-> Absent, hex |-> <<cert.serial>>]>>,
                    !.person = person_string(Id(dn_attribute(cert.subject, "commonName"))),
                    !.pin1 = <<<<"Verified">>>>, !.pin2 = <<<<"Verified">>>>,
                    !.pin1_changed = <<TRUE>>, !.pin2_changed = <<TRUE>>]>> IN
    IF phone.cert = Absent THEN <<>> ELSE Card(Certificate_from_der(phone.cert[1]))

\* deduplicate_cards, report after report.
Deduplicate(p) ==
    /\ p # "cli" /\ chk[p].pc = "done" /\ chk[p].out # <<>>
    /\ chk' = [chk EXCEPT ![p].out = Tail(@)]
    /\ LET m == ManagedCard(chk[p].out[1], Absent) IN
       IF \E i \in DOMAIN managed[p] : card_key(managed[p][i]) = card_key(m) THEN UNCHANGED managed
       ELSE \E context \in {activation_context(m.reader)} :
              managed' = [managed EXCEPT ![p] = Append(@, [m EXCEPT !.context = context])]
    /\ UNCHANGED <<slot, swaps, win, posted, results, misdirected, threads>>

\* Its end, the phones, and the result: sent by the thread, ...
Inspected(p) == managed[p] \o FlattenSeq([i \in DOMAIN pairs |-> MobileCard(pairs[i])])
SendResult ==
    /\ chk["inspection"].pc = "done" /\ chk["inspection"].out = <<>>
    /\ \E cards \in {Inspected("inspection")} :
         results' = Append(results, [err |-> chk["inspection"].err,
                                     cards |-> IF chk["inspection"].err = "" THEN cards ELSE <<>>])
    /\ chk' = [chk EXCEPT !["inspection"] = Idle]
    /\ managed' = [managed EXCEPT !["inspection"] = <<>>]
    /\ UNCHANGED <<slot, swaps, win, posted, misdirected, threads>>

\* ... or applied by refresh_cards in the event loop.
RefreshEnds ==
    /\ chk["ui"].pc = "done" /\ chk["ui"].out = <<>>
    /\ \E cards \in {Inspected("ui")} :
         win' = [(IF chk["ui"].err = "" THEN apply_inspected_cards(win, cards) ELSE clear_card_context(win)) EXCEPT !.busy = FALSE]
    /\ chk' = [chk EXCEPT !["ui"] = Idle]
    /\ managed' = [managed EXCEPT !["ui"] = <<>>]
    /\ UNCHANGED <<slot, swaps, posted, results, misdirected, threads>>

LoopFree == win.open /\ chk["ui"].pc = "idle"

\* The timer that receives an inspection.
MutReceive(w, r) ==                           \* Mutant: an error leaves the window busy
    IF r.err # "" THEN clear_card_context([w EXCEPT !.in_flight = FALSE])
    ELSE [(IF management_state_matches(w.cards, r.cards) THEN w ELSE apply_inspected_cards(w, r.cards))
            EXCEPT !.in_flight = FALSE, !.busy = FALSE]
Receive(w, r) ==
    LET free == [w EXCEPT !.in_flight = FALSE] IN
    [(IF r.err # "" THEN clear_card_context(free)
      ELSE IF management_state_matches(w.cards, r.cards) THEN free ELSE apply_inspected_cards(free, r.cards))
        EXCEPT !.busy = FALSE]
ReceiveResult ==
    /\ LoopFree /\ results # <<>>
    /\ win' = Receive(win, results[1])
    /\ results' = Tail(results)
    /\ UNCHANGED <<slot, swaps, chk, posted, managed, misdirected, threads>>

(***************************************************************************)
(* The presence monitor                                                    *)
(***************************************************************************)

\* presence_signature.
presence_signature == [r \in Plugged |-> slot[r] # NoCard]
Monitors(m) == monitor' = m /\ UNCHANGED <<slot, swaps, chk, win, results, managed, signer, signed, pairing, pairs, misdirected>>

MonitorStarts ==
    /\ win.open /\ monitor.pc = "start"
    /\ Monitors([pc |-> "compare", baseline |-> presence_signature, seen |-> 0]) /\ UNCHANGED posted
\* wait_for_presence_change: compare, note the state, wait, compare.
MonitorCompares ==
    /\ monitor.pc = "compare"
    /\ Monitors(IF presence_signature # monitor.baseline THEN [monitor EXCEPT !.pc = "settle"]
                ELSE [monitor EXCEPT !.pc = "wait", !.seen = swaps])
    /\ UNCHANGED posted
MonitorWakes ==
    /\ monitor.pc = "wait"
    /\ monitor.seen # swaps
    /\ Monitors([monitor EXCEPT !.pc = IF presence_signature # monitor.baseline THEN "settle" ELSE "compare", !.seen = 0])
    /\ UNCHANGED posted
\* The new baseline is taken after the settling time, and a closure posted.
MonitorPosts ==
    /\ monitor.pc = "settle"
    /\ Monitors([monitor EXCEPT !.pc = "compare", !.baseline = presence_signature, !.seen = 0])
    /\ posted' = Append(posted, "presence")

\* The event loop runs a posted closure.  A presence event that meets a busy
\* window is gone; the end of a pairing asks for an inspection in any case.
MutRunPosted ==                               \* Mutant: a presence event does not look at busy
    /\ LoopFree /\ posted # <<>> /\ posted' = Tail(posted)
    /\ IF posted[1] = "not paired" THEN win' = [win EXCEPT !.pairing_active = FALSE] /\ UNCHANGED chk ELSE Request(win)
    /\ UNCHANGED <<slot, swaps, results, managed, misdirected, threads>>
RunPosted ==
    /\ LoopFree /\ posted # <<>>
    /\ posted' = Tail(posted)
    /\ CASE posted[1] = "presence" -> IF win.busy THEN UNCHANGED <<win, chk>> ELSE Request(win)
         [] posted[1] = "paired" -> Request([win EXCEPT !.pairing_active = FALSE])
         [] posted[1] = "not paired" -> win' = [win EXCEPT !.pairing_active = FALSE] /\ UNCHANGED chk
    /\ UNCHANGED <<slot, swaps, results, managed, misdirected, threads>>

(***************************************************************************)
(* The user                                                                *)
(***************************************************************************)

MayClick == LoopFree /\ ~win.busy
Shows(w) == win' = w /\ UNCHANGED <<slot, swaps, chk, posted, results, managed, misdirected, threads>>

\* on_refresh_card.
Refresh ==
    /\ MayClick /\ Request(win)
    /\ UNCHANGED <<slot, swaps, posted, results, managed, misdirected, threads>>

\* on_select_card.
select_card(w, i) ==
    show_selected_card([disarm_pdf_signing(disarm_management_forms(w)) EXCEPT
                          !.selected_reader = <<w.cards[i].reader>>, !.displayed_serial = Absent], i)
SelectCard(i) == MayClick /\ i \in DOMAIN win.cards /\ Shows(select_card(win, i))

\* The fields, busy or not: what is typed is meant for the card on display.
TypeForm(op) ==
    /\ LoopFree /\ win.shown # 0 /\ win.form = Absent
    /\ op \in operations(win.cards[win.shown])
    /\ Shows([win EXCEPT !.form = <<[kind |-> kind(op), op |-> op, for |-> win.displayed_serial]>>])
TypePin2 ==
    /\ LoopFree /\ win.shown # 0 /\ win.pdf_pin2 = Absent /\ win.documents # 0
    /\ Shows([win EXCEPT !.pdf_pin2 = <<win.displayed_serial>>])
\* on_security_operation_selected, on_sign_operation_selected, on_view_selected.
LeaveForm ==
    /\ MayClick /\ (win.form # Absent \/ win.pdf_pin2 # Absent)
    /\ Shows(disarm_management_forms(win)) \/ Shows(disarm_pdf_signing(win)) \/ Shows(disarm_pdf_signing(disarm_management_forms(win)))

\* on_choose_pdf, on_remove_pdf_document, on_clear_pdf_documents: how many.
ChooseDocuments ==
    /\ MayClick
    /\ \/ win.documents < MaxDocuments /\ Shows([win EXCEPT !.documents = @ + 1])
       \/ win.documents > 0 /\ Shows([win EXCEPT !.documents = @ - 1])
       \/ win.documents > 0 /\ Shows([win EXCEPT !.documents = 0])

\* validate_gui_pin: digits, a length, no run, no repetition, not a known one.
validate_gui_pin(d, minimum) ==
    /\ Len(d) \in minimum..12
    /\ ~\A i \in 1..(Len(d) - 1) : d[i + 1] = (d[i] + 1) % 10
    /\ ~\A i \in 1..(Len(d) - 1) : d[i + 1] = (d[i] + 9) % 10
    /\ ~\E n \in 1..(Len(d) \div 2) : Len(d) % n = 0 /\ SubSeq(d, n + 1, Len(d)) = SubSeq(d, 1, Len(d) - n)
    /\ d \notin DENIED_PINS

\* The card behind the reader that is shown, as the commands of card_pin.rs
\* and card_sign.rs find it, and its serial.
LiveSerial ==
    LET At(pick) == IF pick[1] # "" THEN Absent
                    ELSE SerialOf(read_token_info(Cards[slot[pick[2]]], Session(slot[pick[2]]))) IN
    IF win.selected_reader = Absent THEN Absent ELSE At(Picked(win.selected_reader[1]))

\* ensure_displayed_serial.
ensure_displayed_serial(expected, live) == live # Absent /\ expected = live

\* A secret typed for one card is sent to another.
Sent(op, for, to) == misdirected' = IF for = to THEN misdirected ELSE misdirected \cup {[kind |-> op, for |-> for, to |-> to]}

\* on_change_pin1, on_change_pin2, on_unblock_pin1, on_unblock_pin2: the
\* secrets are taken out of the fields first.  What the card answers is
\* PinManagement's; after an unblocking the handler inspects by itself.
Submit ==
    LET taken == disarm_management_forms(win)
        form == win.form[1] IN
    /\ MayClick /\ win.form # Absent /\ form.kind \in {"change", "unblock"}
    /\ \E new \in NewPins, accepted \in BOOLEAN, live \in {LiveSerial} :
         IF /\ win.displayed_serial # Absent
            /\ validate_gui_pin(new, IF form.op \in {"change1", "unblock1"} THEN 4 ELSE 6)
            /\ ensure_displayed_serial(win.displayed_serial, live)
         THEN /\ Sent(form.kind, form.for, live)
              /\ IF accepted /\ form.kind = "unblock"
                 THEN win' = [taken EXCEPT !.busy = TRUE] /\ chk' = [chk EXCEPT !["ui"] = Called(InspectOptions)]
                 ELSE win' = taken /\ UNCHANGED chk
         ELSE ~accepted /\ win' = taken /\ UNCHANGED <<chk, misdirected>>
    /\ UNCHANGED <<slot, swaps, posted, results, managed, threads>>
\* on_activate_card: the context is made anew, with whatever card is in that
\* reader now; no serial is compared with the one on display.
Activate ==
    /\ MayClick /\ win.form # Absent /\ win.form[1].kind = "activate"
    /\ win' = disarm_management_forms(win)
    /\ \E context \in {activation_context(win.selected_reader[1])}, valid \in BOOLEAN :
         IF valid /\ context # Absent THEN Sent("activate", win.form[1].for, <<context[1].serial>>)
         ELSE UNCHANGED misdirected
    /\ UNCHANGED <<slot, swaps, chk, posted, results, managed, threads>>

\* on_load_images: by reader, without a look at the serial; what was read,
\* or that nothing was, is kept for the card listed in that reader.
LoadImages(can) ==
    LET r == win.selected_reader[1]
        there == win.selected_reader # Absent /\ r \in DOMAIN slot /\ CardIn(r) # NoCard
        image == IF can = Cards[slot[r]].sealed /\ Cards[slot[r]].emrtd # Absent THEN <<slot[r]>> ELSE Absent
        at == FirstOf({i \in DOMAIN win.cards : win.cards[i].reader = r})
        key == card_key(win.cards[at])
        kept == [k \in DOMAIN win.cache \cup {key} |-> IF k = key THEN image ELSE win.cache[k]] IN
    /\ MayClick
    /\ IF win.selected_reader = Absent THEN Shows(clear_card_context(win))
       ELSE IF ~there THEN Shows(clear_card_context(win))
       ELSE Shows([win EXCEPT !.image = image, !.cache = IF at = 0 THEN @ ELSE kept])

(***************************************************************************)
(* Signing                                                                 *)
(***************************************************************************)

\* on_sign_pdf: the PIN leaves the field, the job goes to a thread.
SignPdf ==
    LET taken == disarm_pdf_signing(win) IN
    /\ MayClick /\ win.documents # 0 /\ win.pdf_pin2 # Absent
    /\ IF win.selected_reader = Absent \/ win.displayed_serial = Absent
       THEN win' = taken /\ UNCHANGED signer
       ELSE /\ win' = [taken EXCEPT !.busy = TRUE]
            /\ signer' = Append(signer, [for |-> win.pdf_pin2[1], reader |-> win.selected_reader[1],
                                         expected |-> win.displayed_serial])
    /\ UNCHANGED <<slot, swaps, chk, posted, results, managed, monitor, signed, pairing, pairs, misdirected>>
\* run_pdf_signing, sign_pdf and sign_asice, of any job that runs; the
\* signature is SigningFlow's.
RunPdfSigning(i) ==
    /\ i \in DOMAIN signer
    /\ signer' = [k \in 1..(Len(signer) - 1) |-> signer[IF k < i THEN k ELSE k + 1]]
    /\ signed' = Append(signed, "result")
    /\ \E live \in {IF signer[i].reader \in DOMAIN slot /\ CardIn(signer[i].reader) # NoCard
                    THEN <<render_token_serial(Cards[slot[signer[i].reader]].serial)>> ELSE Absent} :
         IF ensure_displayed_serial(signer[i].expected, live) THEN Sent("sign", signer[i].for, live)
         ELSE UNCHANGED misdirected
    /\ UNCHANGED <<slot, swaps, chk, win, posted, results, managed, monitor, pairing, pairs>>
\* The timer that receives the result: it clears busy, whoever set it.
ReceiveSigned ==
    /\ LoopFree /\ signed # <<>>
    /\ signed' = Tail(signed)
    /\ win' = [win EXCEPT !.busy = FALSE]
    /\ UNCHANGED <<slot, swaps, chk, posted, results, managed, monitor, signer, pairing, pairs, misdirected>>

(***************************************************************************)
(* Pairing a phone                                                         *)
(***************************************************************************)

\* on_start_pairing.
StartPairing ==
    /\ MayClick /\ ~win.pairing_active
    /\ pairing = "idle"                       \* bound: one listener at a time
    /\ win' = [win EXCEPT !.pairing_active = TRUE]
    /\ pairing' = "listening"
    /\ UNCHANGED <<slot, swaps, chk, posted, results, managed, monitor, signer, signed, pairs, misdirected>>
\* Its thread: a listener that fails or a handshake that does, ...
PairingFails ==
    /\ pairing = "listening"
    /\ pairing' = "idle"
    /\ posted' = Append(posted, "not paired")
    /\ UNCHANGED <<slot, swaps, chk, win, results, managed, monitor, signer, signed, pairs, misdirected>>
\* ... or a phone, whose certificate is read where it answers.
PairingSucceeds(phone) ==
    /\ pairing = "listening"
    /\ \A i \in DOMAIN pairs : pairs[i] # phone
    /\ pairing' = "idle"
    /\ pairs' = Append(pairs, phone)
    /\ posted' = Append(posted, "paired")
    /\ UNCHANGED <<slot, swaps, chk, win, results, managed, monitor, signer, signed, misdirected>>
\* on_cancel_pairing: the listener listens on.
CancelPairing ==
    /\ LoopFree /\ win.pairing_active
    /\ Shows([win EXCEPT !.pairing_active = FALSE])

(***************************************************************************)
(* The whole                                                               *)
(***************************************************************************)

CheckSteps(p) ==
    /\ CheckStep(p)
    /\ UNCHANGED <<win, posted, results, managed, misdirected, threads>>
SwapCard ==
    /\ \E r \in Range(Readers), c \in Deck \cup {NoCard, Unplugged} : Swap(r, c)
    /\ UNCHANGED guiVars

Inspections ==
    \/ SendResult \/ RefreshEnds \/ ReceiveResult
    \/ \E p \in {q \in Processes : chk[q].pc # "idle"} : CheckSteps(p) \/ Deduplicate(p)
Monitor == MonitorStarts \/ MonitorCompares \/ MonitorWakes \/ MonitorPosts
User ==
    \/ Refresh \/ LeaveForm \/ TypePin2 \/ ChooseDocuments \/ Submit \/ Activate \/ SignPdf
    \/ StartPairing \/ CancelPairing
    \/ \E i \in 1..3 : SelectCard(i)
    \/ \E op \in {"activate", "change1", "change2", "unblock1", "unblock2"} : TypeForm(op)
    \/ \E can \in {1, 2} : LoadImages(can)
Progress == Inspections \/ Monitor \/ RunPosted \/ ReceiveSigned \/ \E i \in DOMAIN signer : RunPdfSigning(i)
Next ==
    \/ /\ clicks < MaxClicks /\ User
       /\ clicks' = clicks + 1
    \/ /\ Progress \/ SwapCard \/ PairingFails \/ \E n \in DOMAIN Phones : PairingSucceeds(Phones[n])
       /\ UNCHANGED clicks

\* The window runs: Init is the start of main, at its first inspection.
GuiInit(x) ==
    /\ slot = x.slot /\ swaps = MaxSwaps - x.changes /\ clicks = MaxClicks - x.clicks
    /\ chk = [p \in Processes |-> IF p = "inspection" THEN Called(InspectOptions) ELSE Idle]
    /\ pairing = x.pairing                    \* bound: no phone when "off"
    /\ win = [Closed EXCEPT !.open = TRUE, !.busy = TRUE, !.in_flight = TRUE]
\* `card` runs, with so many changes of cards ahead.
CliInit(x) ==
    /\ slot = x.slot /\ swaps = MaxSwaps - x.changes /\ clicks = MaxClicks
    /\ chk = [p \in Processes |-> IF p = "cli" THEN Called(x.opts) ELSE Idle]
    /\ win = Closed /\ pairing = "off"
Quiet ==
    /\ posted = <<>> /\ results = <<>> /\ managed = [p \in Processes |-> <<>>]
    /\ monitor = [pc |-> "start", baseline |-> <<>>, seen |-> 0]
    /\ signer = <<>> /\ signed = <<>> /\ pairs = <<>>
    /\ misdirected = {}

Init ==
    /\ \/ \E x \in GuiStarts : GuiInit(x)
       \/ \E x \in CliStarts : CliInit(x)
    /\ Quiet

\* Threads are scheduled, timers and posted closures run.  (Weak fairness,
\* written with the condition under which each has something to do.)  A
\* signing job need not end: the window names one authority, which is asked
\* again without end when it fails, and one over TLS may stay silent.
Runs(p) == []<>(chk[p].pc = "idle" \/ (p = "cli" /\ chk[p].pc = "done")) \/ []<><<chk'[p] # chk[p]>>_chk
Fairness ==
    /\ Runs("inspection") /\ Runs("ui") /\ Runs("cli")
    /\ []<>(results = <<>> \/ ~LoopFree) \/ []<><<Len(results') < Len(results)>>_results
    /\ []<>(posted = <<>> \/ ~LoopFree) \/ []<><<Len(posted') = Len(posted) - 1>>_posted
    /\ []<>(signed = <<>> \/ ~LoopFree) \/ []<><<Len(signed') < Len(signed)>>_signed
    /\ []<>(~win.open \/ (monitor.pc = "wait" /\ monitor.seen = swaps)) \/ []<><<monitor' # monitor>>_monitor

Spec == Init /\ [][Next]_vars /\ Fairness

(***************************************************************************)
(* Properties                                                              *)
(***************************************************************************)

\* The types.
TypeOK ==
    /\ win.documents \in 0..MaxDocuments /\ win.shown \in 0..Len(win.cards)
    /\ Range(posted) \subseteq {"presence", "paired", "not paired"}
    /\ monitor.pc \in {"start", "compare", "wait", "settle"} /\ pairing \in {"off", "idle", "listening"}
    /\ Len(results) <= 1 /\ clicks \in 0..MaxClicks

\* A PIN or PUK is sent only to the card that was on display when it was
\* typed, across refreshes, selections, swaps and jobs in another thread: by
\* a change, an unblocking and a signature.  An activation alone, which
\* compares no serial, may send its codes to another card.
PresentedToItsCard == \A m \in misdirected : m.kind = "activate"
\* A secret in a field was typed for the card that is on display now: no
\* inspection, selection or clearing leaves one behind for another card.
TypedForDisplayed ==
    /\ win.form # Absent => win.form[1].for = win.displayed_serial /\ win.shown # 0
    /\ win.pdf_pin2 # Absent => win.pdf_pin2[1] = win.displayed_serial /\ win.shown # 0
\* What is shown, what is selected and what a submission will compare are of
\* one listed card.
SelectionConsistent ==
    IF win.shown = 0 THEN win.displayed_serial = Absent
    ELSE /\ win.selected_reader = <<win.cards[win.shown].reader>>
         /\ win.displayed_serial = IF win.cards[win.shown].serial = Absent THEN Absent
                                   ELSE <<render_token_serial(win.cards[win.shown].serial[1])>>
\* Images beside a card were loaded while that card was listed: selecting
\* another card or a new inspection never leaves the last holder's there.
ImagesOfListedCard ==
    win.shown # 0 =>
      win.image = LET key == card_key(win.cards[win.shown]) IN
                  IF key \in DOMAIN win.cache THEN win.cache[key] ELSE Absent
\* The flag in_flight is up exactly while an inspection runs or its result
\* waits, so that there is never a second thread.
OneInspection == win.in_flight <=> chk["inspection"].pc # "idle" \/ results # <<>>
\* The window and the secrets typed into it follow the card on display.
WindowFollowsCard ==
    /\ TypeOK /\ PresentedToItsCard /\ TypedForDisplayed
    /\ SelectionConsistent /\ ImagesOfListedCard /\ OneInspection
\* The window is busy exactly while something is under way, an inspection, a
\* signature or a result to be shown: the end of one never makes the buttons
\* work while the other runs on, and no event starts one beside the other.
\* (Until a phone is paired, whose inspection is asked for without a look at
\* busy.)
BusyWhileWorking ==
    win.open /\ pairs = <<>> =>
      (win.busy <=> \/ chk["inspection"].pc # "idle" \/ results # <<>> \/ chk["ui"].pc # "idle"
                    \/ signer # <<>> \/ signed # <<>>)
\* A busy window becomes usable again, whatever fails meanwhile, unless some
\* signing job never ends.
BusyEnds == (win.busy ~> ~win.busy) \/ <>[](signer # <<>>)
=============================================================================
