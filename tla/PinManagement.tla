--------------------------- MODULE PinManagement ---------------------------
(***************************************************************************)
(* PIN management: `card change-pin', `card unblock-pin' and `card         *)
(* activate' (refineid-client/src/card_pin.rs, cli/card_*.rs) and the same *)
(* operations of the graphical client (card_manager.rs, refineid-gui),     *)
(* run by several processes that share one reader.                         *)
(*                                                                         *)
(* A command works in up to three sessions with the card: the trust gate   *)
(* (pinned root, serial bound), a probe or classification, and, after the  *)
(* credentials were collected, the modify session.  The first two are Read *)
(* sessions: others use the card between them, and the card may be swapped.*)
(* The modify session is a PinSequence: one PC/SC transaction is held over *)
(* SELECT, re_verify_session, probe, re_verify_session and the modify APDU.*)
(*                                                                         *)
(* The card is external.  Its retry counters follow FINEID S1: a wrong     *)
(* code costs one try and ends the verified state, a right one restores    *)
(* the counter.  A connection is dead once its card has left the reader.   *)
(***************************************************************************)
EXTENDS Integers, FiniteSets

CONSTANTS
    Procs, Cards, NoCard, NoProc,
    Trusted,        \* cards whose on-card root is pinned
    Generation,     \* [Cards -> {"Older", "Newer"}]
    ReportsChange,  \* cards that return the PIN-changed flag
    BlockedStatus,  \* how an Older card in factory state answers the probe
    StartTries,     \* counters a card in use may start with
    MaxRuns,        \* bound on the commands started
    MaxSwaps,       \* bound on the cards inserted
    MaxForeign      \* bound on the VERIFYs of other software

MaxTries == 5       \* the FINEID five-attempt counter
Slots == {"pin1", "pin2"}
Flows == {"change", "unblock", "activate"}

\* The steps of a command; Held is the modify session.
Held == {"verify1", "probe", "verify2", "send1", "verify3", "send2", "stop"}
Pcs  == {"idle", "gate", "floor", "classify", "prompt", "open"} \cup Held

ASSUME PinAssumption ==
    /\ NoCard \notin Cards /\ NoProc \notin Procs
    /\ Trusted \subseteq Cards
    /\ Generation \in [Cards -> {"Older", "Newer"}]
    /\ ReportsChange \subseteq Cards
    /\ BlockedStatus \in {"NoInfo", "Locked"}
    /\ StartTries \subseteq 0 .. MaxTries
    /\ MaxRuns \in Nat /\ MaxSwaps \in Nat /\ MaxForeign \in Nat

VARIABLES
    reader,                         \* the card in the reader
    tries, puk, verified, changed,  \* the cards: counters, verified slots,
                                    \*   slots set since manufacture
    lock,                           \* holder of the PC/SC transaction
    proc,                           \* the processes
    last,                           \* history: the code sent in the last step
    runs, swaps, foreign            \* bounds

cards == <<tries, puk, verified, changed>>
bounds == <<runs, swaps, foreign>>
vars == <<reader, cards, lock, proc, last, bounds>>

\* What a process knows: the step it is at, the operator's choices, the card the
\* operator meant, the serial the gate bound, whether the card told the preflight
\* of an activation its state, and its connection.
Process == [pc : Pcs, ui : {"cli", "gui"}, flow : Flows, slot : Slots,
            meant : Cards \cup {NoCard}, bound : Cards \cup {NoCard},
            code : {"right", "wrong"}, allow : BOOLEAN, told : {"yes", "no"},
            conn : Cards \cup {NoCard}, spent : Nat]

Idle == [pc |-> "idle", ui |-> "cli", flow |-> "change", slot |-> "pin1",
         meant |-> NoCard, bound |-> NoCard, code |-> "wrong", allow |-> FALSE, told |-> "no",
         conn |-> NoCard, spent |-> 0]

NothingSent == [flow |-> "none"]

Init ==
    /\ reader \in Cards \cup {NoCard}
    /\ changed \in [Cards -> {{}, Slots}]
    /\ tries \in [Cards -> [Slots -> StartTries \cup {0, MaxTries}]]
    /\ \A c \in Cards : \A s \in Slots :
         IF changed[c] = {}
         THEN tries[c][s] = IF Generation[c] = "Older" THEN 0 ELSE MaxTries
         ELSE tries[c][s] \in StartTries
    /\ puk = [c \in Cards |-> MaxTries]
    /\ verified = [c \in Cards |-> {}]
    /\ lock = NoProc
    /\ proc = [p \in Procs |-> Idle]
    /\ last = NothingSent
    /\ runs = 0 /\ swaps = 0 /\ foreign = 0

-----------------------------------------------------------------------------
(* What the card answers and how the program reads it.                     *)

\* The empty VERIFY of pin_status, through classify_pin_status_sw.
pin_status(c, s) ==
    IF Generation[c] = "Older" /\ s \notin changed[c] THEN BlockedStatus
    ELSE IF tries[c][s] = 0 THEN "Locked"
    ELSE IF s \in verified[c] THEN "Verified" ELSE "Remaining"

pin_looks_activated(c, s) == pin_status(c, s) \in {"Remaining", "Verified", "Locked"}

\* PinRetryRisk::permits_consumer of the counter.
permits_consumer(n) == n \notin {1, 2}

\* card_manager_pin_change_available; check_retry_floor of the CLI; the GUI's form.
pin_change_available(c, s) ==
    \/ pin_status(c, s) = "Verified"
    \/ pin_status(c, s) = "Remaining" /\ permits_consumer(tries[c][s])

\* pin_changed_flag of PIN1, where the card has it.
pin_changed_flag(c) ==
    IF c \notin ReportsChange THEN "None"
    ELSE IF "pin1" \in changed[c] THEN "changed" ELSE "factory"

\* The two probes of the activation preflight, pin_status(Pin1).ok() and
\* pin_changed_flag(Pin1).ok().flatten(): an exchange that fails leaves None, an
\* unknown status word Other.
Probes(c) == [pin1 : {pin_status(c, "pin1"), "Other", "None"},
              flag : {pin_changed_flag(c), "None"}]

\* Mutant: a set PIN1 of a new-scheme card does not count.
looks_activated_by_status(generation, probes) ==
    generation = "Older" /\ probes.pin1 \in {"Remaining", "Verified", "Locked"}

\* classify_preflight: the PIN-changed flag (Newer), which counts only next to a
\* PIN1 probe that was answered, or that probe (Older).
looks_activated(generation, probes) ==
    IF generation = "Newer" THEN probes.flag = "changed" /\ probes.pin1 # "None"
    ELSE probes.pin1 \in {"Remaining", "Verified", "Locked"}

\* The probes that looks_activated goes by were answered.
Answered(generation, probes) ==
    IF generation = "Newer" THEN probes.flag # "None" /\ probes.pin1 # "None"
    ELSE probes.pin1 \notin {"None", "Other"}

\* show_selected_card: which form the GUI arms for the card it inspected.
FormAvailable(c, flow, s) ==
    LET factory == /\ c \in ReportsChange /\ "pin1" \notin changed[c]
                   /\ Generation[c] = "Older" => pin_status(c, "pin1") = "Locked"
    IN  CASE flow = "activate" -> factory
          [] flow = "unblock"  -> ~factory /\ pin_status(c, s) = "Locked"
          [] flow = "change"   -> ~factory /\ pin_change_available(c, s)

-----------------------------------------------------------------------------
(* Steps of a command.  Every early return drops the transport, which ends *)
(* its transaction, and the credentials.                                   *)

\* No code is sent in this step.
Silent == last' = NothingSent

Goto(p, step) == proc' = [proc EXCEPT ![p].pc = step]

\* Mutant: a transaction that was kept open is not ended with the transport.
EndLeaksTransaction(p) ==
    /\ proc' = [proc EXCEPT ![p] = Idle]
    /\ UNCHANGED lock

End(p) ==
    /\ proc' = [proc EXCEPT ![p] = Idle]
    /\ lock' = IF lock = p THEN NoProc ELSE lock

\* ... run() of the CLI: the trust gate comes first.
StartCli(p) ==
    /\ proc[p].pc = "idle" /\ runs < MaxRuns
    /\ \E flow \in Flows, s \in Slots, allow \in BOOLEAN :
         /\ flow # "activate" => ~allow
         /\ flow = "activate" => s = "pin1"
         /\ proc' = [proc EXCEPT ![p] = [Idle EXCEPT !.pc = "gate", !.flow = flow,
                                                     !.slot = s, !.allow = allow]]
    /\ runs' = runs + 1
    /\ Silent
    /\ UNCHANGED <<reader, cards, lock, swaps, foreign>>

\* The GUI inspects and shows the card; the operator fills in the form.
StartGui(p) ==
    /\ proc[p].pc = "idle" /\ runs < MaxRuns
    /\ lock = NoProc /\ reader # NoCard
    /\ \E flow \in Flows, s \in Slots :
         /\ flow = "activate" => s = "pin1"
         /\ FormAvailable(reader, flow, s)
         /\ proc' = [proc EXCEPT ![p] = [Idle EXCEPT !.pc = "prompt", !.ui = "gui",
                           !.flow = flow, !.slot = s, !.meant = reader]]
    /\ runs' = runs + 1
    /\ Silent
    /\ UNCHANGED <<reader, cards, lock, swaps, foreign>>

\* establish_trusted_session: the root is pinned; the GUI's change_pin and
\* unblock_pin also compare the displayed serial (ensure_displayed_serial).
GatePasses(p) ==
    /\ reader \in Trusted
    /\ proc[p].ui = "gui" /\ proc[p].flow # "activate" => reader = proc[p].meant

\* Mutant: every command but activation is stopped by the retry floor.
AfterGateFloor(p) == IF proc[p].flow = "activate" THEN "classify" ELSE "floor"

AfterGate(p) ==
    CASE proc[p].flow = "activate" -> "classify"
      [] proc[p].flow # "activate" /\ proc[p].ui = "gui" -> "open"
      [] proc[p].flow = "change" /\ proc[p].ui = "cli" -> "floor"
      [] proc[p].flow = "unblock" /\ proc[p].ui = "cli" -> "prompt"

EstablishTrustedSession(p) ==
    /\ proc[p].pc = "gate" /\ lock = NoProc
    /\ GatePasses(p)
    /\ proc' = [proc EXCEPT ![p].bound = reader, ![p].pc = AfterGate(p)]
    /\ Silent
    /\ UNCHANGED <<reader, cards, lock, bounds>>

\* probe_pin_status_for_cli and check_retry_floor.
FloorPasses(p) == reader = proc[p].bound /\ pin_change_available(reader, proc[p].slot)

ProbeForCli(p) ==
    /\ proc[p].pc = "floor" /\ lock = NoProc
    /\ FloorPasses(p)
    /\ Goto(p, "prompt")
    /\ Silent
    /\ UNCHANGED <<reader, cards, lock, bounds>>

\* classify_card_for_activation, second phase, and the length check: a code
\* typed for a card of the other generation has the wrong length.
ClassifyPasses(p) ==
    /\ reader = proc[p].bound
    /\ proc[p].ui = "gui" => Generation[reader] = Generation[proc[p].meant]

Classify(p) ==
    /\ proc[p].pc = "classify" /\ lock = NoProc
    /\ ClassifyPasses(p)
    /\ Goto(p, IF proc[p].ui = "gui" THEN "open" ELSE "prompt")
    /\ Silent
    /\ UNCHANGED <<reader, cards, lock, bounds>>

\* The operator types the codes, for the card the program has named.
Prompt(p) ==
    /\ proc[p].pc = "prompt"
    /\ \E code \in {"right", "wrong"} :
         proc' = [proc EXCEPT ![p].code = code,
                    ![p].meant = IF proc[p].ui = "gui" THEN proc[p].meant ELSE proc[p].bound,
                    ![p].pc = IF proc[p].ui = "gui" THEN "gate" ELSE "open"]
    /\ Silent
    /\ UNCHANGED <<reader, cards, lock, bounds>>

\* Mutant: the modify session is a Read session, no transaction is held.
OpenSessionRead(p) ==
    /\ proc[p].pc = "open" /\ lock = NoProc /\ reader # NoCard
    /\ proc' = [proc EXCEPT ![p].pc = "verify1", ![p].conn = reader]
    /\ Silent
    /\ UNCHANGED <<reader, cards, lock, bounds>>

\* open_session(PinSequence): blocks while another transaction is held.
OpenSession(p) ==
    /\ proc[p].pc = "open" /\ lock = NoProc /\ reader # NoCard
    /\ lock' = p
    /\ proc' = [proc EXCEPT ![p].pc = "verify1", ![p].conn = reader]
    /\ Silent
    /\ UNCHANGED <<reader, cards, bounds>>

\* Mutant: any serial will do.
ReVerifyAny(p, from, to) ==
    /\ proc[p].pc = from /\ proc[p].conn # NoCard
    /\ Goto(p, to)
    /\ Silent
    /\ UNCHANGED <<reader, cards, lock, bounds>>

\* re_verify_session on the live connection.
ReVerify(p, from, to) ==
    /\ proc[p].pc = from /\ proc[p].conn # NoCard
    /\ proc[p].conn = proc[p].bound
    /\ Goto(p, to)
    /\ Silent
    /\ UNCHANGED <<reader, cards, lock, bounds>>

MayModify(p, c, probes) ==
    CASE proc[p].flow = "change"   -> pin_looks_activated(c, proc[p].slot)
                                      /\ pin_change_available(c, proc[p].slot)
      [] proc[p].flow = "unblock"  -> pin_looks_activated(c, proc[p].slot)
      [] proc[p].flow = "activate" -> proc[p].allow \/ ~looks_activated(Generation[c], probes)

\* The probes of the modify session.  A command that changes or unblocks a PIN
\* ends when its probe fails (Fault); an activation goes on without the answer.
Probe(p) ==
    /\ proc[p].pc = "probe" /\ proc[p].conn # NoCard
    /\ \E probes \in Probes(proc[p].conn) :
         /\ MayModify(p, proc[p].conn, probes)
         /\ proc' = [proc EXCEPT ![p].pc = "verify2",
                       ![p].told = IF /\ proc[p].flow = "activate"
                                      /\ Answered(Generation[proc[p].conn], probes)
                                   THEN "yes" ELSE "no"]
    /\ Silent
    /\ UNCHANGED <<reader, cards, lock, bounds>>

\* The early returns: no card or another card, not trusted, refused by a probe,
\* a dead connection; and the return after a refused code.
Refuse(p) ==
    /\ \/ proc[p].pc = "gate" /\ lock = NoProc /\ ~GatePasses(p)
       \/ proc[p].pc = "floor" /\ lock = NoProc /\ ~FloorPasses(p)
       \/ proc[p].pc = "classify" /\ lock = NoProc /\ ~ClassifyPasses(p)
       \/ proc[p].pc = "open" /\ reader = NoCard
       \/ proc[p].pc \in Held /\ proc[p].conn = NoCard
       \/ proc[p].pc \in {"verify1", "verify2", "verify3"} /\ proc[p].conn # proc[p].bound
       \/ proc[p].pc = "probe" /\ proc[p].conn # NoCard
            /\ \E probes \in Probes(proc[p].conn) : ~MayModify(p, proc[p].conn, probes)
       \/ proc[p].pc = "stop"
    /\ End(p)
    /\ Silent
    /\ UNCHANGED <<reader, cards, bounds>>

\* The operator gives up, an exchange with the card fails, or the process dies.
Fault(p) ==
    /\ proc[p].pc # "idle"
    /\ End(p)
    /\ Silent
    /\ UNCHANGED <<reader, cards, bounds>>

-----------------------------------------------------------------------------
(* The modify APDU and the card's side of it.                              *)

\* RESET RETRY COUNTER presents the PUK, CHANGE REFERENCE DATA the PIN.
UsesPuk(p) ==
    \/ proc[p].flow = "unblock"
    \/ proc[p].flow = "activate" /\ Generation[proc[p].bound] = "Older"

\* The activation code is a Newer card's PIN until that PIN is set.
Right(p, c, s) ==
    /\ proc[p].meant = c /\ proc[p].code = "right"
    /\ proc[p].flow = "activate" /\ ~UsesPuk(p) => s \notin changed[c]

Sent(p, c, s) ==
    last' = [flow |-> proc[p].flow, ui |-> proc[p].ui, allow |-> proc[p].allow,
             told |-> proc[p].told, card |-> c, meant |-> proc[p].meant,
             pin |-> ~UsesPuk(p), tries |-> tries[c][s],
             factory |-> "pin1" \notin changed[c], slot |-> s]

CardAccepts(p, c, s) ==
    /\ Right(p, c, s)
    /\ IF UsesPuk(p) THEN puk[c] > 0 ELSE tries[c][s] > 0
    /\ tries' = [tries EXCEPT ![c][s] = MaxTries]
    /\ puk' = IF UsesPuk(p) THEN [puk EXCEPT ![c] = MaxTries] ELSE puk
    /\ verified' = [verified EXCEPT ![c] = @ \ {s}]
    /\ changed' = [changed EXCEPT ![c] = @ \cup {s}]

CardRefuses(p, c, s) ==
    /\ ~(Right(p, c, s) /\ IF UsesPuk(p) THEN puk[c] > 0 ELSE tries[c][s] > 0)
    /\ IF UsesPuk(p)
       THEN /\ puk' = [puk EXCEPT ![c] = IF @ > 0 THEN @ - 1 ELSE 0]
            /\ UNCHANGED <<tries, verified>>
       ELSE /\ tries' = [tries EXCEPT ![c][s] = IF @ > 0 THEN @ - 1 ELSE 0]
            /\ verified' = [verified EXCEPT ![c] = @ \ {s}]
            /\ UNCHANGED puk
    /\ UNCHANGED changed

\* A PIN that another command has replaced is no longer the right one.
Outdated(q, p, c, s) ==
    q # p /\ proc[q].flow = "change" /\ proc[q].slot = s /\ proc[q].meant = c

SetSlot(p, from, to, s) ==
    LET c == proc[p].conn IN
    /\ proc[p].pc = from /\ c # NoCard
    /\ CardAccepts(p, c, s)
    /\ Sent(p, c, s)
    /\ LET after == [q \in Procs |->
             IF Outdated(q, p, c, s) THEN [proc[q] EXCEPT !.code = "wrong"] ELSE proc[q]]
       IN  IF to = "done"
           THEN proc' = [after EXCEPT ![p] = Idle] /\ lock' = IF lock = p THEN NoProc ELSE lock
           ELSE proc' = [after EXCEPT ![p].pc = to] /\ UNCHANGED lock
    /\ UNCHANGED <<reader, bounds>>

\* Mutant: a refused PIN1 does not stop the activation.
RefusedGoesOn(p, from, s) ==
    LET c == proc[p].conn IN
    /\ proc[p].pc = from /\ c # NoCard
    /\ CardRefuses(p, c, s)
    /\ Sent(p, c, s)
    /\ IF proc[p].flow = "activate" /\ from = "send1"
       THEN /\ proc' = [proc EXCEPT ![p].pc = "verify3", ![p].spent = @ + 1]
            /\ UNCHANGED lock
       ELSE /\ proc' = [proc EXCEPT ![p].pc = "stop", ![p].spent = @ + 1]
            /\ UNCHANGED lock
    /\ UNCHANGED <<reader, bounds>>

\* Any outcome but Ok ends the command (activation_continues_after_pin1).
Refused(p, from, s) ==
    LET c == proc[p].conn IN
    /\ proc[p].pc = from /\ c # NoCard
    /\ CardRefuses(p, c, s)
    /\ Sent(p, c, s)
    /\ proc' = [proc EXCEPT ![p].pc = "stop", ![p].spent = @ + 1]
    /\ UNCHANGED <<lock, reader, bounds>>

\* change_pin_first, unblock_pin_first, activate_first.
Modify(p) ==
    \/ /\ proc[p].flow # "activate"
       /\ SetSlot(p, "send1", "done", proc[p].slot) \/ Refused(p, "send1", proc[p].slot)
    \/ /\ proc[p].flow = "activate"
       /\ \/ SetSlot(p, "send1", "verify3", "pin1") \/ Refused(p, "send1", "pin1")
          \/ SetSlot(p, "send2", "done", "pin2")    \/ Refused(p, "send2", "pin2")

-----------------------------------------------------------------------------
(* The world: the card leaves, another is inserted, other software uses it.*)

Remove ==
    /\ reader # NoCard
    /\ reader' = NoCard
    /\ lock' = NoProc
    /\ proc' = [p \in Procs |-> [proc[p] EXCEPT !.conn = NoCard]]
    /\ verified' = [verified EXCEPT ![reader] = {}]
    /\ Silent
    /\ UNCHANGED <<tries, puk, changed, bounds>>

Insert ==
    /\ reader = NoCard /\ swaps < MaxSwaps
    /\ \E c \in Cards : reader' = c
    /\ swaps' = swaps + 1
    /\ Silent
    /\ UNCHANGED <<cards, lock, proc, runs, foreign>>

\* Another application verifies a PIN, in a transaction of its own.
ForeignVerify ==
    /\ lock = NoProc /\ reader # NoCard /\ foreign < MaxForeign
    /\ \E s \in Slots, right \in BOOLEAN :
         /\ tries[reader][s] > 0
         /\ tries' = [tries EXCEPT ![reader][s] = IF right THEN MaxTries ELSE @ - 1]
         /\ verified' = [verified EXCEPT ![reader] = IF right THEN @ \cup {s} ELSE @ \ {s}]
    /\ foreign' = foreign + 1
    /\ Silent
    /\ UNCHANGED <<reader, puk, changed, lock, proc, runs, swaps>>

Step(p) ==
    \/ EstablishTrustedSession(p) \/ ProbeForCli(p) \/ Classify(p) \/ OpenSession(p)
    \/ ReVerify(p, "verify1", "probe") \/ Probe(p)
    \/ ReVerify(p, "verify2", "send1") \/ Modify(p)
    \/ ReVerify(p, "verify3", "send2") \/ Refuse(p)

Next ==
    \/ \E p \in Procs : StartCli(p) \/ StartGui(p) \/ Prompt(p) \/ Step(p) \/ Fault(p)
    \/ Remove \/ Insert \/ ForeignVerify

(***************************************************************************)
(* Fairness: a command goes on, or returns early, unless it waits for its  *)
(* operator or for the transaction of another.  Nothing is assumed of      *)
(* operators, cards, faults and other software.                            *)
(***************************************************************************)
Spec == Init /\ [][Next]_vars
FairSpec == Spec /\ \A p \in Procs : WF_vars(Step(p))

-----------------------------------------------------------------------------
(* Properties.                                                             *)

(***************************************************************************)
(* Type invariant.                                                         *)
(***************************************************************************)
TypeOK ==
    /\ reader \in Cards \cup {NoCard}
    /\ tries \in [Cards -> [Slots -> 0 .. MaxTries]]
    /\ puk \in [Cards -> 0 .. MaxTries]
    /\ verified \in [Cards -> SUBSET Slots]
    /\ changed \in [Cards -> SUBSET Slots]
    /\ lock \in Procs \cup {NoProc}
    /\ proc \in [Procs -> Process]
    /\ \A p \in Procs :
         /\ proc[p].pc \in {"classify", "verify3", "send2"} => proc[p].flow = "activate"
         /\ proc[p].pc = "floor" => proc[p].flow = "change" /\ proc[p].ui = "cli"
    /\ runs \in 0 .. MaxRuns /\ swaps \in 0 .. MaxSwaps /\ foreign \in 0 .. MaxForeign

(***************************************************************************)
(* A code is only ever presented to a trusted card, the one the operator   *)
(* typed it for, however the card is swapped between the sessions          *)
(* (re_verify_session, ensure_displayed_serial).  Activation in the GUI   *)
(* compares no serial and is left out.                                     *)
(***************************************************************************)
CodesReachMeantCard ==
    last # NothingSent =>
        /\ last.card \in Trusted
        /\ last.ui = "cli" \/ last.flow # "activate" => last.card = last.meant

(***************************************************************************)
(* The retry floor: a PIN change never presents a PIN when one or two      *)
(* attempts are left, even if other software spent attempts after the      *)
(* first probe ("a PIN one or two attempts from lockout is never touched").*)
(***************************************************************************)
ChangeKeepsFloor == last.flow = "change" => permits_consumer(last.tries) /\ last.tries > 0

(***************************************************************************)
(* One command costs at most one attempt on all counters together: an      *)
(* activation whose code is refused for PIN1 does not try PIN2.            *)
(***************************************************************************)
OneTryPerCommand == \A p \in Procs : proc[p].spent <= 1

(***************************************************************************)
(* Without --allow-reactivate a card that answers the probes of the        *)
(* preflight is sent an activation code only in factory state, also when   *)
(* two activations race for it.  Nothing is promised of a card that does   *)
(* not answer: there the code is sent, and costs one attempt               *)
(* (OneTryPerCommand) if the card was in use.                              *)
(***************************************************************************)
ActivatesFactoryCards ==
    last.flow = "activate" =>
        last.allow \/ last.factory \/ last.slot = "pin2" \/ last.told = "no"

(***************************************************************************)
(* Prompts are answered outside the transaction: a command waiting for the *)
(* reader gets it or fails even if another operator never answers.         *)
(***************************************************************************)
WaitersProceed == \A p \in Procs : (proc[p].pc = "open") ~> (proc[p].pc # "open")

=============================================================================
