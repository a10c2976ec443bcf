------------------------ MODULE PinManagementProofs ------------------------
(***************************************************************************)
(* Theorems about PinManagement, for any number of processes and cards,    *)
(* any trusted set, any generations and any bounds.                        *)
(*                                                                         *)
(* The properties speak of the code sent in a step; none is inductive.     *)
(* They follow from what holds between the steps of a command: only the    *)
(* holder of the transaction is connected (LiveConnections), the serial it *)
(* has bound is trusted, re-verified and the one meant (BoundTrusted,      *)
(* ReVerified, BoundMeant), and what the probe saw is still so when the    *)
(* code is sent (FloorKept, FactoryKept), since nobody else can reach the  *)
(* card meanwhile.                                                         *)
(***************************************************************************)
EXTENDS PinManagement, TLAPS

\* A live connection is to the card in the reader, under the transaction.
LiveConnections ==
    \A p \in Procs : proc[p].conn # NoCard =>
        proc[p].conn = reader /\ lock = p /\ proc[p].pc \in Held

\* The trust gate has been passed; in the GUI the prompt comes before it.
PastGate(p) ==
    \/ proc[p].pc \in {"floor", "classify", "open"} \cup Held
    \/ proc[p].pc = "prompt" /\ proc[p].ui = "cli"

BoundTrusted == \A p \in Procs : PastGate(p) => proc[p].bound \in Trusted

\* After the first re_verify_session the connection is to the bound card, or dead.
ReVerified ==
    \A p \in Procs : proc[p].pc \in Held \ {"verify1"} => proc[p].conn \in {proc[p].bound, NoCard}

\* The bound card is the one the code was typed for, but in the GUI's activation.
BoundMeant ==
    \A p \in Procs :
        /\ proc[p].pc \in {"open"} \cup Held
        /\ proc[p].ui = "cli" \/ proc[p].flow # "activate"
        => proc[p].bound = proc[p].meant

\* A verified PIN has its full counter.
VerifiedFull == \A c \in Cards : \A s \in verified[c] : tries[c][s] = MaxTries

\* p has probed the card and not yet sent a code.
Probed(p) == proc[p].pc \in {"verify2", "send1"} /\ proc[p].conn # NoCard

FloorKept ==
    \A p \in Procs : Probed(p) /\ proc[p].flow = "change" =>
        tries[proc[p].conn][proc[p].slot] \notin {0, 1, 2}

FactoryKept ==
    \A p \in Procs : Probed(p) /\ proc[p].flow = "activate" =>
        proc[p].allow \/ "pin1" \notin changed[proc[p].conn] \/ proc[p].told = "no"

\* An attempt is spent at the last step of a command only.
SpentInv == \A p \in Procs : proc[p].spent = IF proc[p].pc = "stop" THEN 1 ELSE 0

SessionInv == LiveConnections /\ BoundTrusted /\ ReVerified /\ BoundMeant /\ SpentInv

CardInv == VerifiedFull /\ FloorKept /\ FactoryKept

-----------------------------------------------------------------------------
(* What the actions do to the processes.  The lemmas below hide the record *)
(* type: the invariants are then shown from the fields alone.              *)

\* The other processes are left alone.
Others(p) == \A q \in Procs \ {p} : proc'[q] = proc[q]

\* The choices of the operator, which a command keeps to its end.
SameCommand(p) ==
    /\ proc'[p].ui = proc[p].ui /\ proc'[p].flow = proc[p].flow
    /\ proc'[p].slot = proc[p].slot /\ proc'[p].allow = proc[p].allow

\* ... and what the trust gate and the prompt have settled.
SameBinding(p) ==
    SameCommand(p) /\ proc'[p].bound = proc[p].bound /\ proc'[p].meant = proc[p].meant

\* p moves to step x with the connection and the cost it has.
Moves(p, x) ==
    /\ Others(p) /\ SameBinding(p)
    /\ proc'[p].pc = x /\ proc'[p].conn = proc[p].conn /\ proc'[p].spent = proc[p].spent

\* p ends.
Ends(p) ==
    /\ Others(p)
    /\ proc'[p].pc = "idle" /\ proc'[p].conn = NoCard /\ proc'[p].spent = 0

Procs_OK == proc \in [Procs -> Process]

\* The fields of a process have their types.
LEMMA Fields ==
    ASSUME Procs_OK, NEW p \in Procs
    PROVE  /\ proc[p].pc \in Pcs /\ proc[p].ui \in {"cli", "gui"}
           /\ proc[p].flow \in Flows /\ proc[p].slot \in Slots
           /\ proc[p].meant \in Cards \cup {NoCard}
           /\ proc[p].bound \in Cards \cup {NoCard}
           /\ proc[p].allow \in BOOLEAN
           /\ proc[p].conn \in Cards \cup {NoCard} /\ proc[p].spent \in Nat
  BY DEF Procs_OK, Process

\* Goto moves a process and changes nothing else.
LEMMA GotoEffect ==
    ASSUME Procs_OK, NEW p \in Procs, NEW x \in Pcs, Goto(p, x)
    PROVE  Procs_OK' /\ Moves(p, x) /\ proc'[p].told = proc[p].told
  BY DEF Goto, Procs_OK, Process, Moves, Others, SameBinding, SameCommand

\* The record of an idle process is well-typed.
LEMMA IdleType == Idle \in Process
  BY DEF Idle, Process, Pcs, Flows, Slots

\* End makes a process idle.
LEMMA EndEffect ==
    ASSUME Procs_OK, NEW p \in Procs, End(p)
    PROVE  Procs_OK' /\ Ends(p)
  BY IdleType DEF End, Procs_OK, Ends, Others, Idle

\* A command of the CLI starts at the trust gate.
LEMMA StartCliEffect ==
    ASSUME Procs_OK, NEW p \in Procs, StartCli(p)
    PROVE  /\ Procs_OK' /\ Others(p)
           /\ proc'[p].pc = "gate" /\ proc'[p].conn = NoCard /\ proc'[p].spent = 0
<1>1. PICK flow \in Flows, s \in Slots, allow \in BOOLEAN :
        proc' = [proc EXCEPT ![p] = [Idle EXCEPT !.pc = "gate", !.flow = flow,
                                                 !.slot = s, !.allow = allow]]
  BY DEF StartCli
<1> DEFINE r == [Idle EXCEPT !.pc = "gate", !.flow = flow, !.slot = s, !.allow = allow]
<1>2. r \in Process /\ r.pc = "gate" /\ r.conn = NoCard /\ r.spent = 0
  BY DEF Idle, Process, Pcs, Flows, Slots
<1> HIDE DEF r
<1>3. proc' = [proc EXCEPT ![p] = r]
  BY <1>1 DEF r
<1> QED
  BY <1>2, <1>3 DEF Procs_OK, Others

\* A form of the GUI starts at the prompt.
LEMMA StartGuiEffect ==
    ASSUME Procs_OK, NEW p \in Procs, StartGui(p), reader \in Cards \cup {NoCard}
    PROVE  /\ Procs_OK' /\ Others(p)
           /\ proc'[p].pc = "prompt" /\ proc'[p].ui = "gui"
           /\ proc'[p].conn = NoCard /\ proc'[p].spent = 0
<1>1. PICK flow \in Flows, s \in Slots :
        proc' = [proc EXCEPT ![p] = [Idle EXCEPT !.pc = "prompt", !.ui = "gui",
                           !.flow = flow, !.slot = s, !.meant = reader]]
  BY DEF StartGui
<1> DEFINE r == [Idle EXCEPT !.pc = "prompt", !.ui = "gui", !.flow = flow, !.slot = s, !.meant = reader]
<1>2. r \in Process /\ r.pc = "prompt" /\ r.ui = "gui" /\ r.conn = NoCard /\ r.spent = 0
  BY DEF Idle, Process, Pcs, Flows, Slots
<1> HIDE DEF r
<1>3. proc' = [proc EXCEPT ![p] = r]
  BY <1>1 DEF r
<1> QED
  BY <1>2, <1>3 DEF Procs_OK, Others

\* A process is replaced by a well-typed record.
LEMMA ReplaceEffect ==
    ASSUME Procs_OK, NEW p \in Procs, NEW r \in Process, proc' = [proc EXCEPT ![p] = r]
    PROVE  Procs_OK' /\ Others(p) /\ proc'[p] = r
  BY DEF Procs_OK, Others

\* The two fields that Probe sets.
LEMMA ProbeUpdate ==
    ASSUME Procs_OK, NEW p \in Procs, NEW t \in {"yes", "no"},
           proc' = [proc EXCEPT ![p].pc = "verify2", ![p].told = t]
    PROVE  Procs_OK' /\ Moves(p, "verify2") /\ proc'[p].told = t
<1>1. proc[p] \in Process
  BY DEF Procs_OK
<1>0. "verify2" \in Pcs
  BY DEF Pcs, Held
<1>2. proc' = [proc EXCEPT ![p] = [proc[p] EXCEPT !.pc = "verify2", !.told = t]]
  BY <1>1 DEF Procs_OK, Process
<1>3. PICK r \in Process : r = [proc[p] EXCEPT !.pc = "verify2", !.told = t]
  BY <1>0, <1>1 DEF Process
<1>4. /\ r.pc = "verify2" /\ r.told = t /\ r.bound = proc[p].bound
      /\ r.meant = proc[p].meant /\ r.ui = proc[p].ui /\ r.flow = proc[p].flow
      /\ r.slot = proc[p].slot /\ r.allow = proc[p].allow
      /\ r.conn = proc[p].conn /\ r.spent = proc[p].spent
  BY <1>1, <1>3 DEF Process
<1>5. proc' = [proc EXCEPT ![p] = r]
  BY ONLY <1>2, <1>3
<1>6. Procs_OK' /\ Others(p) /\ proc'[p] = r
  BY <1>5, ReplaceEffect
<1> QED
  BY <1>4, <1>6 DEF Moves, SameBinding, SameCommand

\* Probe goes on with what the card has answered.
LEMMA ProbeEffect ==
    ASSUME Procs_OK, NEW p \in Procs, Probe(p)
    PROVE  /\ Procs_OK' /\ Moves(p, "verify2")
           /\ \E probes \in Probes(proc[p].conn) :
                /\ MayModify(p, proc[p].conn, probes)
                /\ proc'[p].told = "no" \/ Answered(Generation[proc[p].conn], probes)
<1>1. PICK probes \in Probes(proc[p].conn) :
        /\ MayModify(p, proc[p].conn, probes)
        /\ proc' = [proc EXCEPT ![p].pc = "verify2",
                      ![p].told = IF /\ proc[p].flow = "activate"
                                     /\ Answered(Generation[proc[p].conn], probes)
                                  THEN "yes" ELSE "no"]
  BY DEF Probe
<1>2. PICK t \in {"yes", "no"} :
        t = IF proc[p].flow = "activate" /\ Answered(Generation[proc[p].conn], probes)
            THEN "yes" ELSE "no"
  OBVIOUS
<1>3. Procs_OK' /\ Moves(p, "verify2") /\ proc'[p].told = t
  BY <1>1, <1>2, ProbeUpdate
<1> QED
  BY <1>1, <1>2, <1>3

\* The three fields that Prompt sets.
LEMMA PromptUpdate ==
    ASSUME Procs_OK, NEW p \in Procs, NEW b \in {"right", "wrong"},
           NEW m \in Cards \cup {NoCard}, NEW x \in Pcs,
           proc' = [proc EXCEPT ![p].code = b, ![p].meant = m, ![p].pc = x]
    PROVE  /\ Procs_OK' /\ Others(p) /\ SameCommand(p)
           /\ proc'[p].pc = x /\ proc'[p].meant = m /\ proc'[p].bound = proc[p].bound
           /\ proc'[p].conn = proc[p].conn /\ proc'[p].spent = proc[p].spent
<1>1. proc[p] \in Process
  BY DEF Procs_OK
<1>2. proc' = [proc EXCEPT ![p] = [proc[p] EXCEPT !.code = b, !.meant = m, !.pc = x]]
  BY <1>1 DEF Procs_OK, Process
<1>3. PICK r \in Process : r = [proc[p] EXCEPT !.code = b, !.meant = m, !.pc = x]
  BY <1>1 DEF Process
<1>4. /\ r.pc = x /\ r.meant = m /\ r.bound = proc[p].bound
      /\ r.ui = proc[p].ui /\ r.flow = proc[p].flow /\ r.slot = proc[p].slot
      /\ r.allow = proc[p].allow /\ r.conn = proc[p].conn /\ r.spent = proc[p].spent
  BY <1>1, <1>3 DEF Process
<1>5. proc' = [proc EXCEPT ![p] = r]
  BY ONLY <1>2, <1>3
<1>6. Procs_OK' /\ Others(p) /\ proc'[p] = r
  BY <1>5, ReplaceEffect
<1> QED
  BY <1>4, <1>6 DEF SameCommand

\* The CLI's prompt names the bound card; the GUI's leads to the gate.
LEMMA PromptEffect ==
    ASSUME Procs_OK, NEW p \in Procs, Prompt(p)
    PROVE  /\ Procs_OK' /\ Others(p) /\ SameCommand(p)
           /\ proc'[p].pc = IF proc[p].ui = "gui" THEN "gate" ELSE "open"
           /\ proc'[p].bound = proc[p].bound
           /\ proc[p].ui # "gui" => proc'[p].meant = proc[p].bound
           /\ proc'[p].conn = proc[p].conn /\ proc'[p].spent = proc[p].spent
<1>1. PICK x \in Pcs : x = IF proc[p].ui = "gui" THEN "gate" ELSE "open"
  BY DEF Pcs
<1>2. PICK m \in Cards \cup {NoCard} :
        m = IF proc[p].ui = "gui" THEN proc[p].meant ELSE proc[p].bound
  BY Fields
<1>3. PICK code \in {"right", "wrong"} :
        proc' = [proc EXCEPT ![p].code = code, ![p].meant = m, ![p].pc = x]
  BY <1>1, <1>2 DEF Prompt
<1>4. /\ Procs_OK' /\ Others(p) /\ SameCommand(p)
      /\ proc'[p].pc = x /\ proc'[p].meant = m /\ proc'[p].bound = proc[p].bound
      /\ proc'[p].conn = proc[p].conn /\ proc'[p].spent = proc[p].spent
  BY <1>3, PromptUpdate
<1> QED
  BY <1>1, <1>2, <1>4

\* The trust gate binds the card in the reader.
LEMMA GateEffect ==
    ASSUME Procs_OK, NEW p \in Procs, EstablishTrustedSession(p), reader \in Cards \cup {NoCard}
    PROVE  /\ Procs_OK' /\ Others(p) /\ SameCommand(p)
           /\ proc'[p].pc = AfterGate(p)
           /\ proc'[p].bound = reader /\ proc'[p].meant = proc[p].meant
           /\ proc'[p].conn = proc[p].conn /\ proc'[p].spent = proc[p].spent
<1>1. AfterGate(p) \in Pcs
  BY Fields DEF AfterGate, Pcs, Flows
<1>2. PICK x \in Pcs : x = AfterGate(p)
  BY <1>1
<1>3. proc' = [proc EXCEPT ![p].bound = reader, ![p].pc = x]
  BY <1>2 DEF EstablishTrustedSession
<1>4. proc[p] \in Process
  BY DEF Procs_OK
<1>5. proc' = [proc EXCEPT ![p] = [proc[p] EXCEPT !.bound = reader, !.pc = x]]
  BY ONLY <1>3, <1>4, Procs_OK DEF Procs_OK, Process
<1>6. PICK r \in Process : r = [proc[p] EXCEPT !.bound = reader, !.pc = x]
  BY <1>4 DEF Process
<1>7. /\ r.pc = x /\ r.bound = reader /\ r.meant = proc[p].meant
      /\ r.ui = proc[p].ui /\ r.flow = proc[p].flow /\ r.slot = proc[p].slot
      /\ r.allow = proc[p].allow /\ r.conn = proc[p].conn /\ r.spent = proc[p].spent
  BY <1>4, <1>6 DEF Process
<1>8. proc' = [proc EXCEPT ![p] = r]
  BY ONLY <1>5, <1>6
<1>9. Procs_OK' /\ Others(p) /\ proc'[p] = r
  BY <1>8, ReplaceEffect
<1> QED
  BY <1>2, <1>7, <1>9 DEF SameCommand

\* The modify session connects to the card in the reader.
LEMMA OpenEffect ==
    ASSUME Procs_OK, NEW p \in Procs, OpenSession(p), reader \in Cards \cup {NoCard}
    PROVE  /\ Procs_OK' /\ Others(p) /\ SameBinding(p)
           /\ proc'[p].pc = "verify1" /\ proc'[p].conn = reader
           /\ proc'[p].spent = proc[p].spent
<1>1. PICK x \in Pcs : x = "verify1"
  BY DEF Pcs, Held
<1>2. proc[p] \in Process
  BY DEF Procs_OK
<1>3. proc' = [proc EXCEPT ![p].pc = x, ![p].conn = reader]
  BY <1>1 DEF OpenSession
<1>4. proc' = [proc EXCEPT ![p] = [proc[p] EXCEPT !.pc = x, !.conn = reader]]
  BY ONLY <1>2, <1>3, Procs_OK DEF Procs_OK, Process
<1>5. PICK r \in Process : r = [proc[p] EXCEPT !.pc = x, !.conn = reader]
  BY <1>2 DEF Process
<1>6. /\ r.pc = x /\ r.conn = reader /\ r.bound = proc[p].bound
      /\ r.meant = proc[p].meant /\ r.ui = proc[p].ui /\ r.flow = proc[p].flow
      /\ r.slot = proc[p].slot /\ r.allow = proc[p].allow /\ r.spent = proc[p].spent
  BY <1>2, <1>5 DEF Process
<1>7. proc' = [proc EXCEPT ![p] = r]
  BY ONLY <1>4, <1>5
<1>8. Procs_OK' /\ Others(p) /\ proc'[p] = r
  BY <1>7, ReplaceEffect
<1> QED
  BY <1>1, <1>6, <1>8 DEF SameBinding, SameCommand

\* A refused code stops the command and costs one attempt.
LEMMA RefusedEffect ==
    ASSUME Procs_OK, NEW p \in Procs, NEW from, NEW s, Refused(p, from, s)
    PROVE  /\ Procs_OK' /\ Others(p) /\ SameBinding(p)
           /\ proc'[p].pc = "stop" /\ proc'[p].conn = proc[p].conn
           /\ proc'[p].spent = proc[p].spent + 1
<1>1. "stop" \in Pcs
  BY DEF Pcs, Held
<1>2. proc' = [proc EXCEPT ![p].pc = "stop", ![p].spent = @ + 1]
  BY DEF Refused
<1> QED
  BY <1>1, <1>2 DEF Procs_OK, Process, Others, SameBinding, SameCommand

\* With the card gone, every connection is dead.
LEMMA RemoveEffect ==
    ASSUME Procs_OK, Remove
    PROVE  /\ Procs_OK'
           /\ \A p \in Procs : /\ SameBinding(p) /\ proc'[p].pc = proc[p].pc
                               /\ proc'[p].conn = NoCard /\ proc'[p].spent = proc[p].spent
<1> DEFINE gone(p) == [proc[p] EXCEPT !.conn = NoCard]
<1>1. ASSUME NEW p \in Procs
      PROVE  /\ gone(p) \in Process
             /\ gone(p).ui = proc[p].ui /\ gone(p).flow = proc[p].flow
             /\ gone(p).slot = proc[p].slot /\ gone(p).allow = proc[p].allow
             /\ gone(p).bound = proc[p].bound /\ gone(p).meant = proc[p].meant
             /\ gone(p).pc = proc[p].pc /\ gone(p).conn = NoCard
             /\ gone(p).spent = proc[p].spent
  <2>1. proc[p] \in Process
    BY DEF Procs_OK
  <2> QED
    BY <2>1 DEF Process
<1>2. proc' = [p \in Procs |-> gone(p)]
  BY DEF Remove
<1> HIDE DEF gone
<1> QED
  BY <1>1, <1>2 DEF Procs_OK, SameBinding, SameCommand

\* SetSlot makes the PIN outdated that others typed, and changes nothing else of them.
OthersKeepAll(p) ==
    \A q \in Procs \ {p} :
        /\ SameBinding(q) /\ proc'[q].pc = proc[q].pc
        /\ proc'[q].conn = proc[q].conn /\ proc'[q].spent = proc[q].spent

After(p, c, s) ==
    [q \in Procs |-> IF Outdated(q, p, c, s) THEN [proc[q] EXCEPT !.code = "wrong"] ELSE proc[q]]

\* Making a PIN outdated changes no other field.
LEMMA AfterEffect ==
    ASSUME Procs_OK, NEW p \in Procs, NEW c, NEW s
    PROVE  /\ After(p, c, s) \in [Procs -> Process]
           /\ After(p, c, s)[p] = proc[p]
           /\ \A q \in Procs :
                LET r == After(p, c, s)[q] IN
                /\ r.ui = proc[q].ui /\ r.flow = proc[q].flow /\ r.slot = proc[q].slot
                /\ r.allow = proc[q].allow /\ r.bound = proc[q].bound /\ r.meant = proc[q].meant
                /\ r.pc = proc[q].pc /\ r.conn = proc[q].conn /\ r.spent = proc[q].spent
<1>1. ASSUME NEW q \in Procs
      PROVE  LET r == [proc[q] EXCEPT !.code = "wrong"] IN
             /\ r \in Process
             /\ r.ui = proc[q].ui /\ r.flow = proc[q].flow /\ r.slot = proc[q].slot
             /\ r.allow = proc[q].allow /\ r.bound = proc[q].bound /\ r.meant = proc[q].meant
             /\ r.pc = proc[q].pc /\ r.conn = proc[q].conn /\ r.spent = proc[q].spent
  <2>1. proc[q] \in Process
    BY DEF Procs_OK
  <2> QED
    BY <2>1 DEF Process
<1> DEFINE fixed(q) == [proc[q] EXCEPT !.code = "wrong"]
<1>2. \A q \in Procs : fixed(q) \in Process
             /\ fixed(q).ui = proc[q].ui /\ fixed(q).flow = proc[q].flow /\ fixed(q).slot = proc[q].slot
             /\ fixed(q).allow = proc[q].allow /\ fixed(q).bound = proc[q].bound /\ fixed(q).meant = proc[q].meant
             /\ fixed(q).pc = proc[q].pc /\ fixed(q).conn = proc[q].conn /\ fixed(q).spent = proc[q].spent
  BY <1>1
<1>3. After(p, c, s) = [q \in Procs |-> IF Outdated(q, p, c, s) THEN fixed(q) ELSE proc[q]]
  BY DEF After
<1>4. ~Outdated(p, p, c, s)
  BY DEF Outdated
<1> HIDE DEF fixed
<1> QED
  BY <1>2, <1>3, <1>4 DEF Procs_OK

\* After PIN1 was set, an activation goes on to PIN2.
LEMMA SetSlotMoves ==
    ASSUME Procs_OK, NEW p \in Procs, NEW from, NEW s, SetSlot(p, from, "verify3", s)
    PROVE  /\ Procs_OK' /\ OthersKeepAll(p) /\ SameBinding(p) /\ UNCHANGED lock
           /\ proc'[p].pc = "verify3" /\ proc'[p].conn = proc[p].conn
           /\ proc'[p].spent = proc[p].spent
<1> DEFINE a == After(p, proc[p].conn, s)
<1>1. proc' = [a EXCEPT ![p].pc = "verify3"] /\ UNCHANGED lock
  BY DEF SetSlot, After
<1>2. "verify3" \in Pcs
  BY DEF Pcs, Held
<1>3. a \in [Procs -> Process]
  BY AfterEffect
<1>4. /\ a[p] = proc[p]
      /\ \A q \in Procs :
                /\ a[q].ui = proc[q].ui /\ a[q].flow = proc[q].flow /\ a[q].slot = proc[q].slot
                /\ a[q].allow = proc[q].allow /\ a[q].bound = proc[q].bound /\ a[q].meant = proc[q].meant
                /\ a[q].pc = proc[q].pc /\ a[q].conn = proc[q].conn /\ a[q].spent = proc[q].spent
  BY AfterEffect
<1> HIDE DEF a
<1>5. Procs_OK' /\ \A q \in Procs \ {p} : proc'[q] = a[q]
  BY <1>1, <1>2, <1>3 DEF Procs_OK, Process
<1>6. /\ SameBinding(p) /\ proc'[p].pc = "verify3"
      /\ proc'[p].conn = proc[p].conn /\ proc'[p].spent = proc[p].spent
  BY <1>1, <1>3, <1>4 DEF Process, SameBinding, SameCommand
<1> QED
  BY <1>1, <1>4, <1>5, <1>6 DEF OthersKeepAll, SameBinding, SameCommand

\* After the last PIN was set, the command ends.
LEMMA SetSlotDone ==
    ASSUME Procs_OK, NEW p \in Procs, NEW from, NEW s, SetSlot(p, from, "done", s)
    PROVE  /\ Procs_OK' /\ OthersKeepAll(p)
           /\ lock' = IF lock = p THEN NoProc ELSE lock
           /\ proc'[p].pc = "idle" /\ proc'[p].conn = NoCard /\ proc'[p].spent = 0
<1> DEFINE a == After(p, proc[p].conn, s)
<1>1. proc' = [a EXCEPT ![p] = Idle] /\ lock' = IF lock = p THEN NoProc ELSE lock
  BY DEF SetSlot, After
<1>3. a \in [Procs -> Process]
  BY AfterEffect
<1>4. \A q \in Procs :
                /\ a[q].ui = proc[q].ui /\ a[q].flow = proc[q].flow /\ a[q].slot = proc[q].slot
                /\ a[q].allow = proc[q].allow /\ a[q].bound = proc[q].bound /\ a[q].meant = proc[q].meant
                /\ a[q].pc = proc[q].pc /\ a[q].conn = proc[q].conn /\ a[q].spent = proc[q].spent
  BY AfterEffect
<1> HIDE DEF a
<1>5. Procs_OK' /\ proc'[p] = Idle /\ \A q \in Procs \ {p} : proc'[q] = a[q]
  BY <1>1, <1>3, IdleType DEF Procs_OK
<1> QED
  BY <1>1, <1>4, <1>5 DEF OthersKeepAll, SameBinding, SameCommand, Idle


-----------------------------------------------------------------------------
(* The type invariant, in three parts.                                     *)

World_OK ==
    /\ reader \in Cards \cup {NoCard}
    /\ tries \in [Cards -> [Slots -> 0 .. MaxTries]]
    /\ puk \in [Cards -> 0 .. MaxTries]
    /\ verified \in [Cards -> SUBSET Slots]
    /\ changed \in [Cards -> SUBSET Slots]
    /\ lock \in Procs \cup {NoProc}
    /\ runs \in 0 .. MaxRuns /\ swaps \in 0 .. MaxSwaps /\ foreign \in 0 .. MaxForeign

Flow_OK ==
    \A p \in Procs :
        /\ proc[p].pc \in {"classify", "verify3", "send2"} => proc[p].flow = "activate"
        /\ proc[p].pc = "floor" => proc[p].flow = "change" /\ proc[p].ui = "cli"

\* TypeOK is the conjunction of the three.
LEMMA TypeParts == TypeOK <=> World_OK /\ Procs_OK /\ Flow_OK
  BY DEF TypeOK, World_OK, Procs_OK, Flow_OK

\* Whatever the card answers, its counters stay in range.
LEMMA CardType ==
    ASSUME World_OK, Procs_OK, NEW p \in Procs, NEW c \in Cards, NEW s \in Slots,
           CardAccepts(p, c, s) \/ CardRefuses(p, c, s)
    PROVE  /\ tries' \in [Cards -> [Slots -> 0 .. MaxTries]]
           /\ puk' \in [Cards -> 0 .. MaxTries]
           /\ verified' \in [Cards -> SUBSET Slots]
           /\ changed' \in [Cards -> SUBSET Slots]
<1>1. CASE CardAccepts(p, c, s)
  BY <1>1 DEF CardAccepts, World_OK, MaxTries
<1>2. CASE CardRefuses(p, c, s)
  BY <1>2 DEF CardRefuses, World_OK, MaxTries
<1> QED
  BY <1>1, <1>2

(***************************************************************************)
(* Every step leaves cards, transaction and bounds well-typed.             *)
(***************************************************************************)
LEMMA WorldStep == World_OK /\ Procs_OK /\ [Next]_vars => World_OK'
<1> SUFFICES ASSUME World_OK, Procs_OK, [Next]_vars PROVE World_OK'
  OBVIOUS
<1> USE PinAssumption
<1>1. ASSUME NEW p \in Procs, StartCli(p) \/ StartGui(p) PROVE World_OK'
  <2>1. runs < MaxRuns /\ runs' = runs + 1 /\ UNCHANGED <<reader, cards, lock, swaps, foreign>>
    BY <1>1 DEF StartCli, StartGui
  <2> QED
    BY <2>1 DEF World_OK, cards
<1>2. ASSUME NEW p \in Procs, Prompt(p) \/ EstablishTrustedSession(p) \/ ProbeForCli(p) \/ Classify(p) \/ Probe(p) PROVE World_OK'
  BY <1>2 DEF Prompt, EstablishTrustedSession, ProbeForCli, Classify, Probe, World_OK, cards, bounds
<1>3. ASSUME NEW p \in Procs, NEW from, NEW to, ReVerify(p, from, to) PROVE World_OK'
  BY <1>3 DEF ReVerify, World_OK, cards, bounds
<1>4. ASSUME NEW p \in Procs, OpenSession(p) PROVE World_OK'
  BY <1>4 DEF OpenSession, World_OK, cards, bounds
<1>5. ASSUME NEW p \in Procs, Refuse(p) \/ Fault(p) PROVE World_OK'
  BY <1>5 DEF Refuse, Fault, End, World_OK, cards, bounds
<1>6. ASSUME NEW p \in Procs, NEW from, NEW to, NEW s \in Slots,
             SetSlot(p, from, to, s) \/ Refused(p, from, s)
      PROVE  World_OK'
  <2>1. proc[p].conn \in Cards
    BY <1>6, Fields DEF SetSlot, Refused
  <2>2. CardAccepts(p, proc[p].conn, s) \/ CardRefuses(p, proc[p].conn, s)
    BY <1>6 DEF SetSlot, Refused
  <2>3. UNCHANGED <<reader, bounds>> /\ lock' \in Procs \cup {NoProc}
    BY <1>6 DEF SetSlot, Refused, World_OK
  <2> QED
    BY <2>1, <2>2, <2>3, CardType DEF World_OK, bounds
<1>7. ASSUME NEW p \in Procs, Modify(p) PROVE World_OK'
  BY <1>6, <1>7, Fields DEF Modify, Slots
<1>8. ASSUME Remove PROVE World_OK'
  BY <1>8 DEF Remove, World_OK, bounds
<1>9. ASSUME Insert PROVE World_OK'
  BY <1>9 DEF Insert, World_OK, cards
<1>10. ASSUME ForeignVerify PROVE World_OK'
  BY <1>10 DEF ForeignVerify, World_OK, MaxTries
<1>11. CASE UNCHANGED vars
  BY <1>11 DEF vars, cards, bounds, World_OK
<1> QED
  BY <1>1, <1>2, <1>3, <1>4, <1>5, <1>7, <1>8, <1>9, <1>10, <1>11 DEF Next, Step

(***************************************************************************)
(* Every step keeps the processes well-typed and the facts about sessions: *)
(* a live connection is to the card in the reader under the transaction of *)
(* its process, the bound card is trusted and is the one meant.            *)
(***************************************************************************)
ProcInv == Procs_OK /\ Flow_OK /\ SessionInv

\* Every step keeps the part of the invariant about the processes' sessions.
LEMMA SessionStep == World_OK /\ ProcInv /\ [Next]_vars => ProcInv'
<1> SUFFICES ASSUME World_OK, ProcInv, [Next]_vars PROVE ProcInv'
  OBVIOUS
<1>0. Procs_OK /\ reader \in Cards \cup {NoCard} /\ \A q \in Procs : proc[q].conn \in Cards \cup {NoCard}
  BY Fields DEF ProcInv, World_OK
<1> USE PinAssumption, <1>0 DEF ProcInv, Flow_OK, SessionInv, LiveConnections, BoundTrusted, PastGate,
     ReVerified, BoundMeant, SpentInv, Held, Others, SameBinding, SameCommand
<1>1. ASSUME NEW p \in Procs, StartCli(p) PROVE ProcInv'
  <2>1. /\ Procs_OK' /\ Others(p)
        /\ proc'[p].pc = "gate" /\ proc'[p].conn = NoCard /\ proc'[p].spent = 0
    BY <1>1, StartCliEffect
  <2>2. UNCHANGED <<reader, lock>>
    BY <1>1 DEF StartCli
  <2> QED
    BY <2>1, <2>2
<1>2. ASSUME NEW p \in Procs, StartGui(p) PROVE ProcInv'
  <2>1. /\ Procs_OK' /\ Others(p)
        /\ proc'[p].pc = "prompt" /\ proc'[p].ui = "gui"
        /\ proc'[p].conn = NoCard /\ proc'[p].spent = 0
    BY <1>2, StartGuiEffect
  <2>2. UNCHANGED <<reader, lock>>
    BY <1>2 DEF StartGui
  <2> QED
    BY <2>1, <2>2
<1>3. ASSUME NEW p \in Procs, Prompt(p) PROVE ProcInv'
  <2>1. /\ Procs_OK' /\ Others(p) /\ SameCommand(p)
        /\ proc'[p].pc = IF proc[p].ui = "gui" THEN "gate" ELSE "open"
        /\ proc'[p].bound = proc[p].bound
        /\ proc[p].ui # "gui" => proc'[p].meant = proc[p].bound
        /\ proc'[p].conn = proc[p].conn /\ proc'[p].spent = proc[p].spent
    BY <1>3, PromptEffect
  <2>2. proc[p].pc = "prompt" /\ UNCHANGED <<reader, lock>>
    BY <1>3 DEF Prompt
  <2> QED
    BY <2>1, <2>2, Fields
<1>4. ASSUME NEW p \in Procs, EstablishTrustedSession(p) PROVE ProcInv'
  <2>1. /\ Procs_OK' /\ Others(p) /\ SameCommand(p)
        /\ proc'[p].pc = AfterGate(p)
        /\ proc'[p].bound = reader /\ proc'[p].meant = proc[p].meant
        /\ proc'[p].conn = proc[p].conn /\ proc'[p].spent = proc[p].spent
    BY <1>4, GateEffect
  <2>2. proc[p].pc = "gate" /\ GatePasses(p) /\ UNCHANGED <<reader, lock>>
    BY <1>4 DEF EstablishTrustedSession
  <2> QED
    BY <2>1, <2>2, Fields DEF GatePasses, AfterGate, Flows
<1>5. ASSUME NEW p \in Procs, ProbeForCli(p) PROVE ProcInv'
  <2>1. Procs_OK' /\ Moves(p, "prompt")
    BY <1>5, GotoEffect DEF ProbeForCli, Pcs
  <2> QED
    BY <1>5, <2>1 DEF ProbeForCli, Moves, cards, bounds
<1>6. ASSUME NEW p \in Procs, Probe(p) PROVE ProcInv'
  <2>1. Procs_OK' /\ Moves(p, "verify2")
    BY <1>6, ProbeEffect
  <2>2. /\ proc[p].pc = "probe" /\ proc[p].conn # NoCard
        /\ UNCHANGED <<reader, lock>>
    BY <1>6 DEF Probe
  <2> QED
    BY <2>1, <2>2 DEF Moves
<1>7. ASSUME NEW p \in Procs, Classify(p) PROVE ProcInv'
  <2>1. PICK x \in Pcs : x = IF proc[p].ui = "gui" THEN "open" ELSE "prompt"
    BY DEF Pcs
  <2>2. Procs_OK' /\ Moves(p, x)
    BY <1>7, <2>1, GotoEffect DEF Classify
  <2> QED
    BY <1>7, <2>1, <2>2, Fields DEF Classify, Moves, cards, bounds
<1>8. ASSUME NEW p \in Procs, ReVerify(p, "verify1", "probe") PROVE ProcInv'
  <2>1. Procs_OK' /\ Moves(p, "probe")
    BY <1>8, GotoEffect DEF ReVerify, Pcs
  <2> QED
    BY <1>8, <2>1 DEF ReVerify, Moves, cards, bounds
<1>9. ASSUME NEW p \in Procs, ReVerify(p, "verify2", "send1") PROVE ProcInv'
  <2>1. Procs_OK' /\ Moves(p, "send1")
    BY <1>9, GotoEffect DEF ReVerify, Pcs
  <2> QED
    BY <1>9, <2>1 DEF ReVerify, Moves, cards, bounds
<1>10. ASSUME NEW p \in Procs, ReVerify(p, "verify3", "send2") PROVE ProcInv'
  <2>1. Procs_OK' /\ Moves(p, "send2")
    BY <1>10, GotoEffect DEF ReVerify, Pcs
  <2> QED
    BY <1>10, <2>1 DEF ReVerify, Moves, cards, bounds
<1>11. ASSUME NEW p \in Procs, OpenSession(p) PROVE ProcInv'
  <2>1. /\ Procs_OK' /\ Others(p) /\ SameBinding(p)
        /\ proc'[p].pc = "verify1" /\ proc'[p].conn = reader
        /\ proc'[p].spent = proc[p].spent
    BY <1>11, OpenEffect
  <2>2. /\ proc[p].pc = "open" /\ lock = NoProc /\ reader # NoCard
        /\ lock' = p /\ UNCHANGED reader
    BY <1>11 DEF OpenSession
  <2> QED
    BY <2>1, <2>2, Fields
<1>12. ASSUME NEW p \in Procs, Refuse(p) \/ Fault(p) PROVE ProcInv'
  BY <1>12, EndEffect DEF Refuse, Fault, End, Ends, cards, bounds
<1>13. ASSUME NEW p \in Procs, Modify(p) PROVE ProcInv'
  <2>1. ASSUME NEW from \in {"send1", "send2"}, NEW s, Refused(p, from, s) PROVE ProcInv'
    <3>1. /\ Procs_OK' /\ Others(p) /\ SameBinding(p)
          /\ proc'[p].pc = "stop" /\ proc'[p].conn = proc[p].conn
          /\ proc'[p].spent = proc[p].spent + 1
      BY <2>1, RefusedEffect
    <3>2. proc[p].pc \in {"send1", "send2"} /\ UNCHANGED <<reader, lock>>
      BY <2>1 DEF Refused
    <3> QED
      BY <3>1, <3>2
  <2>2. ASSUME NEW from \in {"send1", "send2"}, NEW s, SetSlot(p, from, "done", s) PROVE ProcInv'
    <3>1. UNCHANGED reader
      BY <2>2 DEF SetSlot, bounds
    <3> QED
      BY <2>2, <3>1, SetSlotDone DEF OthersKeepAll
  <2>3. ASSUME NEW from \in {"send1"}, proc[p].flow = "activate", NEW s, SetSlot(p, from, "verify3", s) PROVE ProcInv'
    <3>1. /\ Procs_OK' /\ OthersKeepAll(p) /\ SameBinding(p) /\ UNCHANGED lock
          /\ proc'[p].pc = "verify3" /\ proc'[p].conn = proc[p].conn
          /\ proc'[p].spent = proc[p].spent
      BY <2>3, SetSlotMoves
    <3>2. proc[p].pc = "send1" /\ UNCHANGED reader
      BY <2>3 DEF SetSlot
    <3> QED
      BY <2>3, <3>1, <3>2 DEF OthersKeepAll
  <2>4. PICK s1 : s1 = proc[p].slot
    OBVIOUS
  <2> HIDE DEF ProcInv
  <2> QED
    BY <1>13, <2>1, <2>2, <2>3, <2>4 DEF Modify
<1>14. ASSUME Remove PROVE ProcInv'
  BY <1>14, RemoveEffect DEF Remove, bounds
<1>15. ASSUME Insert PROVE ProcInv'
  BY <1>15 DEF Insert, cards, Procs_OK
<1>16. ASSUME ForeignVerify PROVE ProcInv'
  BY <1>16 DEF ForeignVerify, Procs_OK
<1>17. CASE UNCHANGED vars
  BY <1>17 DEF vars, cards, bounds, Procs_OK
<1> HIDE DEF ProcInv
<1> QED
  BY <1>1, <1>2, <1>3, <1>4, <1>5, <1>6, <1>7, <1>8, <1>9, <1>10, <1>11, <1>12, <1>13, <1>14, <1>15, <1>16, <1>17 DEF Next, Step

-----------------------------------------------------------------------------
\* What the probe of the modify session has shown when it lets a command go on.
LEMMA ProbeFinds ==
    ASSUME World_OK, CardInv, Procs_OK, NEW p \in Procs, proc[p].conn \in Cards,
           NEW probes \in Probes(proc[p].conn), MayModify(p, proc[p].conn, probes)
    PROVE  /\ proc[p].flow = "change" => tries[proc[p].conn][proc[p].slot] \notin {0, 1, 2}
           /\ proc[p].flow = "activate" =>
                \/ proc[p].allow \/ "pin1" \notin changed[proc[p].conn]
                \/ ~Answered(Generation[proc[p].conn], probes)
<1> DEFINE c == proc[p].conn
           s == proc[p].slot
<1>1. ASSUME proc[p].flow = "change" PROVE tries[c][s] \notin {0, 1, 2}
  <2>1. pin_change_available(c, s)
    BY <1>1 DEF MayModify
  <2>2. s \in Slots /\ c \in Cards
    BY Fields
  <2>3. CASE pin_status(c, s) = "Verified"
    <3>1. s \in verified[c]
      BY <2>3, PinAssumption DEF pin_status
    <3> QED
      BY <2>2, <3>1 DEF CardInv, VerifiedFull, MaxTries
  <2>4. CASE pin_status(c, s) = "Remaining" /\ permits_consumer(tries[c][s])
    BY <2>4, PinAssumption DEF pin_status, permits_consumer
  <2> QED
    BY <2>1, <2>3, <2>4 DEF pin_change_available
<1>2. ASSUME proc[p].flow = "activate", ~proc[p].allow, Answered(Generation[c], probes)
      PROVE  "pin1" \notin changed[c]
  <2>1. ~looks_activated(Generation[c], probes)
    BY <1>2 DEF MayModify
  <2>2. Generation[c] \in {"Older", "Newer"}
    BY PinAssumption
  <2>3. CASE Generation[c] = "Newer"
    BY <1>2, <2>1, <2>3 DEF looks_activated, Answered, Probes, pin_changed_flag
  <2>4. CASE Generation[c] = "Older"
    BY <1>2, <2>1, <2>4 DEF looks_activated, Answered, Probes, pin_status
  <2> QED
    BY <2>2, <2>3, <2>4
<1> QED
  BY <1>1, <1>2

\* No step leaves a verified PIN with a reduced counter.
LEMMA VerifiedStep == World_OK /\ Procs_OK /\ VerifiedFull /\ [Next]_vars => VerifiedFull'
<1> SUFFICES ASSUME World_OK, Procs_OK, VerifiedFull, [Next]_vars PROVE VerifiedFull'
  OBVIOUS
<1>1. ASSUME UNCHANGED <<tries, verified>> PROVE VerifiedFull'
  BY <1>1 DEF VerifiedFull
<1>2. ASSUME NEW p \in Procs, NEW c \in Cards, NEW s \in Slots, CardAccepts(p, c, s) PROVE VerifiedFull'
  BY <1>2 DEF CardAccepts, VerifiedFull, World_OK, MaxTries
<1>3. ASSUME NEW p \in Procs, NEW c \in Cards, NEW s \in Slots, CardRefuses(p, c, s) PROVE VerifiedFull'
  BY <1>3 DEF CardRefuses, VerifiedFull, World_OK, MaxTries
<1>4. ASSUME NEW p \in Procs, NEW from, NEW to, NEW s \in Slots,
             SetSlot(p, from, to, s) \/ Refused(p, from, s)
      PROVE  VerifiedFull'
  <2>1. proc[p].conn \in Cards
    BY <1>4, Fields DEF SetSlot, Refused
  <2>2. CardAccepts(p, proc[p].conn, s) \/ CardRefuses(p, proc[p].conn, s)
    BY <1>4 DEF SetSlot, Refused
  <2> QED
    BY <2>1, <2>2, <1>2, <1>3
<1>5. ASSUME NEW p \in Procs, Modify(p) PROVE VerifiedFull'
  BY <1>4, <1>5, Fields DEF Modify, Slots
<1>6. ASSUME NEW p \in Procs, StartCli(p) \/ StartGui(p) \/ Prompt(p) \/ Fault(p) PROVE VerifiedFull'
  BY <1>1, <1>6 DEF StartCli, StartGui, Prompt, Fault, cards
<1>7. ASSUME NEW p \in Procs, Step(p), ~Modify(p) PROVE VerifiedFull'
  BY <1>1, <1>7 DEF Step, EstablishTrustedSession, ProbeForCli, Classify, OpenSession, ReVerify, Probe, Refuse, cards
<1>8. ASSUME Remove PROVE VerifiedFull'
  BY <1>8 DEF Remove, VerifiedFull, World_OK
<1>9. ASSUME Insert PROVE VerifiedFull'
  BY <1>1, <1>9 DEF Insert, cards
<1>10. ASSUME ForeignVerify PROVE VerifiedFull'
  BY <1>10 DEF ForeignVerify, VerifiedFull, World_OK, MaxTries
<1>11. CASE UNCHANGED vars
  BY <1>1, <1>11 DEF vars, cards
<1> QED
  BY <1>5, <1>6, <1>7, <1>8, <1>9, <1>10, <1>11 DEF Next

\* What is kept from the probe to the code, for one process.
Kept(p) ==
    Probed(p) =>
        /\ proc[p].flow = "change" => tries[proc[p].conn][proc[p].slot] \notin {0, 1, 2}
        /\ proc[p].flow = "activate" =>
             proc[p].allow \/ "pin1" \notin changed[proc[p].conn] \/ proc[p].told = "no"

\* Kept of all processes is FloorKept and FactoryKept.
LEMMA KeptParts == (\A p \in Procs : Kept(p)) <=> FloorKept /\ FactoryKept
  BY DEF Kept, FloorKept, FactoryKept

(***************************************************************************)
(* What the probe found still holds when the code is sent: whoever has a   *)
(* live connection holds the transaction, so nobody else reaches the card. *)
(***************************************************************************)
LEMMA KeptStep ==
    World_OK /\ ProcInv /\ CardInv /\ [Next]_vars => (\A p \in Procs : Kept(p))'
<1> SUFFICES ASSUME World_OK, ProcInv, CardInv, [Next]_vars
             PROVE  \A p \in Procs : Kept(p)'
  OBVIOUS
<1>0. /\ Procs_OK /\ LiveConnections /\ \A q \in Procs : Kept(q)
      /\ \A q \in Procs : proc[q].conn \in Cards \cup {NoCard}
  BY Fields, KeptParts DEF ProcInv, SessionInv, CardInv

\* A process that an action leaves alone, and whose card it leaves alone.
<1>1. ASSUME NEW q \in Procs, UNCHANGED <<tries, changed>>, proc'[q] = proc[q]
      PROVE  Kept(q)'
  BY <1>0, <1>1 DEF Kept, Probed

\* A process that is not between probe and code after the step.
<1>2. ASSUME NEW q \in Procs, proc'[q].pc \notin {"verify2", "send1"} \/ proc'[q].conn = NoCard
      PROVE  Kept(q)'
  BY <1>2 DEF Kept, Probed
<1>3. ASSUME NEW p \in Procs, Others(p), UNCHANGED <<tries, changed>>,
             proc'[p].pc \notin {"verify2", "send1"} \/ proc'[p].conn = NoCard
      PROVE  \A q \in Procs : Kept(q)'
  BY <1>1, <1>2, <1>3 DEF Others
<1>4. ASSUME NEW p \in Procs, StartCli(p) PROVE \A q \in Procs : Kept(q)'
  <2>1. Others(p) /\ proc'[p].conn = NoCard
    BY <1>0, <1>4, StartCliEffect
  <2> QED
    BY <1>3, <1>4, <2>1 DEF StartCli, cards
<1>5. ASSUME NEW p \in Procs, StartGui(p) PROVE \A q \in Procs : Kept(q)'
  <2>1. Others(p) /\ proc'[p].conn = NoCard
    BY <1>0, <1>5, StartGuiEffect DEF World_OK
  <2> QED
    BY <1>3, <1>5, <2>1 DEF StartGui, cards
<1>6. ASSUME NEW p \in Procs, Prompt(p) PROVE \A q \in Procs : Kept(q)'
  <2>1. Others(p) /\ proc'[p].pc \in {"gate", "open"}
    BY <1>0, <1>6, PromptEffect
  <2> QED
    BY <1>3, <1>6, <2>1 DEF Prompt, cards
<1>7. ASSUME NEW p \in Procs, EstablishTrustedSession(p) PROVE \A q \in Procs : Kept(q)'
  <2>1. Others(p) /\ proc'[p].pc = AfterGate(p)
    BY <1>0, <1>7, GateEffect DEF World_OK
  <2>2. AfterGate(p) \notin {"verify2", "send1"}
    BY <1>0, Fields DEF AfterGate, Flows
  <2> QED
    BY <1>3, <1>7, <2>1, <2>2 DEF EstablishTrustedSession, cards
<1>8. ASSUME NEW p \in Procs, ProbeForCli(p) PROVE \A q \in Procs : Kept(q)'
  <2>1. Moves(p, "prompt")
    BY <1>0, <1>8, GotoEffect DEF ProbeForCli, Pcs
  <2> QED
    BY <1>3, <1>8, <2>1 DEF ProbeForCli, Moves, cards
<1>9. ASSUME NEW p \in Procs, Classify(p) PROVE \A q \in Procs : Kept(q)'
  <2>1. PICK x \in Pcs : x = IF proc[p].ui = "gui" THEN "open" ELSE "prompt"
    BY DEF Pcs
  <2>2. Moves(p, x)
    BY <1>0, <1>9, <2>1, GotoEffect DEF Classify
  <2> QED
    BY <1>3, <1>9, <2>1, <2>2 DEF Classify, Moves, cards
<1>10. ASSUME NEW p \in Procs, OpenSession(p) PROVE \A q \in Procs : Kept(q)'
  <2>1. Others(p) /\ proc'[p].pc = "verify1"
    BY <1>0, <1>10, OpenEffect DEF World_OK
  <2> QED
    BY <1>3, <1>10, <2>1 DEF OpenSession, cards
<1>11. ASSUME NEW p \in Procs, ReVerify(p, "verify1", "probe") \/ ReVerify(p, "verify3", "send2")
       PROVE \A q \in Procs : Kept(q)'
  <2>1. Moves(p, "probe") \/ Moves(p, "send2")
    BY <1>0, <1>11, GotoEffect DEF ReVerify, Pcs, Held
  <2>2. UNCHANGED <<tries, changed>>
    BY <1>11 DEF ReVerify, cards
  <2> QED
    BY <1>3, <2>1, <2>2 DEF Moves
<1>12. ASSUME NEW p \in Procs, ReVerify(p, "verify2", "send1") PROVE \A q \in Procs : Kept(q)'
  <2>1. Moves(p, "send1") /\ proc'[p].told = proc[p].told
    BY <1>0, <1>12, GotoEffect DEF ReVerify, Pcs, Held
  <2>2. UNCHANGED <<tries, changed>> /\ proc[p].pc = "verify2"
    BY <1>12 DEF ReVerify, cards
  <2>3. Kept(p)'
    BY <1>0, <2>1, <2>2 DEF Kept, Probed, Moves, SameBinding, SameCommand
  <2> QED
    BY <1>1, <2>1, <2>2, <2>3 DEF Moves, Others
<1>13. ASSUME NEW p \in Procs, Probe(p) PROVE \A q \in Procs : Kept(q)'
  <2>1. /\ Moves(p, "verify2")
        /\ \E probes \in Probes(proc[p].conn) :
             /\ MayModify(p, proc[p].conn, probes)
             /\ proc'[p].told = "no" \/ Answered(Generation[proc[p].conn], probes)
    BY <1>0, <1>13, ProbeEffect
  <2>2. UNCHANGED <<tries, changed>> /\ proc[p].conn \in Cards
    BY <1>0, <1>13 DEF Probe, cards
  <2>3. Kept(p)'
    BY <1>0, <2>1, <2>2, ProbeFinds DEF Kept, Probed, Moves, SameBinding, SameCommand
  <2> QED
    BY <1>1, <2>1, <2>2, <2>3 DEF Moves, Others
<1>14. ASSUME NEW p \in Procs, Refuse(p) \/ Fault(p) PROVE \A q \in Procs : Kept(q)'
  <2>1. Ends(p)
    BY <1>0, <1>14, EndEffect DEF Refuse, Fault
  <2>2. UNCHANGED <<tries, changed>>
    BY <1>14 DEF Refuse, Fault, cards
  <2> QED
    BY <1>3, <2>1, <2>2 DEF Ends

\* p sends a code: it holds the transaction, so no other process is connected.
<1>15. ASSUME NEW p \in Procs, NEW q \in Procs \ {p}, proc[p].conn # NoCard, proc'[q].conn = proc[q].conn
       PROVE  Kept(q)'
  BY <1>0, <1>2, <1>15 DEF LiveConnections
<1>16. ASSUME NEW p \in Procs, NEW from, NEW s, Refused(p, from, s) PROVE \A q \in Procs : Kept(q)'
  <2>1. Others(p) /\ proc'[p].pc = "stop" /\ proc[p].conn # NoCard
    BY <1>0, <1>16, RefusedEffect DEF Refused
  <2> QED
    BY <1>2, <1>15, <2>1 DEF Others
<1>17. ASSUME NEW p \in Procs, NEW from, NEW s,
              SetSlot(p, from, "done", s) \/ SetSlot(p, from, "verify3", s)
       PROVE  \A q \in Procs : Kept(q)'
  <2>1. OthersKeepAll(p) /\ proc'[p].pc \in {"idle", "verify3"}
    BY <1>0, <1>17, SetSlotDone, SetSlotMoves
  <2>2. proc[p].conn # NoCard
    BY <1>17 DEF SetSlot
  <2> QED
    BY <1>2, <1>15, <2>1, <2>2 DEF OthersKeepAll
<1>18. ASSUME NEW p \in Procs, Modify(p) PROVE \A q \in Procs : Kept(q)'
  <2>1. PICK s : s = proc[p].slot
    OBVIOUS
  <2> QED
    BY <1>16, <1>17, <1>18, <2>1 DEF Modify
<1>19. ASSUME Remove PROVE \A q \in Procs : Kept(q)'
  BY <1>0, <1>2, <1>19, RemoveEffect
<1>20. ASSUME Insert PROVE \A q \in Procs : Kept(q)'
  BY <1>1, <1>20 DEF Insert, cards
<1>21. ASSUME ForeignVerify PROVE \A q \in Procs : Kept(q)'
  BY <1>0, <1>2, <1>21, PinAssumption DEF ForeignVerify, LiveConnections
<1>22. CASE UNCHANGED vars
  BY <1>1, <1>22 DEF vars, cards
<1> QED
  BY <1>4, <1>5, <1>6, <1>7, <1>8, <1>9, <1>10, <1>11, <1>12, <1>13, <1>14, <1>18, <1>19, <1>20,
     <1>21, <1>22 DEF Next, Step

\* Every step keeps the facts about the cards.
LEMMA CardStep == World_OK /\ ProcInv /\ CardInv /\ [Next]_vars => CardInv'
<1> SUFFICES ASSUME World_OK, ProcInv, CardInv, [Next]_vars PROVE CardInv'
  OBVIOUS
<1>1. VerifiedFull'
  BY VerifiedStep DEF ProcInv, CardInv
<1>2. (\A p \in Procs : Kept(p))'
  BY KeptStep
<1>3. FloorKept' /\ FactoryKept'
  BY <1>2 DEF Kept, FloorKept, FactoryKept
<1> QED
  BY <1>1, <1>3 DEF CardInv

-----------------------------------------------------------------------------
(***************************************************************************)
(* What a step sends.                                                      *)
(***************************************************************************)
SentOK == CodesReachMeantCard /\ ChangeKeepsFloor /\ ActivatesFactoryCards

\* A step that sends no code keeps what is said of the code sent.
LEMMA SilentOK == Silent => SentOK'
  BY DEF Silent, SentOK, NothingSent, CodesReachMeantCard, ChangeKeepsFloor, ActivatesFactoryCards

\* A code sent from the modify session goes where it may.
LEMMA CodeSentOK ==
    ASSUME World_OK, ProcInv, CardInv, NEW p \in Procs, NEW s \in Slots,
           proc[p].conn # NoCard, Sent(p, proc[p].conn, s),
           \/ proc[p].pc = "send1" /\ (s = proc[p].slot \/ proc[p].flow = "activate")
           \/ proc[p].pc = "send2" /\ s = "pin2" /\ proc[p].flow = "activate"
    PROVE  SentOK'
<1> DEFINE c == proc[p].conn
<1>1. c \in Cards /\ s \in Slots /\ proc[p].pc \in {"send1", "send2"}
  BY Fields DEF ProcInv
<1>2. c = proc[p].bound /\ proc[p].bound \in Trusted
  BY <1>1 DEF ProcInv, SessionInv, ReVerified, BoundTrusted, PastGate, Held
<1>3. proc[p].ui = "cli" \/ proc[p].flow # "activate" => proc[p].bound = proc[p].meant
  BY <1>1 DEF ProcInv, SessionInv, BoundMeant, Held
<1>4. proc[p].flow = "change" => tries[c][s] \in 3 .. MaxTries
  <2>1. ASSUME proc[p].flow = "change" PROVE tries[c][s] \notin {0, 1, 2}
    BY <2>1, <1>1 DEF CardInv, FloorKept, Probed
  <2>2. tries[c][s] \in 0 .. MaxTries
    BY <1>1 DEF World_OK
  <2> QED
    BY <2>1, <2>2 DEF MaxTries
<1>5. proc[p].flow = "activate" =>
        proc[p].allow \/ "pin1" \notin changed[c] \/ s = "pin2" \/ proc[p].told = "no"
  BY <1>1 DEF CardInv, FactoryKept, Probed
<1>6. /\ last'.flow = proc[p].flow /\ last'.ui = proc[p].ui /\ last'.allow = proc[p].allow
      /\ last'.told = proc[p].told
      /\ last'.card = c /\ last'.meant = proc[p].meant /\ last'.tries = tries[c][s]
      /\ last'.factory = ("pin1" \notin changed[c]) /\ last'.slot = s
  BY DEF Sent
<1> HIDE DEF c
<1>7. CodesReachMeantCard'
  BY <1>2, <1>3, <1>6 DEF CodesReachMeantCard
<1>8. ChangeKeepsFloor'
  BY <1>4, <1>6 DEF ChangeKeepsFloor, permits_consumer, MaxTries
<1>9. ActivatesFactoryCards'
  BY <1>5, <1>6 DEF ActivatesFactoryCards
<1> QED
  BY <1>7, <1>8, <1>9 DEF SentOK

\* Every step sends only what it may.
LEMMA SentStep == World_OK /\ ProcInv /\ CardInv /\ SentOK /\ [Next]_vars => SentOK'
<1> SUFFICES ASSUME World_OK, ProcInv, CardInv, SentOK, [Next]_vars PROVE SentOK'
  OBVIOUS
<1>1. ASSUME NEW p \in Procs, Modify(p) PROVE SentOK'
  <2>1. PICK s \in Slots :
          /\ proc[p].conn # NoCard /\ Sent(p, proc[p].conn, s)
          /\ \/ proc[p].pc = "send1" /\ (s = proc[p].slot \/ proc[p].flow = "activate")
             \/ proc[p].pc = "send2" /\ s = "pin2" /\ proc[p].flow = "activate"
    <3>1. proc[p].slot \in Slots /\ "pin1" \in Slots /\ "pin2" \in Slots
      BY Fields DEF ProcInv, Slots
    <3>2. CASE proc[p].flow # "activate"
      BY <1>1, <3>1, <3>2 DEF Modify, SetSlot, Refused
    <3>3. CASE proc[p].flow = "activate"
      BY <1>1, <3>1, <3>3 DEF Modify, SetSlot, Refused
    <3> QED
      BY <3>2, <3>3
  <2> QED
    BY <2>1, CodeSentOK
<1>2. ASSUME NEW p \in Procs,
             StartCli(p) \/ StartGui(p) \/ Prompt(p) \/ Fault(p) \/ (Step(p) /\ ~Modify(p))
      PROVE  SentOK'
  BY <1>2, SilentOK DEF StartCli, StartGui, Prompt, Fault, Step, EstablishTrustedSession,
     ProbeForCli, Classify, OpenSession, ReVerify, Probe, Refuse
<1>3. ASSUME Remove \/ Insert \/ ForeignVerify PROVE SentOK'
  BY <1>3, SilentOK DEF Remove, Insert, ForeignVerify
<1>4. CASE UNCHANGED vars
  BY <1>4 DEF vars, SentOK, CodesReachMeantCard, ChangeKeepsFloor, ActivatesFactoryCards
<1> QED
  BY <1>1, <1>2, <1>3, <1>4 DEF Next

-----------------------------------------------------------------------------
\* The inductive invariant.
IInv == World_OK /\ ProcInv /\ CardInv /\ SentOK

\* The inductive invariant holds initially.
LEMMA InitInv == Init => IInv
<1> SUFFICES ASSUME Init PROVE IInv
  OBVIOUS
<1>1. World_OK
  <2>1. tries \in [Cards -> [Slots -> 0 .. MaxTries]]
    <3>1. StartTries \cup {0, MaxTries} \subseteq 0 .. MaxTries
      BY PinAssumption DEF MaxTries
    <3> QED
      BY <3>1 DEF Init
  <2>2. changed \in [Cards -> SUBSET Slots]
    <3>1. changed \in [Cards -> {{}, Slots}] /\ {{}, Slots} \subseteq SUBSET Slots
      BY DEF Init
    <3> QED
      BY <3>1
  <2>3. puk \in [Cards -> 0 .. MaxTries] /\ verified \in [Cards -> SUBSET Slots]
    BY DEF Init, MaxTries
  <2>4. runs \in 0 .. MaxRuns /\ swaps \in 0 .. MaxSwaps /\ foreign \in 0 .. MaxForeign
    BY PinAssumption DEF Init
  <2> QED
    BY <2>1, <2>2, <2>3, <2>4 DEF Init, World_OK
<1>2. Procs_OK /\ \A p \in Procs : proc[p].pc = "idle" /\ proc[p].conn = NoCard /\ proc[p].spent = 0
  BY IdleType DEF Init, Procs_OK, Idle
<1>3. ProcInv
  BY <1>2 DEF ProcInv, Flow_OK, SessionInv, LiveConnections, BoundTrusted, PastGate, ReVerified,
     BoundMeant, SpentInv, Held
<1>4. CardInv
  BY <1>2 DEF Init, CardInv, VerifiedFull, FloorKept, FactoryKept, Probed
<1>5. SentOK
  BY DEF Init, SentOK, NothingSent, CodesReachMeantCard, ChangeKeepsFloor, ActivatesFactoryCards
<1> QED
  BY <1>1, <1>3, <1>4, <1>5 DEF IInv

\* ... and is kept by every step.
LEMMA Invariance == Spec => []IInv
<1>1. IInv /\ [Next]_vars => IInv'
  <2> SUFFICES ASSUME IInv, [Next]_vars PROVE IInv'
    OBVIOUS
  <2>1. World_OK /\ ProcInv /\ CardInv /\ SentOK /\ Procs_OK
    BY DEF IInv, ProcInv
  <2> QED
    BY <2>1, WorldStep, SessionStep, CardStep, SentStep DEF IInv
<1> QED
  BY <1>1, InitInv, PTL DEF Spec

(***************************************************************************)
(* The type invariant of PIN management, with the flows a step belongs to. *)
(***************************************************************************)
THEOREM TypeCorrect == Spec => []TypeOK
<1>1. IInv => TypeOK
  BY TypeParts DEF IInv, ProcInv
<1> QED
  BY <1>1, Invariance, PTL

(***************************************************************************)
(* A PIN or PUK is presented only to a trusted card and, but for           *)
(* activation in the GUI, to the card it was typed for: the serial         *)
(* comparison of re_verify_session on the live connection closes the gap   *)
(* the prompt leaves.                                                      *)
(***************************************************************************)
THEOREM CodesReachMeantCardHolds == Spec => []CodesReachMeantCard
<1>1. IInv => CodesReachMeantCard
  BY DEF IInv, SentOK
<1> QED
  BY <1>1, Invariance, PTL

(***************************************************************************)
(* A PIN change never presents a PIN with one or two attempts left: the    *)
(* counter is probed under the same transaction as the change.             *)
(***************************************************************************)
THEOREM FloorHolds == Spec => []ChangeKeepsFloor
<1>1. IInv => ChangeKeepsFloor
  BY DEF IInv, SentOK
<1> QED
  BY <1>1, Invariance, PTL

(***************************************************************************)
(* Without --allow-reactivate a card that answered the probes of the       *)
(* preflight is sent an activation code only in factory state, also when   *)
(* activations race.                                                       *)
(***************************************************************************)
THEOREM ActivationGuardHolds == Spec => []ActivatesFactoryCards
<1>1. IInv => ActivatesFactoryCards
  BY DEF IInv, SentOK
<1> QED
  BY <1>1, Invariance, PTL

(***************************************************************************)
(* A command costs at most one attempt, since activate_first stops at the  *)
(* first refusal.                                                          *)
(***************************************************************************)
THEOREM OneTryHolds == Spec => []OneTryPerCommand
<1>1. IInv => OneTryPerCommand
  BY DEF IInv, ProcInv, SessionInv, SpentInv, OneTryPerCommand
<1> QED
  BY <1>1, Invariance, PTL

=============================================================================
