--------------------------- MODULE PcscCardProofs ---------------------------
(***************************************************************************)
(* Theorems about PcscCard, for any number of processes on the reader, any *)
(* files and any length of a chained response.                             *)
(*                                                                         *)
(* CardExclusive is not inductive: that nobody selects another file        *)
(* between SELECT and VERIFY rests on the transaction held since           *)
(* open_session (HolderOwns, PinHolds), which the power cycle of reset     *)
(* gives away while the card has no verification to lose (VerifiedHeld).   *)
(* A SELECT answered by a chain has taken effect before it returns         *)
(* (ChainSelected).                                                        *)
(***************************************************************************)
EXTENDS PcscCard, TLAPS

Transmitting == {"select", "select again", "read", "verify", "pso"}

\* An exchange and a held transaction are the owner's.
HolderOwns == \A p \in Procs : (InExchange(p) \/ sess[p].holds) => tx = p

\* The command in an exchange is the one of the step that is waiting for it,
\* has no permission to be corrected and has not been sent yet.
ExchangeOfStep ==
    \A p \in Procs : InExchange(p) =>
        /\ job[p].step \in Transmitting
        /\ ex[p].cmd = CommandOf(job[p].step)
        /\ ex[p].phase = "send" => ex[p].retry = FALSE /\ ex[p].sends = 0

\* A PinSequence session holds its transaction from open_session on, but for
\* the moment between the power cycle and its tail.
PinHolds ==
    \A p \in Procs :
        /\ job[p].step \in Transmitting \cup {"opened"}
        /\ sess[p].access = "PinSequence"
        => sess[p].holds

\* A session that is not open holds nothing, nor does one whose reset has
\* ended its transaction.
ClosedFree == \A p \in Procs : job[p].step \in {"closed", "reacquire"} => ~sess[p].holds

\* VERIFY and the operation wait in a PinSequence session whose SELECT
\* succeeded, and its file is still the selected one.
SelectedKept ==
    \A p \in Procs : job[p].step \in {"verify", "pso"} =>
        sess[p].access = "PinSequence" /\ card.selected = job[p].file

\* A SELECT that is answered by a chain has selected its file.
ChainSelected ==
    \A p \in Procs : InExchange(p) /\ ex[p].phase = "chain"
                      /\ job[p].step \in {"select", "select again"}
                    => card.selected = job[p].file

\* The process whose PIN the card holds verified holds the transaction, or has
\* left the card so.
VerifiedHeld ==
    /\ card.verified # NoProc => sess[card.verified].holds \/ card.left
    /\ card.left => "leave" \in Dispositions

SequenceInv ==
    /\ HolderOwns /\ ExchangeOfStep /\ PinHolds /\ ClosedFree
    /\ SelectedKept /\ ChainSelected /\ VerifiedHeld

CardInv == TypeOK /\ SequenceInv

-----------------------------------------------------------------------------
(* What the return of an exchange does to the command sequence.            *)

\* select_ef, read_binary_der_object and the PIN sequence keep the file they
\* are about and leave their step only for a later one.
LEMMA AfterTyped ==
    ASSUME TypeOK, NEW p \in Procs,
           NEW from \in Files \cup {NoFile}, NEW st
    PROVE  After(p, from, st) \in Job
<1> DEFINE j == job[p]
<1>1. j \in Job
  BY DEF TypeOK
<1>2. AfterSelect(j, sess[p].access, st) \in Job
  BY <1>1 DEF AfterSelect, Job, Steps
<1>3. AfterRead(j, from, st) \in Job
  <2>1. CASE st # "ok" \/ from = NoFile \/ Len(j.got) >= Size[from]
    BY <1>1, <2>1 DEF AfterRead, Job, Steps
  <2>2. CASE ~(st # "ok" \/ from = NoFile \/ Len(j.got) >= Size[from])
    <3>1. Append(j.got, from) \in Seq(Files)
      <4>1. j.got \in Seq(Files) /\ from \in Files
        BY <1>1, <2>2 DEF Job
      <4> QED
        BY <4>1
    <3> QED
      BY <1>1, <2>2, <3>1 DEF AfterRead, Job, Steps
  <2> QED
    BY <2>1, <2>2
<1>4. AfterPin(j, st) \in Job
  BY <1>1 DEF AfterPin, Job, Steps
<1> QED
  BY <1>2, <1>3, <1>4 DEF After

\* VERIFY and the operation come after a SELECT that succeeded in a PinSequence
\* session, or one after the other.
LEMMA AfterSteps ==
    ASSUME TypeOK, NEW p \in Procs, job[p].step \in Transmitting, NEW from, NEW st
    PROVE  /\ After(p, from, st).file = job[p].file
           /\ After(p, from, st).step \in Transmitting \cup {"drop"}
           /\ After(p, from, st).step \in {"verify", "pso"} =>
                \/ job[p].step \in {"verify", "pso"}
                \/ /\ job[p].step \in {"select", "select again"} /\ st = "ok"
                   /\ sess[p].access = "PinSequence"
<1> DEFINE j == job[p]
<1>1. j \in Job /\ sess[p].access \in Access
  BY DEF TypeOK, Session
<1>2. CASE j.step \in {"select", "select again"}
  BY <1>1, <1>2 DEF After, AfterSelect, Job, Steps, Transmitting, Access
<1>3. CASE j.step = "read"
  BY <1>1, <1>3 DEF After, AfterRead, Job, Steps, Transmitting
<1>4. CASE j.step \in {"verify", "pso"}
  BY <1>1, <1>4 DEF After, AfterPin, Job, Steps, Transmitting
<1> QED
  BY <1>2, <1>3, <1>4 DEF Transmitting

-----------------------------------------------------------------------------
(* The invariant is kept by every action.                                  *)

\* The handle's mark that the card was reset is all that reset and disconnect
\* change in the sessions of the others.
LEMMA OthersStaleEffect ==
    ASSUME TypeOK, NEW p \in Procs
    PROVE  /\ OthersStale(p) \in [Procs -> Session]
           /\ \A q \in Procs : /\ OthersStale(p)[q].holds = sess[q].holds
                               /\ OthersStale(p)[q].access = sess[q].access
<1>1. \A q \in Procs : sess[q] \in Session
  BY DEF TypeOK
<1>2. ASSUME NEW q \in Procs
      PROVE  /\ [sess[q] EXCEPT !.stale = TRUE] \in Session
             /\ [sess[q] EXCEPT !.stale = TRUE].holds = sess[q].holds
             /\ [sess[q] EXCEPT !.stale = TRUE].access = sess[q].access
  BY <1>1 DEF Session
<1> QED
  BY <1>1, <1>2 DEF OthersStale

\* What an action of p leaves alone: the exchanges and sequences of the others.
Alone(p) ==
    \A q \in Procs \ {p} :
        /\ job'[q].step = job[q].step /\ job'[q].file = job[q].file
        /\ ex'[q] = ex[q]
        /\ sess'[q].holds = sess[q].holds /\ sess'[q].access = sess[q].access

\* open_session
LEMMA OpenKeeps ==
    ASSUME CardInv, NEW p \in Procs, NEW access \in Access, NEW f \in Files,
           open_session(p, access, f)
    PROVE  CardInv'
<1> USE DEF open_session, CardInv
<1>1. TypeOK'
  <2>1. [open |-> TRUE, access |-> access, holds |-> access = "PinSequence",
         stale |-> FALSE] \in Session
    BY DEF Session
  <2>2. sess' \in [Procs -> Session]
    BY <2>1 DEF TypeOK
  <2>3. [step |-> "opened", file |-> f, got |-> <<>>, result |-> "none"] \in Job
    BY DEF Job, Steps
  <2>4. job' \in [Procs -> Job]
    BY <2>3 DEF TypeOK
  <2> QED
    BY <2>2, <2>4 DEF TypeOK
<1>2. /\ job[p].step = "closed" /\ job'[p].step = "opened"
      /\ sess'[p].access = access /\ (sess'[p].holds <=> access = "PinSequence")
      /\ Alone(p) /\ ex' = ex /\ card' = card
      /\ access = "PinSequence" => tx = NoProc /\ tx' = p
      /\ access # "PinSequence" => tx' = tx
  BY DEF TypeOK, Alone
<1>3. card.verified = p => card.left
  BY <1>2, PcscAssumption DEF VerifiedHeld, ClosedFree, SequenceInv
<1> HIDE DEF open_session
<1>4. ~InExchange(p) /\ ~sess[p].holds
  BY <1>2 DEF ExchangeOfStep, Transmitting, SequenceInv, ClosedFree
<1>5. HolderOwns'
  BY <1>2, <1>4, PcscAssumption DEF HolderOwns, SequenceInv, InExchange, Alone
<1>6. ExchangeOfStep'
  BY <1>2, <1>4 DEF ExchangeOfStep, SequenceInv, InExchange, Alone
<1>7. PinHolds' /\ ClosedFree' /\ SelectedKept'
  BY <1>2 DEF PinHolds, ClosedFree, SelectedKept, SequenceInv, Alone
<1>8. VerifiedHeld'
  BY <1>2, <1>3 DEF VerifiedHeld, SequenceInv, Alone, TypeOK
<1>9. ChainSelected'
  BY <1>2, <1>4 DEF ChainSelected, SequenceInv, InExchange, Alone
<1> QED
  BY <1>1, <1>5, <1>6, <1>7, <1>8, <1>9 DEF SequenceInv

\* Proceed
LEMMA ProceedKeeps ==
    ASSUME CardInv, NEW p \in Procs, Proceed(p)
    PROVE  CardInv'
<1> USE DEF Proceed, CardInv
<1>1. TypeOK'
  <2>1. [job[p] EXCEPT !.step = "select"] \in Job
    BY DEF Job, Steps, TypeOK
  <2> QED
    BY <2>1 DEF TypeOK
<1>2. /\ job[p].step = "opened" /\ job'[p].step = "select"
      /\ Alone(p) /\ UNCHANGED <<ex, card, tx, sess>>
  BY DEF TypeOK, Alone, Job
<1> HIDE DEF Proceed
<1>3. ~InExchange(p)
  BY <1>2 DEF ExchangeOfStep, Transmitting, SequenceInv
<1>4. HolderOwns' /\ VerifiedHeld'
  BY <1>2 DEF HolderOwns, SequenceInv, InExchange, VerifiedHeld
<1>5. ExchangeOfStep'
  BY <1>2, <1>3 DEF ExchangeOfStep, SequenceInv, InExchange, Alone
<1>6. PinHolds' /\ ClosedFree' /\ SelectedKept'
  BY <1>2 DEF PinHolds, ClosedFree, SelectedKept, SequenceInv, Alone
<1>7. ChainSelected'
  BY <1>2, <1>3 DEF ChainSelected, SequenceInv, InExchange, Alone
<1> QED
  BY <1>1, <1>4, <1>5, <1>6, <1>7 DEF SequenceInv

\* reset
LEMMA ResetKeeps ==
    ASSUME CardInv, NEW p \in Procs, reset(p)
    PROVE  CardInv'
<1> USE DEF CardInv
<1>1. /\ sess' \in [Procs -> Session] /\ ~sess'[p].holds
      /\ sess'[p].access = sess[p].access
      /\ \A q \in Procs \ {p} :
            sess'[q].holds = sess[q].holds /\ sess'[q].access = sess[q].access
  <2> DEFINE S == OthersStale(p)
  <2>1. S \in [Procs -> Session]
    BY OthersStaleEffect
  <2>2. /\ S[p].access = sess[p].access
        /\ \A q \in Procs \ {p} : S[q].holds = sess[q].holds /\ S[q].access = sess[q].access
    BY OthersStaleEffect
  <2>3. sess' = [S EXCEPT ![p].stale = FALSE, ![p].holds = FALSE]
    BY DEF reset
  <2> HIDE DEF S
  <2> QED
    BY <2>1, <2>2, <2>3 DEF Session
<1>2. TypeOK' /\ job'[p].step \in {"reacquire", "select"}
      /\ (job'[p].step = "select" => ~sess[p].holds)
      /\ \A q \in Procs \ {p} : job'[q] = job[q]
  <2>1. \A x \in {"reacquire", "select"} :
          /\ [job[p] EXCEPT !.step = x] \in Job
          /\ [job[p] EXCEPT !.step = x].step = x
    BY DEF Job, Steps, TypeOK
  <2>2. card' \in [selected : Files \cup {NoFile}, verified : Procs \cup {NoProc}, left : BOOLEAN]
    BY DEF reset, Unpowered
  <2> QED
    BY <1>1, <2>1, <2>2 DEF TypeOK, reset
<1>3. /\ job[p].step = "opened" /\ tx \in {NoProc, p} /\ tx' = NoProc
      /\ Alone(p) /\ ex' = ex /\ card'.verified = NoProc /\ card'.left = FALSE
  BY <1>1, <1>2 DEF Alone, reset, Unpowered
<1>4. ~InExchange(p)
  BY <1>3 DEF ExchangeOfStep, Transmitting, SequenceInv
<1>5. \A q \in Procs \ {p} : ~InExchange(q) /\ ~sess[q].holds
  BY <1>3, PcscAssumption DEF HolderOwns, SequenceInv
<1>6. HolderOwns' /\ VerifiedHeld'
  BY <1>1, <1>3, <1>4, <1>5 DEF HolderOwns, SequenceInv, InExchange, VerifiedHeld, Alone
<1>7. ExchangeOfStep'
  BY <1>3, <1>4 DEF ExchangeOfStep, SequenceInv, InExchange, Alone
<1>8. PinHolds'
  <2>1. job'[p].step = "select" => sess'[p].access # "PinSequence"
    BY <1>1, <1>2, <1>3 DEF PinHolds, SequenceInv
  <2> QED
    BY <1>2, <1>3, <2>1 DEF PinHolds, SequenceInv, Alone, Transmitting
<1>10. ClosedFree'
  BY <1>1, <1>2, <1>3 DEF ClosedFree, SequenceInv, Alone
<1>9. SelectedKept'
  <2>1. \A q \in Procs : job'[q].step \notin {"verify", "pso"}
    BY <1>2, <1>5 DEF SelectedKept, PinHolds, SequenceInv, Transmitting
  <2> QED
    BY <2>1 DEF SelectedKept
<1>11. ChainSelected'
  BY <1>3, <1>4, <1>5 DEF ChainSelected, InExchange
<1> QED
  BY <1>2, <1>6, <1>7, <1>8, <1>9, <1>10, <1>11 DEF SequenceInv

\* The tail of reset
LEMMA ReacquireKeeps ==
    ASSUME CardInv, NEW p \in Procs, reacquire(p)
    PROVE  CardInv'
<1> USE DEF CardInv
<1>1. job[p].step = "reacquire" /\ ~InExchange(p) /\ UNCHANGED <<card, ex, apdu>>
  BY DEF reacquire, ExchangeOfStep, Transmitting, SequenceInv
<1>4. /\ [job[p] EXCEPT !.step = "select"] \in Job
      /\ [job[p] EXCEPT !.step = "drop", !.result = "failed"] \in Job
  <2>1. job[p] \in Job
    BY DEF TypeOK
  <2> QED
    BY <2>1 DEF Job, Steps
<1>2. CASE tx = NoProc /\ tx' = p /\ sess' = [sess EXCEPT ![p].holds = TRUE]
           /\ job' = [job EXCEPT ![p].step = "select"]
  <2>1. TypeOK'
    <3>2. sess[p] \in Session
      BY DEF TypeOK
    <3>1. [sess[p] EXCEPT !.holds = TRUE] \in Session
      BY <3>2 DEF Session
    <3> QED
      BY <1>1, <1>2, <1>4, <3>1 DEF TypeOK
  <2>2. /\ job'[p].step = "select" /\ sess'[p].holds /\ tx = NoProc /\ tx' = p
        /\ Alone(p)
    BY <1>1, <1>2 DEF TypeOK, Alone, Job, Session
  <2>3. HolderOwns'
    BY <1>1, <2>2, PcscAssumption DEF HolderOwns, SequenceInv, InExchange, Alone
  <2>4. VerifiedHeld'
    BY <1>1, <2>2 DEF VerifiedHeld, SequenceInv, Alone, TypeOK
  <2>5. ExchangeOfStep'
    BY <1>1, <2>2 DEF ExchangeOfStep, SequenceInv, InExchange, Alone
  <2>6. PinHolds' /\ ClosedFree' /\ SelectedKept'
    BY <1>1, <2>2 DEF PinHolds, ClosedFree, SelectedKept, SequenceInv, Alone
  <2>7. ChainSelected'
    BY <1>1, <2>2 DEF ChainSelected, SequenceInv, InExchange, Alone
  <2> QED
    BY <2>1, <2>3, <2>4, <2>5, <2>6, <2>7 DEF SequenceInv
<1>3. CASE /\ job' = [job EXCEPT ![p].step = "drop", ![p].result = "failed"]
           /\ UNCHANGED <<tx, sess>>
  <2>1. TypeOK' /\ job'[p].step = "drop"
    BY <1>1, <1>3, <1>4 DEF TypeOK, Job
  <2>2. Alone(p)
    BY <1>1, <1>3 DEF TypeOK, Alone
  <2>3. HolderOwns' /\ VerifiedHeld'
    BY <1>1, <1>3 DEF HolderOwns, SequenceInv, InExchange, VerifiedHeld
  <2>4. ExchangeOfStep'
    BY <1>1, <2>1, <2>2 DEF ExchangeOfStep, SequenceInv, InExchange, Alone
  <2>5. PinHolds' /\ ClosedFree' /\ SelectedKept'
    BY <1>1, <2>1, <2>2 DEF PinHolds, ClosedFree, SelectedKept, SequenceInv, Alone, Transmitting
  <2>6. ChainSelected'
    BY <1>1, <2>2 DEF ChainSelected, SequenceInv, InExchange, Alone
  <2> QED
    BY <2>1, <2>3, <2>4, <2>5, <2>6 DEF SequenceInv
<1> QED
  BY <1>2, <1>3 DEF reacquire

\* Dropping the handle
LEMMA DropKeeps ==
    ASSUME CardInv, NEW p \in Procs, Drop(p)
    PROVE  CardInv'
<1> USE DEF CardInv
<1>1. /\ job[p].step = "drop" /\ job'[p].step = "closed" /\ job' \in [Procs -> Job]
      /\ \A q \in Procs \ {p} : job'[q] = job[q]
  <2>1. /\ [job[p] EXCEPT !.step = "closed"] \in Job
        /\ [job[p] EXCEPT !.step = "closed"].step = "closed"
    BY DEF Job, Steps, TypeOK
  <2> QED
    BY <2>1 DEF Drop, TypeOK
<1>2. ~InExchange(p) /\ UNCHANGED <<ex, apdu>>
  BY <1>1 DEF Drop, ExchangeOfStep, Transmitting, SequenceInv
<1>3. NoSession \in Session /\ NoSession.holds = FALSE
  BY DEF NoSession, Session, Access
<1>4. CASE /\ tx \in {NoProc, p} /\ card' = Unpowered /\ tx' = NoProc
           /\ sess' = [OthersStale(p) EXCEPT ![p] = NoSession]
  <2>1. sess' = [OthersStale(p) EXCEPT ![p] = NoSession] /\ card' = Unpowered /\ tx' = NoProc
    BY <1>4
  <2>2. /\ sess' \in [Procs -> Session] /\ ~sess'[p].holds
        /\ \A q \in Procs \ {p} :
              sess'[q].holds = sess[q].holds /\ sess'[q].access = sess[q].access
    BY <1>3, <2>1, OthersStaleEffect
  <2>3. TypeOK' /\ card'.verified = NoProc /\ card'.left = FALSE
    BY <1>1, <1>2, <2>1, <2>2 DEF TypeOK, Unpowered
  <2>4. Alone(p)
    BY <1>1, <1>2, <2>2 DEF Alone
  <2>5. \A q \in Procs \ {p} : ~InExchange(q) /\ ~sess[q].holds
    BY <1>4, PcscAssumption DEF HolderOwns, SequenceInv
  <2>6. HolderOwns' /\ VerifiedHeld'
    BY <1>2, <2>2, <2>3, <2>4, <2>5 DEF HolderOwns, InExchange, VerifiedHeld, Alone
  <2>7. ExchangeOfStep'
    BY <1>1, <1>2, <2>4 DEF ExchangeOfStep, SequenceInv, InExchange, Alone
  <2>8. PinHolds' /\ ClosedFree'
    BY <1>1, <2>2, <2>4 DEF PinHolds, ClosedFree, SequenceInv, Alone, Transmitting
  <2>9. SelectedKept'
    <3>1. \A q \in Procs : job'[q].step \notin {"verify", "pso"}
      BY <1>1, <2>5 DEF SelectedKept, PinHolds, SequenceInv, Transmitting
    <3> QED
      BY <3>1 DEF SelectedKept
  <2>10. ChainSelected'
    BY <1>2, <2>5 DEF ChainSelected, InExchange
  <2> QED
    BY <2>3, <2>6, <2>7, <2>8, <2>9, <2>10 DEF SequenceInv
<1>5. CASE /\ "leave" \in Dispositions \/ tx \notin {NoProc, p}
           /\ card' = [card EXCEPT !.left = @ \/ card.verified = p]
           /\ sess' = [sess EXCEPT ![p] = NoSession]
           /\ tx' = IF tx = p THEN NoProc ELSE tx
  <2>0. card \in [selected : Files \cup {NoFile}, verified : Procs \cup {NoProc}, left : BOOLEAN]
    BY DEF TypeOK
  <2>1. /\ sess' = [sess EXCEPT ![p] = NoSession]
        /\ card' \in [selected : Files \cup {NoFile}, verified : Procs \cup {NoProc}, left : BOOLEAN]
        /\ card'.selected = card.selected /\ card'.verified = card.verified
        /\ card'.left <=> (card.left \/ card.verified = p)
    BY <1>5, <2>0
  <2>2. TypeOK'
    BY <1>1, <1>2, <1>3, <1>5, <2>1 DEF TypeOK
  <2>3. ~sess'[p].holds /\ Alone(p)
    BY <1>1, <1>2, <1>3, <2>1 DEF TypeOK, Alone
  <2>4. card.verified = p => "leave" \in Dispositions
    BY <1>5, PcscAssumption DEF HolderOwns, VerifiedHeld, SequenceInv
  <2>5. HolderOwns'
    BY <1>2, <1>5, <2>3 DEF HolderOwns, SequenceInv, InExchange, Alone
  <2>6. VerifiedHeld'
    BY <2>0, <2>1, <2>3, <2>4 DEF VerifiedHeld, SequenceInv, Alone
  <2>7. ExchangeOfStep'
    BY <1>1, <1>2, <2>3 DEF ExchangeOfStep, SequenceInv, InExchange, Alone
  <2>8. PinHolds' /\ ClosedFree'
    BY <1>1, <2>3 DEF PinHolds, ClosedFree, SequenceInv, Alone, Transmitting
  <2>9. SelectedKept'
    BY <1>1, <2>1, <2>3 DEF SelectedKept, SequenceInv, Alone
  <2>10. ChainSelected'
    BY <1>2, <2>1, <2>3 DEF ChainSelected, SequenceInv, InExchange, Alone
  <2> QED
    BY <2>2, <2>5, <2>6, <2>7, <2>8, <2>9, <2>10 DEF SequenceInv
<1> QED
  BY <1>4, <1>5 DEF Drop

\* What the card may have done when the exchange of p returns with st: a
\* SELECT has selected the file, a VERIFY verified the PIN, and nothing else.
Answered(p, st) ==
    /\ UNCHANGED sess
    /\ card' \in [selected : Files \cup {NoFile}, verified : Procs \cup {NoProc}, left : BOOLEAN]
    /\ apdu' \in (Procs \cup {NoProc}) \X Commands
    /\ job[p].step \in {"select", "select again"} /\ st \in {"ok", "61"} =>
         card'.selected = job[p].file
    /\ job[p].step \in {"verify", "pso"} => card'.selected = card.selected
    /\ card'.verified \in {card.verified, p}
    /\ \/ card'.verified = card.verified /\ card'.left = card.left
       \/ card'.verified = p /\ ~card'.left /\ job[p].step = "verify"

\* The return of an exchange: p is in one, the card has done what the step
\* asked for, and the transaction ends unless the session holds it.
LEMMA FinishKeeps ==
    ASSUME CardInv, NEW p \in Procs, InExchange(p),
           NEW from \in Files \cup {NoFile}, NEW st, Finish(p, from, st),
           Answered(p, st)
    PROVE  CardInv'
<1> USE DEF CardInv
<1>1. /\ job[p].step \in Transmitting /\ tx = p
      /\ \A q \in Procs \ {p} : ~InExchange(q) /\ ~sess[q].holds
  BY DEF HolderOwns, SequenceInv, ExchangeOfStep
<1>2. TypeOK'
  <2>1. After(p, from, st) \in Job
    BY AfterTyped
  <2>2. NoExchange \in Exchange
    <3>1. 0 \in 0..2 /\ 0 \in 0..MaxBytes
      BY PcscAssumption
    <3> QED
      BY <3>1 DEF NoExchange, Exchange, Commands
  <2> QED
    BY <2>1, <2>2 DEF Finish, TypeOK, Answered
<1> DEFINE j == After(p, from, st)
<1>3. /\ j.file = job[p].file
      /\ j.step \in Transmitting \cup {"drop"}
      /\ j.step \in {"verify", "pso"} =>
            \/ job[p].step \in {"verify", "pso"}
            \/ /\ job[p].step \in {"select", "select again"} /\ st = "ok"
               /\ sess[p].access = "PinSequence"
  BY <1>1, AfterSteps
<1>4. job'[p] = j /\ ~InExchange(p)' /\ Alone(p)
  BY DEF Finish, TypeOK, Alone, InExchange, NoExchange, Answered
<1>5. tx' = IF sess[p].holds THEN p ELSE NoProc
  BY <1>1 DEF Finish
<1> HIDE DEF j
<1>11. \A q \in Procs : ~InExchange(q)'
  BY <1>1, <1>4 DEF InExchange, Alone
<1>6. HolderOwns'
  BY <1>1, <1>5, <1>11 DEF HolderOwns, Answered
<1>7. ExchangeOfStep'
  BY <1>11 DEF ExchangeOfStep
<1>8. PinHolds' /\ ClosedFree'
  BY <1>1, <1>3, <1>4 DEF PinHolds, ClosedFree, SequenceInv, Alone, Transmitting, Answered
<1>9. SelectedKept'
  <2>3. \A q \in Procs \ {p} : job[q].step \notin {"verify", "pso"}
    BY <1>1 DEF SelectedKept, PinHolds, SequenceInv, Transmitting
  <2>1. \A q \in Procs \ {p} : job'[q].step \notin {"verify", "pso"}
    BY <1>4, <2>3 DEF Alone
  <2>2. job'[p].step \in {"verify", "pso"} =>
          sess'[p].access = "PinSequence" /\ card'.selected = job'[p].file
    BY <1>3, <1>4 DEF SelectedKept, SequenceInv, Answered
  <2> QED
    BY <2>1, <2>2 DEF SelectedKept
<1>10. VerifiedHeld'
  <2>1. job[p].step = "verify" => sess[p].holds
    BY DEF SelectedKept, PinHolds, SequenceInv, Transmitting
  <2> QED
    BY <2>1 DEF VerifiedHeld, SequenceInv, Answered
<1>12. ChainSelected'
  BY <1>11 DEF ChainSelected
<1> QED
  BY <1>2, <1>6, <1>7, <1>8, <1>9, <1>10, <1>12 DEF SequenceInv

\* transmit_outcome
LEMMA TransmitKeeps ==
    ASSUME CardInv, NEW p \in Procs, transmit_outcome(p)
    PROVE  CardInv'
<1> USE DEF CardInv
<1>1. /\ ~InExchange(p) /\ job[p].step \in Transmitting /\ UNCHANGED <<card, sess, apdu>>
  BY DEF transmit_outcome, InExchange, Transmitting
<1>2. CASE /\ sess[p].holds \/ (tx = NoProc /\ ~sess[p].stale)
           /\ tx' = p
           /\ ex' = [ex EXCEPT ![p] = CommandFromBytes(CommandOf(job[p].step))]
           /\ UNCHANGED job
  <2> DEFINE e == CommandFromBytes(CommandOf(job[p].step))
  <2>1. /\ e \in Exchange /\ e.phase = "send" /\ e.cmd = CommandOf(job[p].step)
        /\ e.retry = FALSE /\ e.sends = 0
    <3>1. 0 \in 0..2 /\ 0 \in 0..MaxBytes
      BY PcscAssumption
    <3>2. CommandOf(job[p].step) \in Commands
      BY DEF CommandOf, Commands
    <3> QED
      BY <3>1, <3>2 DEF CommandFromBytes, NoExchange, Exchange
  <2> HIDE DEF e
  <2>2. TypeOK'
    BY <1>1, <1>2, <2>1 DEF TypeOK, e
  <2>3. ex'[p] = e /\ Alone(p)
    BY <1>1, <1>2 DEF TypeOK, Alone, e
  <2>4. \A q \in Procs \ {p} : ~InExchange(q) /\ ~sess[q].holds
    <3>1. tx \in {NoProc, p}
      BY <1>2 DEF HolderOwns, SequenceInv
    <3> QED
      BY <3>1, PcscAssumption DEF HolderOwns, SequenceInv
  <2>5. HolderOwns'
    BY <1>1, <1>2, <2>3, <2>4 DEF HolderOwns, InExchange, Alone
  <2>6. ExchangeOfStep'
    BY <1>1, <1>2, <2>1, <2>3 DEF ExchangeOfStep, SequenceInv, InExchange, Alone
  <2>7. PinHolds' /\ ClosedFree' /\ SelectedKept' /\ VerifiedHeld'
    BY <1>1, <1>2 DEF PinHolds, ClosedFree, SelectedKept, VerifiedHeld, SequenceInv
  <2>8. ChainSelected'
    BY <1>1, <1>2, <2>1, <2>3 DEF ChainSelected, SequenceInv, InExchange, Alone
  <2> QED
    BY <2>2, <2>5, <2>6, <2>7, <2>8 DEF SequenceInv
<1>3. CASE /\ ~sess[p].holds /\ sess[p].stale
           /\ job' = [job EXCEPT ![p] = After(p, NoFile, "break")]
           /\ UNCHANGED <<tx, ex>>
  <2> DEFINE j == After(p, NoFile, "break")
  <2>1. TypeOK'
    BY <1>1, <1>3, AfterTyped DEF TypeOK
  <2>2. /\ j.file = job[p].file
        /\ j.step \in Transmitting \cup {"drop"}
        /\ j.step \in {"verify", "pso"} => job[p].step \in {"verify", "pso"}
    <3>1. \/ job[p].step \in {"verify", "pso"}
          \/ j.step \notin {"verify", "pso"}
      BY <1>1, AfterSteps
    <3>2. j.file = job[p].file
      BY <1>1 DEF After, AfterSelect, AfterRead, AfterPin, TypeOK, Job
    <3>3. j.step \in Transmitting \cup {"drop"}
      BY <1>1, AfterSteps
    <3> QED
      BY <3>1, <3>2, <3>3
  <2>3. job'[p] = j /\ Alone(p)
    BY <1>1, <1>3 DEF TypeOK, Alone
  <2> HIDE DEF j
  <2>4. HolderOwns' /\ VerifiedHeld'
    BY <1>1, <1>3 DEF HolderOwns, VerifiedHeld, SequenceInv, InExchange
  <2>5. ExchangeOfStep'
    BY <1>1, <1>3, <2>3 DEF ExchangeOfStep, SequenceInv, InExchange, Alone
  <2>6. PinHolds' /\ ClosedFree'
    BY <1>1, <2>2, <2>3 DEF PinHolds, ClosedFree, SequenceInv, Alone, Transmitting
  <2>7. SelectedKept'
    BY <1>1, <2>2, <2>3 DEF SelectedKept, SequenceInv, Alone
  <2>8. ChainSelected'
    BY <1>1, <1>3, <2>3 DEF ChainSelected, SequenceInv, InExchange, Alone
  <2> QED
    BY <2>1, <2>4, <2>5, <2>6, <2>7, <2>8 DEF SequenceInv
<1> QED
  BY <1>2, <1>3 DEF transmit_outcome

\* The exchange goes on: only the owner of the transaction is in one.
LEMMA ContinueKeeps ==
    ASSUME CardInv, NEW p \in Procs, InExchange(p),
           NEW e \in Exchange, e.phase = "chain", e.cmd = ex[p].cmd,
           ex' = [ex EXCEPT ![p] = e],
           UNCHANGED <<tx, job>>, Answered(p, "61")
    PROVE  CardInv'
<1> USE DEF CardInv
<1>1. /\ job[p].step \in Transmitting /\ tx = p
      /\ \A q \in Procs \ {p} : ~InExchange(q) /\ ~sess[q].holds
  BY DEF HolderOwns, SequenceInv, ExchangeOfStep
<1>2. TypeOK'
  BY DEF TypeOK, Answered
<1>3. ex'[p] = e /\ \A q \in Procs \ {p} : ex'[q] = ex[q]
  BY DEF TypeOK
<1>4. HolderOwns'
  BY <1>1, <1>3 DEF HolderOwns, SequenceInv, InExchange, Answered
<1>5. ExchangeOfStep'
  BY <1>1, <1>3 DEF ExchangeOfStep, SequenceInv, InExchange
<1>9. ChainSelected'
  BY <1>1, <1>3 DEF ChainSelected, InExchange, Answered
<1>6. PinHolds' /\ ClosedFree'
  BY DEF PinHolds, ClosedFree, SequenceInv, Answered
<1>7. SelectedKept'
  <2>1. \A q \in Procs \ {p} : job[q].step \notin {"verify", "pso"}
    BY <1>1 DEF SelectedKept, PinHolds, SequenceInv, Transmitting
  <2> QED
    BY <2>1 DEF SelectedKept, SequenceInv, Answered
<1>8. VerifiedHeld'
  <2>1. job[p].step = "verify" => sess[p].holds
    BY DEF SelectedKept, PinHolds, SequenceInv, Transmitting
  <2> QED
    BY <2>1 DEF VerifiedHeld, SequenceInv, Answered
<1> QED
  BY <1>2, <1>4, <1>5, <1>6, <1>7, <1>8, <1>9 DEF SequenceInv

\* One turn of the outer loop of run_t0_exchange
LEMMA SendKeeps ==
    ASSUME CardInv, NEW p \in Procs, Send(p)
    PROVE  CardInv'
<1> USE DEF CardInv
<1>1. /\ InExchange(p) /\ ex[p].phase = "send" /\ job[p].step \in Transmitting
      /\ ex[p].cmd = CommandOf(job[p].step) /\ ex[p].retry = FALSE /\ ex[p].sends = 0
  BY DEF Send, ExchangeOfStep, SequenceInv, InExchange
<1>2. CASE Finish(p, NoFile, "break") /\ UNCHANGED <<card, sess, apdu>>
  <2>1. Answered(p, "break")
    BY <1>2 DEF Answered, TypeOK
  <2> QED
    BY <1>1, <1>2, <2>1, FinishKeeps
<1>3. ASSUME NEW st \in CardAnswers(p, ex[p].cmd),
             apdu' = <<p, ex[p].cmd>>, UNCHANGED sess,
             card' = IF st \in {"ok", "61"} THEN CardEffect(p, ex[p].cmd) ELSE card,
             IF Continued(ex[p], st) # {}
             THEN /\ \E e \in Continued(ex[p], st) :
                       ex' = [ex EXCEPT ![p] = [e EXCEPT !.sends = @ + 1]]
                  /\ UNCHANGED <<tx, job>>
             ELSE Finish(p, card.selected, st)
      PROVE  CardInv'
  <2>1. Answered(p, st)
    <3>1. card \in [selected : Files \cup {NoFile}, verified : Procs \cup {NoProc}, left : BOOLEAN]
          /\ job[p].file \in Files
      BY DEF TypeOK, Job
    <3>2. ex[p].cmd \in Commands /\ apdu' \in (Procs \cup {NoProc}) \X Commands
      BY <1>3 DEF TypeOK, Exchange
    <3>3. CASE ex[p].cmd = "SELECT"
      BY <1>1, <1>3, <3>1, <3>2, <3>3 DEF Answered, CardEffect, CommandOf
    <3>4. CASE ex[p].cmd = "VERIFY"
      BY <1>1, <1>3, <3>1, <3>2, <3>4 DEF Answered, CardEffect, CommandOf
    <3>5. CASE ex[p].cmd \notin {"SELECT", "VERIFY"}
      BY <1>1, <1>3, <3>1, <3>2, <3>5 DEF Answered, CardEffect, CommandOf
    <3> QED
      BY <3>3, <3>4, <3>5
  <2>2. CASE st = "61"
    <3>2. PICK x : x = [ex[p] EXCEPT !.phase = "chain"]
      OBVIOUS
    <3>3. x \in Exchange /\ x.phase = "chain" /\ x.cmd = ex[p].cmd /\ x.sends = 0
      <4>1. ex[p] \in Exchange
        BY DEF TypeOK
      <4> QED
        BY <1>1, <3>2, <4>1 DEF Exchange
    <3>4. PICK y : y = [x EXCEPT !.sends = x.sends + 1]
      OBVIOUS
    <3>5. y \in Exchange /\ y.phase = "chain" /\ y.cmd = ex[p].cmd
      BY <3>3, <3>4 DEF Exchange
    <3>6. Continued(ex[p], st) = {x}
      BY <2>2, <3>2 DEF Continued
    <3>7. ex' = [ex EXCEPT ![p] = y] /\ UNCHANGED <<tx, job>>
      BY <1>3, <3>4, <3>6
    <3> QED
      BY <1>1, <2>1, <2>2, <3>5, <3>7, ContinueKeeps
  <2>3. CASE st # "61"
    <3>1. Continued(ex[p], st) = {}
      BY <1>1, <2>3 DEF Continued, CorrectedWrongLe
    <3>2. PICK from \in Files \cup {NoFile} : from = card.selected
      BY DEF TypeOK
    <3>3. Finish(p, from, st)
      BY <1>3, <3>1, <3>2
    <3> QED
      BY <1>1, <2>1, <3>3, FinishKeeps
  <2> QED
    BY <2>2, <2>3
<1> QED
  BY <1>2, <1>3 DEF Send

\* One turn of the GET RESPONSE loop
LEMMA ChainKeeps ==
    ASSUME CardInv, NEW p \in Procs, Chain(p)
    PROVE  CardInv'
<1> USE DEF CardInv
<1>1. InExchange(p) /\ ex[p].phase = "chain" /\ ex[p] \in Exchange
  BY DEF Chain, InExchange, TypeOK
<1>2. \A st : Answered(p, st)
  <2>1. job[p].step \in {"select", "select again"} => card.selected = job[p].file
    BY <1>1 DEF ChainSelected, SequenceInv
  <2>2. UNCHANGED <<card, sess>> /\ apdu' \in (Procs \cup {NoProc}) \X Commands
    BY <1>1 DEF Chain, Exchange
  <2> QED
    BY <2>1, <2>2 DEF Answered, TypeOK
<1>3. CASE Finish(p, NoFile, "err")
  BY <1>1, <1>2, <1>3, FinishKeeps
<1>4. ASSUME NEW n \in 0..1, ~ChainTooLong(ex[p].len, n),
             ex' = [ex EXCEPT ![p].len = @ + n, ![p].odd = ~@],
             UNCHANGED <<tx, job>>
      PROVE  CardInv'
  <2>1. ex[p].len + n \in 0..MaxBytes
    BY <1>1, <1>4, PcscAssumption DEF ChainTooLong, Exchange
  <2>2. PICK x : x = [ex[p] EXCEPT !.len = ex[p].len + n]
    OBVIOUS
  <2>3. x \in Exchange /\ x.phase = "chain" /\ x.cmd = ex[p].cmd
    BY <1>1, <2>1, <2>2 DEF Exchange
  <2>4. PICK y : y = [x EXCEPT !.odd = ~x.odd]
    OBVIOUS
  <2>5. y \in Exchange /\ y.phase = "chain" /\ y.cmd = ex[p].cmd
    BY <2>3, <2>4 DEF Exchange
  <2>6. ex' = [ex EXCEPT ![p] = y]
    BY <1>1, <1>4, <2>2, <2>4 DEF Exchange, TypeOK
  <2> QED
    BY <1>1, <1>2, <1>4, <2>5, <2>6, ContinueKeeps
<1>5. ASSUME NEW st, Finish(p, card.selected, st) PROVE CardInv'
  <2>1. PICK from \in Files \cup {NoFile} : from = card.selected
    BY DEF TypeOK
  <2> QED
    BY <1>1, <1>2, <1>5, <2>1, FinishKeeps
<1> QED
  BY <1>3, <1>4, <1>5 DEF Chain

-----------------------------------------------------------------------------
(* The theorems.                                                           *)

\* The invariant holds when no process has connected yet.
LEMMA CardInit == Init => CardInv
<1> SUFFICES ASSUME Init PROVE CardInv
  OBVIOUS
<1>1. NoSession \in Session /\ NoSession.holds = FALSE
  BY DEF NoSession, Session, Access
<1>2. NoExchange \in Exchange /\ NoExchange.phase = "none"
  <2>1. 0 \in 0..2 /\ 0 \in 0..MaxBytes
    BY PcscAssumption
  <2> QED
    BY <2>1 DEF NoExchange, Exchange, Commands
<1>3. job \in [Procs -> Job] /\ \A p \in Procs : job[p].step = "closed"
  <2>1. \A f \in Files :
          [step |-> "closed", file |-> f, got |-> <<>>, result |-> "none"] \in Job
    BY DEF Job, Steps
  <2> QED
    BY <2>1 DEF Init
<1>4. TypeOK
  BY <1>1, <1>2, <1>3 DEF Init, TypeOK, Unpowered, Commands
<1>5. SequenceInv
  BY <1>1, <1>2, <1>3 DEF Init, SequenceInv, HolderOwns, ExchangeOfStep, PinHolds,
     ClosedFree, SelectedKept, ChainSelected, VerifiedHeld, InExchange, Unpowered, Transmitting
<1> QED
  BY <1>4, <1>5 DEF CardInv

\* Every step of every process keeps the invariant.
LEMMA CardStep == CardInv /\ [Next]_vars => CardInv'
<1> SUFFICES ASSUME CardInv, [Next]_vars PROVE CardInv'
  OBVIOUS
<1>1. CASE Next
  <2> SUFFICES ASSUME NEW p \in Procs,
                      \/ \E access \in Access, f \in Files : open_session(p, access, f)
                      \/ Proceed(p) \/ reset(p) \/ reacquire(p) \/ Drop(p)
                      \/ transmit_outcome(p) \/ Send(p) \/ Chain(p)
               PROVE  CardInv'
    BY <1>1 DEF Next
  <2> QED
    BY OpenKeeps, ProceedKeeps, ResetKeeps, ReacquireKeeps, DropKeeps, TransmitKeeps,
       SendKeeps, ChainKeeps
<1>2. CASE UNCHANGED vars
  <2>1. UNCHANGED <<card, tx, sess, ex, job, apdu>>
    BY <1>2 DEF vars
  <2>2. TypeOK'
    BY <2>1 DEF CardInv, TypeOK
  <2>3. SequenceInv'
    BY <2>1 DEF CardInv, SequenceInv, HolderOwns, ExchangeOfStep, PinHolds,
       ClosedFree, SelectedKept, ChainSelected, VerifiedHeld, InExchange
  <2> QED
    BY <2>2, <2>3 DEF CardInv
<1> QED
  BY <1>1, <1>2

\* The invariant holds in every state the processes and the card reach.
LEMMA CardInvariant == Spec => []CardInv
<1> QED
  BY CardInit, CardStep, PTL DEF Spec

\* For every number of processes on the reader: an exchange, 61xx chain
\* included, is never mixed with another process's; VERIFY and the operation
\* reach the card with the file of their own sequence selected; and a command
\* with a credential goes out once.
THEOREM ExchangesExclusive == Spec => []CardExclusive
<1>1. CardInv => CardExclusive
  <2> SUFFICES ASSUME CardInv PROVE CardExclusive
    OBVIOUS
  <2> USE DEF CardInv, SequenceInv
  <2>1. ExchangeAlone
    BY DEF ExchangeAlone, HolderOwns
  <2>2. PinSequenceContext
    BY DEF PinSequenceContext, ExchangeOfStep, SelectedKept, CommandOf, Transmitting
  <2>3. CredentialSentOnce
    BY DEF CredentialSentOnce, ExchangeOfStep, InExchange
  <2> QED
    BY <2>1, <2>2, <2>3 DEF CardExclusive
<1> QED
  BY <1>1, CardInvariant, PTL

\* A PIN the card holds verified serves only the process that sent it: no other
\* process's command reaches the card until the session ends, and, where the
\* disconnect resets the card, none finds the PIN verified afterwards.
THEOREM VerificationNotShared == Spec => VerifiedOnlyToOwner
<1>1. CardInv /\ [Next]_vars =>
        [apdu' # apdu /\ card.verified # NoProc
          => apdu'[1] = card.verified \/ (card.left /\ "leave" \in Dispositions)]_vars
  <2> SUFFICES ASSUME CardInv, Next, apdu' # apdu, card.verified # NoProc
               PROVE  apdu'[1] = card.verified \/ (card.left /\ "leave" \in Dispositions)
    OBVIOUS
  <2>1. PICK p \in Procs : InExchange(p) /\ apdu'[1] = p
    <3>1. PICK p \in Procs : Send(p) \/ Chain(p)
      BY DEF Next, open_session, Proceed, reset, reacquire, Drop, transmit_outcome
    <3>2. InExchange(p)
      BY <3>1 DEF Send, Chain, InExchange
    <3>3. apdu' = apdu \/ apdu'[1] = p
      BY <3>1 DEF Send, Chain
    <3> QED
      BY <3>2, <3>3
  <2>2. tx = p
    BY <2>1 DEF CardInv, SequenceInv, HolderOwns
  <2>3. card.verified \in Procs
    BY DEF CardInv, TypeOK
  <2> QED
    BY <2>1, <2>2, <2>3 DEF CardInv, SequenceInv, HolderOwns, VerifiedHeld
<1> QED
  BY <1>1, CardInvariant, PTL DEF Spec, VerifiedOnlyToOwner

=============================================================================
