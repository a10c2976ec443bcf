------------------------------ MODULE PcscCard ------------------------------
(***************************************************************************)
(* The PC/SC adapter (refineid-lib-pcsc) and what the card use cases do    *)
(* with it: processes that share one reader, each opening a session (Read: *)
(* one transaction per exchange; PinSequence: one transaction for the life *)
(* of the session), the T=0 exchange loop with its 6Cxx correction and its *)
(* 61xx GET RESPONSE chain, the power-cycling reset, and the two command   *)
(* sequences built on it: reading a PKCS#15 file in chunks, and            *)
(* SELECT - VERIFY - operation.                                            *)
(*                                                                         *)
(* The PC/SC resource manager and the card are external.  Bytes are        *)
(* abstracted: a file is a sequence of chunks, a response body a number of *)
(* units, a status word one of "ok", "err", "6C", "61".                    *)
(***************************************************************************)
EXTENDS Naturals, Sequences, FiniteSets

CONSTANTS
    Procs,      \* processes with a session on the reader
    Files,      \* elementary files
    Size,       \* [Files -> Nat \ {0}]: the chunks of each file
    MaxBytes,   \* EXTENDED_RESPONSE_DATA_MAX_BYTES, in units
    Dispositions,   \* what dropping a pcsc::Card may do to the card
    NoProc, NoFile

ASSUME PcscAssumption ==
    /\ Size \in [Files -> Nat \ {0}]
    /\ MaxBytes \in Nat
    /\ Dispositions \subseteq {"reset", "leave"}
    /\ NoProc \notin Procs
    /\ NoFile \notin Files

VARIABLES
    card,       \* the card's volatile state: selected file, whose PIN is verified,
                \* whether that process has left it so
    tx,         \* the process that owns the PC/SC transaction
    sess,       \* per process: the PcscCard handle
    ex,         \* per process: the exchange inside run_t0_exchange
    job,        \* per process: the command sequence it runs
    apdu        \* the last APDU the card received: <<process, command>>

vars == <<card, tx, sess, ex, job, apdu>>

Access == {"Read", "PinSequence"}
Commands == {"SELECT", "READ", "VERIFY", "PSO"}
Steps == {"closed", "opened", "reacquire", "select", "select again", "read",
          "verify", "pso", "drop"}

\* ReaderAccessCap and the fields of PcscCard; "stale" is the manager's mark
\* that another handle reset the card (SCARD_W_RESET_CARD on the next call).
Session == [open : BOOLEAN, access : Access, holds : BOOLEAN, stale : BOOLEAN]
\* The locals of run_t0_exchange: the command being sent and its correction
\* permission, how often it went out, the bytes chained so far and the parity
\* of the GET RESPONSE commands sent.
Exchange == [phase : {"none", "send", "chain"}, cmd : Commands,
             retry : BOOLEAN, sends : 0..2, len : 0..MaxBytes, odd : BOOLEAN]
\* read_binary_der_object and the PIN sequence: the file, the chunks collected
\* (the file each came from) and the result.
Job == [step : Steps, file : Files, got : Seq(Files),
        result : {"none", "ok", "failed", "wrong le"}]

NoSession == [open |-> FALSE, access |-> "Read", holds |-> FALSE, stale |-> FALSE]
NoExchange == [phase |-> "none", cmd |-> "SELECT", retry |-> FALSE,
               sends |-> 0, len |-> 0, odd |-> FALSE]
Unpowered == [selected |-> NoFile, verified |-> NoProc, left |-> FALSE]

Init ==
    /\ card = Unpowered
    /\ tx = NoProc
    /\ sess = [p \in Procs |-> NoSession]
    /\ ex = [p \in Procs |-> NoExchange]
    /\ job \in [Procs -> {[step |-> "closed", file |-> f, got |-> <<>>,
                           result |-> "none"] : f \in Files}]
    /\ apdu = <<NoProc, "SELECT">>

(***************************************************************************)
(* Opening, resetting, dropping                                            *)
(***************************************************************************)

\* Every other handle on the card learns that the card was reset.
OthersStale(p) ==
    [q \in Procs |-> IF q # p /\ sess[q].open
                     THEN [sess[q] EXCEPT !.stale = TRUE] ELSE sess[q]]

\* Mutant: a PinSequence session does not hold its transaction.
MutOpenSession(p, access, f) ==
    /\ job[p].step = "closed"
    /\ sess' = [sess EXCEPT ![p] = [open |-> TRUE, access |-> access,
                                    holds |-> FALSE, stale |-> FALSE]]
    /\ job' = [job EXCEPT ![p] = [step |-> "opened", file |-> f, got |-> <<>>,
                                  result |-> "none"]]
    /\ UNCHANGED <<card, ex, apdu, tx>>

\* open_session: connect, and for PinSequence hold_transaction, which waits
\* until the transaction is free.
open_session(p, access, f) ==
    /\ job[p].step = "closed"
    /\ access = "PinSequence" => tx = NoProc
    /\ sess' = [sess EXCEPT ![p] = [open |-> TRUE, access |-> access,
                                    holds |-> access = "PinSequence",
                                    stale |-> FALSE]]
    /\ tx' = IF access = "PinSequence" THEN p ELSE tx
    /\ job' = [job EXCEPT ![p] = [step |-> "opened", file |-> f, got |-> <<>>,
                                  result |-> "none"]]
    /\ UNCHANGED <<card, ex, apdu>>

\* The use case goes straight to its first SELECT ...
Proceed(p) ==
    /\ job[p].step = "opened"
    /\ job' = [job EXCEPT ![p].step = "select"]
    /\ UNCHANGED <<card, tx, sess, ex, apdu>>

\* ... or power-cycles the card first.  SCardReconnect needs the transaction
\* free of other handles, ends a held one, and leaves it to be taken again.
reset(p) ==
    /\ job[p].step = "opened"
    /\ tx \in {NoProc, p}
    /\ card' = Unpowered
    /\ tx' = NoProc
    /\ sess' = [OthersStale(p) EXCEPT ![p].stale = FALSE, ![p].holds = FALSE]
    /\ job' = [job EXCEPT ![p].step = IF sess[p].holds THEN "reacquire" ELSE "select"]
    /\ UNCHANGED <<ex, apdu>>

\* The tail of reset: hold_transaction again, or its error ends the use case.
reacquire(p) ==
    /\ job[p].step = "reacquire"
    /\ \/ /\ tx = NoProc /\ ~sess[p].stale
          /\ tx' = p
          /\ sess' = [sess EXCEPT ![p].holds = TRUE]
          /\ job' = [job EXCEPT ![p].step = "select"]
       \/ /\ sess[p].stale
          /\ job' = [job EXCEPT ![p].step = "drop", ![p].result = "failed"]
          /\ UNCHANGED <<tx, sess>>
    /\ UNCHANGED <<card, ex, apdu>>

\* Dropping the handle ends a held transaction in SCardDisconnect, which resets
\* the card, unless another handle owns the transaction, or leaves it powered.
\* The pcsc crate decides which: the comment of PcscCard says SCARD_LEAVE_CARD.
Drop(p) ==
    /\ job[p].step = "drop"
    /\ \/ /\ "reset" \in Dispositions /\ tx \in {NoProc, p}
          /\ card' = Unpowered
          /\ sess' = [OthersStale(p) EXCEPT ![p] = NoSession]
          /\ tx' = NoProc
       \/ /\ "leave" \in Dispositions \/ tx \notin {NoProc, p}
          /\ card' = [card EXCEPT !.left = @ \/ card.verified = p]
          /\ sess' = [sess EXCEPT ![p] = NoSession]
          /\ tx' = IF tx = p THEN NoProc ELSE tx
    /\ job' = [job EXCEPT ![p].step = "closed"]
    /\ UNCHANGED <<ex, apdu>>

(***************************************************************************)
(* The command sequences                                                   *)
(***************************************************************************)
\* The command a step transmits.
CommandOf(step) ==
    CASE step \in {"select", "select again"} -> "SELECT"
      [] step = "read" -> "READ"
      [] step = "verify" -> "VERIFY"
      [] OTHER -> "PSO"

\* select_ef: two encodings of the same SELECT are tried in turn.
AfterSelect(j, access, st) ==
    IF st = "ok"
    THEN [j EXCEPT !.step = IF access = "Read" THEN "read" ELSE "verify"]
    ELSE IF j.step = "select" /\ st # "break"
    THEN [j EXCEPT !.step = "select again"]
    ELSE [j EXCEPT !.step = "drop", !.result = "failed"]

\* read_binary_der_object, one turn of its loop: chunk k of the selected file
\* arrives; the total length is read from the first chunk; a chunk past the
\* end of the file is the empty body that ends the read with an error.
AfterRead(j, from, st) ==
    LET got == Append(j.got, from)
    IN IF st # "ok" \/ from = NoFile \/ Len(j.got) >= Size[from]
       THEN [j EXCEPT !.step = "drop",
                      !.result = IF st = "6C" THEN "wrong le" ELSE "failed"]
       ELSE IF Len(got) >= Size[got[1]]
       THEN [j EXCEPT !.step = "drop", !.got = got, !.result = "ok"]
       ELSE [j EXCEPT !.got = got]

\* VERIFY, then the operation it gates.
AfterPin(j, st) ==
    IF st = "ok" /\ j.step = "verify"
    THEN [j EXCEPT !.step = "pso"]
    ELSE [j EXCEPT !.step = "drop", !.result = IF st = "ok" THEN "ok" ELSE "failed"]

After(p, from, st) ==
    LET j == job[p]
    IN CASE j.step \in {"select", "select again"} -> AfterSelect(j, sess[p].access, st)
         [] j.step = "read" -> AfterRead(j, from, st)
         [] OTHER -> AfterPin(j, st)

\* run_t0_exchange returns: a per-exchange transaction ends with its guard.
Finish(p, from, st) ==
    /\ ex' = [ex EXCEPT ![p] = NoExchange]
    /\ tx' = IF sess[p].holds THEN tx ELSE NoProc
    /\ job' = [job EXCEPT ![p] = After(p, from, st)]

(***************************************************************************)
(* The exchange                                                            *)
(***************************************************************************)
\* CardTransport::transmit takes bytes: the command it rebuilds with
\* CommandApdu::from carries no permission to be corrected.
CommandFromBytes(cmd) == [NoExchange EXCEPT !.phase = "send", !.cmd = cmd, !.retry = FALSE]

\* Mutant: a Read session transmits without a transaction of its own.
MutTransmitOutcome(p) ==
    /\ ex[p].phase = "none"
    /\ job[p].step \in {"select", "select again", "read", "verify", "pso"}
    /\ ex' = [ex EXCEPT ![p] = CommandFromBytes(CommandOf(job[p].step))]
    /\ UNCHANGED <<card, tx, sess, job, apdu>>

\* transmit_outcome: inside the held transaction, or in one of its own.
transmit_outcome(p) ==
    /\ ex[p].phase = "none"
    /\ job[p].step \in {"select", "select again", "read", "verify", "pso"}
    /\ \/ /\ sess[p].holds \/ (tx = NoProc /\ ~sess[p].stale)
          /\ tx' = p
          /\ ex' = [ex EXCEPT ![p] = CommandFromBytes(CommandOf(job[p].step))]
          /\ UNCHANGED job
       \/ \* Card::transaction reports SCARD_W_RESET_CARD: CardReset
          /\ ~sess[p].holds /\ sess[p].stale
          /\ job' = [job EXCEPT ![p] = After(p, NoFile, "break")]
          /\ UNCHANGED <<tx, ex>>
    /\ UNCHANGED <<card, sess, apdu>>

\* corrected_wrong_le: the correction permission is used up by its one use.
CorrectedWrongLe(e) == IF e.retry THEN {[e EXCEPT !.retry = FALSE]} ELSE {}

\* The answers after which the loop goes on: a correction, or a chain.
Continued(e, st) ==
    CASE st = "6C" -> CorrectedWrongLe(e)
      [] st = "61" -> {[e EXCEPT !.phase = "chain"]}
      [] OTHER -> {}

\* What the card does with a command and the status words it may answer with;
\* 6C and 61 are T=0 answers that ask for more.
CardEffect(p, cmd) ==
    CASE cmd = "SELECT" -> [card EXCEPT !.selected = job[p].file]
      [] cmd = "VERIFY" -> [card EXCEPT !.verified = p, !.left = FALSE]
      [] OTHER -> card
CardAnswers(p, cmd) ==
    IF cmd = "PSO" /\ card.verified # p THEN {"err"} ELSE {"ok", "61", "6C", "err"}

\* One turn of the outer loop of run_t0_exchange: transmit, then correct,
\* chain or return.
Send(p) ==
    /\ ex[p].phase = "send"
    /\ \/ \* the handle is dead: NoCard, ReaderRemoved or CardReset
          /\ sess[p].stale
          /\ Finish(p, NoFile, "break")
          /\ UNCHANGED <<card, sess, apdu>>
       \/ /\ ~sess[p].stale
          /\ apdu' = <<p, ex[p].cmd>>
          /\ UNCHANGED sess
          /\ \E st \in CardAnswers(p, ex[p].cmd) :
               /\ card' = IF st \in {"ok", "61"} THEN CardEffect(p, ex[p].cmd) ELSE card
               /\ IF Continued(ex[p], st) # {}
                  THEN /\ \E e \in Continued(ex[p], st) :
                            ex' = [ex EXCEPT ![p] = [e EXCEPT !.sends = @ + 1]]
                       /\ UNCHANGED <<tx, job>>
                  ELSE Finish(p, card.selected, st)

\* Mutant: a 61xx answer without bytes counts as progress.
MutChainStalled(n, st) == FALSE

\* The card promises more bytes and sends none.
ChainStalled(n, st) == st = "61" /\ n = 0

\* The chain has passed EXTENDED_RESPONSE_DATA_MAX_BYTES.
ChainTooLong(len, n) == len + n > MaxBytes

\* One turn of the GET RESPONSE loop.
Chain(p) ==
    /\ ex[p].phase = "chain"
    /\ apdu' = <<p, ex[p].cmd>>
    /\ UNCHANGED <<card, sess>>
    /\ \E n \in 0..1, st \in {"ok", "61", "err"} :
         \/ /\ ChainTooLong(ex[p].len, n) \/ ChainStalled(n, st)
            /\ Finish(p, NoFile, "err")
         \/ /\ ~ChainTooLong(ex[p].len, n) /\ ~ChainStalled(n, st) /\ st = "61"
            /\ ex' = [ex EXCEPT ![p].len = @ + n, ![p].odd = ~@]
            /\ UNCHANGED <<tx, job>>
         \/ /\ ~ChainTooLong(ex[p].len, n) /\ st # "61"
            /\ Finish(p, card.selected, st)

Next ==
    \E p \in Procs :
        \/ \E access \in Access, f \in Files : open_session(p, access, f)
        \/ Proceed(p) \/ reset(p) \/ reacquire(p) \/ Drop(p)
        \/ transmit_outcome(p) \/ Send(p) \/ Chain(p)

\* A process inside an exchange keeps running: the loop has no wait of its own.
Fairness == \A p \in Procs : WF_vars(Send(p) \/ Chain(p))

Spec == Init /\ [][Next]_vars /\ Fairness

(***************************************************************************)
(* Properties                                                              *)
(***************************************************************************)
TypeOK ==
    /\ card \in [selected : Files \cup {NoFile}, verified : Procs \cup {NoProc}, left : BOOLEAN]
    /\ tx \in Procs \cup {NoProc}
    /\ sess \in [Procs -> Session]
    /\ ex \in [Procs -> Exchange]
    /\ job \in [Procs -> Job]
    /\ apdu \in (Procs \cup {NoProc}) \X Commands

InExchange(p) == ex[p].phase # "none"

\* While one process is between the first transmit and the return of an
\* exchange, 61xx chain included, no other process is in one: the pieces of a
\* chained response are never mixed with another command.
ExchangeAlone ==
    \A p \in Procs : InExchange(p) =>
        tx = p /\ \A q \in Procs \ {p} : ~InExchange(q)

\* The PIN a process verified can not serve another one while its session
\* lasts: as long as the card holds the verification of p, every command that
\* reaches the card is p's.  The reset of a held session gives the transaction
\* away for a moment; by then the power cycle has cleared the verification.
\* After the session only a disconnect that leaves the card as it is lets the
\* commands of others find the PIN verified.
VerifiedOnlyToOwner ==
    [][apdu' # apdu /\ card.verified # NoProc
        => apdu'[1] = card.verified \/ (card.left /\ "leave" \in Dispositions)]_vars

\* In a PIN sequence VERIFY and the operation reach the card with the file the
\* sequence itself selected still current: nobody's SELECT came between.
PinSequenceContext ==
    \A p \in Procs : InExchange(p) /\ ex[p].cmd \in {"VERIFY", "PSO"} =>
        card.selected = job[p].file

\* A command that carries a credential or uses a key goes out once, whatever
\* the card answers: the 6Cxx correction never repeats it.
CredentialSentOnce ==
    \A p \in Procs : ex[p].cmd \in {"VERIFY", "PSO"} /\ ex[p].phase = "send" =>
        ex[p].sends = 0

\* What holds of the card in every state, of one exchange and of a PIN
\* sequence that takes several.
CardExclusive == TypeOK /\ ExchangeAlone /\ PinSequenceContext /\ CredentialSentOnce

\* No exchange goes on for ever, whatever status words the card answers with:
\* the correction is used once and the 61xx chain runs out of bytes.
ExchangeEnds == \A p \in Procs : InExchange(p) ~> ~InExchange(p)

=============================================================================
