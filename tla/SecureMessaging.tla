-------------------------- MODULE SecureMessaging --------------------------
(***************************************************************************)
(* The protected channel to the contactless chip: SmTransport of           *)
(* secure_messaging.rs, the chip at its other end as the code meets it,    *)
(* and the exchange between them, which may fail, be altered or answer     *)
(* with an earlier response.                                               *)
(*                                                                         *)
(* A MAC is the term <<key, ssc, what it covers>>, a cryptogram            *)
(* [key, ssc, plain]; keys are terms that are equal when both sides        *)
(* derived them from the same secrets.                                     *)
(***************************************************************************)
EXTENDS Integers, Sequences, FiniteSets, SequencesExt
CONSTANTS
    SSC_MODULUS,           \* the counter's width, 2^128
    AES_BLOCK,
    BODY_MAX,              \* the longest short APDU body, 255
    Chips                  \* chip |-> [pace, can, files, ca_key, aa_key, recorded, refuses_clear]
ASSUME ChannelAssumption == SSC_MODULUS \in Nat \ {0} /\ AES_BLOCK \in Nat \ {0} /\ BODY_MAX \in Nat

None == <<>>
Data(tag, value) == [tag |-> tag, value |-> value]
InField == [chip \in DOMAIN Chips |-> Chips[chip]]
NoKey == <<"none", 0, 0, 0>>

\* Ssc::increment and INITIAL.
increment(ssc) == (ssc + 1) % SSC_MODULUS
\* SmTransport::new, rekey and replace_session: the counter starts again.
MutRekey(sm, key) == [sm EXCEPT !.ssc = 0]            \* Mutant: the key stays
rekey(sm, key) == [key |-> key, ssc |-> 0]

\* iso7816_4_pad and iso7816_4_unpad.
iso7816_4_pad(octets) ==
    octets \o <<128>> \o [i \in 1..((-(Len(octets) + 1)) % AES_BLOCK) |-> 0]
iso7816_4_unpad(octets) ==
    LET solid == {i \in DOMAIN octets : octets[i] # 0}
        marker == Max(solid) IN
    IF solid = {} THEN octets
    ELSE IF octets[marker] = 128 THEN SubSeq(octets, 1, marker - 1) ELSE octets

\* A command: its name, its argument, how many octets of data it carries, the
\* expected length and how long it is; Command builds the short form.
Command(name, arg, len, le) ==
    [name |-> name, arg |-> arg, len |-> len, le |-> le,
     octets |-> 4 + (IF len = 0 THEN 0 ELSE 1 + len) + Len(le)]
\* decode_short_apdu: one of the four cases of a short APDU.
decode_short_apdu(c) == c.octets \in {4, 5} \cup (IF c.len = 0 THEN {} ELSE {5 + c.len, 6 + c.len})

\* The octets of a data object.
TlvLen(n) == n + (IF n < 128 THEN 2 ELSE 3)
\* SmTransport::wrap: the counter moves before the length is known.
wrap(sm, c) ==
    LET ssc == increment(sm.ssc)
        do87 == IF c.len = 0 THEN 0 ELSE TlvLen(1 + AES_BLOCK * (c.len \div AES_BLOCK + 1))
        body == do87 + 3 * Len(c.le) + TlvLen(8) IN
    IF ~decode_short_apdu(c) THEN [err |-> "Malformed", sm |-> sm]
    ELSE IF body > BODY_MAX THEN [err |-> "CommandTooLong", sm |-> [sm EXCEPT !.ssc = ssc]]
    ELSE [err |-> "", sm |-> [sm EXCEPT !.ssc = ssc], apdu |-> [command |-> c, mac |-> <<sm.key, ssc, c>>]]

\* SmTransport::unwrap: of each object the last, others are tolerated.
unwrap(sm, dos) ==
    LET next == [sm EXCEPT !.ssc = increment(sm.ssc)]
        At(tag) == {i \in DOMAIN dos : dos[i].tag = tag}
        Value(tag) == dos[Max(At(tag))].value
        do87 == IF At("87") = {} THEN None ELSE <<Value("87")>> IN
    IF At("bad") # {} \/ At("99") = {} \/ At("8E") = {} THEN [err |-> "Malformed", sm |-> next]
    ELSE IF Value("8E") # <<next.key, next.ssc, <<do87, Value("99")>>>> THEN [err |-> "MacMismatch", sm |-> next]
    ELSE IF do87 = None THEN [err |-> "", sm |-> next, body |-> <<>>, sw |-> Value("99")]
    ELSE IF do87[1].indicator # 1 \/ Len(do87[1].cipher.plain) % AES_BLOCK # 0 THEN [err |-> "Malformed", sm |-> next]
    ELSE [err |-> "", sm |-> next, body |-> iso7816_4_unpad(do87[1].cipher.plain), sw |-> Value("99")]

(***************************************************************************)
(* The chip                                                                *)
(***************************************************************************)

\* Nothing agreed: after a reset.
Fresh(chip) == [chip |-> chip, pending |-> NoKey, key |-> NoKey, ssc |-> 0, applet |-> FALSE,
                file |-> "", ca |-> FALSE]
Response(body, sw) == [kind |-> "response", body |-> body, sw |-> sw]
Failure(kind) == [kind |-> kind, body |-> <<>>, sw |-> 0]
Refusal(sw) == Response(<<>>, sw)

\* An answer under the session's keys; c has counted it.
Protected(key, ssc, octets, sw) ==
    LET do87 == [indicator |-> 1, cipher |-> [key |-> key, ssc |-> ssc, plain |-> iso7816_4_pad(octets)]]
        some == IF octets = <<>> THEN None ELSE <<do87>> IN
    Response((IF some = None THEN <<>> ELSE <<Data("87", do87)>>)
               \o <<Data("99", sw), Data("8E", <<key, ssc, <<some, sw>>>>)>>, 36864)

\* PACE on the chip: its nonce under the CAN, its points, its token.
Dynamic(tag, a, key) == Response(<<Data("7C", [tag |-> tag, a |-> a, key |-> key])>>, 36864)
ChipPlain(c, command) ==
    CASE command.name = "MSE" -> [c |-> c, r |-> Refusal(IF InField[c.chip].pace THEN 36864 ELSE 27264)]
      [] command.name = "GA1" -> [c |-> c, r |-> Dynamic("80", InField[c.chip].can, NoKey)]
      [] command.name = "GA2" -> [c |-> c, r |-> Dynamic("82", 2, NoKey)]
      [] command.name = "GA3" -> [c |-> [c EXCEPT !.pending = <<"pace", 1, 2, 3>>], r |-> Dynamic("84", 3, NoKey)]
      [] command.name = "GA4" ->
           IF c.pending = command.arg /\ c.pending # NoKey
           THEN [c |-> [c EXCEPT !.key = c.pending, !.ssc = 0], r |-> Dynamic("86", 0, c.pending)]
           ELSE [c |-> c, r |-> Refusal(25344)]                         \* 6300

\* A protected command on the chip: what its plain form does.  A file that
\* is not there is refused under protection or in the clear, the chip having
\* counted the answer either way.
\* A chip without the key of DG15 has at most a signature it once recorded.
ChipRun(chip, c, command, ssc) ==
    LET d == [c EXCEPT !.ssc = ssc]
        Answer(octets, sw) == Protected(c.key, ssc, octets, sw)
        Part(file, from, n) ==
            IF from > Len(chip.files[file]) THEN Answer(<<>>, 27392)                          \* 6B00
            ELSE IF from + n > Len(chip.files[file])
            THEN Answer(SubSeq(chip.files[file], from + 1, Len(chip.files[file])), 25218)     \* 6282
            ELSE Answer(SubSeq(chip.files[file], from + 1, from + n), 36864) IN
    CASE command.name = "SELECT" -> [c |-> [d EXCEPT !.applet = TRUE], r |-> Answer(<<>>, 36864)]
      [] command.name = "READ" /\ command.arg.file # "" ->
           IF command.arg.file \in DOMAIN chip.files
           THEN [c |-> [d EXCEPT !.file = command.arg.file], r |-> Part(command.arg.file, command.arg.offset, command.le[1])]
           ELSE [c |-> d, r |-> IF chip.refuses_clear THEN Refusal(27266) ELSE Answer(<<>>, 27266)]                                               \* 6A82
      [] command.name = "READ" -> [c |-> d, r |-> Part(c.file, command.arg.offset, command.le[1])]
      [] command.name = "CA_MSE" -> [c |-> [d EXCEPT !.ca = TRUE], r |-> Answer(<<>>, 36864)]
      [] command.name = "CA_GA" -> [c |-> [d EXCEPT !.key = <<"ca", chip.ca_key, command.arg, 0>>, !.ssc = 0],
                                    r |-> Answer(<<>>, 36864)]
      [] command.name = "AA" ->
           [c |-> d, r |-> Answer(IF chip.aa_key = 0 THEN chip.recorded ELSE <<chip.aa_key, command.arg>>, 36864)]

\* A command under another key or counter ends the session.
ChipAnswers(c, apdu) ==
    IF apdu.mac = None THEN ChipPlain(c, apdu.command)
    ELSE IF c.key # NoKey /\ apdu.mac = <<c.key, increment(c.ssc), apdu.command>> 
    THEN ChipRun(InField[c.chip], c, apdu.command, increment(increment(c.ssc)))
    ELSE [c |-> [c EXCEPT !.key = NoKey], r |-> Refusal(27016)]                                \* 6988

(***************************************************************************)
(* The exchange                                                            *)
(***************************************************************************)

\* What interference makes of a response: cut, without its MAC, with another
\* value, or with an object the reader does not know.
Altered(r) ==
    LET b == r.body IN
    IF b = <<>> THEN {}
    ELSE IF b[1].tag = "7C"
    THEN {Response(<<Data("bad", 0)>>, r.sw)} \cup {Dynamic(b[1].value.tag, a, NoKey) : a \in {-1, 9}}
    ELSE {Response(SubSeq(b, 1, Len(b) - 1), r.sw), Response(b \o <<Data("bad", 0)>>, r.sw),
          Response(<<Data("81", 0)>> \o b, r.sw)}
         \cup (IF b[1].tag = "87"
               THEN {Response(<<[b[1] EXCEPT !.value.cipher.plain = iso7816_4_pad(<<0>>)]>> \o Tail(b), r.sw)}
               ELSE {Response(<<Data("99", 27266), b[2]>>, r.sw)})

\* One exchange over the link [up, faults, last]: the outcomes possible.
Outcomes(c, link, ok) ==
    LET spent == [link EXCEPT !.faults = @ - 1]
        To(d, l, r) == [c |-> d, link |-> l, r |-> r] IN
    IF ~link.up THEN {To(c, link, Failure("NoCard"))}
    ELSE {To(ok.c, [link EXCEPT !.last = <<ok.r>>], ok.r)}
         \cup (IF link.faults = 0 THEN {}
               ELSE {To(c, spent, Failure("error")), To(ok.c, spent, Failure("error")),
                     To(c, [spent EXCEPT !.up = FALSE], Failure("NoCard")),
                     To(Fresh(c.chip), spent, Failure("CardReset"))}
                    \cup {To(ok.c, spent, r) : r \in Altered(ok.r)}
                    \cup {To(ok.c, spent, link.last[i]) : i \in DOMAIN link.last})

Exchange(c, link, apdu) == Outcomes(c, link, ChipAnswers(c, apdu))

\* SmTransport::transmit_outcome: a bare status passes unchanged, and without
\* being counted.
Received(sm, x, u) ==
    IF x.r.kind # "response" \/ x.r.body = <<>> THEN [sm |-> sm, c |-> x.c, link |-> x.link, r |-> x.r]
    ELSE [sm |-> u.sm, c |-> x.c, link |-> x.link, r |-> IF u.err # "" THEN Failure(u.err) ELSE Response(u.body, u.sw)]
Sent(w, c, link) ==
    IF w.err # "" THEN {[sm |-> w.sm, c |-> c, link |-> link, r |-> Failure(w.err)]}
    ELSE {Received(w.sm, x, unwrap(w.sm, x.r.body)) : x \in Exchange(c, link, w.apdu)}
transmit_outcome(sm, c, link, command) == Sent(wrap(sm, command), c, link)
=============================================================================
