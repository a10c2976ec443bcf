-------------------------- MODULE GuiWindowProofs ---------------------------
(***************************************************************************)
(* Theorems about the inspection of cards and the window that shows them,  *)
(* for all cards, readers, phones and starts that WorldAssumption,         *)
(* CardAssumption, WindowAssumption and PhoneAssumption admit, however     *)
(* often cards change.                                                     *)
(***************************************************************************)
EXTENDS GuiWindow, SequenceTheorems, WellFoundedInduction, TLAPS

(***************************************************************************)
(* Positions and lists                                                     *)
(***************************************************************************)

\* FirstOf is zero for no position and the first one otherwise.
LEMMA FirstPosition ==
    ASSUME NEW S, S \subseteq Nat \ {0}
    PROVE  /\ FirstOf(S) = 0 <=> S = {}
           /\ S # {} => FirstOf(S) \in S
<1>1. CASE S = {}
  BY <1>1 DEF FirstOf
<1>2. CASE S # {}
  <2>1. S \subseteq Nat
    OBVIOUS
  <2>2. PICK m \in S : \A k \in S : ~ (<<k, m>> \in OpToRel(<, Nat))
    BY <1>2, <2>1, WFMin, NatLessThanWellFounded, Zenon
  <2>3. \A k \in S : ~(k < m)
    BY <2>1, <2>2, Zenon DEF OpToRel
  <2>4. \A k \in S : m <= k
    BY <2>1, <2>3, SMT
  <2>5. Min(S) \in S
    BY <2>2, <2>4, Zenon DEF Min
  <2>6. FirstOf(S) = Min(S)
    BY <1>2, Zenon DEF FirstOf
  <2>7. Min(S) # 0
    BY <2>5
  <2>8. QED
    BY <1>2, <2>5, <2>6, <2>7, Zenon
<1>3. QED
  BY <1>1, <1>2

\* A list, of whatever elements.
IsList(s) == s \in Seq(Range(s))

\* A sequence over any set is a list.
LEMMA SequenceIsList ==
    ASSUME NEW S, NEW s \in Seq(S)
    PROVE  IsList(s) /\ Range(s) \subseteq S
<1>1. s \in [1..Len(s) -> S] /\ Len(s) \in Nat /\ DOMAIN s = 1..Len(s)
  OBVIOUS
<1>2. \A i \in 1..Len(s) : s[i] \in Range(s)
  BY <1>1, Zenon DEF Range
<1>3. s \in [1..Len(s) -> Range(s)]
  BY <1>1, <1>2
<1>4. s \in Seq(Range(s))
  BY <1>1, <1>3
<1>5. Range(s) \subseteq S
  BY <1>1 DEF Range
<1>6. QED
  BY <1>4, <1>5 DEF IsList

\* What is known of a list, one element longer or one shorter.
LEMMA ListFacts ==
    ASSUME NEW s, IsList(s)
    PROVE  Len(s) \in Nat /\ DOMAIN s = 1..Len(s) /\ (s = <<>> <=> Len(s) = 0)
BY DEF IsList
LEMMA ListAppend ==
    ASSUME NEW s, IsList(s), NEW e
    PROVE  /\ IsList(Append(s, e)) /\ Append(s, e) # <<>>
           /\ Len(Append(s, e)) = Len(s) + 1 /\ DOMAIN Append(s, e) = 1..(Len(s) + 1)
           /\ \A i \in 1..Len(s) : Append(s, e)[i] = s[i]
           /\ Append(s, e)[Len(s) + 1] = e
<1>1. PICK S : S = Range(s) \cup {e}
  OBVIOUS
<1>2. s \in Seq(S) /\ e \in S
  <2>1. s \in Seq(Range(s)) /\ Range(s) \subseteq S
    BY <1>1 DEF IsList
  <2>2. QED
    BY <2>1, <1>1
<1>3. Append(s, e) \in Seq(S)
  BY <1>2
<1>4. IsList(Append(s, e))
  BY <1>3, SequenceIsList, Zenon
<1>5. QED
  BY <1>2, <1>3, <1>4
LEMMA ListTail ==
    ASSUME NEW s, IsList(s), s # <<>>
    PROVE  /\ IsList(Tail(s))
           /\ Len(Tail(s)) = Len(s) - 1 /\ DOMAIN Tail(s) = 1..(Len(s) - 1)
           /\ \A i \in 1..(Len(s) - 1) : Tail(s)[i] = s[i + 1]
<1>1. PICK S : S = Range(s)
  OBVIOUS
<1>2. s \in Seq(S)
  BY <1>1 DEF IsList
<1>3. Tail(s) \in Seq(S)
  BY <1>2
<1>4. IsList(Tail(s))
  BY <1>3, SequenceIsList, Zenon
<1>5. QED
  BY <1>2, <1>3, <1>4
LEMMA ListJoin ==
    ASSUME NEW s, IsList(s), NEW t, IsList(t)
    PROVE  /\ IsList(s \o t)
           /\ Len(s \o t) = Len(s) + Len(t) /\ DOMAIN (s \o t) = 1..(Len(s) + Len(t))
           /\ \A i \in 1..Len(s) : (s \o t)[i] = s[i]
           /\ \A i \in 1..Len(t) : (s \o t)[Len(s) + i] = t[i]
<1>1. PICK S : S = Range(s) \cup Range(t)
  OBVIOUS
<1>2. s \in Seq(S) /\ t \in Seq(S)
  <2>1. s \in Seq(Range(s)) /\ Range(s) \subseteq S
    BY <1>1 DEF IsList
  <2>2. t \in Seq(Range(t)) /\ Range(t) \subseteq S
    BY <1>1 DEF IsList
  <2>3. QED
    BY <2>1, <2>2
<1>3. s \o t \in Seq(S)
  BY <1>2
<1>4. IsList(s \o t)
  BY <1>3, SequenceIsList, Zenon
<1>5. QED
  BY <1>2, <1>3, <1>4
\* The empty list.
LEMMA ListEmpty == IsList(<<>>) /\ Len(<<>>) = 0 /\ DOMAIN <<>> = {}
<1>1. <<>> \in Seq({})
  OBVIOUS
<1>2. IsList(<<>>)
  BY <1>1, SequenceIsList, Zenon
<1>3. QED
  BY <1>2

\* The readers of a list of picks, reports or cards, and that each is there
\* once.
ReadersIn(s) == {s[i].reader : i \in DOMAIN s}
OnceEach(s) == IsList(s) /\ \A i, j \in DOMAIN s : s[i].reader = s[j].reader => i = j

LEMMA OnceEmpty == OnceEach(<<>>) /\ ReadersIn(<<>>) = {}
BY ListEmpty DEF OnceEach, ReadersIn
\* One more, of a reader that is not there yet.
LEMMA OnceAppend ==
    ASSUME NEW s, OnceEach(s), NEW e, e.reader \notin ReadersIn(s)
    PROVE  OnceEach(Append(s, e)) /\ ReadersIn(Append(s, e)) = ReadersIn(s) \cup {e.reader}
<1>1. IsList(s) /\ \A i, j \in DOMAIN s : s[i].reader = s[j].reader => i = j
  BY DEF OnceEach
<1>2. Len(s) \in Nat /\ DOMAIN s = 1..Len(s)
  BY <1>1, ListFacts
<1>3. PICK t : t = Append(s, e)
  OBVIOUS
<1>4. /\ IsList(t) /\ DOMAIN t = 1..(Len(s) + 1) /\ t[Len(s) + 1] = e
      /\ \A i \in 1..Len(s) : t[i] = s[i]
  BY <1>1, <1>3, ListAppend
<1>5. \A i \in 1..Len(s) : t[i].reader # e.reader
  BY <1>2, <1>4 DEF ReadersIn
<1>6. OnceEach(t)
  BY <1>1, <1>2, <1>4, <1>5 DEF OnceEach
<1>7. ReadersIn(t) = ReadersIn(s) \cup {e.reader}
  BY <1>2, <1>4 DEF ReadersIn
<1>8. QED
  BY <1>3, <1>6, <1>7
\* All but the first.
LEMMA OnceTail ==
    ASSUME NEW s, OnceEach(s), s # <<>>
    PROVE  /\ OnceEach(Tail(s)) /\ ReadersIn(Tail(s)) = ReadersIn(s) \ {s[1].reader}
           /\ s[1].reader \in ReadersIn(s) /\ 1 \in DOMAIN s
<1>1. IsList(s) /\ \A i, j \in DOMAIN s : s[i].reader = s[j].reader => i = j
  BY DEF OnceEach
<1>2. Len(s) \in Nat \ {0} /\ DOMAIN s = 1..Len(s)
  BY <1>1, ListFacts
<1>3. PICK t : t = Tail(s)
  OBVIOUS
<1>4. /\ IsList(t) /\ DOMAIN t = 1..(Len(s) - 1)
      /\ \A i \in 1..(Len(s) - 1) : t[i] = s[i + 1]
  BY <1>1, <1>3, ListTail, Zenon
<1>5. OnceEach(t)
  <2>1. ASSUME NEW i \in DOMAIN t, NEW j \in DOMAIN t, t[i].reader = t[j].reader PROVE i = j
    <3>1. t[i] = s[i + 1] /\ t[j] = s[j + 1] /\ i + 1 \in DOMAIN s /\ j + 1 \in DOMAIN s
      BY <1>2, <1>4
    <3>2. i + 1 = j + 1
      BY <1>1, <2>1, <3>1
    <3>3. QED
      BY <1>2, <1>4, <3>2
  <2>2. QED
    BY <1>4, <2>1 DEF OnceEach
<1>6. ReadersIn(t) \subseteq ReadersIn(s) \ {s[1].reader}
  <2>1. ASSUME NEW i \in DOMAIN t PROVE t[i].reader \in ReadersIn(s) \ {s[1].reader}
    <3>1. t[i] = s[i + 1] /\ i + 1 \in DOMAIN s /\ i + 1 # 1 /\ 1 \in DOMAIN s
      BY <1>2, <1>4
    <3>2. s[i + 1].reader # s[1].reader
      BY <1>1, <3>1
    <3>3. QED
      BY <3>1, <3>2 DEF ReadersIn
  <2>2. QED
    BY <2>1 DEF ReadersIn
<1>7. ASSUME NEW r \in ReadersIn(s), r # s[1].reader PROVE r \in ReadersIn(t)
  <2>1. PICK i \in DOMAIN s : r = s[i].reader
    BY DEF ReadersIn
  <2>2. i # 1 /\ i - 1 \in 1..(Len(s) - 1)
    BY <1>2, <1>7, <2>1
  <2>3. t[i - 1] = s[i]
    BY <1>2, <1>4, <2>1, <2>2
  <2>4. QED
    BY <1>4, <2>1, <2>2, <2>3 DEF ReadersIn
<1>8. s[1].reader \in ReadersIn(s) /\ 1 \in DOMAIN s
  BY <1>2 DEF ReadersIn
<1>9. QED
  BY <1>3, <1>5, <1>6, <1>7, <1>8

\* The first of some readers is one of them.
LEMMA FirstReaderIn ==
    ASSUME NEW S, S \subseteq Range(Readers), S # {}
    PROVE  FirstReader(S) \in S
<1>1. Readers \in Seq(Range(Readers))
  BY WorldAssumption
<1>2. PICK at : at = {i \in DOMAIN Readers : Readers[i] \in S}
  OBVIOUS
<1>3. at \subseteq Nat \ {0} /\ at # {}
  BY <1>1, <1>2 DEF Range
<1>4. FirstOf(at) \in at
  BY <1>3, FirstPosition
<1>5. QED
  BY <1>2, <1>4 DEF FirstReader

(***************************************************************************)
(* Sessions on a card                                                      *)
(***************************************************************************)

\* A session, and that an answer comes from the same card over a channel
\* that was left as it is.
SessionForm(s) == s = [card |-> s.card, dir |-> s.dir, channel |-> s.channel, live |-> s.live]
SameCard(t, s) == SessionForm(t) /\ t.card = s.card
SameChannel(t, s) == SameCard(t, s) /\ t.channel = s.channel

LEMMA SessionNew ==
    ASSUME NEW c
    PROVE  SessionForm(Session(c)) /\ Session(c).card = c /\ Session(c).channel = "plain"
BY DEF SessionForm, Session

\* The answer to a command in several forms.
LEMMA TryFormsEffect ==
    ASSUME NEW k, NEW s, NEW forms, NEW after
    PROVE  TryForms(k, s, forms, after).s \in {s, after}
BY DEF TryForms, Done, Answer

\* What the SELECT commands do to a session.
LEMMA SelectMf ==
    ASSUME NEW k, NEW s, SessionForm(s)
    PROVE  /\ SameCard(select_mf(k, s).s, s)
           /\ s.channel = "plain" => select_mf(k, s).s.channel = "plain"
<1>1. PICK after : after = [s EXCEPT !.dir = "MF", !.channel = IF s.channel = "secure" THEN "ended" ELSE s.channel]
  OBVIOUS
<1>2. SameCard(after, s) /\ (s.channel = "plain" => after.channel = "plain")
  BY <1>1 DEF SameCard, SessionForm
<1>3. select_mf(k, s).s \in {s, after}
  BY <1>1, TryFormsEffect DEF select_mf
<1>4. QED
  BY <1>2, <1>3 DEF SameCard
LEMMA SelectChild ==
    ASSUME NEW k, NEW s, SessionForm(s), NEW fid
    PROVE  SameChannel(select_child_df(k, s, fid).s, s)
<1>1. PICK after : after = [s EXCEPT !.dir = fid]
  OBVIOUS
<1>2. SameChannel(after, s)
  BY <1>1 DEF SameChannel, SameCard, SessionForm
<1>3. select_child_df(k, s, fid).s \in {s, after}
  BY <1>1, TryFormsEffect DEF select_child_df
<1>4. QED
  BY <1>2, <1>3 DEF SameChannel, SameCard
LEMMA SelectApplication ==
    ASSUME NEW k, NEW s, SessionForm(s)
    PROVE  SameChannel(select_pkcs15_application(k, s).s, s)
<1>1. PICK after : after = [s EXCEPT !.dir = "App"]
  OBVIOUS
<1>2. SameChannel(after, s)
  BY <1>1 DEF SameChannel, SameCard, SessionForm
<1>3. select_pkcs15_application(k, s).s \in {s, after}
  BY <1>1, TryFormsEffect DEF select_pkcs15_application, Answer
<1>4. QED
  BY <1>2, <1>3 DEF SameChannel, SameCard

\* A file of that name on the card, and what is read of it.
HeldAs(k, name, object) ==
    \E d \in DOMAIN k.files : name \in DOMAIN k.files[d] /\ object = k.files[d][name].object

\* What is read out of a directory is what a file of that name holds.
LEMMA ReadInEffect ==
    ASSUME NEW k, NEW sel, NEW fid
    PROVE  /\ ReadIn(k, sel, fid).s = sel.s
           /\ ReadIn(k, sel, fid).err = "" => HeldAs(k, fid, ReadIn(k, sel, fid).value[1])
<1>1. CASE sel.err # ""
  BY <1>1 DEF ReadIn
<1>2. CASE sel.err = ""
  <2>1. PICK ef : ef = select_ef(k, sel.s, fid)
    OBVIOUS
  <2>2. ReadIn(k, sel, fid) = Object(ef)
    BY <1>2, <2>1 DEF ReadIn
  <2>3. /\ ef.s = sel.s
        /\ ef.err = "" => /\ sel.s.dir \in DOMAIN k.files /\ fid \in DOMAIN k.files[sel.s.dir]
                          /\ ef.value = k.files[sel.s.dir][fid]
    BY <2>1 DEF select_ef, FileAt, Answer
  <2>4. CASE ef.err # ""
    BY <2>2, <2>3, <2>4 DEF Object
  <2>5. CASE ef.err = ""
    <3>1. PICK r : r = read_binary_der_object(ef.s, ef.value)
      OBVIOUS
    <3>2. Object(ef) = r
      BY <2>5, <3>1 DEF Object
    <3>3. r.s = ef.s /\ (r.err = "" => r.value[1] = ef.value.object)
      BY <3>1 DEF read_binary_der_object, Answer
    <3>4. ReadIn(k, sel, fid) = r
      BY <2>2, <3>2
    <3>5. r.s = sel.s
      BY <2>3, <3>3
    <3>6. r.err = "" => HeldAs(k, fid, r.value[1])
      BY <2>3, <2>5, <3>3, Zenon DEF HeldAs
    <3>7. QED
      BY <3>4, <3>5, <3>6, Zenon
  <2>6. QED
    BY <2>4, <2>5
<1>3. QED
  BY <1>1, <1>2

\* read_certificate, read_token_info and read_card_access: what the first
\* leaves of the channel depends on where the certificate is.
ChannelAfter(t, s, name) ==
    /\ s.channel = "plain" => t.channel = "plain"
    /\ ~requires_mf_traversal(name) => t.channel = s.channel
LEMMA ReadCertificate ==
    ASSUME NEW k, NEW s, SessionForm(s), NEW name, NEW r, r = read_certificate(k, s, name)
    PROVE  /\ SameCard(r.s, s) /\ ChannelAfter(r.s, s, name)
           /\ r.err = "" => HeldAs(k, name, r.value[1])
<1>1. PICK dir : dir = Directory(k, s, name)
  OBVIOUS
<1>2. SameCard(dir.s, s) /\ ChannelAfter(dir.s, s, name)
  <2>1. PICK path : path = CertSlot_path(name)
    OBVIOUS
  <2>2. PICK mf : mf = select_mf(k, s)
    OBVIOUS
  <2>3. SameCard(mf.s, s) /\ (s.channel = "plain" => mf.s.channel = "plain")
    BY <2>2, SelectMf
  <2>4. CASE path = "UnderPkcs15App"
    <3>1. dir = select_pkcs15_application(k, s)
      BY <1>1, <2>1, <2>4 DEF Directory
    <3>2. QED
      BY <3>1, SelectApplication DEF SameChannel, ChannelAfter
  <2>5. CASE path = "UnderMf"
    <3>1. dir = mf
      BY <1>1, <2>1, <2>2, <2>5 DEF Directory
    <3>2. QED
      BY <2>1, <2>3, <2>5, <3>1 DEF requires_mf_traversal, ChannelAfter
  <2>6. CASE path # "UnderPkcs15App" /\ path # "UnderMf"
    <3>1. dir = Under5016(k, mf)
      BY <1>1, <2>1, <2>2, <2>6 DEF Directory
    <3>2. CASE mf.err # ""
      BY <2>1, <2>3, <2>6, <3>1, <3>2 DEF Under5016, requires_mf_traversal, ChannelAfter
    <3>3. CASE mf.err = ""
      <4>1. dir = select_child_df(k, mf.s, "5016")
        BY <3>1, <3>3 DEF Under5016
      <4>2. SameChannel(dir.s, mf.s)
        BY <2>3, <4>1, SelectChild DEF SameCard
      <4>3. QED
        BY <2>1, <2>3, <2>6, <4>2 DEF SameChannel, SameCard, requires_mf_traversal, ChannelAfter
    <3>4. QED
      BY <3>2, <3>3
  <2>7. QED
    BY <2>4, <2>5, <2>6
<1>3. read_certificate(k, s, name) = ReadIn(k, dir, name)
  BY <1>1 DEF read_certificate
<1>4. ReadIn(k, dir, name).s = dir.s
  BY ReadInEffect, Zenon
<1>5. ReadIn(k, dir, name).err = "" => HeldAs(k, name, ReadIn(k, dir, name).value[1])
  BY ReadInEffect, Zenon
<1>6. QED
  BY <1>2, <1>3, <1>4, <1>5, Zenon
LEMMA ReadTokenInfo ==
    ASSUME NEW k, NEW s, SessionForm(s), NEW r, r = read_token_info(k, s)
    PROVE  /\ SameChannel(r.s, s)
           /\ r.err = "" => \E object : /\ HeldAs(k, "TokenInfo", object) /\ TokenInfo_parse(object).err = ""
                                        /\ r.value = TokenInfo_parse(object).info
<1>1. PICK sel : sel = select_pkcs15_application(k, s)
  OBVIOUS
<1>2. SameChannel(sel.s, s)
  BY <1>1, SelectApplication
<1>3. PICK in : in = ReadIn(k, sel, "TokenInfo")
  OBVIOUS
<1>4. in.s = sel.s /\ (in.err = "" => HeldAs(k, "TokenInfo", in.value[1]))
  BY <1>3, ReadInEffect
<1>5. read_token_info(k, s) = TokenIn(in)
  BY <1>1, <1>3 DEF read_token_info
<1>6. CASE in.err # ""
  BY <1>2, <1>4, <1>5, <1>6 DEF TokenIn
<1>7. CASE in.err = ""
  <2>1. PICK p : p = TokenInfo_parse(in.value[1])
    OBVIOUS
  <2>2. PICK t : t = TokenIn(in)
    OBVIOUS
  <2>3. t = IF p.err # "" THEN Answer(in.s, "InvalidData", Absent) ELSE Answer(in.s, "", p.info)
    BY <1>7, <2>1, <2>2 DEF TokenIn
  <2>4. t.s = in.s /\ (t.err = "" => p.err = "" /\ t.value = p.info)
    BY <2>3 DEF Answer
  <2>5. QED
    BY <1>2, <1>4, <1>5, <1>7, <2>1, <2>2, <2>4, Zenon
<1>8. QED
  BY <1>6, <1>7
LEMMA ReadCardAccess ==
    ASSUME NEW k, NEW s, SessionForm(s), s.channel = "plain"
    PROVE  SameChannel(read_card_access(k, s).s, s)
<1>1. PICK sel : sel = select_mf(k, s)
  OBVIOUS
<1>2. SameChannel(sel.s, s)
  BY <1>1, SelectMf DEF SameChannel
<1>3. PICK in : in = ReadIn(k, sel, "CardAccess")
  OBVIOUS
<1>4. in.s = sel.s
  BY <1>3, ReadInEffect
<1>5. read_card_access(k, s) = AccessIn(in)
  BY <1>1, <1>3 DEF read_card_access
<1>6. AccessIn(in).s = in.s
  <2>1. CASE in.err # ""
    BY <2>1 DEF AccessIn
  <2>2. CASE in.err = ""
    BY <2>2 DEF AccessIn, Answer
  <2>3. QED
    BY <2>1, <2>2
<1>7. QED
  BY <1>2, <1>4, <1>5, <1>6

(***************************************************************************)
(* One run of check_all                                                    *)
(***************************************************************************)

\* The shape of a run and of a report.
RunForm(c) ==
    c = [pc |-> c.pc, opts |-> c.opts, pool |-> c.pool, todo |-> c.todo, picks |-> c.picks, s |-> c.s,
         slots |-> c.slots, ders |-> c.ders, rep |-> c.rep, out |-> c.out, err |-> c.err, since |-> c.since]
ReportFields == DOMAIN NoReport
ReportForm(r) == r = [f \in ReportFields |-> r[f]]

\* A reader is still to be probed, picked, or reported, never two of these.
RunReaders(c) ==
    /\ c.todo \subseteq Range(Readers)
    /\ OnceEach(c.picks) /\ ReadersIn(c.picks) \subseteq Range(Readers) \ c.todo
    /\ OnceEach(c.out) /\ ReadersIn(c.out) \subseteq Range(Readers) \ (c.todo \cup ReadersIn(c.picks))
RunPhase(c) ==
    /\ c.pc \in {"idle", "load", "probe", "probe access", "next", "done"} \cup SectionSteps \cup {"emrtd"}
    /\ c.pc = "load" => c.picks = <<>>
    /\ c.pc \in {"idle", "load", "probe", "probe access"} => c.out = <<>>
    /\ c.pc \in SectionSteps \cup {"emrtd"} => c.picks # <<>> /\ c.rep.reader = c.picks[1].reader
    /\ c.err # "" => c.pc = "done" /\ c.out = <<>>
\* The session's channel never ends, and is a plain one until PACE.
RunSession(c) ==
    /\ SessionForm(c.s) /\ c.s.channel \in {"plain", "secure"}
    /\ c.pc \in {"section", "reset", "mf", "pace"} => c.s.channel = "plain"
\* What was read in the section is of the card the session is on: nothing
\* before its token information, then that and the certificates.
Carried(d, card) == d[1] \in DOMAIN Cards[card].issued /\ d[2] = Cards[card].issued[d[1]]
RunReading(c) ==
    /\ ReportForm(c.rep) /\ c.s.card \in DOMAIN Cards /\ c.rep.emrtd = Absent
    /\ IF c.pc = "slots" THEN TokenOf(c.rep.token, c.s.card) ELSE c.rep.token = NoToken /\ c.ders = <<>>
    /\ IsList(c.ders) /\ \A i \in DOMAIN c.ders : Carried(c.ders[i], c.s.card)
RunReport(c) ==
    /\ c.pc \in SectionSteps => RunReading(c)
    /\ c.pc = "slots" => c.slots \in Seq(Range(CertSlot_all))
    /\ c.pc = "emrtd" => ReportForm(c.rep)
\* The cards a run has met.  `at` and n are the readers' cards and the count
\* of exchanges; what was read came from cards that can have been there.
MetIn(since, at, n, r) == {x \in DOMAIN Cards : since = n => at[r] = x}
PicksMet(c, at, n) ==
    \A i \in DOMAIN c.picks : \E x \in MetIn(c.since, at, n, c.picks[i].reader) : IdentityOf(c.picks[i].identity, x)
Begun(c, cards) ==
    /\ c.s.card \in cards
    /\ \E x \in cards : IdentityOf(c.rep.identity, x)
    /\ \E opened \in cards : /\ OpenedOn(c.rep, opened)
                             /\ c.s.card = opened \/ Cards[opened].contactless
                             /\ c.pc \in {"reset", "mf", "pace", "sm"} => Cards[opened].contactless
OutMet(out, since, at, n) == \A i \in DOMAIN out : Composed(out[i], MetIn(since, at, n, out[i].reader))
RunCards(c, at, n) ==
    /\ c.since \in Nat /\ c.since <= n
    /\ PicksMet(c, at, n)
    /\ c.pc \in SectionSteps => Begun(c, MetIn(c.since, at, n, c.rep.reader))
    /\ c.pc = "emrtd" => Composed(c.rep, MetIn(c.since, at, n, c.rep.reader))
    /\ OutMet(c.out, c.since, at, n)
RunInv(c) == RunForm(c) /\ RunReaders(c) /\ RunPhase(c) /\ RunSession(c) /\ RunReport(c)
Met(c) == RunCards(c, slot, swaps)

\* What is of these cards is of more cards too.
LEMMA ComposedMore ==
    ASSUME NEW rep, NEW cards, NEW more, cards \subseteq more, Composed(rep, cards)
    PROVE  Composed(rep, more)
BY Zenon DEF Composed
LEMMA BegunMore ==
    ASSUME NEW c, NEW cards, NEW more, cards \subseteq more, Begun(c, cards)
    PROVE  Begun(c, more)
BY Zenon DEF Begun
LEMMA CardsMore ==
    ASSUME NEW c, NEW at, NEW n \in Nat, RunCards(c, at, n), NEW m \in Nat, n < m, NEW there
    PROVE  RunCards(c, there, m)
<1>1. c.since \in Nat /\ c.since <= n
  BY DEF RunCards
<1>2. c.since # m /\ c.since <= m
  BY <1>1
<1>3. ASSUME NEW r PROVE MetIn(c.since, at, n, r) \subseteq MetIn(c.since, there, m, r)
  BY <1>2, Zenon DEF MetIn
<1>4. PicksMet(c, there, m)
  BY <1>3, Zenon DEF RunCards, PicksMet
<1>5. c.pc \in SectionSteps => Begun(c, MetIn(c.since, there, m, c.rep.reader))
  BY <1>3, BegunMore, Zenon DEF RunCards
<1>6. c.pc = "emrtd" => Composed(c.rep, MetIn(c.since, there, m, c.rep.reader))
  <2>1. SUFFICES ASSUME c.pc = "emrtd" PROVE Composed(c.rep, MetIn(c.since, there, m, c.rep.reader))
    OBVIOUS
  <2>2. Composed(c.rep, MetIn(c.since, at, n, c.rep.reader))
    BY <2>1 DEF RunCards
  <2>3. QED
    BY <1>3, <2>2, ComposedMore, Zenon
<1>7. OutMet(c.out, c.since, there, m)
  BY <1>3, ComposedMore, Zenon DEF RunCards, OutMet
<1>8. QED
  BY <1>1, <1>2, <1>4, <1>5, <1>6, <1>7, Zenon DEF RunCards

\* A step that leaves the picks and the finished reports: outside a reader,
\* and in the section of one.
SameRun(d, c) == d.since = c.since /\ d.picks = c.picks /\ d.out = c.out
LEMMA CardsOutside ==
    ASSUME NEW c, NEW d, NEW at, NEW n, RunCards(c, at, n), SameRun(d, c), d.pc \notin SectionSteps \cup {"emrtd"}
    PROVE  RunCards(d, at, n)
BY Zenon DEF RunCards, SameRun, PicksMet, OutMet
SameStart(d, c) ==
    d.reader = c.reader /\ d.identity = c.identity /\ d.atr = c.atr /\ d.access = c.access
Resetting == {"reset", "mf", "pace", "sm"}
LEMMA CardsWithin ==
    ASSUME NEW c, NEW d, NEW at, NEW n, RunCards(c, at, n), SameRun(d, c), c.pc \in SectionSteps, d.pc \in SectionSteps,
           d.s.card = c.s.card, SameStart(d.rep, c.rep), d.pc \in Resetting => c.pc \in Resetting
    PROVE  RunCards(d, at, n)
<1>1. PICK cards : cards = MetIn(c.since, at, n, c.rep.reader)
  OBVIOUS
<1>2. cards = MetIn(d.since, at, n, d.rep.reader)
  BY <1>1 DEF SameRun, SameStart
<1>3. Begun(c, cards)
  BY <1>1 DEF RunCards
<1>4. \A x : OpenedOn(c.rep, x) => OpenedOn(d.rep, x)
  BY Zenon DEF OpenedOn, SameStart
<1>5. \A x : IdentityOf(c.rep.identity, x) => IdentityOf(d.rep.identity, x)
  BY Zenon DEF IdentityOf, SameStart
<1>6. Begun(d, cards)
  BY <1>3, <1>4, <1>5, Zenon DEF Begun, Resetting
<1>7. d.pc # "emrtd"
  BY DEF SectionSteps
<1>8. QED
  BY <1>2, <1>6, <1>7, Zenon DEF RunCards, SameRun, PicksMet, OutMet

\* A run that has not begun, has just begun, or is over.
LEMMA RestInv ==
    ASSUME NEW c, RunForm(c), c.todo = {}, c.picks = <<>>, c.s = Session(NoCard),
           c.pc \in {"idle", "load", "done"}, OnceEach(c.out), ReadersIn(c.out) \subseteq Range(Readers),
           c.pc # "done" => c.out = <<>>, c.err # "" => c.pc = "done" /\ c.out = <<>>
    PROVE  RunInv(c)
<1>1. OnceEach(c.picks) /\ ReadersIn(c.picks) = {}
  BY OnceEmpty
<1>2. RunReaders(c)
  BY <1>1 DEF RunReaders
<1>3. RunPhase(c)
  BY DEF RunPhase, SectionSteps
<1>4. RunSession(c)
  BY SessionNew DEF RunSession
<1>5. RunReport(c)
  BY DEF RunReport, SectionSteps
<1>6. QED
  BY <1>2, <1>3, <1>4, <1>5 DEF RunInv
LEMMA RestCards ==
    ASSUME NEW c, c.picks = <<>>, c.pc \in {"idle", "load", "done"}, NEW at, NEW n,
           c.since \in Nat, c.since <= n, OutMet(c.out, c.since, at, n)
    PROVE  RunCards(c, at, n)
<1>1. PicksMet(c, at, n)
  BY ListEmpty, Zenon DEF PicksMet
<1>2. c.pc \notin SectionSteps /\ c.pc # "emrtd"
  BY DEF SectionSteps
<1>3. QED
  BY <1>1, <1>2, Zenon DEF RunCards
LEMMA NoneMet ==
    ASSUME NEW since, NEW at, NEW n
    PROVE  OutMet(<<>>, since, at, n)
BY ListEmpty, Zenon DEF OutMet
LEMMA IdleFields ==
    /\ RunForm(Idle) /\ Idle.pc = "idle" /\ Idle.todo = {} /\ Idle.picks = <<>> /\ Idle.s = Session(NoCard)
    /\ Idle.out = <<>> /\ Idle.err = "" /\ Idle.since = 0
BY DEF Idle, RunForm
LEMMA IdleInv == ASSUME swaps \in Nat PROVE RunInv(Idle) /\ Met(Idle)
<1>2. PICK c : c = Idle
  OBVIOUS
<1>3. /\ RunForm(c) /\ c.pc = "idle" /\ c.todo = {} /\ c.picks = <<>> /\ c.s = Session(NoCard)
      /\ c.out = <<>> /\ c.err = "" /\ c.since = 0
  BY <1>2, IdleFields, Zenon
<1>4. OnceEach(c.out) /\ ReadersIn(c.out) \subseteq Range(Readers)
  BY <1>3, OnceEmpty
<1>5. RunInv(c)
  BY <1>3, <1>4, RestInv
<1>6. Met(c)
  <2>1. c.since \in Nat /\ c.since <= swaps
    <3>1. c.since = 0
      BY <1>3
    <3>2. QED
      BY <3>1, SMT
  <2>2. OutMet(c.out, c.since, slot, swaps)
    BY <1>3, NoneMet, Zenon
  <2>3. QED
    BY <1>3, <2>1, <2>2, RestCards DEF Met
<1>7. QED
  BY <1>2, <1>5, <1>6
LEMMA CalledInv ==
    ASSUME NEW opts, swaps \in Nat
    PROVE  RunInv(Called(opts)) /\ Met(Called(opts)) /\ Called(opts).pc = "load" /\ Called(opts).out = <<>>
<1>2. PICK c : c = Called(opts)
  OBVIOUS
<1>3. /\ RunForm(c) /\ c.pc = "load" /\ c.todo = {} /\ c.picks = <<>> /\ c.s = Session(NoCard)
      /\ c.out = <<>> /\ c.err = "" /\ c.since = swaps
  BY <1>2 DEF Called, Idle, RunForm
<1>4. OnceEach(c.out) /\ ReadersIn(c.out) \subseteq Range(Readers)
  BY <1>3, OnceEmpty
<1>5. RunInv(c)
  BY <1>3, <1>4, RestInv
<1>6. Met(c)
  <2>1. c.since \in Nat /\ c.since <= swaps
    <3>1. c.since = swaps
      BY <1>3
    <3>2. QED
      BY <3>1, SMT
  <2>2. OutMet(c.out, c.since, slot, swaps)
    BY <1>3, NoneMet, Zenon
  <2>3. QED
    BY <1>3, <2>1, <2>2, RestCards DEF Met
<1>7. QED
  BY <1>2, <1>3, <1>5, <1>6
LEMMA FinishedInv ==
    ASSUME NEW p, Met(chk[p]), NEW out, OnceEach(out), ReadersIn(out) \subseteq Range(Readers),
           OutMet(out, chk[p].since, slot, swaps)
    PROVE  RunInv(Finished(p, out)) /\ Met(Finished(p, out)) /\ Finished(p, out).pc = "done"
<1>1. PICK c : c = Finished(p, out)
  OBVIOUS
<1>2. /\ RunForm(c) /\ c.pc = "done" /\ c.todo = {} /\ c.picks = <<>> /\ c.s = Session(NoCard)
      /\ c.out = out /\ c.err = "" /\ c.since = chk[p].since
  BY <1>1 DEF Finished, Idle, RunForm
<1>3. RunInv(c)
  BY <1>2, RestInv
<1>4. chk[p].since \in Nat /\ chk[p].since <= swaps
  BY DEF Met, RunCards
<1>5. Met(c)
  BY <1>2, <1>4, RestCards DEF Met
<1>6. QED
  BY <1>1, <1>2, <1>3, <1>5

\* A step of p's run, and nothing else.
Moved(p) ==
    /\ chk[p].pc \notin {"idle", "done"}
    /\ \E d : RunInv(d) /\ Met(d) /\ d.pc # "idle" /\ chk' = [chk EXCEPT ![p] = d]
    /\ UNCHANGED <<slot, swaps>>
LEMMA GoesMoves ==
    ASSUME NEW p, NEW d, Goes(p, d), RunInv(d), Met(d), d.pc # "idle", chk[p].pc \notin {"idle", "done"}
    PROVE  Moved(p)
BY Zenon DEF Goes, Moved
LEMMA FailsMoves ==
    ASSUME NEW p, NEW err, Met(chk[p]), Fails(p, err), chk[p].pc \notin {"idle", "done"}
    PROVE  Moved(p)
<1>1. PICK c : c = [Idle EXCEPT !.pc = "done", !.opts = chk[p].opts, !.err = err, !.since = chk[p].since]
  OBVIOUS
<1>2. /\ RunForm(c) /\ c.pc = "done" /\ c.todo = {} /\ c.picks = <<>> /\ c.s = Session(NoCard)
      /\ c.out = <<>> /\ c.since = chk[p].since
  BY <1>1 DEF Idle, RunForm
<1>3. OnceEach(c.out) /\ ReadersIn(c.out) \subseteq Range(Readers)
  BY <1>2, OnceEmpty
<1>4. RunInv(c)
  BY <1>2, <1>3, RestInv
<1>5. chk[p].since \in Nat /\ chk[p].since <= swaps
  BY DEF Met, RunCards
<1>6. Met(c)
  BY <1>2, <1>5, NoneMet, RestCards DEF Met
<1>7. Goes(p, c)
  BY <1>1 DEF Fails
<1>8. QED
  BY <1>2, <1>4, <1>6, <1>7, GoesMoves

\* The master lists and the readers.
LEMMA EnumerateFineidMoves ==
    ASSUME NEW p, RunInv(chk[p]), Met(chk[p]), EnumerateFineid(p)
    PROVE  Moved(p)
<1>1. chk[p].pc = "load"
  BY DEF EnumerateFineid
<1>2. PICK pool : IF ~Ok(pool) THEN Fails(p, pool.err)
                  ELSE Goes(p, [chk[p] EXCEPT !.pc = "probe", !.todo = Present(p),
                                              !.pool = IF Opts(p).icao_pkd THEN <<pool>> ELSE Absent])
  BY Zenon DEF EnumerateFineid
<1>3. CASE ~Ok(pool)
  BY <1>1, <1>2, <1>3, FailsMoves
<1>4. CASE Ok(pool)
  <2>1. PICK c : c = chk[p]
    OBVIOUS
  <2>2. PICK new : new = IF Opts(p).icao_pkd THEN <<pool>> ELSE Absent
    OBVIOUS
  <2>3. PICK d : d = [c EXCEPT !.pc = "probe", !.todo = Present(p), !.pool = new]
    OBVIOUS
  <2>4. RunInv(c) /\ RunForm(c) /\ c.pc = "load"
    BY <1>1, <2>1 DEF RunInv
  <2>5. /\ RunForm(d) /\ d.pc = "probe" /\ d.todo = Present(p) /\ d.picks = c.picks /\ d.s = c.s
        /\ d.out = c.out /\ d.err = c.err /\ d.since = c.since
    BY <2>3, <2>4 DEF RunForm
  <2>6. c.picks = <<>> /\ c.out = <<>> /\ c.err = ""
    BY <2>4 DEF RunInv, RunPhase
  <2>7. RunReaders(d)
    BY <2>5, <2>6, OnceEmpty DEF RunReaders, Present, Plugged
  <2>8. RunPhase(d)
    BY <2>5, <2>6 DEF RunPhase, SectionSteps
  <2>9. RunSession(d)
    BY <2>4, <2>5 DEF RunInv, RunSession
  <2>10. RunReport(d)
    BY <2>4, <2>5 DEF RunInv, RunReport, SectionSteps
  <2>11. Goes(p, d)
    BY <1>2, <1>4, <2>1, <2>2, <2>3
  <2>12. RunInv(d)
    BY <2>5, <2>7, <2>8, <2>9, <2>10 DEF RunInv
  <2>13. Met(d)
    BY <2>1, <2>5, CardsOutside DEF Met, SameRun, SectionSteps
  <2>14. QED
    BY <1>1, <2>5, <2>11, <2>12, <2>13, GoesMoves
<1>5. QED
  BY <1>3, <1>4

\* A reader that was still to be probed is picked or passed over.
PickedOrNot(picks, c, r) ==
    \/ picks = c.picks
    \/ \E id : /\ picks = Append(c.picks, [reader |-> r, identity |-> id])
               /\ \E x \in MetIn(c.since, slot, swaps, r) : IdentityOf(id, x)
SlotsTyped == slot \in [Range(Readers) -> DOMAIN Cards \cup {NoCard, Unplugged}]
\* A card in a reader has been met there.
LEMMA HereIsMet ==
    ASSUME NEW r, CardIn(r) # NoCard, r \in Range(Readers), SlotsTyped, NEW since
    PROVE  slot[r] \in DOMAIN Cards /\ CardIn(r) = slot[r] /\ slot[r] \in MetIn(since, slot, swaps, r)
<1>1. slot[r] # Unplugged /\ CardIn(r) = slot[r]
  BY DEF CardIn
<1>2. slot[r] \in DOMAIN Cards
  BY <1>1 DEF SlotsTyped
<1>3. QED
  BY <1>1, <1>2, Zenon DEF MetIn
LEMMA ProbedOne ==
    ASSUME NEW c, Probed(c) # Absent
    PROVE  c # NoCard /\ Probed(c) = <<Probed(c)[1]>>
<1>1. c # NoCard /\ Probed(c) = probe_fineid_identity(Cards[c], c)
  BY DEF Probed
<1>2. \E id : Probed(c) = <<id>>
  BY <1>1, Zenon DEF probe_fineid_identity, ProbeToken
<1>3. QED
  BY <1>1, <1>2
LEMMA ProbedInv ==
    ASSUME NEW c, RunInv(c), c.pc \in {"probe", "probe access"}, c.todo # {},
           NEW r, r = FirstReader(c.todo),
           NEW picks, PickedOrNot(picks, c, r),
           NEW d, RunForm(d), d.pc = c.pc, d.todo = c.todo \ {r}, d.picks = picks, d.s = c.s,
           d.out = c.out, d.err = c.err, d.since = c.since, Met(c)
    PROVE  RunInv(d) /\ Met(d)
<1>2. RunForm(c) /\ RunReaders(c) /\ RunPhase(c) /\ RunSession(c) /\ RunReport(c)
  BY DEF RunInv
<1>3. /\ RunForm(d) /\ d.pc = c.pc /\ d.todo = c.todo \ {r} /\ d.picks = picks /\ d.s = c.s
      /\ d.out = c.out /\ d.err = c.err
  OBVIOUS
<1>4. r \in c.todo /\ r \in Range(Readers)
  BY <1>2, FirstReaderIn DEF RunReaders
<1>5. OnceEach(picks) /\ ReadersIn(picks) \subseteq ReadersIn(c.picks) \cup {r}
  <2>1. CASE picks = c.picks
    BY <1>2, <2>1 DEF RunReaders
  <2>2. CASE picks # c.picks
    <3>1. PICK id : picks = Append(c.picks, [reader |-> r, identity |-> id])
      BY <2>2 DEF PickedOrNot
    <3>2. PICK e : e = [reader |-> r, identity |-> id]
      OBVIOUS
    <3>3. e.reader = r
      BY <3>2
    <3>4. OnceEach(c.picks) /\ e.reader \notin ReadersIn(c.picks)
      BY <1>2, <1>4, <3>3 DEF RunReaders
    <3>5. picks = Append(c.picks, e)
      BY <3>1, <3>2
    <3>6. OnceEach(Append(c.picks, e)) /\ ReadersIn(Append(c.picks, e)) = ReadersIn(c.picks) \cup {e.reader}
      BY <3>4, OnceAppend, Zenon
    <3>7. QED
      BY <3>3, <3>5, <3>6
  <2>3. QED
    BY <2>1, <2>2
<1>6. c.out = <<>> /\ c.err = ""
  BY <1>2 DEF RunPhase
<1>7. RunReaders(d)
  BY <1>2, <1>3, <1>4, <1>5, <1>6, OnceEmpty DEF RunReaders
<1>8. RunPhase(d)
  BY <1>2, <1>3, <1>6 DEF RunPhase, SectionSteps
<1>9. RunSession(d)
  BY <1>2, <1>3 DEF RunSession
<1>10. RunReport(d)
  BY <1>2, <1>3 DEF RunReport, SectionSteps
<1>11. PicksMet(d, slot, swaps)
  <2>1. \A i \in DOMAIN c.picks : \E x \in MetIn(c.since, slot, swaps, c.picks[i].reader) : IdentityOf(c.picks[i].identity, x)
    BY DEF Met, RunCards, PicksMet
  <2>2. CASE picks = c.picks
    BY <2>1, <2>2, Zenon DEF PicksMet
  <2>3. CASE picks # c.picks
    <3>1. PICK id : /\ picks = Append(c.picks, [reader |-> r, identity |-> id])
                    /\ \E x \in MetIn(c.since, slot, swaps, r) : IdentityOf(id, x)
      BY <2>3 DEF PickedOrNot
    <3>2. PICK e : e = [reader |-> r, identity |-> id]
      OBVIOUS
    <3>3. e.reader = r /\ e.identity = id /\ picks = Append(c.picks, e)
      BY <3>1, <3>2
    <3>4. IsList(c.picks)
      BY <1>2 DEF RunReaders, OnceEach
    <3>5. Len(c.picks) \in Nat /\ DOMAIN c.picks = 1..Len(c.picks)
      BY <3>4, ListFacts
    <3>6. /\ DOMAIN picks = 1..(Len(c.picks) + 1) /\ picks[Len(c.picks) + 1] = e
          /\ \A i \in 1..Len(c.picks) : picks[i] = c.picks[i]
      <4>1. PICK l : l = c.picks
        OBVIOUS
      <4>2. IsList(l) /\ picks = Append(l, e)
        BY <3>3, <3>4, <4>1
      <4>3. /\ DOMAIN picks = 1..(Len(l) + 1) /\ picks[Len(l) + 1] = e
            /\ \A i \in 1..Len(l) : picks[i] = l[i]
        BY ONLY <4>2, ListAppend
      <4>4. QED
        BY <4>1, <4>3, Zenon
    <3>7. ASSUME NEW i \in DOMAIN picks
          PROVE  \E x \in MetIn(c.since, slot, swaps, picks[i].reader) : IdentityOf(picks[i].identity, x)
      <4>1. CASE i = Len(c.picks) + 1
        BY <3>1, <3>3, <3>6, <4>1, Zenon
      <4>2. CASE i # Len(c.picks) + 1
        <5>1. i \in 1..(Len(c.picks) + 1)
          BY <3>6
        <5>2. i \in 1..Len(c.picks)
          BY ONLY <3>5, <4>2, <5>1
        <5>3. i \in DOMAIN c.picks /\ picks[i] = c.picks[i]
          BY <3>5, <3>6, <5>2, Zenon
        <5>4. QED
          BY <2>1, <5>3, Zenon
      <4>3. QED
        BY <4>1, <4>2
    <3>8. QED
      BY <3>7, Zenon DEF PicksMet
  <2>4. QED
    BY <2>2, <2>3
<1>12. Met(d)
  BY <1>3, <1>11, Zenon DEF Met, RunCards, SectionSteps
<1>13. QED
  BY <1>3, <1>7, <1>8, <1>9, <1>10, <1>12 DEF RunInv
LEMMA ProbeFineidMoves ==
    ASSUME NEW p, RunInv(chk[p]), Met(chk[p]), ProbeFineid(p), SlotsTyped
    PROVE  Moved(p)
<1>1. chk[p].pc = "probe" /\ chk[p].todo # {}
  BY DEF ProbeFineid
<1>2. PICK r : r = FirstReader(chk[p].todo)
  OBVIOUS
<1>3. PICK id : id = Probed(CardIn(r))
  OBVIOUS
<1>4. PICK picks : picks = IF id = Absent THEN chk[p].picks
                           ELSE Append(chk[p].picks, [reader |-> r, identity |-> id[1]])
  OBVIOUS
<1>5. PickedOrNot(picks, chk[p], r)
  <2>1. CASE id = Absent
    BY <1>4, <2>1 DEF PickedOrNot
  <2>2. CASE id # Absent
    <3>1. CardIn(r) # NoCard /\ id = <<id[1]>>
      BY <1>3, <2>2, ProbedOne, Zenon
    <3>2. r \in Range(Readers)
      BY <1>1, <1>2, FirstReaderIn DEF RunInv, RunReaders
    <3>3. slot[r] \in MetIn(chk[p].since, slot, swaps, r) /\ CardIn(r) = slot[r]
      BY <3>1, <3>2, HereIsMet
    <3>4. IdentityOf(id[1], slot[r])
      BY <1>3, <3>1, <3>3, Zenon DEF IdentityOf
    <3>5. QED
      BY <1>4, <2>2, <3>3, <3>4, Zenon DEF PickedOrNot
  <2>3. QED
    BY <2>1, <2>2
<1>6. PICK d : d = [chk[p] EXCEPT !.todo = chk[p].todo \ {r}, !.picks = picks]
  OBVIOUS
<1>7. RunInv(d) /\ Met(d) /\ d.pc = "probe"
  <2>1. chk[p].pc \in {"probe", "probe access"}
    BY <1>1
  <2>3. PICK c : c = chk[p]
    OBVIOUS
  <2>4. RunInv(c) /\ Met(c) /\ RunForm(c)
    BY <2>3 DEF RunInv
  <2>5. /\ RunForm(d) /\ d.pc = c.pc /\ d.todo = c.todo \ {r} /\ d.picks = picks /\ d.s = c.s
        /\ d.out = c.out /\ d.err = c.err /\ d.since = c.since
    BY <1>6, <2>3, <2>4 DEF RunForm
  <2>6. RunInv(d) /\ Met(d)
    BY <1>1, <1>2, <1>5, <2>1, <2>3, <2>4, <2>5, ProbedInv
  <2>7. QED
    BY <1>1, <2>3, <2>5, <2>6
<1>8. Goes(p, d)
  BY <1>2, <1>3, <1>4, <1>6 DEF ProbeFineid
<1>9. QED
  BY <1>1, <1>7, <1>8, GoesMoves
LEMMA ProbeContactlessMoves ==
    ASSUME NEW p, RunInv(chk[p]), Met(chk[p]), ProbeContactless(p), SlotsTyped
    PROVE  Moved(p)
<1>1. chk[p].pc = "probe access" /\ chk[p].todo # {}
  BY DEF ProbeContactless
<1>2. PICK r : r = FirstReader(chk[p].todo)
  OBVIOUS
<1>3. PICK picks : picks = IF Accessible(CardIn(r)) THEN Append(chk[p].picks, [reader |-> r, identity |-> NoIdentity])
                           ELSE chk[p].picks
  OBVIOUS
<1>4. PickedOrNot(picks, chk[p], r)
  <2>1. CASE ~Accessible(CardIn(r))
    BY <1>3, <2>1 DEF PickedOrNot
  <2>2. CASE Accessible(CardIn(r))
    <3>1. CardIn(r) # NoCard
      BY <2>2 DEF Accessible
    <3>2. r \in Range(Readers)
      BY <1>1, <1>2, FirstReaderIn DEF RunInv, RunReaders
    <3>3. slot[r] \in MetIn(chk[p].since, slot, swaps, r)
      BY <3>1, <3>2, HereIsMet
    <3>4. IdentityOf(NoIdentity, slot[r])
      BY DEF IdentityOf
    <3>5. QED
      BY <1>3, <2>2, <3>3, <3>4, Zenon DEF PickedOrNot
  <2>3. QED
    BY <2>1, <2>2
<1>5. PICK d : d = [chk[p] EXCEPT !.todo = chk[p].todo \ {r}, !.picks = picks]
  OBVIOUS
<1>6. RunInv(d) /\ Met(d) /\ d.pc = "probe access"
  <2>1. chk[p].pc \in {"probe", "probe access"}
    BY <1>1
  <2>3. PICK c : c = chk[p]
    OBVIOUS
  <2>4. RunInv(c) /\ Met(c) /\ RunForm(c)
    BY <2>3 DEF RunInv
  <2>5. /\ RunForm(d) /\ d.pc = c.pc /\ d.todo = c.todo \ {r} /\ d.picks = picks /\ d.s = c.s
        /\ d.out = c.out /\ d.err = c.err /\ d.since = c.since
    BY <1>5, <2>3, <2>4 DEF RunForm
  <2>6. RunInv(d) /\ Met(d)
    BY <1>1, <1>2, <1>4, <2>1, <2>3, <2>4, <2>5, ProbedInv
  <2>7. QED
    BY <1>1, <2>3, <2>5, <2>6
<1>7. Goes(p, d)
  BY <1>2, <1>3, <1>5 DEF ProbeContactless
<1>8. QED
  BY <1>1, <1>6, <1>7, GoesMoves
LEMMA EnumerateContactlessMoves ==
    ASSUME NEW p, RunInv(chk[p]), Met(chk[p]), EnumerateContactless(p)
    PROVE  Moved(p)
<1>1. chk[p].pc = "probe" /\ chk[p].picks = <<>>
  BY DEF EnumerateContactless
<1>2. CASE Plugged = {}
  <2>1. Fails(p, "NoReaders")
    BY <1>2 DEF EnumerateContactless
  <2>2. QED
    BY <1>1, <2>1, FailsMoves
<1>3. CASE Plugged # {}
  <2>1. PICK c : c = chk[p]
    OBVIOUS
  <2>2. PICK d : d = [c EXCEPT !.pc = "probe access", !.todo = Present(p)]
    OBVIOUS
  <2>3. Goes(p, d)
    BY <1>3, <2>1, <2>2 DEF EnumerateContactless
  <2>4. RunInv(c) /\ RunForm(c) /\ c.pc = "probe" /\ c.picks = <<>>
    BY <1>1, <2>1 DEF RunInv
  <2>5. /\ RunForm(d) /\ d.pc = "probe access" /\ d.todo = Present(p) /\ d.picks = c.picks /\ d.s = c.s
        /\ d.out = c.out /\ d.err = c.err /\ d.since = c.since
    BY <2>2, <2>4 DEF RunForm
  <2>6. c.out = <<>> /\ c.err = ""
    BY <2>4 DEF RunInv, RunPhase
  <2>7. RunReaders(d)
    BY <2>4, <2>5, <2>6, OnceEmpty DEF RunReaders, Present, Plugged
  <2>8. RunPhase(d)
    BY <2>5, <2>6 DEF RunPhase, SectionSteps
  <2>9. RunSession(d)
    BY <2>4, <2>5 DEF RunInv, RunSession
  <2>10. RunReport(d)
    BY <2>4, <2>5 DEF RunInv, RunReport, SectionSteps
  <2>11. RunInv(d)
    BY <2>5, <2>7, <2>8, <2>9, <2>10 DEF RunInv
  <2>12. Met(d)
    BY <2>1, <2>5, CardsOutside DEF Met, SameRun, SectionSteps
  <2>13. QED
    BY <1>1, <2>3, <2>5, <2>11, <2>12, GoesMoves
<1>4. QED
  BY <1>2, <1>3
LEMMA NobodyAnswersMoves ==
    ASSUME NEW p, RunInv(chk[p]), Met(chk[p]), NobodyAnswers(p)
    PROVE  Moved(p)
<1>1. chk[p].pc = "probe access" /\ Goes(p, Finished(p, <<>>))
  BY DEF NobodyAnswers
<1>2. OutMet(<<>>, chk[p].since, slot, swaps)
  BY NoneMet
<1>3. OnceEach(<<>>) /\ ReadersIn(<<>>) \subseteq Range(Readers)
  BY OnceEmpty
<1>4. RunInv(Finished(p, <<>>)) /\ Met(Finished(p, <<>>)) /\ Finished(p, <<>>).pc = "done"
  BY <1>2, <1>3, FinishedInv
<1>5. QED
  BY <1>1, <1>4, GoesMoves

\* The report of the first pick is done.
LEMMA ConcludedInv ==
    ASSUME NEW p, RunInv(chk[p]), Met(chk[p]), chk[p].pc \in {"slots", "emrtd"},
           NEW rep, rep.reader = chk[p].picks[1].reader, Composed(rep, MetIn(chk[p].since, slot, swaps, rep.reader))
    PROVE  RunInv(Concluded(p, rep)) /\ Met(Concluded(p, rep)) /\ Concluded(p, rep).pc \in {"next", "done"}
<1>1. PICK c : c = chk[p]
  OBVIOUS
<1>2. RunForm(c) /\ RunReaders(c) /\ RunPhase(c) /\ RunSession(c) /\ RunReport(c) /\ c.pc \in {"slots", "emrtd"}
  BY <1>1 DEF RunInv
<1>3. c.picks # <<>> /\ c.err = ""
  BY <1>2 DEF RunPhase, SectionSteps
<1>4. PICK out : out = Append(c.out, rep)
  OBVIOUS
<1>5. /\ OnceEach(Tail(c.picks)) /\ ReadersIn(Tail(c.picks)) = ReadersIn(c.picks) \ {rep.reader}
      /\ rep.reader \in ReadersIn(c.picks)
  BY <1>1, <1>2, <1>3, OnceTail DEF RunReaders
<1>6. OnceEach(c.out) /\ rep.reader \notin ReadersIn(c.out)
  BY <1>2, <1>5 DEF RunReaders
<1>7. OnceEach(out) /\ ReadersIn(out) = ReadersIn(c.out) \cup {rep.reader}
  BY <1>4, <1>6, OnceAppend
<1>8. ReadersIn(out) \subseteq Range(Readers)
  BY <1>2, <1>5, <1>7 DEF RunReaders
<1>9. OutMet(out, c.since, slot, swaps)
  <2>1. IsList(c.out)
    BY <1>6 DEF OnceEach
  <2>2. Len(c.out) \in Nat /\ DOMAIN c.out = 1..Len(c.out)
    BY <2>1, ListFacts
  <2>3. DOMAIN out = 1..(Len(c.out) + 1) /\ out[Len(c.out) + 1] = rep /\ \A i \in 1..Len(c.out) : out[i] = c.out[i]
    BY <1>4, <2>1, ListAppend
  <2>4. \A i \in DOMAIN c.out : Composed(c.out[i], MetIn(c.since, slot, swaps, c.out[i].reader))
    BY <1>1 DEF Met, RunCards, OutMet
  <2>5. ASSUME NEW i \in DOMAIN out PROVE Composed(out[i], MetIn(c.since, slot, swaps, out[i].reader))
    <3>1. CASE i = Len(c.out) + 1
      BY <1>1, <2>3, <3>1, Zenon
    <3>2. CASE i # Len(c.out) + 1
      <4>1. i \in DOMAIN c.out /\ out[i] = c.out[i]
        BY <2>2, <2>3, <3>2
      <4>2. QED
        BY <2>4, <4>1, Zenon
    <3>3. QED
      BY <3>1, <3>2
  <2>6. QED
    BY <2>5, Zenon DEF OutMet
<1>10. CASE Len(c.picks) = 1
  <2>1. Concluded(p, rep) = Finished(p, out)
    BY <1>1, <1>4, <1>10 DEF Concluded
  <2>2. QED
    BY <1>1, <1>7, <1>8, <1>9, <2>1, FinishedInv
<1>11. CASE Len(c.picks) # 1
  <2>1. PICK d : d = [c EXCEPT !.pc = "next", !.picks = Tail(@), !.s = Session(NoCard), !.ders = <<>>, !.rep = NoReport,
                               !.out = Append(@, rep)]
    OBVIOUS
  <2>2. Concluded(p, rep) = d
    BY <1>1, <1>11, <2>1 DEF Concluded
  <2>3. /\ RunForm(d) /\ d.pc = "next" /\ d.todo = c.todo /\ d.picks = Tail(c.picks) /\ d.s = Session(NoCard)
        /\ d.out = out /\ d.err = c.err /\ d.since = c.since
    BY <1>2, <1>4, <2>1 DEF RunForm
  <2>4. RunReaders(d)
    BY <1>2, <1>5, <1>7, <1>8, <2>3 DEF RunReaders
  <2>5. RunPhase(d)
    BY <1>3, <2>3 DEF RunPhase, SectionSteps
  <2>6. RunSession(d)
    BY <2>3, SessionNew DEF RunSession
  <2>7. RunReport(d)
    BY <2>3 DEF RunReport, SectionSteps
  <2>8. PicksMet(d, slot, swaps)
    <3>1. IsList(c.picks)
      BY <1>2 DEF RunReaders, OnceEach
    <3>2. Len(c.picks) \in Nat /\ DOMAIN c.picks = 1..Len(c.picks)
      BY <3>1, ListFacts
    <3>3. PICK t : t = Tail(c.picks)
      OBVIOUS
    <3>4. DOMAIN t = 1..(Len(c.picks) - 1) /\ \A i \in 1..(Len(c.picks) - 1) : t[i] = c.picks[i + 1]
      BY <1>3, <3>1, <3>3, ListTail, Zenon
    <3>5. \A i \in DOMAIN c.picks : \E x \in MetIn(c.since, slot, swaps, c.picks[i].reader) : IdentityOf(c.picks[i].identity, x)
      BY <1>1 DEF Met, RunCards, PicksMet
    <3>6. ASSUME NEW i \in DOMAIN t
          PROVE  \E x \in MetIn(c.since, slot, swaps, t[i].reader) : IdentityOf(t[i].identity, x)
      <4>1. t[i] = c.picks[i + 1] /\ i + 1 \in DOMAIN c.picks
        BY <3>2, <3>4
      <4>2. QED
        BY <3>5, <4>1, Zenon
    <3>7. QED
      BY <2>3, <3>3, <3>6, Zenon DEF PicksMet
  <2>9. Met(d)
    <3>1. c.since \in Nat /\ c.since <= swaps
      BY <1>1 DEF Met, RunCards
    <3>2. d.pc \notin SectionSteps /\ d.pc # "emrtd"
      BY <2>3 DEF SectionSteps
    <3>3. QED
      BY <1>9, <2>3, <2>8, <3>1, <3>2, Zenon DEF Met, RunCards
  <2>10. QED
    BY <2>2, <2>3, <2>4, <2>5, <2>6, <2>7, <2>9 DEF RunInv
<1>12. QED
  BY <1>10, <1>11

(***************************************************************************)
(* One reader                                                              *)
(***************************************************************************)

\* The session is opened on the card that is there, and the report begun.
LEMMA OpenReaderMoves ==
    ASSUME NEW p, RunInv(chk[p]), Met(chk[p]), OpenReader(p), SlotsTyped
    PROVE  Moved(p)
<1>1. chk[p].pc \in {"next", "probe", "probe access"} /\ chk[p].picks # <<>>
  BY DEF OpenReader
<1>2. chk[p].pc \notin {"idle", "done"}
  BY <1>1
<1>3. CASE CardIn(Reader(p)) = NoCard
  <2>1. Fails(p, "Pcsc")
    BY <1>3 DEF OpenReader
  <2>2. QED
    BY <1>2, <2>1, FailsMoves
<1>4. CASE CardIn(Reader(p)) # NoCard /\ Opts(p).crl_file = "bad"
  <2>1. Fails(p, "CrlRead")
    BY <1>4 DEF OpenReader
  <2>2. QED
    BY <1>2, <2>1, FailsMoves
<1>5. CASE CardIn(Reader(p)) # NoCard /\ Opts(p).crl_file # "bad"
  <2>1. PICK c : c = chk[p]
    OBVIOUS
  <2>2. /\ RunForm(c) /\ RunReaders(c) /\ RunPhase(c) /\ RunReport(c) /\ c.picks # <<>> /\ c.pc # "done"
        /\ RunCards(c, slot, swaps)
    BY <1>1, <2>1 DEF RunInv, Met
  <2>3. PICK r : r = Reader(p)
    OBVIOUS
  <2>4. r = c.picks[1].reader /\ r \in Range(Readers) /\ 1 \in DOMAIN c.picks
    <3>1. c.picks[1].reader \in ReadersIn(c.picks) /\ 1 \in DOMAIN c.picks
      BY <2>2, OnceTail DEF RunReaders
    <3>2. QED
      BY <2>1, <2>2, <2>3, <3>1 DEF Reader, RunReaders
  <2>5. slot[r] \in DOMAIN Cards /\ slot[r] \in MetIn(c.since, slot, swaps, r)
    BY <1>5, <2>3, <2>4, HereIsMet
  <2>6. PICK k : k = Cards[slot[r]]
    OBVIOUS
  <2>7. PICK a : a = read_card_access(k, Session(slot[r]))
    OBVIOUS
  <2>8. SameChannel(a.s, Session(slot[r]))
    BY <2>7, SessionNew, ReadCardAccess
  <2>9. SessionForm(a.s) /\ a.s.card = slot[r] /\ a.s.channel = "plain"
    BY <2>8, SessionNew DEF SameChannel, SameCard
  <2>10. PICK access : access = IF a.err = "" THEN <<a.value>> ELSE Absent
    OBVIOUS
  <2>11. PICK rep : rep = [NoReport EXCEPT !.reader = r, !.identity = c.picks[1].identity, !.atr = k.atr, !.access = access]
    OBVIOUS
  <2>12. /\ ReportForm(rep) /\ rep.reader = r /\ rep.atr = k.atr /\ rep.token = NoToken
         /\ rep.identity = c.picks[1].identity /\ rep.access = access /\ rep.emrtd = Absent
    BY <2>11 DEF NoReport, ReportForm, ReportFields
  <2>13. PICK d : d = [c EXCEPT !.pc = "section", !.s = a.s, !.ders = <<>>, !.rep = rep]
    OBVIOUS
  <2>14. Goes(p, d)
    BY <1>5, <2>1, <2>3, <2>6, <2>7, <2>10, <2>11, <2>13, Zenon DEF OpenReader
  <2>15. /\ RunForm(d) /\ d.pc = "section" /\ d.todo = c.todo /\ d.picks = c.picks /\ d.s = a.s
         /\ d.ders = <<>> /\ d.rep = rep /\ d.out = c.out /\ d.err = c.err /\ d.since = c.since
    BY <2>2, <2>13 DEF RunForm
  <2>16. RunReaders(d)
    BY <2>2, <2>15 DEF RunReaders
  <2>17. RunPhase(d)
    BY <2>2, <2>4, <2>12, <2>15 DEF RunPhase, SectionSteps
  <2>18. RunSession(d)
    BY <2>9, <2>15 DEF RunSession
  <2>19. RunReading(d)
    BY <2>5, <2>9, <2>12, <2>15, ListEmpty DEF RunReading
  <2>20. RunReport(d)
    BY <2>15, <2>19 DEF RunReport
  <2>21. Begun(d, MetIn(c.since, slot, swaps, r))
    <3>1. PICK cards : cards = MetIn(c.since, slot, swaps, r)
      OBVIOUS
    <3>2. \E x \in cards : IdentityOf(rep.identity, x)
      BY <2>2, <2>4, <2>12, <3>1, Zenon DEF RunCards, PicksMet
    <3>3. access \in {Absent, <<a.value>>}
      BY <2>10
    <3>4. OpenedOn(rep, slot[r])
      BY <2>6, <2>7, <2>12, <3>3, Zenon DEF OpenedOn
    <3>5. d.s.card = slot[r] /\ slot[r] \in cards /\ d.pc \notin {"reset", "mf", "pace", "sm"} /\ d.rep = rep
      BY <2>5, <2>9, <2>15, <3>1
    <3>6. Begun(d, cards)
      BY <3>2, <3>4, <3>5, Zenon DEF Begun
    <3>7. QED
      BY <3>1, <3>6
  <2>22. Met(d)
    <3>1. d.pc # "emrtd" /\ d.rep.reader = r
      BY <2>12, <2>15
    <3>2. QED
      BY <2>2, <2>15, <2>21, <3>1, Zenon DEF Met, RunCards, PicksMet
  <2>23. RunInv(d)
    BY <2>15, <2>16, <2>17, <2>18, <2>20 DEF RunInv
  <2>24. QED
    BY <1>2, <2>14, <2>15, <2>22, <2>23, GoesMoves
<1>6. QED
  BY <1>3, <1>4, <1>5

\* From there to the application the session goes from one card to another
\* only by a reset, and nothing is added to the report.
Enters(c, pc, s) ==
    /\ RunInv(c) /\ c.pc \in SectionSteps \ {"slots"} /\ pc \in SectionSteps \ {"section", "slots"}
    /\ SessionForm(s) /\ s.card \in DOMAIN Cards /\ s.channel \in {"plain", "secure"}
    /\ pc \in {"reset", "mf", "pace"} => s.channel = "plain"
Entered(d, c, pc, s) == d = [c EXCEPT !.pc = pc, !.s = s]
LEMMA SectionInv ==
    ASSUME NEW c, NEW pc, NEW s, Enters(c, pc, s), NEW d, Entered(d, c, pc, s)
    PROVE  RunInv(d) /\ d.pc = pc /\ d.s = s /\ d.rep = c.rep /\ SameRun(d, c)
<1> USE DEF Enters, Entered
<1>1. RunForm(c) /\ RunReaders(c) /\ RunPhase(c) /\ RunReport(c)
  BY DEF RunInv
<1>2. /\ RunForm(d) /\ d.pc = pc /\ d.todo = c.todo /\ d.picks = c.picks /\ d.s = s
      /\ d.ders = c.ders /\ d.rep = c.rep /\ d.out = c.out /\ d.err = c.err /\ d.since = c.since
  BY <1>1 DEF RunForm
<1>3. RunReaders(d)
  BY <1>1, <1>2 DEF RunReaders
<1>4. RunPhase(d)
  BY <1>1, <1>2 DEF RunPhase, SectionSteps
<1>5. RunSession(d)
  BY <1>2 DEF RunSession, SectionSteps
<1>6. RunReading(c) /\ c.ders = <<>>
  BY <1>1 DEF RunReport, RunReading
<1>7. RunReading(d)
  BY <1>2, <1>6, ListEmpty DEF RunReading
<1>8. RunReport(d)
  BY <1>2, <1>7 DEF RunReport, SectionSteps
<1>9. QED
  BY <1>2, <1>3, <1>4, <1>5, <1>8 DEF RunInv, SameRun
\* The card the session is on.
LEMMA SectionCard ==
    ASSUME NEW c, RunInv(c), c.pc \in SectionSteps
    PROVE  /\ SessionForm(c.s) /\ c.s.card \in DOMAIN Cards /\ c.s.channel \in {"plain", "secure"}
           /\ c.pc \in {"section", "reset", "mf", "pace"} => c.s.channel = "plain"
           /\ c.picks # <<>> /\ c.rep.reader = c.picks[1].reader /\ c.rep.reader \in Range(Readers)
           /\ c.pc \notin {"idle", "done"}
<1>1. RunReaders(c) /\ RunPhase(c) /\ RunSession(c) /\ RunReport(c)
  BY DEF RunInv
<1>2. RunReading(c) /\ c.picks # <<>> /\ c.rep.reader = c.picks[1].reader
  BY <1>1 DEF RunReport, RunPhase
<1>3. c.picks[1].reader \in ReadersIn(c.picks)
  BY <1>1, <1>2, OnceTail DEF RunReaders
<1>4. c.pc \notin {"idle", "done"}
  BY DEF SectionSteps
<1>5. QED
  BY <1>1, <1>2, <1>3, <1>4 DEF RunReading, RunReaders, RunSession
\* On the same card.
LEMMA SectionMoves ==
    ASSUME NEW p, RunInv(chk[p]), Met(chk[p]), NEW c, c = chk[p], c.pc \in SectionSteps \ {"slots"},
           NEW pc, pc \in SectionSteps \ {"section", "slots"}, pc \in Resetting => c.pc \in Resetting,
           NEW s, SameCard(s, c.s), s.channel \in {"plain", "secure"},
           pc \in {"reset", "mf", "pace"} => s.channel = "plain",
           Goes(p, [c EXCEPT !.pc = pc, !.s = s])
    PROVE  Moved(p)
<1>1. PICK d : d = [c EXCEPT !.pc = pc, !.s = s]
  OBVIOUS
<1>2. SessionForm(s) /\ s.card = c.s.card /\ s.card \in DOMAIN Cards /\ c.pc \notin {"idle", "done"}
  BY SectionCard DEF SameCard
<1>3. RunInv(d) /\ d.pc = pc /\ d.s = s /\ d.rep = c.rep /\ SameRun(d, c)
  <2>1. Enters(c, pc, s)
    BY <1>2 DEF Enters
  <2>2. Entered(d, c, pc, s)
    BY <1>1 DEF Entered
  <2>3. QED
    BY ONLY <2>1, <2>2, SectionInv, Zenon
<1>4. SameStart(d.rep, c.rep) /\ d.s.card = c.s.card
  BY <1>2, <1>3 DEF SameStart
<1>5. Met(d)
  BY <1>3, <1>4, CardsWithin DEF Met
<1>6. d.pc # "idle"
  BY <1>3 DEF SectionSteps
<1>7. QED
  BY <1>1, <1>2, <1>3, <1>5, <1>6, GoesMoves

\* Only a card that wants PACE is reset.
LEMMA SelectRefused ==
    ASSUME NEW k, NEW s, select_pkcs15_application(k, s).err = "SecurityNotSatisfied"
    PROVE  k.contactless
BY DEF select_pkcs15_application, TryForms, Answer, Done
LEMMA OpenSectionMoves ==
    ASSUME NEW p, RunInv(chk[p]), Met(chk[p]), OpenSection(p)
    PROVE  Moved(p)
<1>1. PICK c : c = chk[p]
  OBVIOUS
<1>2. RunInv(c) /\ Met(c) /\ c.pc = "section" /\ c.pc \in SectionSteps \ {"slots"} /\ chk[p].pc \notin {"idle", "done"}
  BY <1>1 DEF OpenSection, SectionSteps
<1>3. SessionForm(c.s) /\ c.s.channel = "plain" /\ c.s.card \in DOMAIN Cards
  BY <1>2, SectionCard
<1>4. PICK k : k = Cards[c.s.card]
  OBVIOUS
<1>5. PICK plain : plain = select_pkcs15_application(k, c.s)
  OBVIOUS
<1>6. SameChannel(plain.s, c.s)
  BY <1>3, <1>5, SelectApplication
<1>7. InSection(p, plain)
  BY <1>1, <1>4, <1>5, Zenon DEF OpenSection
<1>8. CASE plain.err = ""
  <2>1. Goes(p, [c EXCEPT !.pc = "token", !.s = plain.s])
    BY <1>1, <1>7, <1>8 DEF InSection
  <2>2. SameCard(plain.s, c.s) /\ plain.s.channel \in {"plain", "secure"}
    BY <1>3, <1>6 DEF SameChannel
  <2>3. "token" \in SectionSteps \ {"section", "slots"} /\ "token" \notin Resetting
    BY DEF SectionSteps, Resetting
  <2>4. QED
    BY <1>1, <1>2, <2>1, <2>2, <2>3, SectionMoves
<1>9. CASE plain.err = "SecurityNotSatisfied" /\ Opts(p).can # Absent
  <2>1. PICK d : d = [c EXCEPT !.pc = "reset"]
    OBVIOUS
  <2>2. Goes(p, d)
    BY <1>1, <1>7, <1>9, <2>1 DEF InSection
  <2>3. RunForm(c)
    BY <1>2 DEF RunInv
  <2>4. d = [c EXCEPT !.pc = "reset", !.s = c.s]
    BY <2>1, <2>3 DEF RunForm
  <2>5. "reset" \in SectionSteps \ {"section", "slots"} /\ "reset" \in SectionSteps /\ "reset" # "emrtd"
    BY DEF SectionSteps
  <2>6. RunInv(d) /\ d.pc = "reset" /\ d.s = c.s /\ d.rep = c.rep /\ SameRun(d, c)
    <3>1. Enters(c, "reset", c.s)
      BY <1>2, <1>3, <2>5 DEF Enters
    <3>2. Entered(d, c, "reset", c.s)
      BY <2>4 DEF Entered
    <3>3. QED
      BY <3>1, <3>2, SectionInv, Zenon
  <2>7. k.contactless
    BY <1>5, <1>9, SelectRefused
  <2>8. PICK cards : cards = MetIn(c.since, slot, swaps, c.rep.reader)
    OBVIOUS
  <2>9. Begun(c, cards)
    BY <1>2, <2>8 DEF Met, RunCards
  <2>10. Begun(d, cards)
    BY <1>4, <2>6, <2>7, <2>9, Zenon DEF Begun
  <2>11. Met(d)
    BY <1>2, <2>5, <2>6, <2>8, <2>10, Zenon DEF Met, RunCards, PicksMet, OutMet, SameRun
  <2>12. QED
    BY <1>2, <2>2, <2>6, <2>11, GoesMoves
<1>10. CASE plain.err # "" /\ ~(plain.err = "SecurityNotSatisfied" /\ Opts(p).can # Absent)
  <2>1. \E err : Fails(p, err)
    BY <1>7, <1>10 DEF InSection
  <2>2. QED
    BY <1>2, <2>1, FailsMoves
<1>11. QED
  BY <1>8, <1>9, <1>10

\* The reset may end on another card, one that has been in the reader.
LEMMA ResetCardMoves ==
    ASSUME NEW p, RunInv(chk[p]), Met(chk[p]), ResetCard(p), SlotsTyped
    PROVE  Moved(p)
<1>1. PICK c : c = chk[p]
  OBVIOUS
<1>2. RunInv(c) /\ Met(c) /\ c.pc = "reset" /\ c.pc \in SectionSteps \ {"slots"} /\ chk[p].pc \notin {"idle", "done"}
  BY <1>1 DEF ResetCard, SectionSteps
<1>3. CASE Fails(p, "Pace")
  BY <1>2, <1>3, FailsMoves
<1>4. CASE ~Fails(p, "Pace")
  <2>1. PICK r : r = Reader(p)
    OBVIOUS
  <2>2. r = c.rep.reader /\ r \in Range(Readers)
    BY <1>1, <1>2, <2>1, SectionCard DEF Reader
  <2>3. CardIn(r) # NoCard /\ Goes(p, [c EXCEPT !.pc = "mf", !.s = Session(CardIn(r))])
    BY <1>1, <1>4, <2>1 DEF ResetCard
  <2>4. slot[r] \in DOMAIN Cards /\ CardIn(r) = slot[r] /\ slot[r] \in MetIn(c.since, slot, swaps, r)
    BY <2>2, <2>3, HereIsMet
  <2>5. PICK s : s = Session(slot[r])
    OBVIOUS
  <2>6. SessionForm(s) /\ s.card = slot[r] /\ s.channel = "plain"
    BY <2>5, SessionNew
  <2>7. PICK d : d = [c EXCEPT !.pc = "mf", !.s = s]
    OBVIOUS
  <2>8. "mf" \in SectionSteps \ {"section", "slots"} /\ "mf" \in SectionSteps /\ "mf" # "emrtd"
    BY DEF SectionSteps
  <2>9. RunInv(d) /\ d.pc = "mf" /\ d.s = s /\ d.rep = c.rep /\ SameRun(d, c)
    <3>1. Enters(c, "mf", s)
      BY <1>2, <2>4, <2>6, <2>8 DEF Enters
    <3>2. Entered(d, c, "mf", s)
      BY <2>7 DEF Entered
    <3>3. QED
      BY <3>1, <3>2, SectionInv, Zenon
  <2>10. PICK cards : cards = MetIn(c.since, slot, swaps, c.rep.reader)
    OBVIOUS
  <2>11. Begun(c, cards) /\ slot[r] \in cards
    BY <1>2, <2>2, <2>4, <2>10 DEF Met, RunCards
  <2>12. Begun(d, cards)
    <3>1. PICK opened \in cards : OpenedOn(c.rep, opened) /\ Cards[opened].contactless
      BY <1>2, <2>11 DEF Begun
    <3>2. QED
      BY <2>6, <2>9, <2>11, <3>1, Zenon DEF Begun
  <2>13. Met(d)
    BY <1>2, <2>8, <2>9, <2>10, <2>12, Zenon DEF Met, RunCards, PicksMet, OutMet, SameRun
  <2>14. Goes(p, d)
    BY <2>3, <2>4, <2>5, <2>7
  <2>15. QED
    BY <1>2, <2>9, <2>13, <2>14, GoesMoves
<1>5. QED
  BY <1>3, <1>4
LEMMA SelectMasterFileMoves ==
    ASSUME NEW p, RunInv(chk[p]), Met(chk[p]), SelectMasterFile(p)
    PROVE  Moved(p)
<1>1. PICK c : c = chk[p]
  OBVIOUS
<1>2. RunInv(c) /\ c.pc = "mf" /\ c.pc \in SectionSteps \ {"slots"} /\ chk[p].pc \notin {"idle", "done"}
  BY <1>1 DEF SelectMasterFile, SectionSteps
<1>3. PICK mf : mf = select_mf(Cards[c.s.card], c.s)
  OBVIOUS
<1>4. SameCard(mf.s, c.s) /\ mf.s.channel = "plain"
  BY <1>2, <1>3, SectionCard, SelectMf
<1>5. CASE mf.err # ""
  <2>1. Fails(p, "Pace")
    BY <1>1, <1>3, <1>5 DEF SelectMasterFile
  <2>2. QED
    BY <1>2, <2>1, FailsMoves
<1>6. CASE mf.err = ""
  <2>1. Goes(p, [c EXCEPT !.pc = "pace", !.s = mf.s])
    BY <1>1, <1>3, <1>6 DEF SelectMasterFile
  <2>2. "pace" \in SectionSteps \ {"section", "slots"} /\ c.pc \in Resetting
    BY <1>2 DEF SectionSteps, Resetting
  <2>3. QED
    BY <1>1, <1>2, <1>4, <2>1, <2>2, SectionMoves
<1>7. QED
  BY <1>5, <1>6
LEMMA RunPaceMoves ==
    ASSUME NEW p, RunInv(chk[p]), Met(chk[p]), RunPace(p)
    PROVE  Moved(p)
<1>1. PICK c : c = chk[p]
  OBVIOUS
<1>2. RunInv(c) /\ RunForm(c) /\ c.pc = "pace" /\ c.pc \in SectionSteps \ {"slots"} /\ chk[p].pc \notin {"idle", "done"}
  BY <1>1 DEF RunPace, SectionSteps, RunInv
<1>3. PICK s : s = [c.s EXCEPT !.channel = "secure"]
  OBVIOUS
<1>4. SessionForm(c.s)
  BY <1>2, SectionCard
<1>5. SameCard(s, c.s) /\ s.channel = "secure"
  BY <1>3, <1>4 DEF SameCard, SessionForm
<1>6. [c EXCEPT !.pc = "sm", !.s.channel = "secure"] = [c EXCEPT !.pc = "sm", !.s = s]
  BY <1>2, <1>3 DEF RunForm
<1>7. (\E err : Fails(p, err)) \/ Goes(p, [c EXCEPT !.pc = "sm", !.s = s])
  BY <1>1, <1>6 DEF RunPace
<1>8. CASE \E err : Fails(p, err)
  BY <1>2, <1>8, FailsMoves
<1>9. CASE Goes(p, [c EXCEPT !.pc = "sm", !.s = s])
  <2>1. "sm" \in SectionSteps \ {"section", "slots"} /\ c.pc \in Resetting
    BY <1>2 DEF SectionSteps, Resetting
  <2>2. QED
    BY <1>1, <1>2, <1>5, <1>9, <2>1, SectionMoves
<1>10. QED
  BY <1>7, <1>8, <1>9
LEMMA SelectSecurelyMoves ==
    ASSUME NEW p, RunInv(chk[p]), Met(chk[p]), SelectSecurely(p)
    PROVE  Moved(p)
<1>1. PICK c : c = chk[p]
  OBVIOUS
<1>2. RunInv(c) /\ c.pc = "sm" /\ c.pc \in SectionSteps \ {"slots"} /\ chk[p].pc \notin {"idle", "done"}
  BY <1>1 DEF SelectSecurely, SectionSteps
<1>3. PICK sm : sm = select_pkcs15_application(Cards[c.s.card], c.s)
  OBVIOUS
<1>4. SessionForm(c.s) /\ c.s.channel \in {"plain", "secure"}
  BY <1>2, SectionCard
<1>5. SameCard(sm.s, c.s) /\ sm.s.channel \in {"plain", "secure"}
  BY <1>3, <1>4, SelectApplication DEF SameChannel
<1>6. CASE sm.err # ""
  <2>1. Fails(p, "Pace")
    BY <1>1, <1>3, <1>6 DEF SelectSecurely
  <2>2. QED
    BY <1>2, <2>1, FailsMoves
<1>7. CASE sm.err = ""
  <2>1. Goes(p, [c EXCEPT !.pc = "token", !.s = sm.s])
    BY <1>1, <1>3, <1>7 DEF SelectSecurely
  <2>2. "token" \in SectionSteps \ {"section", "slots"} /\ "token" \notin Resetting
    BY DEF SectionSteps, Resetting
  <2>3. QED
    BY <1>1, <1>2, <1>5, <2>1, <2>2, SectionMoves
<1>8. QED
  BY <1>6, <1>7

\* The token information in the report is what the card's file says.
LEMMA ReadTokenMoves ==
    ASSUME NEW p, RunInv(chk[p]), Met(chk[p]), ReadToken(p)
    PROVE  Moved(p)
<1>1. PICK c : c = chk[p]
  OBVIOUS
<1>2. c.pc = "token" /\ c.pc \in SectionSteps /\ chk[p].pc \notin {"idle", "done"}
  BY <1>1 DEF ReadToken, SectionSteps
<1>3. /\ RunForm(c) /\ RunReaders(c) /\ RunPhase(c) /\ RunSession(c) /\ RunReport(c) /\ RunReading(c)
      /\ c.ders = <<>>
  BY <1>1, <1>2 DEF RunInv, RunReport, RunReading
<1>4. PICK card : card = c.s.card
  OBVIOUS
<1>5. card \in DOMAIN Cards /\ SessionForm(c.s) /\ ReportForm(c.rep) /\ c.rep.emrtd = Absent
  BY <1>3, <1>4 DEF RunReading, RunSession
<1>6. PICK t : t = read_token_info(Cards[card], c.s)
  OBVIOUS
<1>7. PICK token : token = IF t.err = "" THEN t.value ELSE NoToken
  OBVIOUS
<1>8. SameChannel(t.s, c.s)
  BY <1>5, <1>6, ReadTokenInfo
<1>9. TokenOf(token, card)
  <2>1. CASE t.err = ""
    <3>1. PICK object : /\ HeldAs(Cards[card], "TokenInfo", object) /\ TokenInfo_parse(object).err = ""
                        /\ t.value = TokenInfo_parse(object).info
      BY <1>5, <1>6, <2>1, ReadTokenInfo, ZenonT(60)
    <3>2. token = TokenInfo_parse(object).info
      BY <1>7, <2>1, <3>1
    <3>3. QED
      BY <3>1, <3>2, Zenon DEF HeldAs, TokenOf
  <2>2. CASE t.err # ""
    BY <1>7, <2>2 DEF TokenOf
  <2>3. QED
    BY <2>1, <2>2
<1>10. PICK rep : rep = [c.rep EXCEPT !.token = token]
  OBVIOUS
<1>11. ReportForm(rep) /\ SameStart(rep, c.rep) /\ rep.token = token /\ rep.emrtd = Absent
  BY <1>5, <1>10 DEF ReportForm, ReportFields, NoReport, SameStart
<1>12. PICK d : d = [c EXCEPT !.pc = "slots", !.s = t.s, !.slots = CertSlot_all, !.rep = rep]
  OBVIOUS
<1>13. /\ RunForm(d) /\ d.pc = "slots" /\ d.todo = c.todo /\ d.picks = c.picks /\ d.s = t.s
       /\ d.slots = CertSlot_all /\ d.ders = c.ders /\ d.rep = rep /\ d.out = c.out /\ d.err = c.err
       /\ d.since = c.since
  BY <1>3, <1>12 DEF RunForm
<1>14. Goes(p, d)
  <2>1. Goes(p, [c EXCEPT !.pc = "slots", !.s = t.s, !.slots = CertSlot_all, !.rep.token = token])
    BY <1>1, <1>4, <1>6, <1>7, Zenon DEF ReadToken
  <2>2. [c EXCEPT !.pc = "slots", !.s = t.s, !.slots = CertSlot_all, !.rep.token = token] = d
    BY <1>3, <1>10, <1>12 DEF RunForm
  <2>3. QED
    BY <2>1, <2>2
<1>15. RunReaders(d)
  BY <1>3, <1>13 DEF RunReaders
<1>16. RunPhase(d)
  BY <1>2, <1>3, <1>11, <1>13 DEF RunPhase, SameStart, SectionSteps
<1>17. RunSession(d)
  BY <1>3, <1>8, <1>13 DEF RunSession, SameChannel, SameCard
<1>18. RunReading(d)
  <2>1. d.s.card = card
    BY <1>4, <1>8, <1>13 DEF SameChannel, SameCard
  <2>2. d.ders = <<>>
    BY <1>3, <1>13
  <2>3. QED
    BY <1>5, <1>9, <1>11, <1>13, <2>1, <2>2, ListEmpty DEF RunReading
<1>19. CertSlot_all \in Seq(Range(CertSlot_all))
  BY DEF CertSlot_all, Range
<1>20. RunReport(d)
  BY <1>13, <1>18, <1>19 DEF RunReport
<1>21. RunInv(d)
  BY <1>13, <1>15, <1>16, <1>17, <1>20 DEF RunInv
<1>22. Met(d)
  <2>1. d.s.card = c.s.card /\ SameStart(d.rep, c.rep) /\ SameRun(d, c)
    BY <1>8, <1>11, <1>13 DEF SameChannel, SameCard, SameRun
  <2>2. d.pc \in SectionSteps /\ d.pc \notin Resetting
    BY <1>13 DEF SectionSteps, Resetting
  <2>3. QED
    BY <1>1, <1>2, <2>1, <2>2, CardsWithin DEF Met
<1>23. QED
  BY <1>2, <1>13, <1>14, <1>21, <1>22, GoesMoves

\* A certificate in the report is the one the card carries in that slot; in
\* a secure channel only a slot that keeps it is read.
LEMMA ReadSlotMoves ==
    ASSUME NEW p, RunInv(chk[p]), Met(chk[p]), ReadSlot(p)
    PROVE  Moved(p)
<1>1. PICK c : c = chk[p]
  OBVIOUS
<1>2. c.pc = "slots" /\ c.pc \in SectionSteps /\ c.slots # <<>> /\ chk[p].pc \notin {"idle", "done"}
  BY <1>1 DEF ReadSlot, SectionSteps
<1>3. RunForm(c) /\ RunReaders(c) /\ RunPhase(c) /\ RunSession(c) /\ RunReport(c) /\ RunReading(c)
  BY <1>1, <1>2 DEF RunInv, RunReport
<1>4. PICK card : card = c.s.card
  OBVIOUS
<1>5. card \in DOMAIN Cards /\ SessionForm(c.s) /\ c.s.channel \in {"plain", "secure"}
  BY <1>3, <1>4 DEF RunReading, RunSession
<1>6. PICK name : name = c.slots[1]
  OBVIOUS
<1>7. c.slots \in Seq(Range(CertSlot_all))
  BY <1>2, <1>3 DEF RunReport
<1>8. name \in Range(CertSlot_all) /\ Tail(c.slots) \in Seq(Range(CertSlot_all))
  BY <1>2, <1>6, <1>7
<1>9. PICK r : r = read_certificate(Cards[card], c.s, name)
  OBVIOUS
<1>10. /\ SameCard(r.s, c.s) /\ ChannelAfter(r.s, c.s, name)
       /\ r.err = "" => HeldAs(Cards[card], name, r.value[1])
  BY <1>5, <1>9, ReadCertificate, Zenon
<1>11. CASE Secure(p) /\ requires_mf_traversal(name)
  <2>1. PICK d : d = [c EXCEPT !.slots = Tail(c.slots)]
    OBVIOUS
  <2>2. Goes(p, d)
    BY <1>1, <1>6, <1>11, <2>1 DEF ReadSlot
  <2>3. /\ RunForm(d) /\ d.pc = "slots" /\ d.todo = c.todo /\ d.picks = c.picks /\ d.s = c.s
        /\ d.slots = Tail(c.slots) /\ d.ders = c.ders /\ d.rep = c.rep /\ d.out = c.out /\ d.err = c.err
        /\ d.since = c.since
    BY <1>2, <1>3, <2>1 DEF RunForm
  <2>4. RunReaders(d)
    BY <1>3, <2>3 DEF RunReaders
  <2>5. RunPhase(d)
    BY <1>2, <1>3, <2>3 DEF RunPhase
  <2>6. RunSession(d)
    BY <1>3, <2>3 DEF RunSession
  <2>7. RunReading(d)
    BY <1>2, <1>3, <2>3 DEF RunReading
  <2>8. RunReport(d)
    BY <1>3, <1>8, <2>3, <2>7 DEF RunReport
  <2>9. RunInv(d)
    BY <2>3, <2>4, <2>5, <2>6, <2>8 DEF RunInv
  <2>10. Met(d)
    <3>1. d.s.card = c.s.card /\ SameStart(d.rep, c.rep) /\ SameRun(d, c) /\ d.pc \notin Resetting
      BY <2>3 DEF SameRun, SameStart, Resetting
    <3>2. QED
      BY <1>1, <1>2, <2>3, <3>1, CardsWithin DEF Met
  <2>11. QED
    BY <1>2, <2>2, <2>3, <2>9, <2>10, GoesMoves
<1>12. CASE ~(Secure(p) /\ requires_mf_traversal(name)) /\ r.err \notin {"", "FileNotFound"} /\ name = "Authentication"
  <2>1. Fails(p, "CertRead")
    BY <1>1, <1>4, <1>6, <1>9, <1>12, Zenon DEF ReadSlot
  <2>2. QED
    BY <1>2, <2>1, FailsMoves
<1>13. CASE ~(Secure(p) /\ requires_mf_traversal(name)) /\ ~(r.err \notin {"", "FileNotFound"} /\ name = "Authentication")
  <2>1. PICK ders : ders = IF r.err = "" THEN Append(c.ders, <<name, r.value[1]>>) ELSE c.ders
    OBVIOUS
  <2>2. PICK d : d = [c EXCEPT !.slots = Tail(c.slots), !.s = r.s, !.ders = ders]
    OBVIOUS
  <2>3. Goes(p, d)
    BY <1>1, <1>4, <1>6, <1>9, <1>13, <2>1, <2>2, Zenon DEF ReadSlot
  <2>4. /\ RunForm(d) /\ d.pc = "slots" /\ d.todo = c.todo /\ d.picks = c.picks /\ d.s = r.s
        /\ d.slots = Tail(c.slots) /\ d.ders = ders /\ d.rep = c.rep /\ d.out = c.out /\ d.err = c.err
        /\ d.since = c.since
    BY <1>2, <1>3, <2>2 DEF RunForm
  <2>5. r.s.channel \in {"plain", "secure"}
    <3>1. CASE c.s.channel = "plain"
      BY <1>10, <3>1 DEF ChannelAfter
    <3>2. CASE c.s.channel = "secure"
      <4>1. ~requires_mf_traversal(name)
        BY <1>1, <1>13, <3>2 DEF Secure
      <4>2. QED
        BY <1>10, <3>2, <4>1 DEF ChannelAfter
    <3>3. QED
      BY <1>5, <3>1, <3>2
  <2>6. IsList(c.ders) /\ \A i \in DOMAIN c.ders : Carried(c.ders[i], card)
    BY <1>3, <1>4 DEF RunReading
  <2>7. IsList(ders) /\ \A i \in DOMAIN ders : Carried(ders[i], card)
    <3>1. CASE r.err # ""
      BY <2>1, <2>6, <3>1
    <3>2. CASE r.err = ""
      <4>1. PICK x : x = <<name, r.value[1]>>
        OBVIOUS
      <4>2. ders = Append(c.ders, x)
        BY <2>1, <3>2, <4>1
      <4>3. PICK k : k = Cards[card]
        OBVIOUS
      <4>4. PICK at \in DOMAIN k.files : name \in DOMAIN k.files[at] /\ r.value[1] = k.files[at][name].object
        BY <1>10, <3>2, <4>3 DEF HeldAs
      <4>5. name \in DOMAIN k.issued /\ k.issued[name] = k.files[at][name].object
        BY <1>5, <1>8, <4>3, <4>4, CardAssumption
      <4>6. x[1] = name /\ x[2] = r.value[1]
        BY <4>1
      <4>7. Carried(x, card)
        BY <4>3, <4>4, <4>5, <4>6 DEF Carried
      <4>8. /\ IsList(ders) /\ DOMAIN ders = 1..(Len(c.ders) + 1) /\ ders[Len(c.ders) + 1] = x
            /\ \A i \in 1..Len(c.ders) : ders[i] = c.ders[i]
        BY <2>6, <4>2, ListAppend
      <4>9. Len(c.ders) \in Nat /\ DOMAIN c.ders = 1..Len(c.ders)
        BY <2>6, ListFacts
      <4>10. ASSUME NEW i \in DOMAIN ders PROVE Carried(ders[i], card)
        <5>1. i = Len(c.ders) + 1 \/ i \in 1..Len(c.ders)
          BY <4>8, <4>9
        <5>2. QED
          BY <2>6, <4>7, <4>8, <4>9, <5>1
      <4>11. QED
        BY <4>8, <4>10
    <3>3. QED
      BY <3>1, <3>2
  <2>8. RunReaders(d)
    BY <1>3, <2>4 DEF RunReaders
  <2>9. RunPhase(d)
    BY <1>2, <1>3, <2>4 DEF RunPhase
  <2>10. RunSession(d)
    BY <1>10, <2>4, <2>5 DEF RunSession, SameCard
  <2>11. RunReading(d)
    BY <1>2, <1>3, <1>4, <1>10, <2>4, <2>7 DEF RunReading, SameCard
  <2>12. RunReport(d)
    BY <1>3, <1>8, <2>4, <2>11 DEF RunReport
  <2>13. RunInv(d)
    BY <2>4, <2>8, <2>9, <2>10, <2>12 DEF RunInv
  <2>14. Met(d)
    <3>1. d.s.card = c.s.card /\ SameStart(d.rep, c.rep) /\ SameRun(d, c) /\ d.pc \notin Resetting
      BY <1>10, <2>4 DEF SameCard, SameRun, SameStart, Resetting
    <3>2. QED
      BY <1>1, <1>2, <2>4, <3>1, CardsWithin DEF Met
  <2>15. QED
    BY <1>2, <2>3, <2>4, <2>13, <2>14, GoesMoves
<1>14. QED
  BY <1>11, <1>12, <1>13

\* A certificate's report names its slot and its octets.
LEMMA BuildCertReport ==
    ASSUME NEW name, NEW der, NEW ctx, NEW r, r = build_cert_report(name, der, ctx), Ok(r)
    PROVE  r.slot = name /\ r.der = der
<1>2. PICK cert : cert = Certificate_from_der(der)
  OBVIOUS
<1>3. Ok(cert)
  <2>1. SUFFICES ASSUME ~Ok(cert) PROVE FALSE
    OBVIOUS
  <2>2. r = [err |-> "CertParse"]
    BY <1>2, <2>1, Zenon DEF build_cert_report
  <2>3. r.err = "CertParse"
    BY <2>2
  <2>4. QED
    BY <2>3 DEF Ok
<1>4. \E days, chain, crl, ocsp :
        r = IF [err |-> "", slot |-> name, der |-> der, days |-> days, chain |-> chain, crl |-> crl, ocsp |-> ocsp].ocsp = Abort
            THEN [err |-> "Rng"]
            ELSE [err |-> "", slot |-> name, der |-> der, days |-> days, chain |-> chain, crl |-> crl, ocsp |-> ocsp]
  BY <1>2, <1>3, Zenon DEF build_cert_report
<1>5. \E days, chain, crl, ocsp :
        r \in {[err |-> "Rng"], [err |-> "", slot |-> name, der |-> der, days |-> days, chain |-> chain, crl |-> crl, ocsp |-> ocsp]}
  BY <1>4, Zenon
<1>6. r # [err |-> "Rng"]
  <2>1. SUFFICES ASSUME r = [err |-> "Rng"] PROVE FALSE
    OBVIOUS
  <2>2. r.err = "Rng"
    BY ONLY <2>1
  <2>3. QED
    BY <2>2 DEF Ok
<1>7. PICK days, chain, crl, ocsp :
        r = [err |-> "", slot |-> name, der |-> der, days |-> days, chain |-> chain, crl |-> crl, ocsp |-> ocsp]
  BY <1>5, <1>6, Zenon
<1>8. QED
  BY ONLY <1>7
ReportedIn(certs, ders) ==
    \E ctx : certs = [i \in DOMAIN ders |-> build_cert_report(ders[i][1], ders[i][2], ctx)]
LEMMA CertReportsForm ==
    ASSUME NEW p, NEW ders, NEW w, NEW certs, certs = CertReports(p, ders, w)
    PROVE  ReportedIn(certs, ders)
BY Zenon DEF CertReports, ReportedIn

\* A counter is missing or what any session on the card that is answered
\* would show.
LEMMA CountersSame ==
    ASSUME NEW k, NEW s, NEW t, Answered(t)
    PROVE  /\ \A what, scheme : pin_status_with_scheme(k, s, what, scheme) \in {Absent, pin_status_with_scheme(k, t, what, scheme)}
           /\ \A scheme : puk_status_with_scheme(k, s, scheme) \in {Absent, puk_status_with_scheme(k, t, scheme)}
           /\ \A what : policy_counters(k, s, what) \in {Absent, policy_counters(k, t, what)}
           /\ \A what : pin_changed_flag(k, s, what) \in {Absent, pin_changed_flag(k, t, what)}
<1>1. ASSUME NEW what, NEW scheme
      PROVE  pin_status_with_scheme(k, s, what, scheme) \in {Absent, pin_status_with_scheme(k, t, what, scheme)}
  BY Zenon DEF pin_status_with_scheme, Probe
<1>2. puk_status(k, s) = (IF Answered(s) THEN puk_status(k, t) ELSE Absent)
  <2>1. CASE ~Answered(s)
    BY <2>1, Zenon DEF puk_status
  <2>2. CASE Answered(s)
    BY <2>2 DEF puk_status, Info
  <2>3. QED
    BY <2>1, <2>2
<1>3. ASSUME NEW scheme
      PROVE  puk_status_with_scheme(k, s, scheme) \in {Absent, puk_status_with_scheme(k, t, scheme)}
  <2>1. CASE ~Answered(s)
    BY <1>2, <2>1, Zenon DEF puk_status_with_scheme
  <2>2. CASE Answered(s) /\ scheme = "Citizen"
    BY <1>2, <2>2, Zenon DEF puk_status_with_scheme
  <2>3. CASE Answered(s) /\ scheme # "Citizen"
    BY <2>3, Zenon DEF puk_status_with_scheme, Probe
  <2>4. QED
    BY <2>1, <2>2, <2>3
<1>4. ASSUME NEW what PROVE policy_counters(k, s, what) \in {Absent, policy_counters(k, t, what)}
  BY Zenon DEF policy_counters, Info
<1>5. ASSUME NEW what PROVE pin_changed_flag(k, s, what) \in {Absent, pin_changed_flag(k, t, what)}
  BY Zenon DEF pin_changed_flag, Info
<1>6. QED
  BY <1>1, <1>3, <1>4, <1>5

\* The report of a run that has read the section is of the session's card.
CertsCarried(certs, card) ==
    \A i \in DOMAIN certs : /\ certs[i].slot \in DOMAIN Cards[card].issued
                            /\ certs[i].der = Cards[card].issued[certs[i].slot]
ReportRead(rep, c) ==
    ReportForm(rep) /\ SectionOf(rep, c.s.card) /\ SameStart(rep, c.rep) /\ rep.emrtd = Absent
LEMMA WithPinsOfCard ==
    ASSUME NEW p, NEW certs, NEW c, c = chk[p], c.pc = "slots", RunReading(c),
           CertsCarried(certs, c.s.card), NEW scheme, NEW rep, rep = WithPins(p, certs, Cards[c.s.card], c.s, scheme)
    PROVE  ReportRead(rep, c)
<1>1. PICK card : card = c.s.card
  OBVIOUS
<1>2. PICK k : k = Cards[card]
  OBVIOUS
<1>3. ReportForm(c.rep) /\ card \in DOMAIN Cards /\ TokenOf(c.rep.token, card) /\ c.rep.emrtd = Absent
  BY <1>1 DEF RunReading
<1>4. PICK pin1, pin2, puk, pol1, pol2, polk, ch1, ch2 :
        /\ pin1 = pin_status_with_scheme(k, c.s, "pin1", scheme)
        /\ pin2 = pin_status_with_scheme(k, c.s, "pin2", scheme)
        /\ puk = IF Asks(p, "puk") THEN puk_status_with_scheme(k, c.s, scheme) ELSE Absent
        /\ pol1 = IF Asks(p, "pin1") THEN policy_counters(k, c.s, "pin1") ELSE Absent
        /\ pol2 = IF Asks(p, "pin2") THEN policy_counters(k, c.s, "pin2") ELSE Absent
        /\ polk = IF Asks(p, "puk") THEN policy_counters(k, c.s, "puk") ELSE Absent
        /\ ch1 = pin_changed_flag(k, c.s, "pin1")
        /\ ch2 = IF Asks(p, "pin2") THEN pin_changed_flag(k, c.s, "pin2") ELSE Absent
  BY Zenon
<1>5. rep = [c.rep EXCEPT !.scheme = scheme, !.pin1 = pin1, !.pin2 = pin2, !.puk = puk, !.pin1_policy = pol1,
                          !.pin2_policy = pol2, !.puk_policy = polk, !.pin1_changed = ch1, !.pin2_changed = ch2,
                          !.certs = certs]
  BY <1>1, <1>2, <1>4, Zenon DEF WithPins
<1>6. PICK old : old = c.rep
  OBVIOUS
<1>7. rep = [old EXCEPT !.scheme = scheme, !.pin1 = pin1, !.pin2 = pin2, !.puk = puk, !.pin1_policy = pol1,
                        !.pin2_policy = pol2, !.puk_policy = polk, !.pin1_changed = ch1, !.pin2_changed = ch2,
                        !.certs = certs]
  BY ONLY <1>5, <1>6
<1>8. ReportForm(old)
  BY <1>3, <1>6
<1>9. ReportForm(rep)
  BY ONLY <1>7, <1>8 DEF ReportForm
<1>10. rep.scheme = scheme /\ rep.pin1 = pin1 /\ rep.pin2 = pin2 /\ rep.puk = puk
  BY ONLY <1>7, <1>8 DEF ReportForm, ReportFields, NoReport
<1>11. rep.pin1_policy = pol1 /\ rep.pin2_policy = pol2 /\ rep.puk_policy = polk
  BY ONLY <1>7, <1>8 DEF ReportForm, ReportFields, NoReport
<1>12. rep.pin1_changed = ch1 /\ rep.pin2_changed = ch2 /\ rep.certs = certs
  BY ONLY <1>7, <1>8 DEF ReportForm, ReportFields, NoReport
<1>13. rep.reader = old.reader /\ rep.identity = old.identity /\ rep.atr = old.atr /\ rep.access = old.access
  BY ONLY <1>7, <1>8 DEF ReportForm, ReportFields, NoReport
<1>14. rep.token = old.token /\ rep.emrtd = old.emrtd
  BY ONLY <1>7, <1>8 DEF ReportForm, ReportFields, NoReport
<1>15. PICK t : t = Session(card)
  OBVIOUS
<1>16. Answered(t)
  <2>1. card # NoCard
    BY <1>3, WorldAssumption
  <2>2. QED
    BY <1>15, <2>1 DEF Answered, Session
<1>17. CountersOf(rep, k, t)
  <2>1. /\ rep.pin1 \in {Absent, pin_status_with_scheme(k, t, "pin1", rep.scheme)}
        /\ rep.pin2 \in {Absent, pin_status_with_scheme(k, t, "pin2", rep.scheme)}
    <3>1. \A what : pin_status_with_scheme(k, c.s, what, scheme) \in {Absent, pin_status_with_scheme(k, t, what, scheme)}
      BY <1>16, CountersSame, Zenon
    <3>2. /\ rep.pin1 = pin_status_with_scheme(k, c.s, "pin1", rep.scheme)
          /\ rep.pin2 = pin_status_with_scheme(k, c.s, "pin2", rep.scheme) /\ rep.scheme = scheme
      BY <1>4, <1>10
    <3>3. QED
      BY <3>1, <3>2, Zenon
  <2>2. rep.puk \in {Absent, puk_status_with_scheme(k, t, rep.scheme)}
    <3>1. puk_status_with_scheme(k, c.s, scheme) \in {Absent, puk_status_with_scheme(k, t, scheme)}
      BY <1>16, CountersSame, Zenon
    <3>2. rep.puk \in {Absent, puk_status_with_scheme(k, c.s, scheme)} /\ rep.scheme = scheme
      BY <1>4, <1>10
    <3>3. QED
      BY <3>1, <3>2, Zenon
  <2>3. /\ rep.pin1_policy \in {Absent, policy_counters(k, t, "pin1")}
        /\ rep.pin2_policy \in {Absent, policy_counters(k, t, "pin2")}
        /\ rep.puk_policy \in {Absent, policy_counters(k, t, "puk")}
    <3>1. \A what : policy_counters(k, c.s, what) \in {Absent, policy_counters(k, t, what)}
      BY <1>16, CountersSame, Zenon
    <3>2. /\ rep.pin1_policy \in {Absent, policy_counters(k, c.s, "pin1")}
          /\ rep.pin2_policy \in {Absent, policy_counters(k, c.s, "pin2")}
          /\ rep.puk_policy \in {Absent, policy_counters(k, c.s, "puk")}
      BY <1>4, <1>11
    <3>3. QED
      BY <3>1, <3>2, Zenon
  <2>4. /\ rep.pin1_changed \in {Absent, pin_changed_flag(k, t, "pin1")}
        /\ rep.pin2_changed \in {Absent, pin_changed_flag(k, t, "pin2")}
    <3>1. \A what : pin_changed_flag(k, c.s, what) \in {Absent, pin_changed_flag(k, t, what)}
      BY <1>16, CountersSame, Zenon
    <3>2. /\ rep.pin1_changed \in {Absent, pin_changed_flag(k, c.s, "pin1")}
          /\ rep.pin2_changed \in {Absent, pin_changed_flag(k, c.s, "pin2")}
      BY <1>4, <1>12
    <3>3. QED
      BY <3>1, <3>2, Zenon
  <2>5. QED
    BY <2>1, <2>2, <2>3, <2>4, Zenon DEF CountersOf
<1>18. CertsOf(rep.certs, card)
  BY <1>1, <1>12 DEF CertsOf, CertsCarried, Range
<1>19. SectionOf(rep, card)
  BY <1>2, <1>3, <1>6, <1>14, <1>15, <1>17, <1>18, Zenon DEF SectionOf
<1>20. SameStart(rep, c.rep) /\ rep.emrtd = Absent
  BY <1>3, <1>6, <1>13, <1>14 DEF SameStart
<1>21. QED
  BY <1>1, <1>9, <1>19, <1>20 DEF ReportRead
\* It is composed of the cards that were met.
LEMMA ReadComposed ==
    ASSUME NEW c, NEW rep, NEW cards, cards \subseteq DOMAIN Cards, Begun(c, cards), ReportRead(rep, c)
    PROVE  Composed(rep, cards)
<1>1. \E x \in cards : IdentityOf(rep.identity, x)
  BY Zenon DEF Begun, ReportRead, SameStart
<1>2. PICK opened \in cards : OpenedOn(c.rep, opened) /\ (c.s.card = opened \/ Cards[opened].contactless)
  BY DEF Begun
<1>3. OpenedOn(rep, opened)
  BY <1>2, Zenon DEF OpenedOn, ReportRead, SameStart
<1>4. c.s.card \in cards /\ SectionOf(rep, c.s.card) /\ rep.emrtd = Absent
  BY DEF Begun, ReportRead
<1>5. \E x \in cards : rep.emrtd \in {Absent, Cards[x].emrtd}
  BY <1>4, Zenon
<1>6. QED
  BY <1>1, <1>2, <1>3, <1>4, <1>5, Zenon DEF Composed
LEMMA ReadPinsMoves ==
    ASSUME NEW p, RunInv(chk[p]), Met(chk[p]), ReadPins(p)
    PROVE  Moved(p)
<1>1. PICK c : c = chk[p]
  OBVIOUS
<1>2. c.pc = "slots" /\ c.pc \in SectionSteps /\ chk[p].pc \notin {"idle", "done"}
  BY <1>1 DEF ReadPins, SectionSteps
<1>3. RunInv(c) /\ RunForm(c) /\ RunReaders(c) /\ RunPhase(c) /\ RunSession(c) /\ RunReport(c) /\ RunReading(c)
  BY <1>1, <1>2 DEF RunInv, RunReport
<1>4. PICK certs : certs = CertReports(p, c.ders, World(p))
  OBVIOUS
<1>5. PICK card : card = c.s.card
  OBVIOUS
<1>6. PICK rep : rep = WithPins(p, certs, Cards[c.s.card], c.s, resolve_pin_reference_scheme(Cards[c.s.card], c.s))
  OBVIOUS
<1>7. \/ \E err : Fails(p, err)
      \/ /\ \A i \in DOMAIN certs : Ok(certs[i])
         /\ \/ Goes(p, Concluded(p, rep))
            \/ Goes(p, [c EXCEPT !.pc = "emrtd", !.rep = rep, !.s = Session(NoCard)])
  BY <1>1, <1>4, <1>6, Zenon DEF ReadPins
<1>8. CASE \E err : Fails(p, err)
  BY <1>2, <1>8, FailsMoves
<1>9. CASE \A i \in DOMAIN certs : Ok(certs[i])
  <2>1. PICK ctx : certs = [i \in DOMAIN c.ders |-> build_cert_report(c.ders[i][1], c.ders[i][2], ctx)]
    <3>1. ReportedIn(certs, c.ders)
      BY <1>4, CertReportsForm, Zenon
    <3>2. QED
      BY <3>1 DEF ReportedIn
  <2>2. \A i \in DOMAIN c.ders : Carried(c.ders[i], card)
    BY <1>3, <1>5 DEF RunReading
  <2>3. ASSUME NEW i \in DOMAIN certs
        PROVE  certs[i].slot \in DOMAIN Cards[card].issued /\ certs[i].der = Cards[card].issued[certs[i].slot]
    <3>1. i \in DOMAIN c.ders /\ certs[i] = build_cert_report(c.ders[i][1], c.ders[i][2], ctx)
      BY <2>1, <2>3
    <3>2. certs[i].slot = c.ders[i][1] /\ certs[i].der = c.ders[i][2]
      <4>1. PICK x : x = certs[i]
        OBVIOUS
      <4>2. PICK name : name = c.ders[i][1]
        OBVIOUS
      <4>3. PICK der : der = c.ders[i][2]
        OBVIOUS
      <4>4. x = build_cert_report(name, der, ctx)
        BY <3>1, <4>1, <4>2, <4>3, Zenon
      <4>5. Ok(x)
        BY <1>9, <2>3, <4>1
      <4>6. x.slot = name /\ x.der = der
        BY <4>4, <4>5, BuildCertReport, ZenonT(60)
      <4>7. QED
        BY <4>1, <4>2, <4>3, <4>6
    <3>3. QED
      BY <2>2, <3>1, <3>2 DEF Carried
  <2>4. ReportRead(rep, c)
    <3>1. CertsCarried(certs, c.s.card)
      BY <1>5, <2>3 DEF CertsCarried
    <3>2. RunReading(c)
      BY <1>3
    <3>3. PICK scheme : scheme = resolve_pin_reference_scheme(Cards[c.s.card], c.s)
      OBVIOUS
    <3>4. rep = WithPins(p, certs, Cards[c.s.card], c.s, scheme)
      BY <1>6, <3>3
    <3>5. QED
      BY <1>1, <1>2, <3>1, <3>2, <3>4, WithPinsOfCard
  <2>5. ReportForm(rep) /\ rep.reader = c.rep.reader /\ rep.reader = c.picks[1].reader /\ c.picks # <<>> /\ c.err = ""
    BY <1>2, <1>3, <2>4 DEF RunPhase, ReportRead, SameStart
  <2>6. Composed(rep, MetIn(c.since, slot, swaps, rep.reader))
    <3>1. PICK cards : cards = MetIn(c.since, slot, swaps, rep.reader)
      OBVIOUS
    <3>2. Begun(c, cards)
      BY <1>1, <1>2, <2>5, <3>1 DEF Met, RunCards
    <3>3. cards \subseteq DOMAIN Cards
      BY <3>1, Zenon DEF MetIn
    <3>4. QED
      BY <2>4, <3>1, <3>2, <3>3, ReadComposed, Zenon
  <2>7. CASE Goes(p, Concluded(p, rep))
    <3>1. RunInv(Concluded(p, rep)) /\ Met(Concluded(p, rep)) /\ Concluded(p, rep).pc \in {"next", "done"}
      BY <1>1, <1>2, <2>5, <2>6, ConcludedInv
    <3>2. QED
      BY <1>2, <2>7, <3>1, GoesMoves
  <2>8. CASE Goes(p, [c EXCEPT !.pc = "emrtd", !.rep = rep, !.s = Session(NoCard)])
    <3>1. PICK d : d = [c EXCEPT !.pc = "emrtd", !.rep = rep, !.s = Session(NoCard)]
      OBVIOUS
    <3>2. /\ RunForm(d) /\ d.pc = "emrtd" /\ d.todo = c.todo /\ d.picks = c.picks /\ d.s = Session(NoCard)
          /\ d.rep = rep /\ d.out = c.out /\ d.err = c.err /\ d.since = c.since
      BY <1>3, <3>1 DEF RunForm
    <3>3. RunReaders(d)
      BY <1>3, <3>2 DEF RunReaders
    <3>4. RunPhase(d)
      BY <2>5, <3>2 DEF RunPhase, SectionSteps
    <3>5. RunSession(d)
      BY <3>2, SessionNew DEF RunSession
    <3>6. RunReport(d)
      BY <2>5, <3>2 DEF RunReport, SectionSteps
    <3>7. RunInv(d)
      BY <3>2, <3>3, <3>4, <3>5, <3>6 DEF RunInv
    <3>8. Met(d)
      <4>1. d.pc \notin SectionSteps
        BY <3>2 DEF SectionSteps
      <4>2. QED
        BY <1>1, <2>6, <3>2, <4>1, Zenon DEF Met, RunCards, PicksMet
    <3>9. QED
      BY <1>2, <2>8, <3>1, <3>2, <3>7, <3>8, GoesMoves
  <2>9. CASE \E err : Fails(p, err)
    BY <1>8, <2>9
  <2>10. QED
    BY <1>7, <2>7, <2>8, <2>9
<1>10. QED
  BY <1>7, <1>8, <1>9

\* The travel document is that of the card that is in the reader then.
LEMMA ReadEmrtdMoves ==
    ASSUME NEW p, RunInv(chk[p]), Met(chk[p]), ReadEmrtd(p), SlotsTyped
    PROVE  Moved(p)
<1>1. PICK c : c = chk[p]
  OBVIOUS
<1>2. c.pc = "emrtd" /\ chk[p].pc \notin {"idle", "done"}
  BY <1>1 DEF ReadEmrtd
<1>3. RunInv(c) /\ RunReaders(c) /\ RunPhase(c) /\ RunReport(c)
  BY <1>1 DEF RunInv
<1>4. PICK r : r = EmrtdOf(CardIn(Reader(p)), Opts(p).can[1])
  OBVIOUS
<1>5. PICK dsc : Goes(p, Concluded(p, [c.rep EXCEPT !.emrtd = r.data, !.emrtd_error = r.err, !.dsc = dsc]))
  BY <1>1, <1>4, Zenon DEF ReadEmrtd
<1>6. PICK data, err : data = r.data /\ err = r.err
  BY Zenon
<1>7. PICK rep : rep = [c.rep EXCEPT !.emrtd = data, !.emrtd_error = err, !.dsc = dsc]
  OBVIOUS
<1>8. /\ ReportForm(c.rep) /\ c.picks # <<>> /\ c.rep.reader = c.picks[1].reader /\ c.rep.reader \in Range(Readers)
      /\ Reader(p) = c.rep.reader
  <2>1. ReportForm(c.rep) /\ c.picks # <<>> /\ c.rep.reader = c.picks[1].reader
    BY <1>2, <1>3 DEF RunPhase, RunReport, SectionSteps
  <2>2. c.picks[1].reader \in ReadersIn(c.picks)
    BY <1>3, <2>1, OnceTail DEF RunReaders
  <2>3. QED
    BY <1>1, <1>3, <2>1, <2>2 DEF RunReaders, Reader
<1>9. PICK cards : cards = MetIn(c.since, slot, swaps, c.rep.reader)
  OBVIOUS
<1>10. Composed(c.rep, cards)
  BY <1>1, <1>2, <1>9 DEF Met, RunCards
<1>11. PICK any \in cards : TRUE
  BY <1>10 DEF Composed
<1>12. \E x \in cards : data \in {Absent, Cards[x].emrtd}
  <2>1. CASE CardIn(c.rep.reader) = NoCard
    <3>1. r.data = Absent
      BY <1>4, <1>8, <2>1 DEF EmrtdOf
    <3>2. QED
      BY <1>6, <1>11, <3>1, Zenon
  <2>2. CASE CardIn(c.rep.reader) # NoCard
    <3>1. /\ slot[c.rep.reader] \in DOMAIN Cards /\ CardIn(c.rep.reader) = slot[c.rep.reader]
          /\ slot[c.rep.reader] \in cards
      BY <1>8, <1>9, <2>2, HereIsMet
    <3>2. PICK x : x = slot[c.rep.reader]
      OBVIOUS
    <3>3. r = EmrtdOf(x, Opts(p).can[1]) /\ x # NoCard /\ x \in cards
      BY <1>4, <1>8, <2>2, <3>1, <3>2, Zenon
    <3>4. r.data \in {Absent, Cards[x].emrtd}
      BY <3>3 DEF EmrtdOf
    <3>5. QED
      BY <1>6, <3>3, <3>4, Zenon
  <2>3. QED
    BY <2>1, <2>2
<1>13. PICK old : old = c.rep
  OBVIOUS
<1>14. rep = [old EXCEPT !.emrtd = data, !.emrtd_error = err, !.dsc = dsc] /\ ReportForm(old)
  BY <1>7, <1>8, <1>13
<1>15. SameStart(rep, old) /\ rep.emrtd = data /\ rep.token = old.token /\ rep.certs = old.certs
  BY ONLY <1>14 DEF ReportForm, ReportFields, NoReport, SameStart
<1>16. /\ rep.scheme = old.scheme /\ rep.pin1 = old.pin1 /\ rep.pin2 = old.pin2 /\ rep.puk = old.puk
       /\ rep.pin1_policy = old.pin1_policy /\ rep.pin2_policy = old.pin2_policy /\ rep.puk_policy = old.puk_policy
       /\ rep.pin1_changed = old.pin1_changed /\ rep.pin2_changed = old.pin2_changed
  BY ONLY <1>14 DEF ReportForm, ReportFields, NoReport
<1>17. \A x : SectionOf(old, x) => SectionOf(rep, x)
  BY <1>15, <1>16, Zenon DEF SectionOf, CountersOf
<1>18. \A x : OpenedOn(old, x) => OpenedOn(rep, x)
  BY <1>15, Zenon DEF OpenedOn, SameStart
<1>19. Composed(rep, cards)
  BY <1>10, <1>12, <1>13, <1>15, <1>17, <1>18, Zenon DEF Composed, SameStart
<1>20. rep.reader = c.rep.reader
  BY <1>13, <1>15 DEF SameStart
<1>21. RunInv(Concluded(p, rep)) /\ Met(Concluded(p, rep)) /\ Concluded(p, rep).pc \in {"next", "done"}
  BY <1>1, <1>2, <1>8, <1>9, <1>19, <1>20, ConcludedInv
<1>22. Goes(p, Concluded(p, rep))
  BY <1>5, <1>6, <1>7
<1>23. QED
  BY <1>2, <1>21, <1>22, GoesMoves

\* Every step of a run.
LEMMA CheckStepMoves ==
    ASSUME NEW p, RunInv(chk[p]), Met(chk[p]), CheckStep(p), SlotsTyped
    PROVE  Moved(p)
BY EnumerateFineidMoves, ProbeFineidMoves, EnumerateContactlessMoves, ProbeContactlessMoves, NobodyAnswersMoves,
   OpenReaderMoves, OpenSectionMoves, ResetCardMoves, SelectMasterFileMoves, RunPaceMoves, SelectSecurelyMoves,
   ReadTokenMoves, ReadSlotMoves, ReadPinsMoves, ReadEmrtdMoves, Zenon
   DEF CheckStep

\* A card that is taken out makes the session on it dead, no more.
LEMMA DeadSession ==
    ASSUME NEW c, RunInv(c), NEW at, NEW n, RunCards(c, at, n), NEW d, d = [c EXCEPT !.s.live = FALSE]
    PROVE  RunInv(d) /\ RunCards(d, at, n) /\ d.pc = c.pc /\ d.out = c.out
<1>1. RunForm(c) /\ RunReaders(c) /\ RunPhase(c) /\ RunSession(c) /\ RunReport(c)
  BY DEF RunInv
<1>2. PICK s : s = [c.s EXCEPT !.live = FALSE]
  OBVIOUS
<1>3. SameChannel(s, c.s)
  BY <1>1, <1>2 DEF RunSession, SameChannel, SameCard, SessionForm
<1>4. /\ RunForm(d) /\ d.pc = c.pc /\ d.todo = c.todo /\ d.picks = c.picks /\ d.s = s /\ d.slots = c.slots
      /\ d.ders = c.ders /\ d.rep = c.rep /\ d.out = c.out /\ d.err = c.err /\ d.since = c.since
  BY <1>1, <1>2 DEF RunForm
<1>5. RunReaders(d)
  BY <1>1, <1>4 DEF RunReaders
<1>6. RunPhase(d)
  BY <1>1, <1>4 DEF RunPhase
<1>7. RunSession(d)
  BY <1>1, <1>3, <1>4 DEF RunSession, SameChannel, SameCard
<1>8. RunReading(c) => RunReading(d)
  BY <1>3, <1>4 DEF RunReading, SameChannel, SameCard
<1>9. RunReport(d)
  BY <1>1, <1>4, <1>8 DEF RunReport
<1>10. RunCards(d, at, n)
  <2>1. d.s.card = c.s.card
    BY <1>3, <1>4 DEF SameChannel, SameCard
  <2>2. QED
    BY <1>4, <2>1, Zenon DEF RunCards, PicksMet, Begun
<1>11. QED
  BY <1>4, <1>5, <1>6, <1>7, <1>9, <1>10 DEF RunInv

(***************************************************************************)
(* The window                                                              *)
(***************************************************************************)

\* The shape of the window, and what is to hold of it: a reader is listed
\* once (a phone is none); secrets, selection and images are of the card that
\* is shown.
WinForm(w) == w = [f \in DOMAIN Closed |-> w[f]]
ListedOnce(s) ==
    /\ IsList(s)
    /\ \A i, j \in DOMAIN s : s[i].reader = s[j].reader /\ s[i].reader \in Range(Readers) => i = j
SerialShown(m) == IF m.serial = Absent THEN Absent ELSE <<render_token_serial(m.serial[1])>>
Typed(w) ==
    /\ w.form # Absent => w.form[1].for = w.displayed_serial /\ w.shown # 0
    /\ w.pdf_pin2 # Absent => w.pdf_pin2[1] = w.displayed_serial /\ w.shown # 0
Selected(w) ==
    IF w.shown = 0 THEN w.displayed_serial = Absent
    ELSE w.selected_reader = <<w.cards[w.shown].reader>> /\ w.displayed_serial = SerialShown(w.cards[w.shown])
CachedImage(cache, m) == IF card_key(m) \in DOMAIN cache THEN cache[card_key(m)] ELSE Absent
Imaged(w) == w.shown # 0 => w.image = CachedImage(w.cache, w.cards[w.shown])
WinInv(w) ==
    /\ WinForm(w) /\ ListedOnce(w.cards) /\ w.shown \in 0..Len(w.cards)
    /\ w.documents \in 0..MaxDocuments /\ w.in_flight \in BOOLEAN
    /\ Typed(w) /\ Selected(w) /\ Imaged(w)

\* The card on display is the same.
SameDisplay(v, w) ==
    /\ v.cards = w.cards /\ v.selected_reader = w.selected_reader /\ v.displayed_serial = w.displayed_serial
    /\ v.shown = w.shown /\ v.image = w.image /\ v.cache = w.cache
LEMMA DisplayKept ==
    ASSUME NEW w, WinInv(w), NEW v, WinForm(v), SameDisplay(v, w), v.documents \in 0..MaxDocuments,
           v.in_flight \in BOOLEAN, Typed(v)
    PROVE  WinInv(v)
<1>1. /\ ListedOnce(w.cards) /\ w.shown \in 0..Len(w.cards) /\ Selected(w) /\ Imaged(w)
  BY DEF WinInv
<1>2. ListedOnce(v.cards) /\ v.shown \in 0..Len(v.cards)
  BY <1>1 DEF SameDisplay
<1>3. Selected(v)
  BY <1>1 DEF SameDisplay, Selected
<1>4. Imaged(v)
  BY <1>1 DEF SameDisplay, Imaged
<1>5. QED
  BY <1>2, <1>3, <1>4 DEF WinInv

\* What only sets flags or counts.
Flags(v, w) ==
    /\ WinForm(v) /\ SameDisplay(v, w) /\ v.form = w.form /\ v.pdf_pin2 = w.pdf_pin2
LEMMA FlagsInv ==
    ASSUME NEW w, WinInv(w), NEW v, Flags(v, w), v.documents \in 0..MaxDocuments, v.in_flight \in BOOLEAN
    PROVE  WinInv(v)
<1>1. Typed(w)
  BY DEF WinInv
<1>2. WinForm(v) /\ SameDisplay(v, w)
  BY DEF Flags
<1>3. Typed(v)
  BY <1>1 DEF Flags, SameDisplay, Typed
<1>4. QED
  BY <1>2, <1>3, DisplayKept
\* A result of the window's own operators: it is well, and in_flight is kept.
Fine(v, w) == WinInv(v) /\ v.in_flight = w.in_flight
LEMMA SetFlags ==
    ASSUME NEW w, WinInv(w)
    PROVE  /\ \A b : Fine([w EXCEPT !.busy = b], w)
           /\ \A b : Fine([w EXCEPT !.pairing_active = b], w)
           /\ \A n \in 0..MaxDocuments : Fine([w EXCEPT !.documents = n], w)
           /\ \A b \in BOOLEAN : WinInv([w EXCEPT !.in_flight = b]) /\ [w EXCEPT !.in_flight = b].in_flight = b
<1>1. WinForm(w) /\ w.documents \in 0..MaxDocuments /\ w.in_flight \in BOOLEAN
  BY DEF WinInv
<1>2. ASSUME NEW b, NEW v, v = [w EXCEPT !.busy = b] PROVE Fine(v, w)
  <2>1. Flags(v, w) /\ v.documents = w.documents /\ v.in_flight = w.in_flight
    BY <1>1, <1>2 DEF Flags, SameDisplay, WinForm, Closed
  <2>2. QED
    BY <1>1, <2>1, FlagsInv DEF Fine
<1>3. ASSUME NEW b, NEW v, v = [w EXCEPT !.pairing_active = b] PROVE Fine(v, w)
  <2>1. Flags(v, w) /\ v.documents = w.documents /\ v.in_flight = w.in_flight
    BY <1>1, <1>3 DEF Flags, SameDisplay, WinForm, Closed
  <2>2. QED
    BY <1>1, <2>1, FlagsInv DEF Fine
<1>4. ASSUME NEW n \in 0..MaxDocuments, NEW v, v = [w EXCEPT !.documents = n] PROVE Fine(v, w)
  <2>1. Flags(v, w) /\ v.documents = n /\ v.in_flight = w.in_flight
    BY <1>1, <1>4 DEF Flags, SameDisplay, WinForm, Closed
  <2>2. QED
    BY <1>1, <2>1, FlagsInv DEF Fine
<1>5. ASSUME NEW b \in BOOLEAN, NEW v, v = [w EXCEPT !.in_flight = b] PROVE WinInv(v) /\ v.in_flight = b
  <2>1. Flags(v, w) /\ v.documents = w.documents /\ v.in_flight = b
    BY <1>1, <1>5 DEF Flags, SameDisplay, WinForm, Closed
  <2>2. QED
    BY <1>1, <2>1, FlagsInv
<1>6. QED
  BY <1>2, <1>3, <1>4, <1>5

\* Forms that are disarmed.
LEMMA DisarmInv ==
    ASSUME NEW w, WinInv(w)
    PROVE  /\ Fine(disarm_management_forms(w), w) /\ disarm_management_forms(w).form = Absent
           /\ Fine(disarm_pdf_signing(w), w) /\ disarm_pdf_signing(w).pdf_pin2 = Absent
           /\ Fine(disarm_pdf_signing(disarm_management_forms(w)), w)
<1>1. \A u : WinInv(u) => WinForm(u) /\ u.documents \in 0..MaxDocuments /\ u.in_flight \in BOOLEAN /\ Typed(u)
  BY DEF WinInv
<1>2. ASSUME NEW u, WinInv(u), NEW v, v = disarm_management_forms(u) PROVE Fine(v, u) /\ v.form = Absent
  <2>1. /\ WinForm(v) /\ SameDisplay(v, u) /\ v.form = Absent /\ v.pdf_pin2 = u.pdf_pin2
        /\ v.documents = u.documents /\ v.in_flight = u.in_flight
    BY <1>1, <1>2 DEF disarm_management_forms, SameDisplay, WinForm, Closed
  <2>2. Typed(v)
    BY <1>1, <1>2, <2>1 DEF Typed, SameDisplay
  <2>3. QED
    BY <1>1, <1>2, <2>1, <2>2, DisplayKept DEF Fine
<1>3. ASSUME NEW u, WinInv(u), NEW v, v = disarm_pdf_signing(u) PROVE Fine(v, u) /\ v.pdf_pin2 = Absent
  <2>1. /\ WinForm(v) /\ SameDisplay(v, u) /\ v.pdf_pin2 = Absent /\ v.form = u.form
        /\ v.documents = u.documents /\ v.in_flight = u.in_flight
    BY <1>1, <1>3 DEF disarm_pdf_signing, SameDisplay, WinForm, Closed
  <2>2. Typed(v)
    BY <1>1, <1>3, <2>1 DEF Typed, SameDisplay
  <2>3. QED
    BY <1>1, <1>3, <2>1, <2>2, DisplayKept DEF Fine
<1>4. QED
  BY <1>2, <1>3 DEF Fine

\* The context is cleared.
LEMMA ClearContextInv ==
    ASSUME NEW w, WinInv(w)
    PROVE  Fine(clear_card_context(w), w)
<1>1. PICK v : v = clear_card_context(w)
  OBVIOUS
<1>2. WinForm(w) /\ w.documents \in 0..MaxDocuments /\ w.in_flight \in BOOLEAN
  BY DEF WinInv
<1>3. /\ WinForm(v) /\ v.cards = <<>> /\ v.displayed_serial = Absent /\ v.form = Absent /\ v.pdf_pin2 = Absent
      /\ v.shown = 0 /\ v.documents = w.documents /\ v.in_flight = w.in_flight
  BY <1>1, <1>2 DEF clear_card_context, clear_card_data, disarm_pdf_signing, disarm_management_forms, WinForm, Closed
<1>4. ListedOnce(v.cards) /\ v.shown \in 0..Len(v.cards)
  BY <1>3, ListEmpty DEF ListedOnce
<1>5. Typed(v) /\ Selected(v) /\ Imaged(v)
  BY <1>3 DEF Typed, Selected, Imaged
<1>6. WinInv(v)
  BY <1>2, <1>3, <1>4, <1>5 DEF WinInv
<1>7. QED
  BY <1>1, <1>3, <1>6 DEF Fine

\* A listed card is shown, once it is selected and the forms are disarmed.
Ready(w, i) ==
    /\ WinForm(w) /\ ListedOnce(w.cards) /\ w.documents \in 0..MaxDocuments /\ w.in_flight \in BOOLEAN
    /\ i \in DOMAIN w.cards /\ w.selected_reader = <<w.cards[i].reader>>
    /\ w.form = Absent /\ w.pdf_pin2 = Absent
LEMMA ShowSelected ==
    ASSUME NEW w, NEW i, Ready(w, i)
    PROVE  Fine(show_selected_card(w, i), w)
<1>1. PICK m : m = w.cards[i]
  OBVIOUS
<1>2. PICK u : u = [w EXCEPT !.shown = i, !.displayed_serial = SerialShown(m)]
  OBVIOUS
<1>3. PICK v : v = show_cached_images(u, m)
  OBVIOUS
<1>4. i \in DOMAIN w.cards
  BY DEF Ready
<1>5. show_selected_card(w, i) = v
  BY <1>1, <1>2, <1>3, <1>4 DEF show_selected_card, SerialShown
<1>6. /\ WinForm(u) /\ u.cards = w.cards /\ u.shown = i /\ u.displayed_serial = SerialShown(m)
      /\ u.selected_reader = w.selected_reader /\ u.cache = w.cache /\ u.form = Absent /\ u.pdf_pin2 = Absent
      /\ u.documents = w.documents /\ u.in_flight = w.in_flight
  BY <1>2 DEF Ready, WinForm, Closed
<1>7. PICK image : image = CachedImage(u.cache, m)
  OBVIOUS
<1>8. v = [u EXCEPT !.image = image]
  BY <1>3, <1>7 DEF show_cached_images, CachedImage
<1>9. /\ WinForm(v) /\ v.cards = w.cards /\ v.shown = i /\ v.displayed_serial = SerialShown(m)
      /\ v.selected_reader = w.selected_reader /\ v.cache = w.cache /\ v.form = Absent /\ v.pdf_pin2 = Absent
      /\ v.documents = w.documents /\ v.in_flight = w.in_flight /\ v.image = image
  BY <1>6, <1>8 DEF WinForm, Closed
<1>10. Len(w.cards) \in Nat /\ DOMAIN w.cards = 1..Len(w.cards)
  BY ListFacts DEF Ready, ListedOnce
<1>11. v.shown \in 0..Len(v.cards) /\ v.shown # 0
  BY <1>4, <1>9, <1>10
<1>12. Typed(v)
  BY <1>9 DEF Typed
<1>13. Selected(v)
  BY <1>1, <1>9, <1>11 DEF Selected, Ready
<1>14. Imaged(v)
  BY <1>1, <1>6, <1>7, <1>9, <1>11 DEF Imaged
<1>15. WinInv(v)
  BY <1>9, <1>11, <1>12, <1>13, <1>14 DEF WinInv, Ready
<1>16. QED
  BY <1>5, <1>9, <1>15 DEF Fine

\* An inspection's cards are listed: the selected reader's, or the first.
LEMMA ApplyInspectedInv ==
    ASSUME NEW w, WinInv(w), NEW cards, ListedOnce(cards)
    PROVE  Fine(apply_inspected_cards(w, cards), w)
<1>1. PICK clean : clean = [disarm_pdf_signing(disarm_management_forms(w)) EXCEPT !.displayed_serial = Absent]
  OBVIOUS
<1>2. WinForm(w) /\ w.documents \in 0..MaxDocuments /\ w.in_flight \in BOOLEAN
  BY DEF WinInv
<1>3. /\ WinForm(clean) /\ clean.form = Absent /\ clean.pdf_pin2 = Absent
      /\ clean.documents = w.documents /\ clean.in_flight = w.in_flight
  BY <1>1, <1>2 DEF disarm_pdf_signing, disarm_management_forms, WinForm, Closed
<1>4. CASE cards = <<>>
  <2>1. apply_inspected_cards(w, cards) = clear_card_context(clean)
    BY <1>1, <1>4 DEF apply_inspected_cards
  <2>2. PICK v : v = clear_card_context(clean)
    OBVIOUS
  <2>3. /\ WinForm(v) /\ v.cards = <<>> /\ v.displayed_serial = Absent /\ v.form = Absent /\ v.pdf_pin2 = Absent
        /\ v.shown = 0 /\ v.documents = w.documents /\ v.in_flight = w.in_flight
    BY <1>3, <2>2 DEF clear_card_context, clear_card_data, disarm_pdf_signing, disarm_management_forms, WinForm, Closed
  <2>4. ListedOnce(v.cards) /\ v.shown \in 0..Len(v.cards)
    BY <2>3, ListEmpty DEF ListedOnce
  <2>5. Typed(v) /\ Selected(v) /\ Imaged(v)
    BY <2>3 DEF Typed, Selected, Imaged
  <2>6. WinInv(v)
    BY <1>2, <2>3, <2>4, <2>5 DEF WinInv
  <2>7. QED
    BY <2>1, <2>2, <2>3, <2>6 DEF Fine
<1>5. CASE cards # <<>>
  <2>1. PICK at : at = {i \in DOMAIN cards : w.selected_reader = <<cards[i].reader>>}
    OBVIOUS
  <2>2. PICK i : i = IF FirstOf(at) = 0 THEN 1 ELSE FirstOf(at)
    OBVIOUS
  <2>3. Len(cards) \in Nat \ {0} /\ DOMAIN cards = 1..Len(cards)
    BY <1>5, ListFacts DEF ListedOnce
  <2>4. i \in DOMAIN cards
    <3>1. at \subseteq Nat \ {0}
      BY <2>1, <2>3
    <3>2. FirstOf(at) # 0 => FirstOf(at) \in DOMAIN cards
      BY <2>1, <3>1, FirstPosition
    <3>3. QED
      BY <2>2, <2>3, <3>2
  <2>5. PICK u : u = [clean EXCEPT !.cards = cards, !.selected_reader = <<cards[i].reader>>]
    OBVIOUS
  <2>6. apply_inspected_cards(w, cards) = show_selected_card(u, i)
    BY <1>1, <1>5, <2>1, <2>2, <2>5, Zenon DEF apply_inspected_cards
  <2>7. /\ WinForm(u) /\ u.cards = cards /\ u.selected_reader = <<cards[i].reader>> /\ u.form = Absent
        /\ u.pdf_pin2 = Absent /\ u.documents = w.documents /\ u.in_flight = w.in_flight
    BY <1>3, <2>5 DEF WinForm, Closed
  <2>8. Ready(u, i)
    BY <1>2, <2>4, <2>7 DEF Ready
  <2>9. QED
    BY <2>6, <2>7, <2>8, ShowSelected DEF Fine
<1>6. QED
  BY <1>4, <1>5

\* A card is selected.
LEMMA SelectInv ==
    ASSUME NEW w, WinInv(w), NEW i \in DOMAIN w.cards
    PROVE  Fine(select_card(w, i), w)
<1>1. PICK u : u = [disarm_pdf_signing(disarm_management_forms(w)) EXCEPT
                      !.selected_reader = <<w.cards[i].reader>>, !.displayed_serial = Absent]
  OBVIOUS
<1>2. WinForm(w) /\ ListedOnce(w.cards) /\ w.documents \in 0..MaxDocuments /\ w.in_flight \in BOOLEAN
  BY DEF WinInv
<1>3. /\ WinForm(u) /\ u.cards = w.cards /\ u.selected_reader = <<w.cards[i].reader>> /\ u.form = Absent
      /\ u.pdf_pin2 = Absent /\ u.documents = w.documents /\ u.in_flight = w.in_flight
  BY <1>1, <1>2 DEF disarm_pdf_signing, disarm_management_forms, WinForm, Closed
<1>4. Ready(u, i)
  BY <1>2, <1>3 DEF Ready
<1>5. select_card(w, i) = show_selected_card(u, i)
  BY <1>1 DEF select_card
<1>6. QED
  BY <1>3, <1>4, <1>5, ShowSelected DEF Fine

\* Something is typed for the card on display.
LEMMA TypedInv ==
    ASSUME NEW w, WinInv(w), w.shown # 0
    PROVE  /\ \A k, op : Fine([w EXCEPT !.form = <<[kind |-> k, op |-> op, for |-> w.displayed_serial]>>], w)
           /\ Fine([w EXCEPT !.pdf_pin2 = <<w.displayed_serial>>], w)
<1>1. WinForm(w) /\ w.documents \in 0..MaxDocuments /\ w.in_flight \in BOOLEAN /\ Typed(w)
  BY DEF WinInv
<1>2. ASSUME NEW k, NEW op, NEW v, v = [w EXCEPT !.form = <<[kind |-> k, op |-> op, for |-> w.displayed_serial]>>]
      PROVE  Fine(v, w)
  <2>1. PICK form : form = [kind |-> k, op |-> op, for |-> w.displayed_serial]
    OBVIOUS
  <2>2. form.for = w.displayed_serial
    BY <2>1
  <2>3. v = [w EXCEPT !.form = <<form>>]
    BY <1>2, <2>1
  <2>4. /\ WinForm(v) /\ SameDisplay(v, w) /\ v.form = <<form>> /\ v.pdf_pin2 = w.pdf_pin2
        /\ v.documents = w.documents /\ v.in_flight = w.in_flight
    BY <1>1, <2>3 DEF SameDisplay, WinForm, Closed
  <2>5. v.form[1] = form
    BY <2>4
  <2>6. Typed(v)
    BY <1>1, <2>2, <2>4, <2>5 DEF Typed, SameDisplay
  <2>7. QED
    BY <1>1, <2>4, <2>6, DisplayKept DEF Fine
<1>3. ASSUME NEW v, v = [w EXCEPT !.pdf_pin2 = <<w.displayed_serial>>] PROVE Fine(v, w)
  <2>1. /\ WinForm(v) /\ SameDisplay(v, w) /\ v.pdf_pin2 = <<w.displayed_serial>> /\ v.form = w.form
        /\ v.documents = w.documents /\ v.in_flight = w.in_flight
    BY <1>1, <1>3 DEF SameDisplay, WinForm, Closed
  <2>2. Typed(v)
    BY <1>1, <2>1 DEF Typed, SameDisplay
  <2>3. QED
    BY <1>1, <2>1, <2>2, DisplayKept DEF Fine
<1>4. QED
  BY <1>2, <1>3

\* What was read, or that nothing was, is shown and kept for the card that is
\* listed in the selected reader.
Kept(cache, key, image) == [k \in DOMAIN cache \cup {key} |-> IF k = key THEN image ELSE cache[k]]
ListedAt(w, r) == FirstOf({i \in DOMAIN w.cards : w.cards[i].reader = r})
CacheAfter(cache, w, at, image) == cache = IF at = 0 THEN w.cache ELSE Kept(w.cache, card_key(w.cards[at]), image)
LEMMA ImagesInv ==
    ASSUME NEW w, WinInv(w), NEW r, r = w.selected_reader[1], r \in Range(Readers), NEW image,
           NEW at, at = ListedAt(w, r), NEW cache, CacheAfter(cache, w, at, image),
           NEW v, v = [w EXCEPT !.image = image, !.cache = cache]
    PROVE  Fine(v, w)
<1>1. /\ WinForm(w) /\ ListedOnce(w.cards) /\ w.shown \in 0..Len(w.cards) /\ w.documents \in 0..MaxDocuments
      /\ w.in_flight \in BOOLEAN /\ Typed(w) /\ Selected(w)
  BY DEF WinInv
<1>2. /\ WinForm(v) /\ v.cards = w.cards /\ v.shown = w.shown /\ v.displayed_serial = w.displayed_serial
      /\ v.selected_reader = w.selected_reader /\ v.form = w.form /\ v.pdf_pin2 = w.pdf_pin2
      /\ v.documents = w.documents /\ v.in_flight = w.in_flight /\ v.image = image /\ v.cache = cache
  BY <1>1 DEF WinForm, Closed
<1>3. Typed(v) /\ Selected(v)
  BY <1>1, <1>2 DEF Typed, Selected
<1>4. Len(w.cards) \in Nat /\ DOMAIN w.cards = 1..Len(w.cards)
  BY <1>1, ListFacts DEF ListedOnce
<1>5. ASSUME w.shown # 0 PROVE at = w.shown
  <2>1. PICK S : S = {i \in DOMAIN w.cards : w.cards[i].reader = r}
    OBVIOUS
  <2>2. w.shown \in DOMAIN w.cards /\ w.cards[w.shown].reader = r
    BY <1>1, <1>4, <1>5 DEF Selected
  <2>3. S \subseteq Nat \ {0} /\ S # {}
    BY <1>4, <2>1, <2>2
  <2>4. at \in S
    BY <2>1, <2>3, FirstPosition DEF ListedAt
  <2>5. QED
    BY <1>1, <2>1, <2>2, <2>4 DEF ListedOnce
<1>6. ASSUME w.shown # 0 PROVE CachedImage(cache, w.cards[w.shown]) = image
  <2>1. PICK key : key = card_key(w.cards[w.shown])
    OBVIOUS
  <2>2. at # 0
    BY <1>5, <1>6
  <2>3. cache = Kept(w.cache, key, image)
    BY <1>5, <1>6, <2>1, <2>2 DEF CacheAfter
  <2>4. key \in DOMAIN cache /\ cache[key] = image
    BY <2>3 DEF Kept
  <2>5. QED
    BY <2>1, <2>4 DEF CachedImage
<1>7. Imaged(v)
  BY <1>2, <1>6 DEF Imaged
<1>8. WinInv(v)
  BY <1>1, <1>2, <1>3, <1>7 DEF WinInv
<1>9. QED
  BY <1>2, <1>8 DEF Fine

(***************************************************************************)
(* The phones                                                              *)
(***************************************************************************)

\* Lists joined one after another: FlattenSeq's function, up to a position.
Joins(seqs, n, f) == f = [i \in 1..n |-> IF i = 1 THEN seqs[i] ELSE f[i - 1] \o seqs[i]]
LEMMA JoinsExist ==
    ASSUME NEW seqs, NEW n \in Nat
    PROVE  \E f : Joins(seqs, n, f)
<1>1. PICK S : S = {m \in Nat : ~\E f : Joins(seqs, m, f)}
  OBVIOUS
<1>2. SUFFICES ASSUME S # {} PROVE FALSE
  BY <1>1
<1>3. S \subseteq Nat
  BY <1>1
<1>4. PICK m \in S : \A k \in S : ~ (<<k, m>> \in OpToRel(<, Nat))
  BY <1>2, <1>3, WFMin, NatLessThanWellFounded, Zenon
<1>5. \A k \in S : ~(k < m)
  BY <1>3, <1>4, Zenon DEF OpToRel
<1>6. m # 0
  <2>1. PICK f : f = [i \in 1..0 |-> i]
    OBVIOUS
  <2>2. Joins(seqs, 0, f)
    BY <2>1 DEF Joins
  <2>3. QED
    BY <1>1, <1>4, <2>2
<1>7. PICK g : Joins(seqs, m - 1, g)
  <2>1. m - 1 \in Nat /\ m - 1 < m
    <3>1. m \in Nat
      BY <1>3, <1>4
    <3>2. QED
      BY <1>6, <3>1
  <2>2. m - 1 \notin S
    BY <1>5, <2>1
  <2>3. QED
    BY <1>1, <2>1, <2>2
<1>8. PICK f : f = [i \in 1..m |-> IF i < m THEN g[i] ELSE IF i = 1 THEN seqs[i] ELSE g[i - 1] \o seqs[i]]
  OBVIOUS
<1>9. \A i \in 1..m : f[i] = IF i = 1 THEN seqs[i] ELSE f[i - 1] \o seqs[i]
  <2>1. m \in Nat
    BY <1>3
  <2>2. ASSUME NEW i \in 1..m PROVE f[i] = IF i = 1 THEN seqs[i] ELSE f[i - 1] \o seqs[i]
    <3>1. CASE i < m
      <4>1. i \in 1..(m - 1) /\ (i # 1 => i - 1 \in 1..m /\ i - 1 < m)
        BY <2>1, <2>2, <3>1
      <4>2. f[i] = g[i] /\ (i # 1 => f[i - 1] = g[i - 1])
        BY <1>8, <2>2, <3>1, <4>1
      <4>3. g[i] = IF i = 1 THEN seqs[i] ELSE g[i - 1] \o seqs[i]
        BY <1>7, <4>1 DEF Joins
      <4>4. QED
        BY <4>2, <4>3, Zenon
    <3>2. CASE ~(i < m)
      <4>1. i # 1 => i - 1 \in 1..m /\ i - 1 < m
        BY <2>1, <2>2
      <4>2. i # 1 => f[i - 1] = g[i - 1]
        BY <1>8, <4>1
      <4>3. f[i] = IF i = 1 THEN seqs[i] ELSE g[i - 1] \o seqs[i]
        BY <1>8, <3>2, <2>2
      <4>4. QED
        BY <4>2, <4>3, Zenon
    <3>3. QED
      BY <3>1, <3>2
  <2>3. QED
    BY <2>2
<1>10. Joins(seqs, m, f)
  BY <1>8, <1>9, Zenon DEF Joins
<1>11. QED
  BY <1>1, <1>4, <1>10, Zenon
LEMMA FlattenIsJoins ==
    ASSUME NEW seqs, IsList(seqs), seqs # <<>>
    PROVE  \E f : Joins(seqs, Len(seqs), f) /\ FlattenSeq(seqs) = f[Len(seqs)]
<1>1. Len(seqs) \in Nat \ {0}
  BY ListFacts
<1>2. PICK f : f = CHOOSE g : Joins(seqs, Len(seqs), g)
  OBVIOUS
<1>3. Joins(seqs, Len(seqs), f)
  BY <1>1, <1>2, JoinsExist, Zenon
<1>4. FlattenSeq(seqs) = f[Len(seqs)]
  BY <1>1, <1>2 DEF FlattenSeq, Joins
<1>5. QED
  BY <1>3, <1>4

\* What only adds cards that are in no reader keeps a reader listed once.
NoReader(s) == IsList(s) /\ \A i \in DOMAIN s : s[i].reader \notin Range(Readers)
LEMMA NoReaderJoin ==
    ASSUME NEW s, NoReader(s), NEW t, NoReader(t)
    PROVE  NoReader(s \o t)
<1>1. IsList(s) /\ IsList(t)
  BY DEF NoReader
<1>2. PICK u : u = s \o t
  OBVIOUS
<1>3. Len(s) \in Nat /\ DOMAIN s = 1..Len(s) /\ Len(t) \in Nat /\ DOMAIN t = 1..Len(t)
  BY <1>1, ListFacts
<1>4. /\ IsList(u) /\ DOMAIN u = 1..(Len(s) + Len(t))
      /\ \A i \in 1..Len(s) : u[i] = s[i]
      /\ \A i \in 1..Len(t) : u[Len(s) + i] = t[i]
  BY <1>1, <1>2, ListJoin
<1>5. ASSUME NEW i \in DOMAIN u PROVE u[i].reader \notin Range(Readers)
  <2>1. CASE i \in 1..Len(s)
    BY <1>3, <1>4, <2>1 DEF NoReader
  <2>2. CASE i \notin 1..Len(s)
    <3>1. i - Len(s) \in 1..Len(t) /\ i = Len(s) + (i - Len(s))
      BY <1>3, <1>4, <2>2
    <3>2. u[i] = t[i - Len(s)]
      BY <1>4, <3>1
    <3>3. QED
      BY <1>3, <3>1, <3>2 DEF NoReader
  <2>3. QED
    BY <2>1, <2>2
<1>6. NoReader(u)
  BY <1>4, <1>5 DEF NoReader
<1>7. QED
  BY <1>2, <1>6
LEMMA FlattenNoReader ==
    ASSUME NEW seqs, IsList(seqs), \A i \in DOMAIN seqs : NoReader(seqs[i])
    PROVE  NoReader(FlattenSeq(seqs))
<1>1. Len(seqs) \in Nat /\ DOMAIN seqs = 1..Len(seqs) /\ (seqs = <<>> <=> Len(seqs) = 0)
  BY ListFacts
<1>2. CASE seqs = <<>>
  <2>1. FlattenSeq(seqs) = <<>>
    BY <1>1, <1>2 DEF FlattenSeq
  <2>2. QED
    BY <2>1, ListEmpty DEF NoReader
<1>3. CASE seqs # <<>>
  <2>1. PICK f : Joins(seqs, Len(seqs), f) /\ FlattenSeq(seqs) = f[Len(seqs)]
    BY <1>3, FlattenIsJoins
  <2>2. PICK S : S = {m \in 1..Len(seqs) : ~NoReader(f[m])}
    OBVIOUS
  <2>3. ASSUME S # {} PROVE FALSE
    <3>1. S \subseteq Nat
      BY <1>1, <2>2
    <3>2. PICK m \in S : \A k \in S : ~ (<<k, m>> \in OpToRel(<, Nat))
      BY <2>3, <3>1, WFMin, NatLessThanWellFounded, Zenon
    <3>3. \A k \in S : ~(k < m)
      BY <3>1, <3>2, Zenon DEF OpToRel
    <3>4. m \in 1..Len(seqs) /\ ~NoReader(f[m])
      BY <2>2, <3>2
    <3>5. f[m] = IF m = 1 THEN seqs[m] ELSE f[m - 1] \o seqs[m]
      BY <2>1, <3>4 DEF Joins
    <3>6. NoReader(seqs[m])
      BY <1>1, <3>4
    <3>7. m # 1
      BY <3>4, <3>5, <3>6
    <3>8. m - 1 \in 1..Len(seqs) /\ m - 1 < m
      BY <1>1, <3>4, <3>7
    <3>9. NoReader(f[m - 1])
      BY <2>2, <3>3, <3>8
    <3>10. QED
      BY <3>4, <3>5, <3>6, <3>7, <3>9, NoReaderJoin, Zenon
  <2>4. Len(seqs) \in 1..Len(seqs)
    BY <1>1, <1>3
  <2>5. NoReader(f[Len(seqs)])
    BY <2>2, <2>3, <2>4
  <2>6. QED
    BY <2>1, <2>5
<1>4. QED
  BY <1>2, <1>3

\* A paired phone: not a reader.  What is listed for it is under its name.
Phone(x) == x.name \notin Range(Readers)
LEMMA MobileNoReader ==
    ASSUME NEW phone, Phone(phone)
    PROVE  NoReader(MobileCard(phone))
<1>1. CASE MobileCard(phone) = <<>>
  BY <1>1, ListEmpty DEF NoReader
<1>2. CASE \E m : MobileCard(phone) = <<m>> /\ m.reader = phone.name
  <2>1. PICK m : MobileCard(phone) = <<m>> /\ m.reader = phone.name
    BY <1>2
  <2>2. PICK s : s = <<m>>
    OBVIOUS
  <2>3. s \in Seq({m}) /\ DOMAIN s = {1} /\ s[1] = m
    BY <2>2
  <2>4. IsList(s)
    BY <2>3, SequenceIsList
  <2>5. QED
    BY <2>1, <2>2, <2>3, <2>4 DEF NoReader, Phone
<1>3. QED
  <2>1. CASE phone.cert = Absent
    BY <1>1, <2>1 DEF MobileCard
  <2>2. CASE phone.cert # Absent /\ ~Ok(Certificate_from_der(phone.cert[1]))
    BY <1>1, <2>2, Zenon DEF MobileCard
  <2>3. CASE phone.cert # Absent /\ Ok(Certificate_from_der(phone.cert[1]))
    <3>1. PICK base : base = ManagedCard(NoReport, Absent)
      OBVIOUS
    <3>2. PICK serial, person : MobileCard(phone) =
              <<[base EXCEPT !.reader = phone.name, !.serial = serial, !.person = person,
                   !.pin1 = <<<<"Verified">>>>, !.pin2 = <<<<"Verified">>>>,
                   !.pin1_changed = <<TRUE>>, !.pin2_changed = <<TRUE>>]>>
      BY <2>3, <3>1, Zenon DEF MobileCard
    <3>3. PICK m : m = [base EXCEPT !.reader = phone.name, !.serial = serial, !.person = person,
                          !.pin1 = <<<<"Verified">>>>, !.pin2 = <<<<"Verified">>>>,
                          !.pin1_changed = <<TRUE>>, !.pin2_changed = <<TRUE>>]
      OBVIOUS
    <3>4. m.reader = phone.name
      BY <3>1, <3>3 DEF ManagedCard
    <3>5. MobileCard(phone) = <<m>>
      BY <3>2, <3>3, Zenon
    <3>6. QED
      BY <1>2, <3>4, <3>5, Zenon
  <2>4. QED
    BY <2>1, <2>2, <2>3
LEMMA JoinListedOnce ==
    ASSUME NEW s, OnceEach(s), NEW t, NoReader(t)
    PROVE  ListedOnce(s \o t)
<1>1. IsList(s) /\ IsList(t) /\ \A i, j \in DOMAIN s : s[i].reader = s[j].reader => i = j
  BY DEF NoReader, OnceEach
<1>2. PICK u : u = s \o t
  OBVIOUS
<1>3. Len(s) \in Nat /\ DOMAIN s = 1..Len(s) /\ Len(t) \in Nat /\ DOMAIN t = 1..Len(t)
  BY <1>1, ListFacts
<1>4. /\ IsList(u) /\ DOMAIN u = 1..(Len(s) + Len(t))
      /\ \A i \in 1..Len(s) : u[i] = s[i]
      /\ \A i \in 1..Len(t) : u[Len(s) + i] = t[i]
  BY <1>1, <1>2, ListJoin
<1>5. ASSUME NEW i \in DOMAIN u, u[i].reader \in Range(Readers) PROVE i \in DOMAIN s
  <2>1. SUFFICES ASSUME i \notin DOMAIN s PROVE FALSE
    OBVIOUS
  <2>2. i - Len(s) \in 1..Len(t) /\ i = Len(s) + (i - Len(s))
    BY <1>3, <1>4, <2>1
  <2>3. u[i] = t[i - Len(s)]
    BY <1>4, <2>2
  <2>4. QED
    BY <1>3, <1>5, <2>2, <2>3 DEF NoReader
<1>6. ListedOnce(u)
  BY <1>1, <1>3, <1>4, <1>5 DEF ListedOnce
<1>7. QED
  BY <1>2, <1>6
\* What an inspection found: the cards in the readers, then the phones.
LEMMA InspectedOnce ==
    ASSUME NEW p, OnceEach(managed[p]), IsList(pairs), \A i \in DOMAIN pairs : Phone(pairs[i])
    PROVE  ListedOnce(Inspected(p))
<1>1. PICK seqs : seqs = [i \in DOMAIN pairs |-> MobileCard(pairs[i])]
  OBVIOUS
<1>2. Len(pairs) \in Nat /\ DOMAIN pairs = 1..Len(pairs)
  BY ListFacts
<1>3. seqs \in Seq({MobileCard(pairs[i]) : i \in DOMAIN pairs})
  BY <1>1, <1>2
<1>4. IsList(seqs)
  BY <1>3, SequenceIsList
<1>5. \A i \in DOMAIN seqs : NoReader(seqs[i])
  BY <1>1, MobileNoReader
<1>6. NoReader(FlattenSeq(seqs))
  BY <1>4, <1>5, FlattenNoReader
<1>7. QED
  BY <1>1, <1>6, JoinListedOnce DEF Inspected

(***************************************************************************)
(* The invariant                                                           *)
(***************************************************************************)

\* What the inspections keep: besides what holds of a run, the cards listed
\* so far are of readers whose report is taken, each once, and there are none
\* before the run is over.
Listing(m, c) ==
    /\ OnceEach(m) /\ ReadersIn(m) \subseteq Range(Readers) \ ReadersIn(c.out)
    /\ m # <<>> => c.pc = "done"
RunsInv ==
    /\ slot \in [Range(Readers) -> DOMAIN Cards \cup {NoCard, Unplugged}] /\ swaps \in 0..MaxSwaps
    /\ chk = [p \in Processes |-> chk[p]] /\ managed = [p \in Processes |-> managed[p]]
    /\ \A p \in Processes : RunInv(chk[p]) /\ Met(chk[p]) /\ Listing(managed[p], chk[p])
\* One inspection, or its one result, while in_flight is up.
FlightInv ==
    /\ IsList(results) /\ Len(results) <= 1 /\ (results # <<>> => chk["inspection"].pc = "idle")
    /\ win.in_flight <=> chk["inspection"].pc # "idle" \/ results # <<>>
    /\ \A i \in DOMAIN results : ListedOnce(results[i].cards)
PairsInv == IsList(pairs) /\ \A i \in DOMAIN pairs : Phone(pairs[i])
\* A job holds the secret of the card whose serial it will look for.
ThreadsInv ==
    /\ IsList(posted) /\ \A i \in DOMAIN posted : posted[i] \in {"presence", "paired", "not paired"}
    /\ monitor = [pc |-> monitor.pc, baseline |-> monitor.baseline, seen |-> monitor.seen]
    /\ monitor.pc \in {"start", "compare", "wait", "settle"} /\ pairing \in {"off", "idle", "listening"}
    /\ IsList(signer) /\ \A i \in DOMAIN signer : signer[i].for = signer[i].expected
    /\ \A m \in misdirected : m.kind = "activate"
GuiInv == RunsInv /\ FlightInv /\ PairsInv /\ WinInv(win) /\ ThreadsInv

\* One run is set, with the cards listed for it.
SetRun(p, d, m) ==
    /\ chk' = [chk EXCEPT ![p] = d]
    /\ managed' = [managed EXCEPT ![p] = m] \/ (m = managed[p] /\ managed' = managed)
    /\ UNCHANGED <<slot, swaps>>
LEMMA RunSet ==
    ASSUME RunsInv, NEW p \in Processes, NEW d, NEW m, SetRun(p, d, m), RunInv(d), Met(d), Listing(m, d)
    PROVE  RunsInv' /\ chk'[p] = d /\ \A q \in Processes \ {p} : chk'[q] = chk[q]
<1>1. slot' = slot /\ swaps' = swaps /\ chk' = [chk EXCEPT ![p] = d]
  BY DEF SetRun
<1>2. chk' = [q \in Processes |-> IF q = p THEN d ELSE chk[q]]
  BY <1>1 DEF RunsInv
<1>3. managed' = [q \in Processes |-> IF q = p THEN m ELSE managed[q]]
  <2>1. managed = [q \in Processes |-> managed[q]]
    BY DEF RunsInv
  <2>2. CASE managed' = [managed EXCEPT ![p] = m]
    BY <2>1, <2>2
  <2>3. CASE m = managed[p] /\ managed' = managed
    BY <2>1, <2>3
  <2>4. QED
    BY <2>2, <2>3 DEF SetRun
<1>4. \A q \in Processes : chk'[q] = (IF q = p THEN d ELSE chk[q]) /\ managed'[q] = (IF q = p THEN m ELSE managed[q])
  BY <1>2, <1>3
<1>5. ASSUME NEW q \in Processes
      PROVE  RunInv(chk'[q]) /\ RunCards(chk'[q], slot, swaps) /\ Listing(managed'[q], chk'[q])
  <2>1. CASE q = p
    BY <1>4, <2>1 DEF Met
  <2>2. CASE q # p
    <3>1. RunInv(chk[q]) /\ RunCards(chk[q], slot, swaps) /\ Listing(managed[q], chk[q])
      BY DEF RunsInv, Met
    <3>2. chk'[q] = chk[q] /\ managed'[q] = managed[q]
      BY <1>4, <2>2
    <3>3. QED
      BY <3>1, <3>2
  <2>3. QED
    BY <2>1, <2>2
<1>6. chk' = [q \in Processes |-> chk'[q]] /\ managed' = [q \in Processes |-> managed'[q]]
  BY <1>2, <1>3
<1>7. \A q \in Processes : RunCards(chk'[q], slot', swaps')
  BY <1>1, <1>5
<1>8. RunsInv'
  BY <1>1, <1>5, <1>6, <1>7 DEF RunsInv, Met
<1>9. QED
  BY <1>4, <1>8
LEMMA RunsKept ==
    ASSUME RunsInv, slot' = slot, swaps' = swaps, chk' = chk, managed' = managed
    PROVE  RunsInv'
BY DEF RunsInv, Met
\* The count of exchanges.
LEMMA CountOfSwaps == ASSUME RunsInv PROVE swaps \in Nat
BY BoundAssumption DEF RunsInv

\* What leaves the inspection thread and its result alone.
LEMMA FlightKept ==
    ASSUME FlightInv, results' = results, win'.in_flight = win.in_flight,
           chk'["inspection"].pc = "idle" <=> chk["inspection"].pc = "idle"
    PROVE  FlightInv'
BY DEF FlightInv
\* What leaves the threads alone.
LEMMA ThreadsKept ==
    ASSUME ThreadsInv, posted' = posted, misdirected' = misdirected, monitor' = monitor, pairing' = pairing,
           signer' = signer
    PROVE  ThreadsInv'
BY DEF ThreadsInv
LEMMA PairsKept ==
    ASSUME PairsInv, pairs' = pairs
    PROVE  PairsInv'
BY DEF PairsInv
\* What only shows something.
LEMMA ShowsInv ==
    ASSUME GuiInv, NEW v, Fine(v, win), Shows(v)
    PROVE  GuiInv'
<1>1. /\ win' = v /\ slot' = slot /\ swaps' = swaps /\ chk' = chk /\ posted' = posted /\ results' = results
      /\ managed' = managed /\ misdirected' = misdirected /\ monitor' = monitor /\ signer' = signer
      /\ signed' = signed /\ pairing' = pairing /\ pairs' = pairs
  BY DEF Shows, threads
<1>2. WinInv(win') /\ win'.in_flight = win.in_flight
  BY <1>1 DEF Fine
<1>3. RunsInv'
  BY <1>1, RunsKept DEF GuiInv
<1>4. FlightInv'
  BY <1>1, <1>2, FlightKept DEF GuiInv
<1>5. ThreadsInv' /\ PairsInv'
  BY <1>1, ThreadsKept, PairsKept DEF GuiInv
<1>6. QED
  BY <1>2, <1>3, <1>4, <1>5 DEF GuiInv

\* An inspection is asked for: started, or left to the one that runs.
LEMMA RequestInv ==
    ASSUME RunsInv, FlightInv, NEW w, WinInv(w), w.in_flight = win.in_flight, Request(w),
           slot' = slot, swaps' = swaps, managed' = managed, results' = results
    PROVE  RunsInv' /\ FlightInv' /\ WinInv(win')
<1>1. CASE w.in_flight
  <2>1. win' = w /\ chk' = chk
    BY <1>1 DEF Request
  <2>2. QED
    BY <2>1, RunsKept, FlightKept
<1>2. CASE ~w.in_flight
  <2>1. PICK d : d = Called(InspectOptions)
    OBVIOUS
  <2>2. RunInv(d) /\ Met(d) /\ d.pc = "load" /\ d.out = <<>>
    BY <2>1, CountOfSwaps, CalledInv
  <2>3. win' = request_card_inspection(w) /\ chk' = [chk EXCEPT !["inspection"] = d]
    BY <1>2, <2>1 DEF Request
  <2>4. "inspection" \in Processes
    BY WorldAssumption
  <2>5. chk["inspection"].pc = "idle" /\ results = <<>>
    BY <1>2 DEF FlightInv
  <2>6. managed["inspection"] = <<>>
    BY <2>4, <2>5 DEF RunsInv, Listing
  <2>7. Listing(<<>>, d)
    BY <2>2, OnceEmpty DEF Listing
  <2>8. SetRun("inspection", d, <<>>)
    BY <2>3, <2>6 DEF SetRun
  <2>9. RunsInv' /\ chk'["inspection"] = d
    BY <2>2, <2>4, <2>7, <2>8, RunSet
  <2>10. WinInv(win') /\ win'.in_flight = TRUE
    <3>1. PICK u : u = [w EXCEPT !.busy = TRUE]
      OBVIOUS
    <3>2. WinInv(u) /\ WinForm(u)
      BY <3>1, SetFlags DEF Fine, WinInv
    <3>3. WinForm(w)
      BY DEF WinInv
    <3>4. PICK v : v = [u EXCEPT !.in_flight = TRUE]
      OBVIOUS
    <3>5. WinInv(v) /\ v.in_flight = TRUE
      BY <3>2, <3>4, SetFlags
    <3>6. win' = v
      BY <2>3, <3>1, <3>4 DEF request_card_inspection
    <3>7. QED
      BY <3>5, <3>6
  <2>11. FlightInv'
    BY <2>2, <2>5, <2>9, <2>10 DEF FlightInv
  <2>12. QED
    BY <2>9, <2>10, <2>11
<1>3. QED
  BY <1>1, <1>2

(***************************************************************************)
(* Every action keeps it                                                   *)
(***************************************************************************)

LEMMA CheckStepsInv ==
    ASSUME GuiInv, NEW p \in Processes, CheckSteps(p)
    PROVE  GuiInv'
<1>1. RunsInv /\ FlightInv /\ PairsInv /\ WinInv(win) /\ ThreadsInv
  BY DEF GuiInv
<1>2. RunInv(chk[p]) /\ Met(chk[p]) /\ Listing(managed[p], chk[p]) /\ SlotsTyped
  BY <1>1 DEF RunsInv, SlotsTyped
<1>3. /\ CheckStep(p) /\ win' = win /\ posted' = posted /\ results' = results /\ managed' = managed
      /\ misdirected' = misdirected /\ monitor' = monitor /\ signer' = signer /\ pairing' = pairing /\ pairs' = pairs
  BY DEF CheckSteps, threads
<1>4. Moved(p)
  BY <1>2, <1>3, CheckStepMoves
<1>5. PICK d : RunInv(d) /\ Met(d) /\ d.pc # "idle" /\ chk' = [chk EXCEPT ![p] = d]
  BY <1>4 DEF Moved
<1>6. managed[p] = <<>>
  BY <1>2, <1>4 DEF Moved, Listing
<1>7. Listing(<<>>, d)
  BY OnceEmpty DEF Listing
<1>8. SetRun(p, d, <<>>)
  BY <1>3, <1>4, <1>5, <1>6 DEF SetRun, Moved
<1>9. RunsInv' /\ chk'[p] = d /\ \A q \in Processes \ {p} : chk'[q] = chk[q]
  BY <1>1, <1>5, <1>7, <1>8, RunSet
<1>10. chk'["inspection"].pc = "idle" <=> chk["inspection"].pc = "idle"
  <2>1. CASE p = "inspection"
    BY <1>4, <1>5, <1>9, <2>1 DEF Moved
  <2>2. CASE p # "inspection"
    BY <1>9, <2>2, WorldAssumption
  <2>3. QED
    BY <2>1, <2>2
<1>11. FlightInv'
  BY <1>1, <1>3, <1>10, FlightKept
<1>12. ThreadsInv' /\ PairsInv'
  BY <1>1, <1>3, ThreadsKept, PairsKept
<1>13. QED
  BY <1>1, <1>3, <1>9, <1>11, <1>12 DEF GuiInv

\* A report is taken out of the run's and listed, or is of a card that is.
LEMMA DeduplicateInv ==
    ASSUME GuiInv, NEW p \in Processes, Deduplicate(p)
    PROVE  GuiInv'
<1>1. RunsInv /\ FlightInv /\ PairsInv /\ WinInv(win) /\ ThreadsInv
  BY DEF GuiInv
<1>2. PICK c : c = chk[p]
  OBVIOUS
<1>3. RunInv(c) /\ Met(c) /\ Listing(managed[p], c) /\ RunForm(c) /\ RunReaders(c) /\ RunPhase(c) /\ RunSession(c) /\ RunReport(c)
  BY <1>1, <1>2 DEF RunsInv, RunInv
<1>4. /\ c.pc = "done" /\ c.out # <<>> /\ chk' = [chk EXCEPT ![p].out = Tail(@)]
      /\ win' = win /\ posted' = posted /\ results' = results /\ slot' = slot /\ swaps' = swaps
      /\ misdirected' = misdirected /\ monitor' = monitor /\ signer' = signer /\ pairing' = pairing /\ pairs' = pairs
  BY <1>2 DEF Deduplicate, threads
<1>5. PICK d : d = [c EXCEPT !.out = Tail(c.out)]
  OBVIOUS
<1>6. /\ RunForm(d) /\ d.pc = c.pc /\ d.todo = c.todo /\ d.picks = c.picks /\ d.s = c.s /\ d.slots = c.slots
      /\ d.ders = c.ders /\ d.rep = c.rep /\ d.out = Tail(c.out) /\ d.err = c.err /\ d.since = c.since
  BY <1>3, <1>5 DEF RunForm
<1>7. PICK first : first = c.out[1].reader
  OBVIOUS
<1>8. OnceEach(d.out) /\ ReadersIn(d.out) = ReadersIn(c.out) \ {first} /\ first \in ReadersIn(c.out)
  BY <1>3, <1>4, <1>6, <1>7, OnceTail DEF RunReaders
<1>9. RunInv(d)
  <2>1. RunReaders(d)
    BY <1>3, <1>6, <1>8 DEF RunReaders
  <2>2. RunPhase(d)
    BY <1>3, <1>4, <1>6 DEF RunPhase
  <2>3. RunSession(d)
    BY <1>3, <1>6 DEF RunSession
  <2>4. RunReport(d)
    BY <1>4, <1>6 DEF RunReport, SectionSteps
  <2>5. QED
    BY <1>6, <2>1, <2>2, <2>3, <2>4 DEF RunInv
<1>9a. Met(d)
  <2>1. RunCards(c, slot, swaps)
    BY <1>3 DEF Met
  <2>2. IsList(c.out)
    BY <1>3 DEF RunReaders, OnceEach
  <2>3. Len(c.out) \in Nat /\ DOMAIN c.out = 1..Len(c.out)
    BY <2>2, ListFacts
  <2>4. DOMAIN d.out = 1..(Len(c.out) - 1) /\ \A i \in 1..(Len(c.out) - 1) : d.out[i] = c.out[i + 1]
    BY <1>4, <1>6, <2>2, ListTail
  <2>5. \A i \in DOMAIN c.out : Composed(c.out[i], MetIn(c.since, slot, swaps, c.out[i].reader))
    BY <2>1, Zenon DEF RunCards, OutMet
  <2>6. ASSUME NEW i \in DOMAIN d.out PROVE Composed(d.out[i], MetIn(d.since, slot, swaps, d.out[i].reader))
    <3>1. i + 1 \in DOMAIN c.out /\ d.out[i] = c.out[i + 1]
      BY <2>3, <2>4
    <3>2. QED
      BY <1>6, <2>5, <3>1, Zenon
  <2>7. OutMet(d.out, d.since, slot, swaps)
    BY <2>6, Zenon DEF OutMet
  <2>8. d.pc \notin SectionSteps /\ d.pc # "emrtd"
    BY <1>4, <1>6 DEF SectionSteps
  <2>9. QED
    BY <1>6, <2>1, <2>7, <2>8, Zenon DEF Met, RunCards, PicksMet
<1>10. chk' = [chk EXCEPT ![p] = d]
  BY <1>2, <1>4, <1>5
<1>11. \E m : SetRun(p, d, m) /\ Listing(m, d)
  <2>1. CASE managed' = managed
    <3>1. Listing(managed[p], d)
      BY <1>3, <1>4, <1>6, <1>8 DEF Listing
    <3>2. SetRun(p, d, managed[p])
      BY <1>4, <1>10, <2>1 DEF SetRun
    <3>3. QED
      BY <3>1, <3>2
  <2>2. CASE \E context : managed' = [managed EXCEPT ![p] = Append(@, [ManagedCard(chk[p].out[1], Absent)
                                                                         EXCEPT !.context = context])]
    <3>1. PICK context : managed' = [managed EXCEPT ![p] = Append(@, [ManagedCard(chk[p].out[1], Absent)
                                                                        EXCEPT !.context = context])]
      BY <2>2
    <3>2. PICK rep : rep = chk[p].out[1]
      OBVIOUS
    <3>3. PICK base : base = ManagedCard(rep, Absent)
      OBVIOUS
    <3>4. PICK e : e = [base EXCEPT !.context = context]
      OBVIOUS
    <3>5. e.reader = first
      BY <1>2, <1>7, <3>2, <3>3, <3>4 DEF ManagedCard
    <3>6. PICK m : m = Append(managed[p], e)
      OBVIOUS
    <3>7. managed' = [managed EXCEPT ![p] = m]
      BY <1>1, <3>1, <3>2, <3>3, <3>4, <3>6 DEF RunsInv
    <3>8. OnceEach(managed[p]) /\ e.reader \notin ReadersIn(managed[p])
      BY <1>3, <1>8, <3>5 DEF Listing
    <3>9. OnceEach(m) /\ ReadersIn(m) = ReadersIn(managed[p]) \cup {first}
      BY <3>5, <3>6, <3>8, OnceAppend
    <3>10. first \in Range(Readers)
      BY <1>3, <1>8 DEF RunReaders
    <3>11. Listing(m, d)
      BY <1>3, <1>4, <1>6, <1>8, <3>9, <3>10 DEF Listing
    <3>12. SetRun(p, d, m)
      BY <1>4, <1>10, <3>7 DEF SetRun
    <3>13. QED
      BY <3>11, <3>12
  <2>3. QED
    BY <2>1, <2>2, Zenon DEF Deduplicate
<1>12. PICK m : SetRun(p, d, m) /\ Listing(m, d)
  BY <1>11
<1>13. RunsInv' /\ chk'[p] = d /\ \A q \in Processes \ {p} : chk'[q] = chk[q]
  BY <1>1, <1>9, <1>9a, <1>12, RunSet
<1>14. chk'["inspection"].pc = chk["inspection"].pc
  <2>1. CASE p = "inspection"
    BY <1>2, <1>6, <1>13, <2>1
  <2>2. CASE p # "inspection"
    BY <1>13, <2>2, WorldAssumption
  <2>3. QED
    BY <2>1, <2>2
<1>15. FlightInv'
  BY <1>1, <1>4, <1>14, FlightKept
<1>16. ThreadsInv' /\ PairsInv'
  BY <1>1, <1>4, ThreadsKept, PairsKept
<1>17. QED
  BY <1>1, <1>4, <1>13, <1>15, <1>16 DEF GuiInv

\* The thread's result.
LEMMA SendResultInv ==
    ASSUME GuiInv, SendResult
    PROVE  GuiInv'
<1>1. RunsInv /\ FlightInv /\ PairsInv /\ WinInv(win) /\ ThreadsInv /\ "inspection" \in Processes
  BY WorldAssumption DEF GuiInv
<1>2. PICK e : /\ results' = Append(results, e)
               /\ e = [err |-> chk["inspection"].err,
                       cards |-> IF chk["inspection"].err = "" THEN Inspected("inspection") ELSE <<>>]
  BY DEF SendResult
<1>3. /\ chk["inspection"].pc = "done" /\ chk' = [chk EXCEPT !["inspection"] = Idle]
      /\ managed' = [managed EXCEPT !["inspection"] = <<>>]
      /\ win' = win /\ posted' = posted /\ slot' = slot /\ swaps' = swaps
      /\ misdirected' = misdirected /\ monitor' = monitor /\ signer' = signer /\ pairing' = pairing /\ pairs' = pairs
  BY DEF SendResult, threads
<1>4. ListedOnce(Inspected("inspection"))
  BY <1>1, InspectedOnce DEF RunsInv, Listing, PairsInv
<1>5. ListedOnce(e.cards)
  <2>1. ListedOnce(<<>>)
    BY ListEmpty DEF ListedOnce
  <2>2. QED
    BY <1>2, <1>4, <2>1
<1>6. PICK d : d = Idle
  OBVIOUS
<1>7. RunInv(d) /\ Met(d) /\ d.pc = "idle" /\ Listing(<<>>, d)
  BY <1>1, <1>6, CountOfSwaps, IdleInv, IdleFields, OnceEmpty DEF Listing
<1>8. SetRun("inspection", d, <<>>)
  BY <1>3, <1>6 DEF SetRun
<1>9. RunsInv' /\ chk'["inspection"] = d
  BY <1>1, <1>7, <1>8, RunSet
<1>10. results = <<>> /\ win.in_flight
  BY <1>1, <1>3 DEF FlightInv
<1>11. IsList(results') /\ Len(results') = 1 /\ DOMAIN results' = {1} /\ results'[1] = e /\ results' # <<>>
  <2>1. IsList(results) /\ Len(results) = 0
    BY <1>10, ListEmpty
  <2>2. PICK t : t = Append(results, e)
    OBVIOUS
  <2>3. IsList(t) /\ t # <<>> /\ Len(t) = Len(results) + 1 /\ DOMAIN t = 1..(Len(results) + 1) /\ t[Len(results) + 1] = e
    BY <2>1, <2>2, ListAppend, Zenon
  <2>4. IsList(t) /\ Len(t) = 1 /\ DOMAIN t = {1} /\ t[1] = e /\ t # <<>>
    BY <2>1, <2>3
  <2>5. results' = t
    BY <1>2, <2>2
  <2>6. QED
    BY <2>4, <2>5
<1>12. FlightInv'
  BY <1>1, <1>3, <1>5, <1>7, <1>9, <1>10, <1>11 DEF FlightInv
<1>13. ThreadsInv' /\ PairsInv'
  BY <1>1, <1>3, ThreadsKept, PairsKept
<1>14. QED
  BY <1>1, <1>3, <1>9, <1>12, <1>13 DEF GuiInv
\* The event loop's own inspection ends.
LEMMA RefreshEndsInv ==
    ASSUME GuiInv, RefreshEnds
    PROVE  GuiInv'
<1>1. RunsInv /\ FlightInv /\ PairsInv /\ WinInv(win) /\ ThreadsInv /\ "ui" \in Processes
  BY WorldAssumption DEF GuiInv
<1>2. PICK u : /\ win' = [u EXCEPT !.busy = FALSE]
               /\ u = IF chk["ui"].err = "" THEN apply_inspected_cards(win, Inspected("ui")) ELSE clear_card_context(win)
  BY DEF RefreshEnds
<1>3. /\ chk' = [chk EXCEPT !["ui"] = Idle] /\ managed' = [managed EXCEPT !["ui"] = <<>>]
      /\ results' = results /\ posted' = posted /\ slot' = slot /\ swaps' = swaps
      /\ misdirected' = misdirected /\ monitor' = monitor /\ signer' = signer /\ pairing' = pairing /\ pairs' = pairs
  BY DEF RefreshEnds, threads
<1>4. ListedOnce(Inspected("ui"))
  BY <1>1, InspectedOnce DEF RunsInv, Listing, PairsInv
<1>5. Fine(u, win)
  BY <1>1, <1>2, <1>4, ApplyInspectedInv, ClearContextInv
<1>6. Fine(win', u)
  <2>1. WinInv(u)
    BY <1>5 DEF Fine
  <2>2. Fine([u EXCEPT !.busy = FALSE], u)
    BY <2>1, SetFlags
  <2>3. QED
    BY <1>2, <2>2
<1>7. WinInv(win') /\ win'.in_flight = win.in_flight
  BY <1>5, <1>6 DEF Fine
<1>8. PICK d : d = Idle
  OBVIOUS
<1>9. RunInv(d) /\ Met(d) /\ Listing(<<>>, d)
  BY <1>1, <1>8, CountOfSwaps, IdleInv, IdleFields, OnceEmpty DEF Listing
<1>10. SetRun("ui", d, <<>>)
  BY <1>3, <1>8 DEF SetRun
<1>11. RunsInv' /\ \A q \in Processes \ {"ui"} : chk'[q] = chk[q]
  BY <1>1, <1>9, <1>10, RunSet
<1>12. chk'["inspection"] = chk["inspection"]
  BY <1>11, WorldAssumption
<1>13. FlightInv'
  BY <1>1, <1>3, <1>7, <1>12, FlightKept
<1>14. ThreadsInv' /\ PairsInv'
  BY <1>1, <1>3, ThreadsKept, PairsKept
<1>15. QED
  BY <1>7, <1>11, <1>13, <1>14 DEF GuiInv
\* The timer receives the result.
LEMMA ReceiveInv ==
    ASSUME NEW w, WinInv(w), NEW r, ListedOnce(r.cards), NEW v, v = Receive(w, r)
    PROVE  WinInv(v) /\ v.in_flight = FALSE
<1>1. PICK free : free = [w EXCEPT !.in_flight = FALSE]
  OBVIOUS
<1>2. WinInv(free) /\ free.in_flight = FALSE
  BY <1>1, SetFlags
<1>3. PICK u : u = IF r.err # "" THEN clear_card_context(free)
                   ELSE IF management_state_matches(w.cards, r.cards) THEN free ELSE apply_inspected_cards(free, r.cards)
  OBVIOUS
<1>4. Fine(u, free)
  <2>1. Fine(clear_card_context(free), free)
    BY <1>2, ClearContextInv
  <2>2. Fine(apply_inspected_cards(free, r.cards), free)
    BY <1>2, ApplyInspectedInv
  <2>3. Fine(free, free)
    BY <1>2 DEF Fine
  <2>4. QED
    BY <1>3, <2>1, <2>2, <2>3
<1>5. v = [u EXCEPT !.busy = FALSE]
  BY <1>1, <1>3 DEF Receive
<1>6. Fine(v, u)
  BY <1>4, <1>5, SetFlags DEF Fine
<1>7. QED
  BY <1>2, <1>4, <1>6 DEF Fine
LEMMA ReceiveResultInv ==
    ASSUME GuiInv, ReceiveResult
    PROVE  GuiInv'
<1>1. RunsInv /\ FlightInv /\ PairsInv /\ WinInv(win) /\ ThreadsInv
  BY DEF GuiInv
<1>2. /\ results # <<>> /\ win' = Receive(win, results[1]) /\ results' = Tail(results)
      /\ chk' = chk /\ managed' = managed /\ posted' = posted /\ slot' = slot /\ swaps' = swaps
      /\ misdirected' = misdirected /\ monitor' = monitor /\ signer' = signer /\ pairing' = pairing /\ pairs' = pairs
  BY DEF ReceiveResult, threads
<1>3. Len(results) \in Nat /\ Len(results) = 1 /\ DOMAIN results = 1..Len(results)
  <2>1. Len(results) \in Nat /\ DOMAIN results = 1..Len(results) /\ (results = <<>> <=> Len(results) = 0)
    BY <1>1, ListFacts DEF FlightInv
  <2>2. Len(results) <= 1
    BY <1>1 DEF FlightInv
  <2>3. QED
    BY <1>2, <2>1, <2>2
<1>4. ListedOnce(results[1].cards)
  BY <1>1, <1>3 DEF FlightInv
<1>5. WinInv(win') /\ win'.in_flight = FALSE
  BY <1>1, <1>2, <1>4, ReceiveInv
<1>6. IsList(results') /\ Len(results') = 0 /\ results' = <<>>
  <2>1. IsList(results') /\ Len(results') = 0
    BY <1>1, <1>2, <1>3, ListTail DEF FlightInv
  <2>2. QED
    BY <2>1, ListFacts
<1>7. chk["inspection"].pc = "idle"
  BY <1>1, <1>2 DEF FlightInv
<1>8. \A i \in DOMAIN results' : ListedOnce(results'[i].cards)
  BY <1>6, ListEmpty
<1>9. FlightInv'
  <2>1. chk'["inspection"].pc = "idle"
    BY <1>2, <1>7
  <2>2. QED
    BY <1>5, <1>6, <1>8, <2>1 DEF FlightInv
<1>10. RunsInv'
  BY <1>1, <1>2, RunsKept
<1>11. ThreadsInv' /\ PairsInv'
  BY <1>1, <1>2, ThreadsKept, PairsKept
<1>12. QED
  BY <1>5, <1>9, <1>10, <1>11 DEF GuiInv

\* The monitor, which posts.
Postings(s) == IsList(s) /\ \A i \in DOMAIN s : s[i] \in {"presence", "paired", "not paired"}
\* The last position and those before it.
LEMMA LastPosition == \A n \in Nat : \A k \in 1..(n + 1) : k = n + 1 \/ k \in 1..n
OBVIOUS
\* The elements of a list with one more.
LEMMA OneMore ==
    ASSUME NEW s, IsList(s), NEW e, NEW t, t = Append(s, e)
    PROVE  IsList(t) /\ \A i \in DOMAIN t : (i \in DOMAIN s /\ t[i] = s[i]) \/ t[i] = e
<1>1. Len(s) \in Nat /\ DOMAIN s = 1..Len(s)
  BY ListFacts
<1>2. /\ IsList(t) /\ DOMAIN t = 1..(Len(s) + 1) /\ t[Len(s) + 1] = e
      /\ \A i \in 1..Len(s) : t[i] = s[i]
  BY ListAppend
<1>3. QED
  BY <1>1, <1>2
LEMMA PostInv ==
    ASSUME NEW s, Postings(s), NEW what, what \in {"presence", "paired", "not paired"}
    PROVE  Postings(Append(s, what))
<1>1. PICK t : t = Append(s, what)
  OBVIOUS
<1>2. IsList(s) /\ \A i \in DOMAIN s : s[i] \in {"presence", "paired", "not paired"}
  BY DEF Postings
<1>3. IsList(t)
  BY <1>1, <1>2, OneMore, Zenon
<1>4. \A i \in DOMAIN t : (i \in DOMAIN s /\ t[i] = s[i]) \/ t[i] = what
  BY <1>1, <1>2, OneMore, ZenonT(60)
<1>5. Postings(t)
  BY <1>2, <1>3, <1>4, Zenon DEF Postings
<1>6. QED
  BY <1>1, <1>5
LEMMA MonitorInv ==
    ASSUME GuiInv, Monitor
    PROVE  GuiInv'
<1>1. RunsInv /\ FlightInv /\ PairsInv /\ WinInv(win) /\ ThreadsInv
  BY DEF GuiInv
<1>2. /\ monitor' = [pc |-> monitor'.pc, baseline |-> monitor'.baseline, seen |-> monitor'.seen]
      /\ monitor'.pc \in {"compare", "wait", "settle"} /\ Monitors(monitor')
      /\ posted' = posted \/ posted' = Append(posted, "presence")
  <2>1. monitor = [pc |-> monitor.pc, baseline |-> monitor.baseline, seen |-> monitor.seen]
    BY <1>1 DEF ThreadsInv
  <2>2. CASE MonitorStarts
    BY <2>2 DEF MonitorStarts, Monitors
  <2>3. CASE MonitorCompares
    BY <2>1, <2>3 DEF MonitorCompares, Monitors
  <2>4. CASE MonitorWakes
    BY <2>1, <2>4 DEF MonitorWakes, Monitors
  <2>5. CASE MonitorPosts
    BY <2>1, <2>5 DEF MonitorPosts, Monitors
  <2>6. QED
    BY <2>2, <2>3, <2>4, <2>5 DEF Monitor
<1>3. /\ win' = win /\ chk' = chk /\ managed' = managed /\ results' = results /\ slot' = slot /\ swaps' = swaps
      /\ misdirected' = misdirected /\ signer' = signer /\ pairing' = pairing /\ pairs' = pairs
  BY <1>2 DEF Monitors
<1>4. Postings(posted')
  BY <1>1, <1>2, PostInv DEF ThreadsInv, Postings
<1>5. ThreadsInv'
  BY <1>1, <1>2, <1>3, <1>4 DEF ThreadsInv, Postings
<1>6. RunsInv' /\ FlightInv' /\ PairsInv'
  BY <1>1, <1>3, RunsKept, FlightKept, PairsKept
<1>7. QED
  BY <1>1, <1>3, <1>5, <1>6 DEF GuiInv
\* A posted closure runs.
LEMMA RunPostedInv ==
    ASSUME GuiInv, RunPosted
    PROVE  GuiInv'
<1>1. RunsInv /\ FlightInv /\ PairsInv /\ WinInv(win) /\ ThreadsInv
  BY DEF GuiInv
<1>2. /\ posted # <<>> /\ posted' = Tail(posted)
      /\ managed' = managed /\ results' = results /\ slot' = slot /\ swaps' = swaps
      /\ misdirected' = misdirected /\ monitor' = monitor /\ signer' = signer /\ pairing' = pairing /\ pairs' = pairs
  BY DEF RunPosted, threads
<1>3. IsList(posted) /\ Len(posted) \in Nat \ {0} /\ DOMAIN posted = 1..Len(posted)
  BY <1>1, <1>2, ListFacts DEF ThreadsInv
<1>4. posted[1] \in {"presence", "paired", "not paired"}
  <2>1. 1 \in DOMAIN posted
    BY <1>3
  <2>2. QED
    BY <1>1, <2>1 DEF ThreadsInv
<1>5. Postings(posted')
  <2>1. IsList(posted') /\ DOMAIN posted' = 1..(Len(posted) - 1) /\ \A i \in 1..(Len(posted) - 1) : posted'[i] = posted[i + 1]
    BY <1>2, <1>3, ListTail
  <2>2. ASSUME NEW i \in DOMAIN posted' PROVE posted'[i] \in {"presence", "paired", "not paired"}
    <3>1. i + 1 \in DOMAIN posted /\ posted'[i] = posted[i + 1]
      BY <1>3, <2>1
    <3>2. QED
      BY <1>1, <3>1 DEF ThreadsInv
  <2>3. QED
    BY <2>1, <2>2 DEF Postings
<1>6. ThreadsInv'
  BY <1>1, <1>2, <1>5 DEF ThreadsInv, Postings
<1>7. PairsInv'
  BY <1>1, <1>2, PairsKept
<1>8. PICK w : w = [win EXCEPT !.pairing_active = FALSE]
  OBVIOUS
<1>9. WinInv(w) /\ w.in_flight = win.in_flight
  BY <1>1, <1>8, SetFlags DEF Fine
<1>10. \/ win' = win /\ chk' = chk
       \/ Request(win)
       \/ Request(w)
       \/ win' = w /\ chk' = chk
  BY <1>4, <1>8 DEF RunPosted
<1>11. CASE (win' = win \/ win' = w) /\ chk' = chk
  <2>1. WinInv(win') /\ win'.in_flight = win.in_flight
    BY <1>1, <1>9, <1>11
  <2>2. RunsInv' /\ FlightInv'
    BY <1>1, <1>2, <1>11, <2>1, RunsKept, FlightKept
  <2>3. QED
    BY <1>6, <1>7, <2>1, <2>2 DEF GuiInv
<1>12. CASE Request(win)
  BY <1>1, <1>2, <1>6, <1>7, <1>12, RequestInv DEF GuiInv
<1>13. CASE Request(w)
  BY <1>1, <1>2, <1>6, <1>7, <1>9, <1>13, RequestInv DEF GuiInv
<1>14. QED
  BY <1>10, <1>11, <1>12, <1>13

\* What the user does that only changes what is shown.
LEMMA ShowingInv ==
    ASSUME GuiInv,
           \/ LeaveForm \/ TypePin2 \/ ChooseDocuments \/ CancelPairing
           \/ \E i \in 1..3 : SelectCard(i)
           \/ \E op \in {"activate", "change1", "change2", "unblock1", "unblock2"} : TypeForm(op)
    PROVE  GuiInv'
<1>1. WinInv(win)
  BY DEF GuiInv
<1>2. \E v : Fine(v, win) /\ Shows(v)
  <2>1. CASE LeaveForm
    <3>1. Shows(disarm_management_forms(win)) \/ Shows(disarm_pdf_signing(win))
            \/ Shows(disarm_pdf_signing(disarm_management_forms(win)))
      BY <2>1 DEF LeaveForm
    <3>2. QED
      BY <1>1, <3>1, DisarmInv, Zenon
  <2>2. CASE TypePin2
    <3>1. win.shown # 0 /\ Shows([win EXCEPT !.pdf_pin2 = <<win.displayed_serial>>])
      BY <2>2 DEF TypePin2
    <3>2. QED
      BY <1>1, <3>1, TypedInv, Zenon
  <2>3. CASE ChooseDocuments
    <3>1. win.documents \in 0..MaxDocuments /\ MaxDocuments \in Nat
      BY <1>1, WindowAssumption DEF WinInv
    <3>2. \A n \in 0..MaxDocuments : Fine([win EXCEPT !.documents = n], win)
      BY <1>1, SetFlags
    <3>3. CASE win.documents < MaxDocuments /\ Shows([win EXCEPT !.documents = @ + 1])
      <4>1. win.documents + 1 \in 0..MaxDocuments
        BY <3>1, <3>3
      <4>2. QED
        BY <3>2, <3>3, <4>1, Zenon
    <3>4. CASE win.documents > 0 /\ Shows([win EXCEPT !.documents = @ - 1])
      <4>1. win.documents - 1 \in 0..MaxDocuments
        BY <3>1, <3>4
      <4>2. QED
        BY <3>2, <3>4, <4>1, Zenon
    <3>5. CASE Shows([win EXCEPT !.documents = 0])
      <4>1. 0 \in 0..MaxDocuments
        BY <3>1
      <4>2. QED
        BY <3>2, <3>5, <4>1, Zenon
    <3>6. QED
      BY <2>3, <3>3, <3>4, <3>5, Zenon DEF ChooseDocuments
  <2>4. CASE CancelPairing
    <3>1. Shows([win EXCEPT !.pairing_active = FALSE])
      BY <2>4 DEF CancelPairing
    <3>2. QED
      BY <1>1, <3>1, SetFlags, Zenon
  <2>5. ASSUME NEW i \in 1..3, SelectCard(i) PROVE \E v : Fine(v, win) /\ Shows(v)
    <3>1. i \in DOMAIN win.cards /\ Shows(select_card(win, i))
      BY <2>5 DEF SelectCard
    <3>2. QED
      BY <1>1, <3>1, SelectInv, Zenon
  <2>6. ASSUME NEW op, TypeForm(op) PROVE \E v : Fine(v, win) /\ Shows(v)
    <3>1. win.shown # 0 /\ Shows([win EXCEPT !.form = <<[kind |-> kind(op), op |-> op, for |-> win.displayed_serial]>>])
      BY <2>6 DEF TypeForm
    <3>2. QED
      BY <1>1, <3>1, TypedInv, Zenon
  <2>7. QED
    BY <2>1, <2>2, <2>3, <2>4, <2>5, <2>6, Zenon
<1>3. QED
  BY <1>2, ShowsInv, Zenon
LEMMA LoadImagesInv ==
    ASSUME GuiInv, NEW can, LoadImages(can)
    PROVE  GuiInv'
<1>1. WinInv(win) /\ RunsInv
  BY DEF GuiInv
<1>2. PICK r : r = win.selected_reader[1]
  OBVIOUS
<1>3. PICK at : at = ListedAt(win, r)
  OBVIOUS
<1>4. CASE Shows(clear_card_context(win))
  BY <1>1, <1>4, ClearContextInv, ShowsInv, Zenon
<1>5. CASE ~Shows(clear_card_context(win))
  <2>1. PICK image : /\ r \in DOMAIN slot
                     /\ Shows([win EXCEPT !.image = image,
                                 !.cache = IF at = 0 THEN @ ELSE Kept(win.cache, card_key(win.cards[at]), image)])
    BY <1>2, <1>3, <1>5, Zenon DEF LoadImages, Kept, ListedAt
  <2>2. r \in Range(Readers)
    BY <1>1, <2>1 DEF RunsInv
  <2>3. PICK cache : CacheAfter(cache, win, at, image)
    BY DEF CacheAfter
  <2>4. PICK v : v = [win EXCEPT !.image = image, !.cache = cache]
    OBVIOUS
  <2>5. Shows(v)
    BY <1>1, <2>1, <2>3, <2>4 DEF WinInv, WinForm, Closed, CacheAfter
  <2>6. Fine(v, win)
    BY <1>1, <1>2, <1>3, <2>2, <2>3, <2>4, ImagesInv, Zenon
  <2>7. QED
    BY <2>5, <2>6, ShowsInv, Zenon
<1>6. QED
  BY <1>4, <1>5
LEMMA RefreshInv ==
    ASSUME GuiInv, Refresh
    PROVE  GuiInv'
<1>1. RunsInv /\ FlightInv /\ PairsInv /\ WinInv(win) /\ ThreadsInv
  BY DEF GuiInv
<1>2. /\ Request(win) /\ posted' = posted
      /\ managed' = managed /\ results' = results /\ slot' = slot /\ swaps' = swaps
      /\ misdirected' = misdirected /\ monitor' = monitor /\ signer' = signer /\ pairing' = pairing /\ pairs' = pairs
  BY DEF Refresh, threads
<1>3. RunsInv' /\ FlightInv' /\ WinInv(win')
  BY <1>1, <1>2, RequestInv
<1>4. ThreadsInv' /\ PairsInv'
  BY <1>1, <1>2, ThreadsKept, PairsKept
<1>5. QED
  BY <1>3, <1>4 DEF GuiInv

\* A form is submitted: its secret was typed for the serial on display, and
\* that is the serial the card has to have.
LEMMA SubmitInv ==
    ASSUME GuiInv, Submit
    PROVE  GuiInv'
<1>1. RunsInv /\ FlightInv /\ PairsInv /\ WinInv(win) /\ ThreadsInv /\ "ui" \in Processes
  BY WorldAssumption DEF GuiInv
<1>2. /\ posted' = posted /\ managed' = managed /\ results' = results /\ slot' = slot /\ swaps' = swaps
      /\ monitor' = monitor /\ signer' = signer /\ pairing' = pairing /\ pairs' = pairs
      /\ win.form # Absent /\ chk["ui"].pc = "idle"
  BY DEF Submit, threads, MayClick, LoopFree
<1>3. win.form[1].for = win.displayed_serial
  BY <1>1, <1>2 DEF WinInv, Typed
<1>4. PICK taken : taken = disarm_management_forms(win)
  OBVIOUS
<1>5. WinInv(taken) /\ taken.in_flight = win.in_flight
  BY <1>1, <1>4, DisarmInv DEF Fine
<1>6. PICK w : w = [taken EXCEPT !.busy = TRUE]
  OBVIOUS
<1>7. WinInv(w) /\ w.in_flight = win.in_flight
  BY <1>5, <1>6, SetFlags DEF Fine
<1>8. /\ misdirected' = misdirected
      /\ \/ win' = w /\ chk' = [chk EXCEPT !["ui"] = Called(InspectOptions)]
         \/ win' = taken /\ chk' = chk
  BY <1>3, <1>4, <1>6, Zenon DEF Submit, ensure_displayed_serial, Sent
<1>9. ThreadsInv' /\ PairsInv'
  BY <1>1, <1>2, <1>8, ThreadsKept, PairsKept
<1>10. CASE win' = taken /\ chk' = chk
  <2>1. RunsInv' /\ FlightInv'
    BY <1>1, <1>2, <1>5, <1>10, RunsKept, FlightKept
  <2>2. QED
    BY <1>5, <1>9, <1>10, <2>1 DEF GuiInv
<1>11. CASE win' = w /\ chk' = [chk EXCEPT !["ui"] = Called(InspectOptions)]
  <2>1. PICK d : d = Called(InspectOptions)
    OBVIOUS
  <2>2. RunInv(d) /\ Met(d) /\ d.pc = "load" /\ d.out = <<>>
    BY <1>1, <2>1, CountOfSwaps, CalledInv
  <2>3. managed["ui"] = <<>>
    BY <1>1, <1>2 DEF RunsInv, Listing
  <2>4. Listing(<<>>, d)
    BY <2>2, OnceEmpty DEF Listing
  <2>5. SetRun("ui", d, <<>>)
    BY <1>2, <1>11, <2>1, <2>3 DEF SetRun
  <2>6. RunsInv' /\ \A q \in Processes \ {"ui"} : chk'[q] = chk[q]
    BY <1>1, <2>2, <2>4, <2>5, RunSet
  <2>7. chk'["inspection"] = chk["inspection"]
    BY <2>6, WorldAssumption
  <2>8. FlightInv'
    BY <1>1, <1>2, <1>7, <1>11, <2>7, FlightKept
  <2>9. QED
    BY <1>7, <1>9, <1>11, <2>6, <2>8 DEF GuiInv
<1>12. QED
  BY <1>8, <1>10, <1>11

\* The activation's codes go wherever the reader leads; nothing else is sent.
LEMMA ActivateInv ==
    ASSUME GuiInv, Activate
    PROVE  GuiInv'
<1>1. RunsInv /\ FlightInv /\ PairsInv /\ WinInv(win) /\ ThreadsInv
  BY DEF GuiInv
<1>2. /\ posted' = posted /\ managed' = managed /\ results' = results /\ slot' = slot /\ swaps' = swaps /\ chk' = chk
      /\ monitor' = monitor /\ signer' = signer /\ pairing' = pairing /\ pairs' = pairs
      /\ win' = disarm_management_forms(win)
  BY DEF Activate, threads
<1>3. WinInv(win') /\ win'.in_flight = win.in_flight
  BY <1>1, <1>2, DisarmInv DEF Fine
<1>4. PICK context : misdirected' = misdirected \/ Sent("activate", win.form[1].for, <<context[1].serial>>)
  BY Zenon DEF Activate
<1>5. \A m \in misdirected' : m.kind = "activate"
  <2>1. PICK m : m = [kind |-> "activate", for |-> win.form[1].for, to |-> <<context[1].serial>>]
    OBVIOUS
  <2>2. m.kind = "activate"
    BY <2>1
  <2>3. misdirected' = misdirected \/ misdirected' = misdirected \cup {m}
    BY <1>4, <2>1, Zenon DEF Sent
  <2>4. \A x \in misdirected : x.kind = "activate"
    BY <1>1 DEF ThreadsInv
  <2>5. QED
    BY <2>2, <2>3, <2>4, Zenon
<1>6. ThreadsInv'
  BY <1>1, <1>2, <1>5 DEF ThreadsInv
<1>7. RunsInv' /\ FlightInv' /\ PairsInv'
  BY <1>1, <1>2, <1>3, RunsKept, FlightKept, PairsKept
<1>8. QED
  BY <1>3, <1>6, <1>7 DEF GuiInv

\* A job takes the PIN with the serial it was typed for.
LEMMA SignPdfInv ==
    ASSUME GuiInv, SignPdf
    PROVE  GuiInv'
<1>1. RunsInv /\ FlightInv /\ PairsInv /\ WinInv(win) /\ ThreadsInv
  BY DEF GuiInv
<1>2. /\ posted' = posted /\ managed' = managed /\ results' = results /\ slot' = slot /\ swaps' = swaps /\ chk' = chk
      /\ monitor' = monitor /\ pairing' = pairing /\ pairs' = pairs /\ misdirected' = misdirected
      /\ win.pdf_pin2 # Absent
  BY DEF SignPdf
<1>3. win.pdf_pin2[1] = win.displayed_serial
  BY <1>1, <1>2 DEF WinInv, Typed
<1>4. PICK taken : taken = disarm_pdf_signing(win)
  OBVIOUS
<1>5. WinInv(taken) /\ taken.in_flight = win.in_flight
  BY <1>1, <1>4, DisarmInv DEF Fine
<1>6. PICK w : w = [taken EXCEPT !.busy = TRUE]
  OBVIOUS
<1>7. WinInv(w) /\ w.in_flight = win.in_flight
  BY <1>5, <1>6, SetFlags DEF Fine
<1>8. PICK job : job = [for |-> win.pdf_pin2[1], reader |-> win.selected_reader[1], expected |-> win.displayed_serial]
  OBVIOUS
<1>9. job.for = job.expected
  BY <1>3, <1>8
<1>10. (win' = taken /\ signer' = signer) \/ (win' = w /\ signer' = Append(signer, job))
  BY <1>4, <1>6, <1>8, Zenon DEF SignPdf
<1>11. WinInv(win') /\ win'.in_flight = win.in_flight
  BY <1>5, <1>7, <1>10
<1>12. IsList(signer') /\ \A i \in DOMAIN signer' : signer'[i].for = signer'[i].expected
  <2>1. IsList(signer) /\ \A i \in DOMAIN signer : signer[i].for = signer[i].expected
    BY <1>1 DEF ThreadsInv
  <2>2. CASE signer' = signer
    BY <2>1, <2>2
  <2>3. CASE signer' = Append(signer, job)
    <3>1. Len(signer) \in Nat /\ DOMAIN signer = 1..Len(signer)
      BY <2>1, ListFacts
    <3>2. /\ IsList(signer') /\ DOMAIN signer' = 1..(Len(signer) + 1) /\ signer'[Len(signer) + 1] = job
          /\ \A i \in 1..Len(signer) : signer'[i] = signer[i]
      BY <2>1, <2>3, ListAppend
    <3>3. ASSUME NEW i \in DOMAIN signer' PROVE signer'[i].for = signer'[i].expected
      <4>1. i = Len(signer) + 1 \/ i \in 1..Len(signer)
        BY <3>1, <3>2, LastPosition, Zenon
      <4>2. QED
        BY <1>9, <2>1, <3>1, <3>2, <4>1, Zenon
    <3>4. QED
      BY <3>2, <3>3
  <2>4. QED
    BY <1>10, <2>2, <2>3
<1>13. ThreadsInv'
  BY <1>1, <1>2, <1>12 DEF ThreadsInv
<1>14. RunsInv' /\ FlightInv' /\ PairsInv'
  BY <1>1, <1>2, <1>11, RunsKept, FlightKept, PairsKept
<1>15. QED
  BY <1>11, <1>13, <1>14 DEF GuiInv
LEMMA RunPdfSigningInv ==
    ASSUME GuiInv, NEW j \in DOMAIN signer, RunPdfSigning(j)
    PROVE  GuiInv'
<1>1. RunsInv /\ FlightInv /\ PairsInv /\ WinInv(win) /\ ThreadsInv
  BY DEF GuiInv
<1>2. /\ posted' = posted /\ managed' = managed /\ results' = results /\ slot' = slot /\ swaps' = swaps /\ chk' = chk
      /\ win' = win /\ monitor' = monitor /\ pairing' = pairing /\ pairs' = pairs
      /\ signer' = [k \in 1..(Len(signer) - 1) |-> signer[IF k < j THEN k ELSE k + 1]]
  BY DEF RunPdfSigning
<1>3. IsList(signer) /\ \A i \in DOMAIN signer : signer[i].for = signer[i].expected
  BY <1>1 DEF ThreadsInv
<1>4. Len(signer) \in Nat \ {0} /\ DOMAIN signer = 1..Len(signer)
  <2>1. Len(signer) \in Nat /\ DOMAIN signer = 1..Len(signer)
    BY <1>3, ListFacts
  <2>2. QED
    BY <2>1
<1>5. signer[j].for = signer[j].expected
  BY <1>3
<1>6. misdirected' = misdirected
  BY <1>5, Zenon DEF RunPdfSigning, ensure_displayed_serial, Sent
<1>7. IsList(signer') /\ \A i \in DOMAIN signer' : signer'[i].for = signer'[i].expected
  <2>1. PICK n : n = Len(signer) - 1
    OBVIOUS
  <2>2. n \in Nat
    BY <1>4, <2>1
  <2>3. PICK t : t = [k \in 1..n |-> signer[IF k < j THEN k ELSE k + 1]]
    OBVIOUS
  <2>4. ASSUME NEW k \in 1..n
        PROVE  \E i \in DOMAIN signer : t[k] = signer[i]
    <3>1. k \in DOMAIN signer /\ k + 1 \in DOMAIN signer
      BY <1>4, <2>1
    <3>2. QED
      BY <2>3, <3>1, Zenon
  <2>5. \A k \in 1..n : t[k] \in Range(signer)
    BY <2>4 DEF Range
  <2>6. t \in [1..n -> Range(signer)]
    BY <2>3, <2>5
  <2>7. t \in Seq(Range(signer)) /\ DOMAIN t = 1..n
    BY <2>2, <2>6
  <2>8. IsList(t)
    BY <2>7, SequenceIsList, Zenon
  <2>9. \A i \in DOMAIN t : t[i].for = t[i].expected
    BY <1>3, <2>4, <2>7, Zenon
  <2>10. signer' = t
    BY <1>2, <2>1, <2>3
  <2>11. QED
    BY <2>8, <2>9, <2>10
<1>8. ThreadsInv'
  BY <1>1, <1>2, <1>6, <1>7 DEF ThreadsInv
<1>9. RunsInv' /\ FlightInv' /\ PairsInv'
  BY <1>1, <1>2, RunsKept, FlightKept, PairsKept
<1>10. QED
  BY <1>1, <1>2, <1>8, <1>9 DEF GuiInv
LEMMA ReceiveSignedInv ==
    ASSUME GuiInv, ReceiveSigned
    PROVE  GuiInv'
<1>1. RunsInv /\ FlightInv /\ PairsInv /\ WinInv(win) /\ ThreadsInv
  BY DEF GuiInv
<1>2. /\ posted' = posted /\ managed' = managed /\ results' = results /\ slot' = slot /\ swaps' = swaps /\ chk' = chk
      /\ monitor' = monitor /\ pairing' = pairing /\ pairs' = pairs /\ signer' = signer /\ misdirected' = misdirected
      /\ win' = [win EXCEPT !.busy = FALSE]
  BY DEF ReceiveSigned
<1>3. WinInv(win') /\ win'.in_flight = win.in_flight
  BY <1>1, <1>2, SetFlags DEF Fine
<1>4. RunsInv' /\ FlightInv' /\ PairsInv' /\ ThreadsInv'
  BY <1>1, <1>2, <1>3, RunsKept, FlightKept, PairsKept, ThreadsKept
<1>5. QED
  BY <1>3, <1>4 DEF GuiInv

\* Pairing a phone.
LEMMA StartPairingInv ==
    ASSUME GuiInv, StartPairing
    PROVE  GuiInv'
<1>1. RunsInv /\ FlightInv /\ PairsInv /\ WinInv(win) /\ ThreadsInv
  BY DEF GuiInv
<1>2. /\ posted' = posted /\ managed' = managed /\ results' = results /\ slot' = slot /\ swaps' = swaps /\ chk' = chk
      /\ monitor' = monitor /\ pairing' = "listening" /\ pairs' = pairs /\ signer' = signer /\ misdirected' = misdirected
      /\ win' = [win EXCEPT !.pairing_active = TRUE]
  BY DEF StartPairing
<1>3. WinInv(win') /\ win'.in_flight = win.in_flight
  BY <1>1, <1>2, SetFlags DEF Fine
<1>4. ThreadsInv'
  BY <1>1, <1>2 DEF ThreadsInv
<1>5. RunsInv' /\ FlightInv' /\ PairsInv'
  BY <1>1, <1>2, <1>3, RunsKept, FlightKept, PairsKept
<1>6. QED
  BY <1>3, <1>4, <1>5 DEF GuiInv
\* One more phone.
LEMMA AlsoPhone ==
    ASSUME NEW s, IsList(s), \A i \in DOMAIN s : Phone(s[i]), NEW e, Phone(e)
    PROVE  IsList(Append(s, e)) /\ \A i \in DOMAIN Append(s, e) : Phone(Append(s, e)[i])
<1>1. PICK t : t = Append(s, e)
  OBVIOUS
<1>2. IsList(t)
  BY <1>1, OneMore, Zenon
<1>3. \A i \in DOMAIN t : (i \in DOMAIN s /\ t[i] = s[i]) \/ t[i] = e
  BY <1>1, OneMore, SMT
<1>4. \A i \in DOMAIN t : Phone(t[i])
  BY <1>3, Zenon
<1>5. QED
  BY <1>1, <1>2, <1>4
LEMMA PairingSucceedsInv ==
    ASSUME GuiInv, NEW n \in DOMAIN Phones, PairingSucceeds(Phones[n])
    PROVE  GuiInv'
<1>1. RunsInv /\ FlightInv /\ PairsInv /\ WinInv(win) /\ ThreadsInv
  BY DEF GuiInv
<1>2. PICK phone : phone = Phones[n]
  OBVIOUS
<1>3. /\ managed' = managed /\ results' = results /\ slot' = slot /\ swaps' = swaps /\ chk' = chk /\ win' = win
      /\ monitor' = monitor /\ pairing' = "idle" /\ signer' = signer /\ misdirected' = misdirected
      /\ pairs' = Append(pairs, phone) /\ posted' = Append(posted, "paired")
  BY <1>2 DEF PairingSucceeds
<1>4. Postings(posted')
  <2>1. Postings(posted)
    BY <1>1 DEF ThreadsInv, Postings
  <2>2. QED
    BY <1>3, <2>1, PostInv
<1>5. ThreadsInv'
  BY <1>1, <1>3, <1>4 DEF ThreadsInv, Postings
<1>6. PairsInv'
  <2>1. Phone(phone)
    BY <1>2, PhoneAssumption DEF Phone
  <2>2. IsList(pairs) /\ \A i \in DOMAIN pairs : Phone(pairs[i])
    BY <1>1 DEF PairsInv
  <2>3. IsList(Append(pairs, phone)) /\ \A i \in DOMAIN Append(pairs, phone) : Phone(Append(pairs, phone)[i])
    BY <2>1, <2>2, AlsoPhone
  <2>4. QED
    BY <1>3, <2>3 DEF PairsInv
<1>7. RunsInv' /\ FlightInv'
  BY <1>1, <1>3, RunsKept, FlightKept
<1>8. QED
  BY <1>1, <1>3, <1>5, <1>6, <1>7 DEF GuiInv
LEMMA PairingFailsInv ==
    ASSUME GuiInv, PairingFails
    PROVE  GuiInv'
<1>1. RunsInv /\ FlightInv /\ PairsInv /\ WinInv(win) /\ ThreadsInv
  BY DEF GuiInv
<1>2. /\ managed' = managed /\ results' = results /\ slot' = slot /\ swaps' = swaps /\ chk' = chk /\ win' = win
      /\ monitor' = monitor /\ pairing' = "idle" /\ signer' = signer /\ misdirected' = misdirected
      /\ pairs' = pairs /\ posted' = Append(posted, "not paired")
  BY DEF PairingFails
<1>3. Postings(posted')
  <2>1. Postings(posted)
    BY <1>1 DEF ThreadsInv, Postings
  <2>2. QED
    BY <1>2, <2>1, PostInv
<1>4. ThreadsInv'
  BY <1>1, <1>2, <1>3 DEF ThreadsInv, Postings
<1>5. RunsInv' /\ FlightInv' /\ PairsInv'
  BY <1>1, <1>2, RunsKept, FlightKept, PairsKept
<1>6. QED
  BY <1>1, <1>2, <1>4, <1>5 DEF GuiInv

\* A card is exchanged: sessions die, and nothing else changes for a program.
LEMMA SwapCardInv ==
    ASSUME GuiInv, SwapCard
    PROVE  GuiInv'
<1>1. RunsInv /\ FlightInv /\ PairsInv /\ WinInv(win) /\ ThreadsInv
  BY DEF GuiInv
<1>2. PICK r \in Range(Readers), c \in Deck \cup {NoCard, Unplugged} : Swap(r, c)
  BY DEF SwapCard
<1>3. /\ win' = win /\ posted' = posted /\ results' = results /\ managed' = managed /\ monitor' = monitor
      /\ signer' = signer /\ pairing' = pairing /\ pairs' = pairs /\ misdirected' = misdirected
  BY DEF SwapCard, guiVars
<1>4. slot' \in [Range(Readers) -> DOMAIN Cards \cup {NoCard, Unplugged}]
  <2>1. slot \in [Range(Readers) -> DOMAIN Cards \cup {NoCard, Unplugged}] /\ slot' = [slot EXCEPT ![r] = c]
    BY <1>1, <1>2 DEF RunsInv, Swap
  <2>2. c \in DOMAIN Cards \cup {NoCard, Unplugged}
    BY WorldAssumption
  <2>3. QED
    BY <2>1, <2>2
<1>5. swaps' \in 0..MaxSwaps
  <2>1. swaps \in 0..MaxSwaps /\ swaps < MaxSwaps /\ swaps' = swaps + 1
    BY <1>1, <1>2 DEF RunsInv, Swap
  <2>2. QED
    BY <2>1, BoundAssumption
<1>6. chk' = [p \in Processes |-> IF chk[p].picks # <<>> /\ chk[p].s.live /\ Reader(p) = r
                                  THEN [chk[p] EXCEPT !.s.live = FALSE] ELSE chk[p]]
  BY <1>2 DEF Swap
<1>7. ASSUME NEW p \in Processes
      PROVE  /\ RunInv(chk'[p]) /\ chk'[p].pc = chk[p].pc /\ chk'[p].out = chk[p].out
             /\ RunCards(chk'[p], slot', swaps')
  <2>1. RunInv(chk[p]) /\ RunCards(chk[p], slot, swaps)
    BY <1>1 DEF RunsInv, Met
  <2>2. chk'[p] = [chk[p] EXCEPT !.s.live = FALSE] \/ chk'[p] = chk[p]
    BY <1>6, Zenon
  <2>3. PICK d : d = chk'[p]
    OBVIOUS
  <2>4. RunInv(d) /\ RunCards(d, slot, swaps) /\ d.pc = chk[p].pc /\ d.out = chk[p].out
    <3>1. CASE d = chk[p]
      BY <2>1, <3>1
    <3>2. CASE d = [chk[p] EXCEPT !.s.live = FALSE]
      BY ONLY <2>1, <3>2, DeadSession, SMTT(30)
    <3>3. QED
      BY <2>2, <2>3, <3>1, <3>2
  <2>5. swaps \in Nat /\ swaps' \in Nat /\ swaps < swaps'
    <3>1. swaps \in Nat
      BY <1>1, CountOfSwaps
    <3>2. swaps' = swaps + 1
      BY <1>2 DEF Swap
    <3>3. QED
      BY <3>1, <3>2
  <2>6. PICK at, n : at = slot' /\ n = swaps'
    OBVIOUS
  <2>7. n \in Nat /\ swaps < n
    BY <2>5, <2>6
  <2>8. RunCards(d, at, n)
    BY <2>4, <2>5, <2>7, CardsMore
  <2>9. QED
    BY <2>3, <2>4, <2>6, <2>8
<1>8. RunsInv'
  <2>1. chk' = [p \in Processes |-> chk'[p]]
    BY <1>6
  <2>2. ASSUME NEW p \in Processes PROVE Listing(managed'[p], chk'[p])
    <3>1. Listing(managed[p], chk[p])
      BY <1>1 DEF RunsInv
    <3>2. QED
      BY <1>3, <1>7, <3>1 DEF Listing
  <2>3. managed' = [p \in Processes |-> managed'[p]]
    BY <1>1, <1>3 DEF RunsInv
  <2>4. QED
    BY <1>4, <1>5, <1>7, <2>1, <2>2, <2>3 DEF RunsInv, Met
<1>9. chk'["inspection"].pc = chk["inspection"].pc
  BY <1>7, WorldAssumption
<1>10. FlightInv'
  BY <1>1, <1>3, <1>9, FlightKept
<1>11. ThreadsInv' /\ PairsInv'
  BY <1>1, <1>3, ThreadsKept, PairsKept
<1>12. QED
  BY <1>1, <1>3, <1>8, <1>10, <1>11 DEF GuiInv

(***************************************************************************)
(* The theorems                                                            *)
(***************************************************************************)

\* At the start one run is under way, the thread's or that of `card`.
StartedAs(who, opts) ==
    /\ chk = [p \in Processes |-> IF p = who THEN Called(opts) ELSE Idle]
    /\ \/ who = "inspection" /\ win = [Closed EXCEPT !.open = TRUE, !.busy = TRUE, !.in_flight = TRUE]
       \/ who = "cli" /\ win = Closed
LEMMA StartInv ==
    ASSUME Init
    PROVE  GuiInv /\ clicks \in 0..MaxClicks
<1>1. PICK x \in GuiStarts \cup CliStarts :
        /\ x.slot \in [Range(Readers) -> DOMAIN Cards \cup {NoCard, Unplugged}] /\ x.changes \in 0..MaxSwaps
        /\ slot = x.slot /\ swaps = MaxSwaps - x.changes
        /\ \/ x \in GuiStarts /\ GuiInit(x)
           \/ x \in CliStarts /\ CliInit(x)
  BY WindowAssumption DEF Init, GuiInit, CliInit
<1>2. swaps \in 0..MaxSwaps /\ swaps \in Nat
  BY <1>1, BoundAssumption
<1>3. Quiet
  BY DEF Init
<1>4. \E who, opts : StartedAs(who, opts)
  <2>1. CASE GuiInit(x)
    <3>1. StartedAs("inspection", InspectOptions)
      BY <2>1, Zenon DEF GuiInit, StartedAs
    <3>2. QED
      BY <3>1
  <2>2. CASE CliInit(x)
    <3>1. StartedAs("cli", x.opts)
      BY <2>2, Zenon DEF CliInit, StartedAs
    <3>2. QED
      BY <3>1
  <2>3. QED
    BY <1>1, <2>1, <2>2
<1>5. PICK who, opts : StartedAs(who, opts)
  BY <1>4
<1>6. pairing \in {"off", "idle"} /\ clicks \in 0..MaxClicks
  <2>1. CASE x \in GuiStarts /\ GuiInit(x)
    BY <2>1, WindowAssumption DEF GuiInit
  <2>2. CASE x \in CliStarts /\ CliInit(x)
    BY <2>2, WindowAssumption DEF CliInit
  <2>3. QED
    BY <1>1, <2>1, <2>2
<1>7. RunsInv
  <2>1. managed = [p \in Processes |-> <<>>]
    BY <1>3 DEF Quiet
  <2>2. ASSUME NEW p \in Processes PROVE RunInv(chk[p]) /\ Met(chk[p]) /\ Listing(managed[p], chk[p])
    <3>1. chk[p] = Called(opts) \/ chk[p] = Idle
      BY <1>5, <2>2 DEF StartedAs
    <3>2. RunInv(chk[p]) /\ Met(chk[p])
      BY <1>2, <3>1, CalledInv, IdleInv, Zenon
    <3>3. managed[p] = <<>>
      BY <2>1
    <3>4. QED
      BY <3>2, <3>3, OnceEmpty DEF Listing
  <2>3. chk = [p \in Processes |-> chk[p]]
    BY <1>5 DEF StartedAs
  <2>4. managed = [p \in Processes |-> managed[p]]
    BY <2>1
  <2>5. QED
    BY <1>1, <1>2, <2>2, <2>3, <2>4 DEF RunsInv
<1>8. results = <<>> /\ posted = <<>> /\ pairs = <<>> /\ signer = <<>> /\ misdirected = {}
      /\ monitor = [pc |-> "start", baseline |-> <<>>, seen |-> 0]
  BY <1>3 DEF Quiet
<1>9. WinInv(win) /\ (win.in_flight <=> who = "inspection")
  <2>1. /\ WinForm(win) /\ win.cards = <<>> /\ win.shown = 0 /\ win.documents = 0 /\ win.form = Absent
        /\ win.pdf_pin2 = Absent /\ win.displayed_serial = Absent /\ win.in_flight = (who = "inspection")
    <3>1. CASE who = "inspection" /\ win = [Closed EXCEPT !.open = TRUE, !.busy = TRUE, !.in_flight = TRUE]
      BY <3>1 DEF WinForm, Closed
    <3>2. CASE who = "cli" /\ win = Closed
      BY <3>2 DEF WinForm, Closed
    <3>3. QED
      BY <1>5, <3>1, <3>2 DEF StartedAs
  <2>2. ListedOnce(<<>>) /\ Len(<<>>) = 0
    BY ListEmpty DEF ListedOnce
  <2>3. Typed(win) /\ Selected(win) /\ Imaged(win)
    BY <2>1 DEF Typed, Selected, Imaged
  <2>4. win.documents \in 0..MaxDocuments /\ win.shown \in 0..Len(win.cards)
    BY <2>1, <2>2, WindowAssumption
  <2>5. QED
    BY <2>1, <2>2, <2>3, <2>4 DEF WinInv
<1>10. FlightInv
  <2>1. chk["inspection"].pc = "idle" <=> who # "inspection"
    <3>1. chk["inspection"] = IF who = "inspection" THEN Called(opts) ELSE Idle
      BY <1>5, WorldAssumption DEF StartedAs
    <3>2. CASE who = "inspection"
      <4>1. chk["inspection"] = Called(opts)
        BY <3>1, <3>2
      <4>2. chk["inspection"].pc = "load"
        BY <1>2, <4>1, CalledInv, Zenon
      <4>3. QED
        BY <3>2, <4>2
    <3>3. CASE who # "inspection"
      <4>1. chk["inspection"] = Idle
        BY <3>1, <3>3
      <4>2. chk["inspection"].pc = "idle"
        BY <4>1, IdleFields, Zenon
      <4>3. QED
        BY <3>3, <4>2
    <3>4. QED
      BY <3>2, <3>3
  <2>2. QED
    BY <1>8, <1>9, <2>1, ListEmpty DEF FlightInv
<1>11. PairsInv
  BY <1>8, ListEmpty DEF PairsInv
<1>12. ThreadsInv
  BY <1>6, <1>8, ListEmpty DEF ThreadsInv
<1>13. QED
  BY <1>6, <1>7, <1>9, <1>10, <1>11, <1>12 DEF GuiInv

\* Every step keeps the invariant.
LEMMA StepInv ==
    ASSUME GuiInv, clicks \in 0..MaxClicks, [Next]_vars
    PROVE  GuiInv' /\ clicks' \in 0..MaxClicks
<1>1. CASE UNCHANGED vars
  <2>1. /\ win' = win /\ posted' = posted /\ results' = results /\ managed' = managed /\ monitor' = monitor
        /\ signer' = signer /\ pairing' = pairing /\ pairs' = pairs /\ misdirected' = misdirected
        /\ slot' = slot /\ swaps' = swaps /\ chk' = chk /\ clicks' = clicks
    BY <1>1 DEF vars, guiVars
  <2>2. RunsInv' /\ FlightInv' /\ PairsInv' /\ ThreadsInv'
    BY <2>1, RunsKept, FlightKept, PairsKept, ThreadsKept DEF GuiInv
  <2>3. QED
    BY <2>1, <2>2 DEF GuiInv
<1>2. CASE clicks < MaxClicks /\ User /\ clicks' = clicks + 1
  <2>1. clicks' \in 0..MaxClicks
    BY <1>2, WindowAssumption
  <2>2. GuiInv'
    BY <1>2, RefreshInv, ShowingInv, SubmitInv, ActivateInv, SignPdfInv, StartPairingInv, LoadImagesInv, Zenon DEF User
  <2>3. QED
    BY <2>1, <2>2
<1>3. CASE Progress /\ clicks' = clicks
  <2>1. ASSUME NEW p \in Processes, CheckSteps(p) \/ Deduplicate(p) PROVE GuiInv'
    BY <2>1, CheckStepsInv, DeduplicateInv, Zenon
  <2>2. ASSUME SendResult \/ RefreshEnds \/ ReceiveResult PROVE GuiInv'
    BY <2>2, SendResultInv, RefreshEndsInv, ReceiveResultInv, Zenon
  <2>3. ASSUME Monitor PROVE GuiInv'
    BY <2>3, MonitorInv, Zenon
  <2>4. ASSUME RunPosted \/ ReceiveSigned \/ \E i \in DOMAIN signer : RunPdfSigning(i) PROVE GuiInv'
    BY <2>4, RunPostedInv, RunPdfSigningInv, ReceiveSignedInv, Zenon
  <2>5. GuiInv'
    BY <1>3, <2>1, <2>2, <2>3, <2>4, Zenon DEF Progress, Inspections
  <2>6. QED
    BY <1>3, <2>5
<1>4. CASE SwapCard /\ clicks' = clicks
  BY <1>4, SwapCardInv
<1>5. CASE PairingFails /\ clicks' = clicks
  BY <1>5, PairingFailsInv
<1>6. CASE (\E n \in DOMAIN Phones : PairingSucceeds(Phones[n])) /\ clicks' = clicks
  BY <1>6, PairingSucceedsInv
<1>7. QED
  BY <1>1, <1>2, <1>3, <1>4, <1>5, <1>6, Zenon DEF Next

LEMMA InvariantHolds == Spec => [](GuiInv /\ clicks \in 0..MaxClicks)
<1>1. Init => GuiInv /\ clicks \in 0..MaxClicks
  BY StartInv
<1>2. (GuiInv /\ clicks \in 0..MaxClicks) /\ [Next]_vars => (GuiInv /\ clicks \in 0..MaxClicks)'
  BY StepInv
<1>3. QED
  BY <1>1, <1>2, PTL DEF Spec

\* What the invariant says of the reports.
LEMMA InvariantReports ==
    ASSUME GuiInv
    PROVE  ReportFaithful
<1>1. RunsInv
  BY DEF GuiInv
<1>2. CheckTypeOK
  <2>1. ASSUME NEW p \in Processes
        PROVE  /\ chk[p].pc \in {"idle", "load", "probe", "probe access", "next", "done"} \cup SectionSteps \cup {"emrtd"}
               /\ chk[p].s.channel \in {"plain", "secure", "ended"}
               /\ chk[p].err # "" => chk[p].out = <<>>
    <3>1. RunPhase(chk[p]) /\ RunSession(chk[p])
      BY <1>1 DEF RunsInv, RunInv
    <3>2. QED
      BY <3>1 DEF RunPhase, RunSession
  <2>2. QED
    BY <1>1, <2>1 DEF RunsInv, CheckTypeOK
<1>3. ReportOfItsCards
  <2>1. \A since, r : MetIn(since, slot, swaps, r) = Seen(since, r)
    BY DEF MetIn, Seen
  <2>2. ASSUME NEW p \in Processes PROVE OutMet(chk[p].out, chk[p].since, slot, swaps)
    BY <1>1 DEF RunsInv, Met, RunCards
  <2>3. QED
    BY <2>1, <2>2, Zenon DEF ReportOfItsCards, OutMet
<1>4. ChannelKept
  <2>1. ASSUME NEW p \in Processes PROVE chk[p].s.channel # "ended"
    BY <1>1, <2>1 DEF RunsInv, RunInv, RunSession
  <2>2. QED
    BY <2>1 DEF ChannelKept
<1>5. QED
  BY <1>2, <1>3, <1>4 DEF ReportFaithful
\* And of the window.
LEMMA InvariantWindow ==
    ASSUME GuiInv, clicks \in 0..MaxClicks
    PROVE  WindowFollowsCard
<1>1. FlightInv /\ WinInv(win) /\ ThreadsInv
  BY DEF GuiInv
<1>2. TypeOK
  <2>1. Range(posted) \subseteq {"presence", "paired", "not paired"}
    BY <1>1 DEF ThreadsInv, Range
  <2>2. QED
    BY <1>1, <2>1 DEF TypeOK, WinInv, ThreadsInv, FlightInv
<1>3. PresentedToItsCard
  BY <1>1 DEF ThreadsInv, PresentedToItsCard
<1>4. TypedForDisplayed
  BY <1>1 DEF WinInv, Typed, TypedForDisplayed
<1>5. SelectionConsistent
  BY <1>1 DEF WinInv, Selected, SerialShown, SelectionConsistent
<1>6. ImagesOfListedCard
  BY <1>1 DEF WinInv, Imaged, CachedImage, ImagesOfListedCard
<1>7. OneInspection
  BY <1>1 DEF FlightInv, OneInspection
<1>8. QED
  BY <1>2, <1>3, <1>4, <1>5, <1>6, <1>7 DEF WindowFollowsCard

\* check_all: however cards are taken out and put in while the readers are
\* gone through, by the inspection thread, the event loop and `card` alike,
\* the token information, counters, flags and certificates of a report are of
\* one card, which without PACE is the card whose ATR and EF.CardAccess it
\* shows; its identity is of one card and its travel document of one, perhaps
\* others; all of it is of the card in that reader when none was exchanged.
\* Reading a card never ends the secure channel.
THEOREM ReportFaithfulHolds == Spec => []ReportFaithful
<1>1. GuiInv => ReportFaithful
  BY InvariantReports
<1>2. QED
  BY <1>1, InvariantHolds, PTL
\* The event loop of main.rs: over every interleaving of inspections, presence
\* events, signing jobs, pairings, clicks and exchanges of cards, the PIN or
\* PUK of a change, an unblocking or a signature goes only to the card it was
\* typed for (the codes of an activation, which compares no serial, are not
\* meant), what is selected, shown and pictured is of one listed card, and
\* there is one inspection at a time.
THEOREM WindowFollowsCardHolds == Spec => []WindowFollowsCard
<1>1. GuiInv /\ clicks \in 0..MaxClicks => WindowFollowsCard
  BY InvariantWindow
<1>2. QED
  BY <1>1, InvariantHolds, PTL
=============================================================================
