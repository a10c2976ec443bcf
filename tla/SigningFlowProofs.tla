------------------------- MODULE SigningFlowProofs -------------------------
(***************************************************************************)
(* Proofs about one signing: where a typed PIN goes, which requests reach  *)
(* the card at all, and what is in the file that is written.               *)
(***************************************************************************)
EXTENDS SigningFlow, SequenceTheorems, FiniteSetTheorems, WellFoundedInduction, TLAPS

(***************************************************************************)
(* The inductive invariant                                                 *)
(***************************************************************************)

\* The stages before the PIN is sent, those after the serial number was
\* compared, and those in which the result of the card is final.
BeforeVerify == {"policy", "open", "select", "reset", "pace", "cert", "serial", "plan", "scheme", "verify"}
Compared == {"plan", "scheme", "verify"}
KeyStages == {"serial", "plan", "scheme", "verify", "dispatch", "sign", "check"}
Final == {"stamp", "await", "pause", "archive", "await archive", "pause archive", "write", "done"}
Attempts == [card : Cards, left : 0..Tries, right : BOOLEAN, doc : 1..MaxDocs]

FlowType ==
    /\ run.stage \in Stages
    /\ run.doc \in 1..MaxDocs
    /\ card.in \in Cards
    /\ tries \in [Cards -> 0..Tries]
    /\ sent \in Seq(Attempts)
    /\ DOMAIN disk = 1..MaxDocs
    /\ status \in [1..MaxDocs -> {"none", "B", "T", "LT", "LTA"}]
    /\ clock \in 0..MaxClock
    /\ foreign \in 0..MaxForeign
Shape ==
    /\ DOMAIN run = DOMAIN NoRun
    /\ DOMAIN card = {"in", "vol"} /\ DOMAIN card.vol = DOMAIN Cold

\* What every request that got as far as a PIN satisfies: the graphical
\* client's names the card on display, the command line's passes the policy.
GoodRequest(r) ==
    /\ r.origin \in {"cli", "gui"}
    /\ r.kind \in {"document", "bare", "decrypt", "library"}
    /\ r.slot \in {"Auth", "Sign"}
    /\ r.docs \in 1..MaxDocs
    /\ r.origin = "gui" => r.kind = "document" /\ r.expected = <<Info[Displayed].serial>>
    /\ r.origin = "cli" => r.docs = 1 /\ (r.kind = "document" => validate_signing_policy(r) = "")
    /\ r.kind = "library" => r.op \in LibraryOps
    /\ r.kind # "document" => ~r.long_term /\ ~r.archive
RequestInv ==
    /\ PinTyped => GoodRequest(req)
    /\ ~PinTyped => /\ req.origin # "gui" /\ sent = <<>>
                    /\ run.stage \in {"idle", "failed"}
                    /\ \A d \in 1..MaxDocs : disk[d] = None
    /\ run.stage = "idle" => ~PinTyped /\ card.vol.data = 0
    /\ req.origin = "cli" => run.doc = 1

\* No PIN was sent while the session may still be run again, and after the
\* serial numbers were compared the card is the one on display.
PinInv ==
    /\ PinTyped /\ req.origin = "cli" =>
         /\ Len(sent) <= 1
         /\ run.stage \in BeforeVerify \/ (run.stage = "failed" /\ run.err = "NeedCan") => sent = <<>>
    /\ PinTyped /\ req.origin = "gui" =>
         /\ \A i \in DOMAIN sent : sent[i].card = Displayed
         /\ run.stage \in Compared => card.in = Displayed

\* The result that belongs into the file of document d for request r.
Digest(alg, d) == [alg |-> alg, of |-> <<"octets", d>>]
RightResult(r, d, sig, key) ==
    CASE r.kind = "decrypt" -> sig[4] = RSA_3072_SIG_BYTES + 1
      [] r.kind = "library" ->
           /\ sig[3] = KeyRefByte[r.slot]
           /\ IF r.op[1] = "raw" THEN sig[4] = r.op[2] ELSE sig[4] = Digest(r.op[2], 1)
      [] OTHER -> /\ sig[3] = KeyRefByte[r.slot] /\ key[2] = r.slot
                  /\ sig[4].of = <<"octets", d>>
                  /\ sig[4].alg = document_signer(Info[key[1]].key)

\* What the commands of a program do to the card's state: they set the key,
\* give the hash, ask for its signature, or carry octets.
Extended(cmd) == cmd.stage = "PSO:CDS extended"
SetsAnyKey(cmd) == cmd.p1p2[1] = 65 /\ ~Extended(cmd)
SetsKey(cmd, slot) == SetsAnyKey(cmd) /\ cmd.body[2].value = KeyRefByte[slot]
GivesHash(cmd, h) == cmd.p1p2[1] # 65 /\ cmd.p1p2 = <<144, 160>> /\ cmd.body[1].value = h /\ ~Extended(cmd)
AsksSignature(cmd) == cmd.stage = "PSO:CDS" /\ cmd.body = <<>>
Carries(cmd, n) ==
    /\ cmd.p1p2[1] # 65 /\ cmd.p1p2 # <<144, 160>> /\ cmd.stage # "PSO:CDS"
    /\ cmd.body # <<>> /\ cmd.body[1].len = n
CarryBoth(first, second, n) ==
    /\ ~Extended(first) /\ ~Extended(second)
    /\ first.body[1].len \in Nat
    /\ Carries(first, first.body[1].len) /\ Carries(second, n - first.body[1].len)

\* How far a program p that nobody else disturbs has come, and what the card
\* holds then: of a decryption, of a raw signature over n octets and of the
\* signature over a hash.
DecryptProgram(p, vol, n) ==
    \/ Len(p) = 3 /\ SetsAnyKey(p[1]) /\ CarryBoth(p[2], p[3], n) /\ vol.data = 0
    \/ Len(p) = 2 /\ CarryBoth(p[1], p[2], n) /\ vol.data = 0
    \/ Len(p) = 1 /\ Carries(p[1], n - vol.data) /\ ~Extended(p[1]) /\ vol.data \in Nat
KeySet(vol, slot) == vol.mse[3] = KeyRefByte[slot]
RawProgram(p, vol, slot, n) ==
    \/ Len(p) = 2 /\ SetsKey(p[1], slot) /\ Carries(p[2], n) /\ vol.data = 0
    \/ Len(p) = 2 /\ CarryBoth(p[1], p[2], n) /\ vol.data = 0 /\ KeySet(vol, slot)
    \/ /\ Len(p) = 1 /\ Carries(p[1], n - vol.data) /\ vol.data \in Nat /\ KeySet(vol, slot)
       /\ Extended(p[1]) => vol.data = 0
HashProgram(p, vol, slot, h) ==
    \/ Len(p) = 3 /\ SetsKey(p[1], slot) /\ GivesHash(p[2], h) /\ AsksSignature(p[3])
    \/ Len(p) = 2 /\ GivesHash(p[1], h) /\ AsksSignature(p[2]) /\ KeySet(vol, slot)
    \/ Len(p) = 1 /\ AsksSignature(p[1]) /\ KeySet(vol, slot) /\ vol.hash[1] = h
OnItsWay(r, p, vol) ==
    /\ p \in Seq(Range(p))
    /\ r.kind = "decrypt" => DecryptProgram(p, vol, RSA_3072_SIG_BYTES + 1)
    /\ r.kind = "library" /\ r.op[1] = "raw" => RawProgram(p, vol, r.slot, r.op[2])
    /\ r.kind = "library" /\ r.op[1] # "raw" => HashProgram(p, vol, r.slot, Digest(r.op[2], 1))

\* The files are right, the result of a run is once it is final, and until
\* then an undisturbed program is on its way to it.
Undisturbed == req.kind \in {"decrypt", "library"}
FileInv ==
    /\ \A d \in 1..MaxDocs : disk[d] # None => RightResult(req, d, disk[d][1].sig, disk[d][1].key)
    /\ run.stage \in Final => RightResult(req, run.doc, run.sig, run.key)
    /\ run.stage \in KeyStages /\ ~Undisturbed =>
         run.key[2] = req.slot
    /\ PinTyped /\ Undisturbed =>
         /\ run.stage \in BeforeVerify \cup {"dispatch"} => Vol.data = 0
         /\ run.stage = "failed" /\ run.err = "NeedCan" => Vol.data = 0
         /\ run.stage = "sign" => OnItsWay(req, run.program, Vol)
         /\ run.stage # "check"

FlowInv == FlowType /\ Shape /\ RequestInv /\ PinInv /\ FileInv

(***************************************************************************)
(* Requests                                                                *)
(***************************************************************************)

WithPin(q, pin, r) == r = [q EXCEPT !.pin = pin]
\* Every request a client makes is a good one, or carries the error it is
\* refused with.
LEMMA OneDocument == 1 \in 1..MaxDocs
  BY SigningAssumption

\* Every command line names one of the two slots.
LEMMA FlagsSlot == \A f \in Flags : f.slot \in {"Auth", "Sign"}
  BY DEF Flags

\* SignDocumentArgs::resolve: what is not refused there passes the policy
\* later.
LEMMA ResolvedGood ==
    ASSUME NEW f \in Flags, NEW pin \in Pins, NEW q, q = resolve(f), q.err = "", NEW r, WithPin(q, pin, r)
    PROVE  GoodRequest(r) /\ r.pin = pin
<1>1. /\ resolve_levels(f).err = "" 
      /\ check_level_is_reachable(resolve_levels(f).long_term, Len(expand_authority(f.timestamps, f.no_timestamp)))
  BY DEF resolve
<1>2. /\ r.origin = "cli" /\ r.kind = "document" /\ r.slot = f.slot /\ r.docs = 1 /\ r.pin = pin
      /\ r.format = f.format /\ ~r.credentials
      /\ (r.long_term <=> resolve_levels(f).long_term) /\ (r.archive <=> resolve_levels(f).archive)
      /\ r.authorities = expand_authority(f.timestamps, f.no_timestamp)
  BY <1>1 DEF resolve, WithPin
<1>3. /\ resolve_levels(f).archive => resolve_levels(f).long_term
      /\ resolve_levels(f).archive => Archivable(f.format)
  BY <1>1 DEF resolve_levels
<1>4. requires_long_term_material(r) => r.authorities # <<>>
  <2>1. requires_long_term_material(r) => resolve_levels(f).long_term
    BY <1>2, <1>3, Zenon DEF requires_long_term_material
  <2>2. resolve_levels(f).long_term => Len(r.authorities) # 0
    BY <1>1, <1>2, Zenon DEF check_level_is_reachable
  <2> QED
    BY <2>1, <2>2
<1>5. validate_signing_policy(r) = ""
  BY <1>2, <1>3, <1>4 DEF validate_signing_policy
<1>6. f.slot \in {"Auth", "Sign"}
  BY FlagsSlot, Zenon
<1> QED
  BY <1>2, <1>5, <1>6, OneDocument DEF GoodRequest

\* The requests for a bare signature and a decryption are good ones.
LEMMA BareGood ==
    ASSUME NEW kind \in {"bare", "decrypt"}, NEW slot \in {"Auth", "Sign"}, NEW save \in BOOLEAN, NEW can \in BOOLEAN,
           NEW pin \in Pins,
           NEW q, q = BareRequest(kind, slot, save, can), NEW r, WithPin(q, pin, r)
    PROVE  GoodRequest(r) /\ r.pin = pin
<1>1. /\ r.origin = "cli" /\ r.kind = kind /\ r.slot = slot /\ r.docs = 1 /\ r.pin = pin
      /\ r.long_term = FALSE /\ r.archive = FALSE
  BY DEF BareRequest, WithPin
<1>3. CASE kind = "bare"
  BY <1>1, <1>3, OneDocument DEF GoodRequest
<1>4. CASE kind = "decrypt"
  BY <1>1, <1>4, OneDocument DEF GoodRequest
<1> QED
  BY <1>3, <1>4

\* The requests of a program that calls the signing trait are good ones.
LEMMA LibraryGood ==
    ASSUME NEW op \in LibraryOps, NEW slot \in {"Auth", "Sign"}, NEW pin \in Pins,
           NEW q, q = LibraryRequest(op, slot), NEW r, WithPin(q, pin, r)
    PROVE  GoodRequest(r) /\ r.pin = pin
<1>1. /\ r.origin = "cli" /\ r.kind = "library" /\ r.slot = slot /\ r.docs = 1 /\ r.pin = pin /\ r.op = op
      /\ r.long_term = FALSE /\ r.archive = FALSE
  BY DEF LibraryRequest, BareRequest, WithPin
<1> QED
  BY <1>1, SigningAssumption DEF GoodRequest

\* The requests of the graphical client name the card on display.
LEMMA GuiGood ==
    ASSUME NEW format, NEW cred \in BOOLEAN, NEW https \in BOOLEAN, NEW pin \in Pins,
           NEW q, q = GuiRequest(format, MaxDocs, cred, https), NEW r, WithPin(q, pin, r)
    PROVE  GoodRequest(r) /\ r.pin = pin
<1>1. /\ r.origin = "gui" /\ r.kind = "document" /\ r.slot = "Sign" /\ r.pin = pin
      /\ r.docs \in {1, MaxDocs} /\ r.expected = <<Info[Displayed].serial>>
  BY DEF GuiRequest, WithPin
<1> QED
  BY <1>1, SigningAssumption DEF GoodRequest

(***************************************************************************)
(* Programs                                                                *)
(***************************************************************************)

\* Sequences written out.
LEMMA OwnRange ==
    ASSUME NEW S, NEW p \in Seq(S)
    PROVE  p \in Seq(Range(p))
  BY DEF Range

\* A sequence of two elements.
LEMMA Pair ==
    ASSUME NEW x, NEW y, NEW p, p = <<x, y>>
    PROVE  p \in Seq(Range(p)) /\ Len(p) = 2 /\ p[1] = x /\ p[2] = y
<1>1. p \in Seq({x, y})
  OBVIOUS
<1> QED
  BY <1>1, OwnRange

\* A sequence of three elements.
LEMMA Triple ==
    ASSUME NEW x, NEW y, NEW z, NEW p, p = <<x, y, z>>
    PROVE  p \in Seq(Range(p)) /\ Len(p) = 3 /\ p[1] = x /\ p[2] = y /\ p[3] = z
<1>1. p \in Seq({x, y, z})
  OBVIOUS
<1> QED
  BY <1>1, OwnRange
JoinsTwo(p, x, y) == p = <<x>> \o <<y>>

\* Two sequences of one element joined.
LEMMA JoinedPair ==
    ASSUME NEW x, NEW y, NEW p, JoinsTwo(p, x, y)
    PROVE  p \in Seq(Range(p)) /\ Len(p) = 2 /\ p[1] = x /\ p[2] = y
<1> DEFINE S == {x, y}
<1>1. /\ <<x>> \in Seq(S) /\ Len(<<x>>) = 1 /\ <<x>>[1] = x
      /\ <<y>> \in Seq(S) /\ Len(<<y>>) = 1 /\ <<y>>[1] = y
  OBVIOUS
<1> HIDE DEF S
<1>2. p \in Seq(S) /\ Len(p) = 2
  BY <1>1, ConcatProperties DEF JoinsTwo
<1>3. p[1] = x /\ p[2] = y
  BY <1>1, ConcatProperties DEF JoinsTwo
<1> QED
  BY <1>2, <1>3, OwnRange
JoinsThree(p, x, y, z) == p = <<x>> \o <<y, z>>

\* A sequence of one element joined with one of two.
LEMMA JoinedTriple ==
    ASSUME NEW x, NEW y, NEW z, NEW p, JoinsThree(p, x, y, z)
    PROVE  p \in Seq(Range(p)) /\ Len(p) = 3 /\ p[1] = x /\ p[2] = y /\ p[3] = z
<1> DEFINE S == {x, y, z}
<1>1. /\ <<x>> \in Seq(S) /\ Len(<<x>>) = 1 /\ <<x>>[1] = x
      /\ <<y, z>> \in Seq(S) /\ Len(<<y, z>>) = 2 /\ <<y, z>>[1] = y /\ <<y, z>>[2] = z
  OBVIOUS
<1> HIDE DEF S
<1>2. p \in Seq(S) /\ Len(p) = 3
  BY <1>1, ConcatProperties DEF JoinsThree
<1>3. p[1] = x /\ p[2] = y
  BY <1>1, ConcatProperties DEF JoinsThree
<1>4. p[3] = z
  BY <1>1, ConcatProperties DEF JoinsThree
<1> QED
  BY <1>2, <1>3, <1>4, OwnRange

\* The program of a decryption carries the padded ciphertext in two commands.
LEMMA DecryptStarts ==
    ASSUME NEW r, r.kind = "decrypt", NEW vol, vol.data = 0,
           NEW p, p = decrypt_rsa_pkcs1("Auth", RSA_3072_SIG_BYTES)
    PROVE  p.err = "" /\ OnItsWay(r, p.commands, vol)
<1> DEFINE m == mse_set_ct(RSASSA_PKCS1_V1_5, "Auth")
           a == PsoDecipher("PSO:DECIPHER chunk 1/2", 0, 192, TRUE)
           b == PsoDecipher("PSO:DECIPHER chunk 2/2", 192, 193, FALSE)
<1>1. pso_decipher(384) = <<a, b>>
  BY DEF pso_decipher, Halves, MAX_SHORT
<1>2. SetsAnyKey(m)
  BY DEF SetsAnyKey, Extended, mse_set_ct, mse_set, Command
<1>3. CarryBoth(a, b, 385)
  BY DEF CarryBoth, Carries, Extended, PsoDecipher, Command, DataObject
<1>4. p.err = "" /\ p.commands = <<m>> \o <<a, b>>
  BY <1>1, ZenonT(60) DEF decrypt_rsa_pkcs1, RSA_3072_SIG_BYTES, Program
<1> HIDE DEF m, a, b
<1>5. PICK x, y, z, c : x = m /\ y = a /\ z = b /\ c = p.commands
  OBVIOUS
<1>6. c \in Seq(Range(c)) /\ Len(c) = 3 /\ c[1] = x /\ c[2] = y /\ c[3] = z
  <2>1. JoinsThree(c, x, y, z)
    BY <1>4, <1>5, Zenon DEF JoinsThree
  <2> QED
    BY <2>1, JoinedTriple
<1>7. DecryptProgram(c, vol, 385)
  BY <1>2, <1>3, <1>5, <1>6 DEF DecryptProgram
<1> QED
  <2>1. RSA_3072_SIG_BYTES + 1 = 385
    BY DEF RSA_3072_SIG_BYTES
  <2> QED
    BY <1>4, <1>5, <1>6, <1>7, <2>1 DEF OnItsWay

\* The program for a signature over a hash sets the key, gives the hash and
\* asks for the signature.
LEMMA HashStarts ==
    ASSUME NEW r, r.kind = "library", r.op[1] # "raw", NEW vol, NEW signature, NEW le, NEW expect,
           NEW p, p = SignHash(signature, r.slot, Digest(r.op[2], 1), le, expect)
    PROVE  p.err = "" /\ OnItsWay(r, p.commands, vol)
<1> DEFINE h == Digest(r.op[2], 1)
           m == mse_set_dst(SignatureAlgRef(h.alg, signature), r.slot)
           a == pso_hash_external(h)
           b == pso_cds_empty(le)
<1>1. SetsKey(m, r.slot)
  BY DEF SetsKey, SetsAnyKey, Extended, mse_set_dst, mse_set, Command, DataObject
<1>2. GivesHash(a, h)
  BY DEF GivesHash, Extended, pso_hash_external, PsoHash, PsoHashBody, Command, DataObject
<1>3. AsksSignature(b)
  BY DEF AsksSignature, pso_cds_empty, Command
<1>4. p.err = "" /\ p.commands = <<m, a, b>>
  BY DEF SignHash, Program
<1> HIDE DEF h, m, a, b
<1>5. PICK x, y, z, c : x = m /\ y = a /\ z = b /\ c = p.commands
  OBVIOUS
<1>6. c \in Seq(Range(c)) /\ Len(c) = 3 /\ c[1] = x /\ c[2] = y /\ c[3] = z
  <2>1. c = <<x, y, z>>
    BY <1>4, <1>5, Zenon
  <2> QED
    BY <2>1, Triple, Zenon
<1>7. HashProgram(c, vol, r.slot, h)
  BY <1>1, <1>2, <1>3, <1>5, <1>6 DEF HashProgram
<1> QED
  BY <1>4, <1>5, <1>6, <1>7 DEF OnItsWay, h

\* A command that sets the key, then one with all the octets: a raw
\* signature's program.
LEMMA RawJoined ==
    ASSUME NEW c, NEW x, NEW a, NEW vol, vol.data = 0, NEW slot, NEW n,
           SetsKey(x, slot), Carries(a, n), JoinsTwo(c, x, a)
    PROVE  c \in Seq(Range(c)) /\ RawProgram(c, vol, slot, n)
<1>1. c \in Seq(Range(c)) /\ Len(c) = 2 /\ c[1] = x /\ c[2] = a
  BY JoinedPair
<1> QED
  BY <1>1 DEF RawProgram

\* sign_rsa_raw starts such a program, or refuses the number of octets.
LEMMA RawStarts ==
    ASSUME NEW r, r.kind = "library", r.op[1] = "raw", r.op[2] \in Nat, NEW vol, vol.data = 0,
           NEW p, p = sign_rsa_raw(r.slot, r.op[2])
    PROVE  p.err # "NeedCan" /\ (p.err = "" => OnItsWay(r, p.commands, vol))
<1> DEFINE n == r.op[2]
           m == IF r.slot = "Auth" THEN mse_set_at(RSA_PKCS1_RAW, r.slot) ELSE mse_set_dst(RSA_PKCS1_RAW, r.slot)
<1>1. SetsKey(m, r.slot)
  BY DEF SetsKey, SetsAnyKey, Extended, mse_set_dst, mse_set_at, mse_set, Command, DataObject
<1>2. PICK a : pso_cds_with_data(n) = <<a>> /\ Carries(a, n)
  <2> DEFINE a1 == Command("PSO:CDS data", PsoCds, FALSE, <<DataObject(0, n, <<0, n>>)>>, 0)
             a2 == Command("PSO:CDS extended", PsoCds, FALSE, <<DataObject(0, n, <<0, n>>)>>, 0)
  <2>1. Carries(a1, n) /\ Carries(a2, n)
    BY DEF Carries, Command, DataObject, PsoCds
  <2>2. pso_cds_with_data(n) \in {<<a1>>, <<a2>>}
    BY DEF pso_cds_with_data
  <2> QED
    BY <2>1, <2>2
<1>3. p.err # "NeedCan" /\ (p.err = "" => p.commands = <<m>> \o <<a>>)
  BY <1>2 DEF sign_rsa_raw, Program, Refused
<1> HIDE DEF n, m
<1>4. PICK x, c : x = m /\ c = p.commands
  OBVIOUS
<1>5. p.err = "" => JoinsTwo(c, x, a)
  BY <1>3, <1>4, Zenon DEF JoinsTwo
<1>6. p.err = "" => c \in Seq(Range(c)) /\ RawProgram(c, vol, r.slot, n)
  BY <1>1, <1>2, <1>4, <1>5, RawJoined, Zenon
<1> QED
  BY <1>3, <1>4, <1>6 DEF OnItsWay, n

\* The two halves an extended command is repeated in carry its octets.
LEMMA HalvesCarry ==
    ASSUME NEW n \in Nat, NEW p, p = CdsHalves(n)
    PROVE  /\ p.err # "NeedCan"
           /\ p.err = "" => \E a, b : /\ p.commands = <<a, b>>
                                      /\ CarryBoth(a, b, n)
<1> DEFINE a == Command("PSO:CDS chunk 1/2", PsoCds, TRUE, <<DataObject(0, n \div 2, <<0, n \div 2>>)>>, NoLe)
           b == Command("PSO:CDS chunk 2/2", PsoCds, FALSE,
                        <<DataObject(0, n - n \div 2, <<n \div 2, n \div 2 + (n - n \div 2)>>)>>, 0)
<1>1. CarryBoth(a, b, n)
  BY DEF CarryBoth, Carries, Extended, Command, DataObject, PsoCds
<1>2. p.err # "NeedCan" /\ (p.err = "" => p.commands = <<a, b>>)
  BY DEF CdsHalves, Halves, Program, Refused
<1> QED
  BY <1>1, <1>2

\* What the methods of the signing trait start.
LEMMA LibraryStarts ==
    ASSUME NEW r, r.kind = "library", r.op \in LibraryOps, run.doc = 1, NEW vol, vol.data = 0,
           NEW p, p = LibraryProgram(r.op, r.slot)
    PROVE  p.err # "NeedCan" /\ (p.err = "" => OnItsWay(r, p.commands, vol))
<1>1. \/ r.op[1] = "raw" /\ r.op[2] \in Nat
      \/ r.op[1] \in {"RsaPkcs1V1_5", "RsaPss", "Ecdsa", "P256"}
  BY DEF LibraryOps, MAX_SHORT, RSA_3072_SIG_BYTES, MAX_EXTENDED
<1>2. Hash(r.op[2]) = Digest(r.op[2], 1)
  BY DEF Hash, Digest
<1>3. CASE r.op[1] = "raw"
  BY <1>1, <1>3, RawStarts DEF LibraryProgram
<1>4. CASE r.op[1] = "RsaPkcs1V1_5"
  BY <1>2, <1>4, HashStarts DEF LibraryProgram, sign_pre_hashed_rsa_pkcs1
<1>5. CASE r.op[1] = "RsaPss"
  BY <1>2, <1>5, HashStarts DEF LibraryProgram, sign_pre_hashed_rsa_pss
<1>6. CASE r.op[1] = "Ecdsa"
  BY <1>2, <1>6, HashStarts DEF LibraryProgram, sign_pre_hashed_ecdsa_p384
<1>7. CASE r.op[1] = "P256"
  BY <1>2, <1>7, HashStarts DEF LibraryProgram, sign_pre_hashed_sha256_ecdsa_p256
<1> QED
  BY <1>1, <1>3, <1>4, <1>5, <1>6, <1>7

(***************************************************************************)
(* Steps                                                                   *)
(***************************************************************************)

\* What may follow in a run and on its card without the invariant being lost,
\* as long as nothing else changes.
MayRunAgain(r) == r.stage \in BeforeVerify \/ (r.stage = "failed" /\ r.err = "NeedCan")
Allowed(r, c) ==
    /\ DOMAIN r = DOMAIN NoRun /\ r.stage \in Stages \ {"idle"} /\ r.doc = run.doc
    /\ DOMAIN c = {"in", "vol"} /\ DOMAIN c.vol = DOMAIN Cold /\ c.in = card.in
    /\ MayRunAgain(r) => MayRunAgain(run)
    /\ r.stage \in Compared /\ req.origin = "gui" => card.in = Displayed
    /\ r.stage \in Final => RightResult(req, run.doc, r.sig, r.key)
    /\ r.stage \in KeyStages /\ ~Undisturbed => r.key[2] = req.slot
    /\ Undisturbed =>
         /\ r.stage \in BeforeVerify \cup {"dispatch"} => c.vol.data = 0
         /\ r.stage = "failed" /\ r.err = "NeedCan" => c.vol.data = 0
         /\ r.stage = "sign" => OnItsWay(req, r.program, c.vol)
         /\ r.stage # "check"

\* An allowed step of run and card, with all else unchanged, keeps the
\* invariant.
LEMMA AllowedKeeps ==
    ASSUME FlowInv, PinTyped, Rest, Allowed(run', card')
    PROVE  FlowInv'
<1>1. PinTyped' /\ (Undisturbed' <=> Undisturbed)
  BY DEF PinTyped, Rest, Undisturbed
<1>2. FlowType'
  BY DEF FlowInv, FlowType, Rest, Allowed
<1>3. Shape'
  BY DEF Allowed, Shape
<1>4. RequestInv'
  BY <1>1 DEF FlowInv, RequestInv, Rest, Allowed
<1>5. PinInv'
  BY <1>1 DEF FlowInv, PinInv, Rest, Allowed, MayRunAgain
<1>6. FileInv'
  BY <1>1 DEF FlowInv, FileInv, Rest, Allowed, KeyStages, Vol
<1> QED
  BY <1>2, <1>3, <1>4, <1>5, <1>6 DEF FlowInv

\* The fields there are to change.
LEMMA Fields ==
    ASSUME Shape
    PROVE  /\ {"stage", "doc", "err", "can", "reran", "program", "expect", "sig", "key", "scheme", "at",
               "nonce", "asked", "tokens", "material", "archive", "answer"} = DOMAIN run
           /\ {"app", "sm", "verified", "mse", "hash", "data", "stale"} = DOMAIN card.vol
           /\ "in" \in DOMAIN card /\ "vol" \in DOMAIN card
  BY DEF Shape, NoRun, Cold

\* A run that ends in an error other than a missing CAN is allowed.
LEMMA FailAllowed ==
    ASSUME FlowInv, PinTyped, NEW err, err # "NeedCan", FailWith(err), UNCHANGED card
    PROVE  Allowed(run', card')
<1>1. /\ DOMAIN run' = DOMAIN run /\ run'.stage = "failed" /\ run'.err = err /\ run'.doc = run.doc
  BY Fields DEF FlowInv, FailWith
<1> QED
  BY <1>1 DEF FlowInv, Shape, Allowed, MayRunAgain, BeforeVerify, Compared, Final, KeyStages, Stages

\* The stages up to the PIN.
LEMMA TypedAt ==
    ASSUME FlowInv, run.stage \notin {"idle", "failed"}
    PROVE  PinTyped /\ GoodRequest(req) /\ run.stage \in Stages
  BY DEF FlowInv, FlowType, RequestInv

\* The policy keeps the invariant and refuses no request of the command line.
LEMMA PolicyKeeps ==
    ASSUME FlowInv, Policy
    PROVE  FlowInv' /\ (req.origin = "cli" => run'.stage # "failed")
<1>1. run.stage = "policy" /\ UNCHANGED card /\ Rest
  BY DEF Policy
<1>2. PinTyped /\ GoodRequest(req)
  BY <1>1, TypedAt
<1>3. req.origin = "cli" => run'.stage = "open"
  BY <1>1, <1>2, Fields DEF Policy, GoodRequest, Step, FlowInv
<1>4. CASE run'.stage = "open"
  <2>1. DOMAIN run' = DOMAIN run /\ run'.doc = run.doc
    BY <1>1, <1>4, Fields DEF Policy, Step, FailWith, FlowInv
  <2>2. Undisturbed => card.vol.data = 0
    BY <1>1, <1>2 DEF FlowInv, FileInv, BeforeVerify, Vol
  <2>3. Allowed(run', card')
    BY <1>1, <1>4, <2>1, <2>2
       DEF FlowInv, Shape, Allowed, MayRunAgain, BeforeVerify, Compared, Final, KeyStages, Stages
  <2> QED
    BY <1>1, <1>2, <1>4, <2>3, AllowedKeeps
<1>5. CASE run'.stage # "open"
  <2>1. PICK err : err # "NeedCan" /\ FailWith(err)
    <3> DEFINE e == IF req.kind = "document" THEN validate_signing_policy(req) ELSE ""
    <3>1. FailWith(e)
      BY <1>5, Fields DEF Policy, Step, FlowInv
    <3>2. e # "NeedCan"
      BY DEF validate_signing_policy
    <3> QED
      BY <3>1, <3>2
  <2> QED
    BY <1>1, <1>2, <1>3, <1>5, <2>1, FailAllowed, AllowedKeeps
<1> QED
  BY <1>3, <1>4, <1>5

\* A step of the session that changes the card's volatile state at most, and
\* no octets it holds, goes from one stage before the PIN to another.
LEMMA SessionAllowed ==
    ASSUME FlowInv, PinTyped, run.stage \in BeforeVerify, DOMAIN run' = DOMAIN run, run'.doc = run.doc,
           run'.stage \in BeforeVerify \ Compared \/ (run'.stage = "failed" /\ run'.err = "NeedCan"),
           run'.stage \in KeyStages /\ ~Undisturbed => run'.key[2] = req.slot,
           card'.in = card.in, DOMAIN card' = {"in", "vol"}, DOMAIN card'.vol = DOMAIN card.vol,
           card'.vol.data = 0 \/ card'.vol.data = card.vol.data
    PROVE  Allowed(run', card')
<1>1. Undisturbed => card'.vol.data = 0
  BY DEF FlowInv, FileInv, Vol
<1> QED
  BY <1>1 DEF FlowInv, Shape, Allowed, MayRunAgain, BeforeVerify, Compared, Final, KeyStages, Stages

\* A step to the next stage changes the stage alone.
LEMMA StepShape ==
    ASSUME FlowInv, NEW next, Step(next)
    PROVE  /\ DOMAIN run' = DOMAIN run /\ run'.doc = run.doc /\ run'.stage = next
           /\ run'.key = run.key /\ run'.sig = run.sig /\ run'.program = run.program /\ run'.err = run.err
  BY Fields DEF Step, FlowInv

\* A change of the card's volatile state leaves the card in the reader.
LEMMA VolatileShape ==
    ASSUME FlowInv, NEW v, DOMAIN v = DOMAIN card.vol, Volatile(v)
    PROVE  card'.in = card.in /\ DOMAIN card' = {"in", "vol"} /\ card'.vol = v
  BY Fields DEF Volatile, FlowInv, Shape

\* open_session keeps the invariant.
LEMMA OpenSessionKeeps ==
    ASSUME FlowInv, NEW outcome \in {"ok", "Transport"}, OpenSession(outcome)
    PROVE  FlowInv'
<1>1. run.stage = "open" /\ Rest
  BY DEF OpenSession
<1>2. PinTyped
  BY <1>1, TypedAt
<1>3. CASE outcome = "ok"
  <2>1. PICK v : v = [card.vol EXCEPT !.stale = FALSE]
    OBVIOUS
  <2>2. Step("select") /\ Volatile(v)
    BY <1>3, <2>1 DEF OpenSession, Vol
  <2>3. DOMAIN v = DOMAIN card.vol /\ v.data = card.vol.data
    BY <2>1, Fields DEF FlowInv
  <2> QED
    BY <1>1, <1>2, <2>2, <2>3, StepShape, VolatileShape, SessionAllowed, AllowedKeeps
       DEF BeforeVerify, Compared, KeyStages
<1>4. CASE outcome # "ok"
  BY <1>1, <1>2, <1>4, FailAllowed, AllowedKeeps DEF OpenSession
<1> QED
  BY <1>3, <1>4

\* SELECT keeps the invariant, whether it succeeds, fails or asks for a CAN.
LEMMA SelectApplicationKeeps ==
    ASSUME FlowInv, SelectApplication
    PROVE  FlowInv'
<1>1. run.stage = "select" /\ Rest
  BY DEF SelectApplication
<1>2. PinTyped
  BY <1>1, TypedAt
<1>3. PICK v : v = [card.vol EXCEPT !.app = TRUE]
  OBVIOUS
<1>4. DOMAIN v = DOMAIN card.vol /\ v.data = card.vol.data
  BY <1>3, Fields DEF FlowInv
<1>5. \/ \E err \in {"CertUnavailable", "Pkcs15Select"} : FailWith(err) /\ UNCHANGED card
      \/ Volatile(v) /\ Undisturbed /\ Step("scheme")
      \/ Volatile(v) /\ ~Undisturbed /\ Step("cert")
      \/ UNCHANGED card /\ Step("reset")
      \/ UNCHANGED card /\ FailWith("NeedCan")
  BY <1>3 DEF SelectApplication, Undisturbed, Vol
<1>6. CASE \E err \in {"CertUnavailable", "Pkcs15Select"} : FailWith(err) /\ UNCHANGED card
  BY <1>1, <1>2, <1>6, FailAllowed, AllowedKeeps
<1>7. CASE Volatile(v) /\ Undisturbed /\ Step("scheme")
  <2>1. card'.vol.data = 0 /\ req.origin # "gui"
    <3>1. card.vol.data = 0
      BY <1>1, <1>2, <1>7 DEF FlowInv, FileInv, BeforeVerify, Vol
    <3>2. req.origin # "gui"
      BY <1>1, <1>7, TypedAt DEF GoodRequest, Undisturbed
    <3> QED
      BY <1>4, <1>7, <3>1, <3>2, VolatileShape
  <2>2. DOMAIN run' = DOMAIN NoRun /\ run'.doc = run.doc /\ run'.stage = "scheme"
    BY <1>7, StepShape DEF FlowInv, Shape
  <2>3. card'.in = card.in /\ DOMAIN card' = {"in", "vol"} /\ DOMAIN card'.vol = DOMAIN Cold
    BY <1>4, <1>7, VolatileShape DEF FlowInv, Shape
  <2>4. Allowed(run', card')
    BY <1>1, <1>7, <2>1, <2>2, <2>3
       DEF Allowed, MayRunAgain, BeforeVerify, Compared, Final, KeyStages, Stages
  <2> QED
    BY <1>1, <1>2, <2>4, AllowedKeeps
<1>8. CASE Volatile(v) /\ ~Undisturbed /\ Step("cert")
  BY <1>1, <1>2, <1>4, <1>8, StepShape, VolatileShape, SessionAllowed, AllowedKeeps
     DEF BeforeVerify, Compared, KeyStages
<1>9. CASE UNCHANGED card /\ Step("reset")
  BY <1>1, <1>2, <1>9, StepShape, SessionAllowed, AllowedKeeps DEF BeforeVerify, Compared, KeyStages, FlowInv, Shape
<1>10. CASE UNCHANGED card /\ FailWith("NeedCan")
  <2>1. DOMAIN run' = DOMAIN run /\ run'.doc = run.doc /\ run'.stage = "failed" /\ run'.err = "NeedCan"
    BY <1>10, Fields DEF FailWith, FlowInv
  <2> QED
    BY <1>1, <1>2, <1>10, <2>1, SessionAllowed, AllowedKeeps DEF BeforeVerify, KeyStages, FlowInv, Shape
<1> QED
  BY <1>5, <1>6, <1>7, <1>8, <1>9, <1>10

\* Only a run that could not open the session without a CAN starts over, and
\* no PIN was sent in it.
LEMMA RerunKeeps ==
    ASSUME FlowInv, Rerun
    PROVE  FlowInv'
<1>1. run.stage = "failed" /\ PinTyped /\ Rest /\ UNCHANGED card /\ req.origin = "cli" /\ run.err = "NeedCan"
  BY DEF Rerun, may_rerun
<1>2. DOMAIN run' = DOMAIN NoRun /\ run'.stage = "policy" /\ run'.doc = 1
  BY DEF Rerun, NoRun
<1>3. run.doc = 1 /\ (Undisturbed => card.vol.data = 0)
  BY <1>1 DEF FlowInv, RequestInv, FileInv, Vol
<1>4. Allowed(run', card')
  BY <1>1, <1>2, <1>3
     DEF FlowInv, Shape, Allowed, MayRunAgain, BeforeVerify, Compared, Final, KeyStages, Stages
<1> QED
  BY <1>1, <1>4, AllowedKeeps

\* The reset before PACE leaves no octets of a chain on the card.
LEMMA ResetCardKeeps ==
    ASSUME FlowInv, ResetCard
    PROVE  FlowInv'
<1>1. run.stage = "reset" /\ Rest /\ Volatile(Cold) /\ Step("pace")
  BY DEF ResetCard
<1>2. DOMAIN Cold = DOMAIN card.vol /\ Cold.data = 0
  BY DEF FlowInv, Shape, Cold
<1> QED
  BY <1>1, <1>2, TypedAt, StepShape, VolatileShape, SessionAllowed, AllowedKeeps
     DEF BeforeVerify, Compared, KeyStages

\* PACE keeps the invariant.
LEMMA PaceKeeps ==
    ASSUME FlowInv, NEW outcome \in {"ok", "Pace"}, Pace(outcome)
    PROVE  FlowInv'
<1>1. run.stage = "pace" /\ Rest
  BY DEF Pace
<1>2. PinTyped
  BY <1>1, TypedAt
<1>3. PICK v : v = [Cold EXCEPT !.sm = TRUE, !.app = TRUE]
  OBVIOUS
<1>4. DOMAIN v = DOMAIN card.vol /\ v.data = 0
  BY <1>3 DEF Cold, FlowInv, Shape
<1>5. (FailWith("Pace") /\ UNCHANGED card) \/ (Volatile(v) /\ Step("cert"))
  BY <1>3 DEF Pace
<1>6. CASE FailWith("Pace") /\ UNCHANGED card
  BY <1>1, <1>2, <1>6, FailAllowed, AllowedKeeps
<1>7. CASE Volatile(v) /\ Step("cert")
  BY <1>1, <1>2, <1>4, <1>7, StepShape, VolatileShape, SessionAllowed, AllowedKeeps
     DEF BeforeVerify, Compared, KeyStages
<1> QED
  BY <1>5, <1>6, <1>7

\* The certificate that is read is the one of the slot asked for.
LEMMA ReadCertificateKeeps ==
    ASSUME FlowInv, NEW outcome \in {"ok", "unreadable"}, ReadCertificate(outcome)
    PROVE  FlowInv'
<1>1. run.stage = "cert" /\ Rest /\ UNCHANGED card
  BY DEF ReadCertificate
<1>2. PinTyped /\ GoodRequest(req)
  BY <1>1, TypedAt
<1>3. \/ FailWith("CertUnavailable")
      \/ run' = [run EXCEPT !.key = <<card.in, req.slot>>, !.stage = IF req.kind = "document" THEN "serial" ELSE "scheme"]
  BY DEF ReadCertificate
<1>4. CASE FailWith("CertUnavailable")
  BY <1>1, <1>2, <1>4, FailAllowed, AllowedKeeps
<1>5. CASE run' = [run EXCEPT !.key = <<card.in, req.slot>>,
                              !.stage = IF req.kind = "document" THEN "serial" ELSE "scheme"]
  <2>1. /\ DOMAIN run' = DOMAIN run /\ run'.doc = run.doc /\ run'.key = <<card.in, req.slot>>
        /\ run'.stage = IF req.kind = "document" THEN "serial" ELSE "scheme"
    BY <1>5, Fields DEF FlowInv
  <2>2. run'.stage = "scheme" => req.origin # "gui"
    BY <1>2, <2>1 DEF GoodRequest
  <2>3. Undisturbed => card.vol.data = 0
    BY <1>1, <1>2 DEF FlowInv, FileInv, BeforeVerify, Vol
  <2>4. Allowed(run', card')
    BY <1>1, <2>1, <2>2, <2>3
       DEF FlowInv, Shape, Allowed, MayRunAgain, BeforeVerify, Compared, Final, KeyStages, Stages
  <2> QED
    BY <1>1, <1>2, <2>4, AllowedKeeps
<1> QED
  BY <1>3, <1>4, <1>5

\* After the serial number was compared, a card for the graphical client is
\* the one on display.
LEMMA CheckDisplayedCardKeeps ==
    ASSUME FlowInv, CheckDisplayedCard
    PROVE  FlowInv'
<1>1. run.stage = "serial" /\ Rest /\ UNCHANGED card
  BY DEF CheckDisplayedCard
<1>2. PinTyped /\ GoodRequest(req)
  BY <1>1, TypedAt
<1>3. \/ FailWith("DisplayedCard")
      \/ Step("plan") /\ ensure_displayed_card(req, Info[card.in].serial) = ""
  BY DEF CheckDisplayedCard, ensure_displayed_card
<1>4. CASE FailWith("DisplayedCard")
  BY <1>1, <1>2, <1>4, FailAllowed, AllowedKeeps
<1>5. CASE Step("plan") /\ ensure_displayed_card(req, Info[card.in].serial) = ""
  <2>1. req.origin = "gui" => card.in = Displayed
    <3> SUFFICES ASSUME req.origin = "gui" PROVE card.in = Displayed
      OBVIOUS
    <3>1. req.expected = <<Info[Displayed].serial>>
      BY <1>2 DEF GoodRequest
    <3>2. req.expected # None
      BY <3>1 DEF None
    <3>3. <<Info[card.in].serial>> = req.expected
      BY <1>5, <3>2 DEF ensure_displayed_card
    <3>4. Info[card.in].serial = Info[Displayed].serial
      BY <3>1, <3>3
    <3> QED
      BY <3>4, SigningAssumption DEF FlowInv, FlowType
  <2>2. run'.key = run.key /\ (~Undisturbed => run.key[2] = req.slot)
    BY <1>1, <1>5, StepShape DEF FlowInv, FileInv, KeyStages
  <2>3. Undisturbed => card.vol.data = 0
    BY <1>1, <1>2 DEF FlowInv, FileInv, BeforeVerify, Vol
  <2>5. DOMAIN run' = DOMAIN run /\ run'.doc = run.doc /\ run'.stage = "plan"
    BY <1>5, StepShape
  <2>4. Allowed(run', card')
    BY <1>1, <2>1, <2>2, <2>3, <2>5
       DEF FlowInv, Shape, Allowed, MayRunAgain, BeforeVerify, Compared, Final, KeyStages, Stages
  <2> QED
    BY <1>1, <1>2, <2>4, AllowedKeeps
<1> QED
  BY <1>3, <1>4, <1>5

\* From one stage after the comparison to another.
LEMMA ComparedAllowed ==
    ASSUME FlowInv, PinTyped, run.stage \in Compared, UNCHANGED card,
           DOMAIN run' = DOMAIN run, run'.doc = run.doc, run'.key = run.key, run'.stage \in Compared
    PROVE  Allowed(run', card')
<1>1. req.origin = "gui" => card.in = Displayed
  BY DEF FlowInv, PinInv
<1>2. ~Undisturbed => run.key[2] = req.slot
  BY DEF FlowInv, FileInv, KeyStages, Compared
<1>3. Undisturbed => card.vol.data = 0
  BY DEF FlowInv, FileInv, BeforeVerify, Compared, Vol
<1> QED
  BY <1>1, <1>2, <1>3
     DEF FlowInv, Shape, Allowed, MayRunAgain, BeforeVerify, Compared, Final, KeyStages, Stages

\* Planning the document keeps the invariant.
LEMMA PlanDocumentKeeps ==
    ASSUME FlowInv, NEW outcome \in {"ok", "Document"}, PlanDocument(outcome)
    PROVE  FlowInv'
<1>1. run.stage = "plan" /\ Rest /\ UNCHANGED card
  BY DEF PlanDocument
<1>2. PinTyped
  BY <1>1, TypedAt
<1>3. (\E err \in {"UnsupportedDocumentKey", "Document"} : FailWith(err)) \/ Step("scheme")
  BY DEF PlanDocument
<1>4. CASE \E err \in {"UnsupportedDocumentKey", "Document"} : FailWith(err)
  BY <1>1, <1>2, <1>4, FailAllowed, AllowedKeeps
<1>5. CASE Step("scheme")
  BY <1>1, <1>2, <1>5, StepShape, ComparedAllowed, AllowedKeeps DEF Compared
<1> QED
  BY <1>3, <1>4, <1>5

\* Resolving the PIN reference scheme keeps the invariant.
LEMMA ResolveSchemeKeeps ==
    ASSUME FlowInv, ResolveScheme
    PROVE  FlowInv'
<1>1. run.stage = "scheme" /\ Rest /\ UNCHANGED card
  BY DEF ResolveScheme
<1>2. PinTyped
  BY <1>1, TypedAt
<1>3. PICK s : s = IF req.kind = "decrypt" THEN "Citizen" ELSE Info[card.in].scheme
  OBVIOUS
<1>4. FailWith("Transport") \/ run' = [run EXCEPT !.scheme = s, !.stage = "verify"]
  BY <1>3, Zenon DEF ResolveScheme
<1>5. CASE FailWith("Transport")
  BY <1>1, <1>2, <1>5, FailAllowed, AllowedKeeps
<1>6. CASE run' = [run EXCEPT !.scheme = s, !.stage = "verify"]
  <2>1. DOMAIN run' = DOMAIN run /\ run'.doc = run.doc /\ run'.key = run.key /\ run'.stage = "verify"
    BY <1>6, Fields DEF FlowInv
  <2> QED
    BY <1>1, <1>2, <2>1, ComparedAllowed, AllowedKeeps DEF Compared
<1> QED
  BY <1>4, <1>5, <1>6

\* The PIN is sent: by the command line for the first time, by the graphical
\* client to the card on display.
LEMMA VerifyPinKeeps ==
    ASSUME FlowInv, VerifyPin
    PROVE  FlowInv'
<1>1. run.stage = "verify" /\ UNCHANGED <<req, disk, status, clock, foreign>>
  BY DEF VerifyPin
<1>2. PinTyped /\ GoodRequest(req)
  BY <1>1, TypedAt
<1>3. CASE UNCHANGED sent
  <2>1. (FailWith("PinPolicy") \/ FailWith("Transport")) /\ UNCHANGED <<card, tries, sent>>
    <3>1. PICK a : a = [card |-> card.in, left |-> tries[card.in], right |-> req.pin = "right", doc |-> run.doc]
      OBVIOUS
    <3>2. sent \in Seq(Attempts)
      BY DEF FlowInv, FlowType
    <3>3. sent # Append(sent, a)
      BY <3>2
    <3> QED
      BY <1>3, <3>1, <3>3 DEF VerifyPin
  <2>2. Rest
    BY <1>1, <2>1 DEF Rest
  <2> QED
    BY <1>2, <2>1, <2>2, FailAllowed, AllowedKeeps
<1>4. CASE ~UNCHANGED sent
  <2>1. PICK a : a = [card |-> card.in, left |-> tries[card.in], right |-> req.pin = "right", doc |-> run.doc]
    OBVIOUS
  <2>2. PICK v : v = [card.vol EXCEPT !.verified = @ \cup {req.slot}]
    OBVIOUS
  <2>3. PICK n : n = IF tries[card.in] > 0 THEN tries[card.in] - 1 ELSE 0
    OBVIOUS
  <2>4. /\ sent' = Append(sent, a)
        /\ \/ Volatile(v) /\ tries' = [tries EXCEPT ![card.in] = Tries] /\ Step("dispatch")
           \/ tries' = [tries EXCEPT ![card.in] = n] /\ FailWith("PinRejected") /\ UNCHANGED card
    BY <1>4, <2>1, <2>2, <2>3 DEF VerifyPin, Vol
  <2>5. a \in Attempts /\ a.card = card.in
    BY <2>1 DEF FlowInv, FlowType, Attempts
  <2>6. sent \in Seq(Attempts) /\ sent' \in Seq(Attempts) /\ Len(sent') = Len(sent) + 1
        /\ \A i \in DOMAIN sent' : sent'[i] = a \/ (i \in DOMAIN sent /\ sent'[i] = sent[i])
    BY <2>4, <2>5 DEF FlowInv, FlowType
  <2>7. tries' \in [Cards -> 0..Tries]
    BY <2>3, <2>4, SigningAssumption DEF FlowInv, FlowType
  <2>8. DOMAIN v = DOMAIN card.vol /\ v.data = card.vol.data
    BY <2>2, Fields DEF FlowInv
  <2>9. /\ DOMAIN run' = DOMAIN run /\ run'.doc = run.doc /\ run'.key = run.key
        /\ run'.stage = "dispatch" \/ (run'.stage = "failed" /\ run'.err = "PinRejected")
    BY <2>4, StepShape, Fields DEF FailWith, FlowInv
  <2>10. card'.in = card.in /\ DOMAIN card' = {"in", "vol"} /\ DOMAIN card'.vol = DOMAIN card.vol
         /\ card'.vol.data = card.vol.data
    BY <2>4, <2>8, VolatileShape DEF FlowInv, Shape
  <2>11. PinTyped' /\ (Undisturbed' <=> Undisturbed)
    BY <1>1, <1>2 DEF PinTyped, Undisturbed
  <2>12. FlowType'
    BY <1>1, <2>6, <2>7, <2>9, <2>10 DEF FlowInv, FlowType, Stages
  <2>13. Shape'
    BY <2>9, <2>10 DEF FlowInv, Shape
  <2>14. RequestInv'
    BY <1>1, <1>2, <2>9, <2>11 DEF FlowInv, RequestInv
  <2>15. PinInv'
    <3>1. req.origin = "cli" => Len(sent') <= 1
      BY <1>1, <1>2, <2>6 DEF FlowInv, PinInv, BeforeVerify
    <3>2. req.origin = "gui" => \A i \in DOMAIN sent' : sent'[i].card = Displayed
      BY <1>1, <1>2, <2>5, <2>6 DEF FlowInv, PinInv, Compared
    <3> QED
      BY <1>1, <2>9, <3>1, <3>2 DEF PinInv, BeforeVerify, Compared
  <2>16. FileInv'
    <3>1. ~Undisturbed => run'.key[2] = req.slot
      BY <1>1, <2>9 DEF FlowInv, FileInv, KeyStages
    <3>2. Undisturbed => card'.vol.data = 0
      BY <1>1, <1>2, <2>10 DEF FlowInv, FileInv, BeforeVerify, Vol
    <3> QED
      BY <1>1, <2>9, <2>11, <3>1, <3>2 DEF FlowInv, FileInv, BeforeVerify, Final, Vol
  <2> QED
    BY <2>12, <2>13, <2>14, <2>15, <2>16 DEF FlowInv
<1> QED
  BY <1>3, <1>4

(***************************************************************************)
(* The signature                                                           *)
(***************************************************************************)

\* No refusal of a program is taken for a missing CAN.
LEMMA DispatchErrors ==
    ASSUME NEW key, NEW scheme, NEW slot, NEW p, p = sign_dispatch_by_alg(key, scheme, slot)
    PROVE  p.err # "NeedCan"
<1>1. \A e : Refused(e).err = e
  BY DEF Refused
<1>2. \A c, x : Program(c, x).err = ""
  BY DEF Program
<1>3. CASE key = "Rsa"
  BY <1>2, <1>3 DEF sign_dispatch_by_alg, sign_pre_hashed_sha256_rsa, SignHash,
                    sign_pre_hashed_sha256_rsa_hash_in_command
<1>4. CASE key = "P384"
  BY <1>2, <1>4 DEF sign_dispatch_by_alg, sign_pre_hashed_sha384_ecdsa_p384, SignHash
<1>5. CASE key \notin {"Rsa", "P384"}
  BY <1>1, <1>5 DEF sign_dispatch_by_alg
<1> QED
  BY <1>3, <1>4, <1>5

\* The program that is chosen is on its way to the right result.
LEMMA DispatchKeeps ==
    ASSUME FlowInv, Dispatch
    PROVE  FlowInv'
<1>1. run.stage = "dispatch" /\ Rest /\ UNCHANGED card
  BY DEF Dispatch
<1>2. PinTyped /\ GoodRequest(req)
  BY <1>1, TypedAt
<1>3. PICK p : p = CASE req.kind = "decrypt" -> decrypt_rsa_pkcs1("Auth", RSA_3072_SIG_BYTES)
                     [] req.kind = "library" -> LibraryProgram(req.op, req.slot)
                     [] OTHER -> sign_dispatch_by_alg(Info[card.in].key, run.scheme, req.slot)
  OBVIOUS
<1>4. IF p.err # "" THEN FailWith(p.err)
      ELSE run' = [run EXCEPT !.stage = "sign", !.program = p.commands, !.expect = p.expect]
  BY <1>3, Zenon DEF Dispatch
<1>5. p.err # "NeedCan" /\ (p.err = "" /\ Undisturbed => OnItsWay(req, p.commands, card.vol))
  <2>1. CASE req.kind = "decrypt"
    <3>1. p = decrypt_rsa_pkcs1("Auth", RSA_3072_SIG_BYTES)
      BY <1>3, <2>1
    <3>2. card.vol.data = 0
      BY <1>1, <1>2, <2>1 DEF FlowInv, FileInv, Undisturbed, Vol
    <3> QED
      BY <2>1, <3>1, <3>2, DecryptStarts
  <2>2. CASE req.kind = "library"
    <3>1. p = LibraryProgram(req.op, req.slot)
      BY <1>3, <2>2
    <3>2. card.vol.data = 0
      BY <1>1, <1>2, <2>2 DEF FlowInv, FileInv, Undisturbed, Vol
    <3>3. req.op \in LibraryOps /\ run.doc = 1
      BY <1>2, <2>2 DEF FlowInv, RequestInv, GoodRequest
    <3> QED
      BY <2>2, <3>1, <3>2, <3>3, LibraryStarts
  <2>3. CASE ~Undisturbed
    <3>1. p = sign_dispatch_by_alg(Info[card.in].key, run.scheme, req.slot)
      BY <1>3, <2>3 DEF Undisturbed
    <3> QED
      BY <2>3, <3>1, DispatchErrors
  <2> QED
    BY <2>1, <2>2, <2>3 DEF Undisturbed
<1>6. CASE p.err # ""
  BY <1>1, <1>2, <1>4, <1>5, <1>6, FailAllowed, AllowedKeeps
<1>7. CASE p.err = ""
  <2>1. /\ DOMAIN run' = DOMAIN run /\ run'.stage = "sign" /\ run'.doc = run.doc /\ run'.key = run.key
        /\ run'.program = p.commands
    BY <1>4, <1>7, Fields DEF FlowInv
  <2>2. ~Undisturbed => run.key[2] = req.slot
    BY <1>1 DEF FlowInv, FileInv, KeyStages
  <2>3. Allowed(run', card')
    BY <1>1, <1>5, <1>7, <2>1, <2>2
       DEF FlowInv, Shape, Allowed, MayRunAgain, BeforeVerify, Compared, Final, KeyStages, Stages
  <2> QED
    BY <1>1, <1>2, <2>3, AllowedKeeps
<1> QED
  BY <1>6, <1>7

\* A command that is not the last one takes an undisturbed program on.
LEMMA CardRunsShape ==
    ASSUME NEW cmd, NEW vol, DOMAIN vol = DOMAIN Cold, NEW v, v = CardRuns(cmd, vol)
    PROVE  DOMAIN v = DOMAIN vol
<1>1. DOMAIN vol = {"app", "sm", "verified", "mse", "hash", "data", "stale"}
  BY DEF Cold
<1> QED
  BY <1>1 DEF CardRuns

\* What a command that sets the key does to the card.
LEMMA KeyCommand ==
    ASSUME NEW cmd, SetsAnyKey(cmd), NEW vol, DOMAIN vol = DOMAIN Cold, NEW v, v = CardRuns(cmd, vol)
    PROVE  v.data = vol.data /\ \A slot : SetsKey(cmd, slot) => KeySet(v, slot)
<1>1. DOMAIN vol = {"app", "sm", "verified", "mse", "hash", "data", "stale"}
  BY DEF Cold
<1>2. v = [vol EXCEPT !.mse = <<cmd.p1p2[2], cmd.body[1].value, cmd.body[2].value>>]
  BY DEF CardRuns, SetsAnyKey
<1>3. v.data = vol.data /\ v.mse = <<cmd.p1p2[2], cmd.body[1].value, cmd.body[2].value>>
  BY <1>1, <1>2
<1> QED
  BY <1>3 DEF SetsKey, KeySet

\* What a command that gives a hash does to the card.
LEMMA HashCommand ==
    ASSUME NEW cmd, NEW slot, NEW h, GivesHash(cmd, h), NEW vol, DOMAIN vol = DOMAIN Cold, KeySet(vol, slot),
           NEW v, v = CardRuns(cmd, vol)
    PROVE  KeySet(v, slot) /\ v.hash[1] = h
<1>1. DOMAIN vol = {"app", "sm", "verified", "mse", "hash", "data", "stale"}
  BY DEF Cold
<1>2. v = [vol EXCEPT !.hash = <<cmd.body[1].value>>]
  BY DEF CardRuns, GivesHash
<1>3. v.mse = vol.mse /\ v.hash = <<cmd.body[1].value>>
  BY <1>1, <1>2
<1> QED
  BY <1>3 DEF KeySet, GivesHash

\* What a command that carries octets does to the card.
LEMMA DataCommand ==
    ASSUME NEW cmd, NEW n, Carries(cmd, n), NEW vol, DOMAIN vol = DOMAIN Cold, NEW v, v = CardRuns(cmd, vol)
    PROVE  v.data = n + vol.data /\ v.mse = vol.mse
<1>1. DOMAIN vol = {"app", "sm", "verified", "mse", "hash", "data", "stale"}
  BY DEF Cold
<1>2. v = [vol EXCEPT !.data = (IF cmd.body = <<>> THEN 0 ELSE cmd.body[1].len) + @]
  BY DEF CardRuns, Carries
<1>3. cmd.body # <<>> /\ cmd.body[1].len = n
  BY DEF Carries
<1> QED
  BY <1>1, <1>2, <1>3

\* The rest of a program, command by command.
LEMMA TailOf ==
    ASSUME NEW p, p \in Seq(Range(p)), Len(p) \in {2, 3}
    PROVE  /\ Tail(p) \in Seq(Range(Tail(p))) /\ Len(Tail(p)) = Len(p) - 1
           /\ Tail(p)[1] = p[2] /\ (Len(p) = 3 => Tail(p)[2] = p[3])
           /\ Head(p) = p[1]
<1>1. /\ Tail(p) \in Seq(Range(p)) /\ Len(Tail(p)) = Len(p) - 1
      /\ Tail(p)[1] = p[2] /\ (Len(p) = 3 => Tail(p)[2] = p[3])
  BY SMTT(60)
<1>2. Head(p) = p[1]
  OBVIOUS
<1> QED
  BY <1>1, <1>2, OwnRange

\* Two commands left to carry n octets: after the first the second is left.
LEMMA FirstHalf ==
    ASSUME NEW n \in Nat, NEW p, p \in Seq(Range(p)), Len(p) = 2, CarryBoth(p[1], p[2], n),
           NEW vol, DOMAIN vol = DOMAIN Cold, vol.data = 0, NEW v, v = CardRuns(p[1], vol)
    PROVE  /\ v.data \in Nat /\ v.mse = vol.mse
           /\ Len(Tail(p)) = 1 /\ Carries(Tail(p)[1], n - v.data) /\ ~Extended(Tail(p)[1])
<1>1. PICK m : m = p[1].body[1].len
  OBVIOUS
<1>2. m \in Nat /\ Carries(p[1], m) /\ Carries(p[2], n - m) /\ ~Extended(p[2])
  BY <1>1 DEF CarryBoth
<1>3. v.data = m /\ v.mse = vol.mse
  <2>1. v.data = m + vol.data /\ v.mse = vol.mse
    BY <1>2, DataCommand
  <2> QED
    BY <1>2, <2>1
<1>4. Len(Tail(p)) = 1 /\ Tail(p)[1] = p[2]
  BY TailOf
<1> QED
  BY <1>2, <1>3, <1>4

\* A decryption that had one command more is still on its way.
LEMMA DecryptGoesOn ==
    ASSUME NEW n \in Nat, NEW p, p \in Seq(Range(p)), Len(p) # 1,
           NEW vol, DOMAIN vol = DOMAIN Cold, DecryptProgram(p, vol, n), NEW v, v = CardRuns(p[1], vol)
    PROVE  DecryptProgram(Tail(p), v, n)
<1>1. CASE Len(p) = 3 /\ SetsAnyKey(p[1]) /\ CarryBoth(p[2], p[3], n) /\ vol.data = 0
  <2>1. v.data = 0
    BY <1>1, KeyCommand
  <2>2. Len(Tail(p)) = 2 /\ Tail(p)[1] = p[2] /\ Tail(p)[2] = p[3]
    BY <1>1, TailOf
  <2> QED
    BY <1>1, <2>1, <2>2 DEF DecryptProgram
<1>2. CASE Len(p) = 2 /\ CarryBoth(p[1], p[2], n) /\ vol.data = 0
  BY <1>2, FirstHalf DEF DecryptProgram
<1> QED
  BY <1>1, <1>2 DEF DecryptProgram

\* So is a raw signature.
LEMMA RawGoesOn ==
    ASSUME NEW n \in Nat, NEW slot, NEW p, p \in Seq(Range(p)), Len(p) # 1,
           NEW vol, DOMAIN vol = DOMAIN Cold, RawProgram(p, vol, slot, n), NEW v, v = CardRuns(p[1], vol)
    PROVE  RawProgram(Tail(p), v, slot, n)
<1>1. CASE Len(p) = 2 /\ SetsKey(p[1], slot) /\ Carries(p[2], n) /\ vol.data = 0
  <2>1. v.data = 0 /\ KeySet(v, slot)
    BY <1>1, KeyCommand DEF SetsKey
  <2>2. Len(Tail(p)) = 1 /\ Tail(p)[1] = p[2]
    BY <1>1, TailOf
  <2>3. n - v.data = n /\ v.data \in Nat
    BY <2>1
  <2>4. Carries(Tail(p)[1], n - v.data)
    BY <1>1, <2>2, <2>3, Zenon
  <2> QED
    BY <2>1, <2>2, <2>3, <2>4, Zenon DEF RawProgram
<1>2. CASE Len(p) = 2 /\ CarryBoth(p[1], p[2], n) /\ vol.data = 0 /\ KeySet(vol, slot)
  BY <1>2, FirstHalf DEF RawProgram, KeySet
<1> QED
  BY <1>1, <1>2 DEF RawProgram

\* So is a signature over a hash.
LEMMA HashGoesOn ==
    ASSUME NEW h, NEW slot, NEW p, p \in Seq(Range(p)), Len(p) # 1,
           NEW vol, DOMAIN vol = DOMAIN Cold, HashProgram(p, vol, slot, h), NEW v, v = CardRuns(p[1], vol)
    PROVE  HashProgram(Tail(p), v, slot, h)
<1>1. CASE Len(p) = 3 /\ SetsKey(p[1], slot) /\ GivesHash(p[2], h) /\ AsksSignature(p[3])
  <2>1. KeySet(v, slot)
    BY <1>1, KeyCommand DEF SetsKey
  <2>2. Len(Tail(p)) = 2 /\ Tail(p)[1] = p[2] /\ Tail(p)[2] = p[3]
    BY <1>1, TailOf
  <2> QED
    BY <1>1, <2>1, <2>2 DEF HashProgram
<1>2. CASE Len(p) = 2 /\ GivesHash(p[1], h) /\ AsksSignature(p[2]) /\ KeySet(vol, slot)
  <2>1. KeySet(v, slot) /\ v.hash[1] = h
    BY <1>2, HashCommand
  <2>2. Len(Tail(p)) = 1 /\ Tail(p)[1] = p[2]
    BY <1>2, TailOf
  <2> QED
    BY <1>2, <2>1, <2>2 DEF HashProgram
<1> QED
  BY <1>1, <1>2 DEF HashProgram
RawOctets(r) == r.kind = "library" /\ r.op[1] = "raw" => r.op[2] \in Nat

\* An undisturbed program stays on its way when the card runs its first
\* command.
LEMMA GoesOn ==
    ASSUME NEW r, r.kind \in {"decrypt", "library"}, RawOctets(r), NEW p, Len(p) # 1,
           NEW vol, DOMAIN vol = DOMAIN Cold, OnItsWay(r, p, vol), NEW v, v = CardRuns(p[1], vol)
    PROVE  OnItsWay(r, Tail(p), v) /\ Head(p) = p[1]
<1>1. p \in Seq(Range(p)) /\ Len(p) \in {2, 3}
  BY DEF OnItsWay, DecryptProgram, RawProgram, HashProgram
<1>2. Tail(p) \in Seq(Range(Tail(p))) /\ Head(p) = p[1]
  BY <1>1, TailOf
<1>3. r.kind = "decrypt" => DecryptProgram(Tail(p), v, RSA_3072_SIG_BYTES + 1)
  <2>1. RSA_3072_SIG_BYTES + 1 \in Nat
    BY DEF RSA_3072_SIG_BYTES
  <2> QED
    BY <1>1, <2>1, DecryptGoesOn DEF OnItsWay
<1>4. r.kind = "library" /\ r.op[1] = "raw" => RawProgram(Tail(p), v, r.slot, r.op[2])
  BY <1>1, RawGoesOn DEF OnItsWay, RawOctets
<1>5. r.kind = "library" /\ r.op[1] # "raw" => HashProgram(Tail(p), v, r.slot, Digest(r.op[2], 1))
  BY <1>1, HashGoesOn DEF OnItsWay
<1> QED
  BY <1>2, <1>3, <1>4, <1>5 DEF OnItsWay

\* The last command of an undisturbed program gives the right result.
LEMMA EndsRight ==
    ASSUME NEW r, r.kind \in {"decrypt", "library"}, RawOctets(r), NEW p, Len(p) = 1,
           NEW vol, OnItsWay(r, p, vol), NEW sig, sig = Result(p[1], vol), NEW d, NEW key
    PROVE  RightResult(r, d, sig, key)
<1>1. sig[3] = vol.mse[3]
  BY DEF Result
<1>2. CASE r.kind = "decrypt"
  <2>1. Carries(p[1], 385 - vol.data) /\ vol.data \in Nat
    BY <1>2 DEF OnItsWay, DecryptProgram, RSA_3072_SIG_BYTES
  <2>2. sig[4] = vol.data + p[1].body[1].len
    BY <2>1 DEF Result, Carries
  <2>3. sig[4] = 385
    BY <2>1, <2>2 DEF Carries
  <2> QED
    BY <1>2, <2>3 DEF RightResult, RSA_3072_SIG_BYTES
<1>3. CASE r.kind = "library" /\ r.op[1] = "raw"
  <2>1. Carries(p[1], r.op[2] - vol.data) /\ vol.data \in Nat /\ KeySet(vol, r.slot) /\ r.op[2] \in Nat
    BY <1>3 DEF OnItsWay, RawProgram, RawOctets
  <2>2. sig[4] = vol.data + p[1].body[1].len
    BY <2>1 DEF Result, Carries
  <2>3. sig[4] = r.op[2]
    BY <2>1, <2>2 DEF Carries
  <2> QED
    BY <1>1, <1>3, <2>1, <2>3 DEF RightResult, KeySet
<1>4. CASE r.kind = "library" /\ r.op[1] # "raw"
  <2>1. AsksSignature(p[1]) /\ KeySet(vol, r.slot) /\ vol.hash[1] = Digest(r.op[2], 1)
    BY <1>4 DEF OnItsWay, HashProgram
  <2>2. sig[4] = vol.hash[1]
    BY <2>1 DEF Result, AsksSignature
  <2> QED
    BY <1>1, <1>4, <2>1, <2>2 DEF RightResult, KeySet
<1> QED
  BY <1>2, <1>3, <1>4

\* One command of the program keeps the invariant, whatever the card answers.
LEMMA SignExchangeKeeps ==
    ASSUME FlowInv, NEW length_ok \in BOOLEAN, SignExchange(length_ok)
    PROVE  FlowInv'
<1>1. run.stage = "sign" /\ Rest
  BY DEF SignExchange
<1>2. PinTyped /\ GoodRequest(req)
  BY <1>1, TypedAt
<1>3. /\ Undisturbed => OnItsWay(req, run.program, card.vol)
      /\ ~Undisturbed => run.key[2] = req.slot
  BY <1>1, <1>2 DEF FlowInv, FileInv, KeyStages, Vol
<1>4. RawOctets(req)
  BY <1>2 DEF GoodRequest, RawOctets, LibraryOps, MAX_SHORT, RSA_3072_SIG_BYTES, MAX_EXTENDED
<1>5. DOMAIN card.vol = DOMAIN Cold
  BY DEF FlowInv, Shape
<1>6. PICK cmd, next, clear, sig :
        /\ cmd = Head(run.program) /\ next = CardRuns(cmd, card.vol)
        /\ clear = [card.vol EXCEPT !.hash = None, !.data = 0] /\ sig = Result(cmd, card.vol)
  OBVIOUS
<1>7. DOMAIN next = DOMAIN card.vol /\ DOMAIN clear = DOMAIN card.vol
  BY <1>5, <1>6, CardRunsShape
<1>8. \/ FailWith("SignSw") /\ UNCHANGED card
      \/ Len(run.program) # 1 /\ run' = [run EXCEPT !.program = Tail(@)] /\ Volatile(next)
      \/ Len(run.program) = 1 /\ FailWith("UnexpectedSignatureLength") /\ Volatile(clear)
      \/ /\ Len(run.program) = 1 /\ Volatile(clear)
         /\ run' = [run EXCEPT !.sig = sig, !.program = <<>>,
                               !.stage = IF req.kind \in {"decrypt", "library"} THEN "write" ELSE "check"]
  BY <1>6 DEF SignExchange, Vol
<1>9. CASE FailWith("SignSw") /\ UNCHANGED card
  BY <1>1, <1>2, <1>9, FailAllowed, AllowedKeeps
<1>10. CASE Len(run.program) # 1 /\ run' = [run EXCEPT !.program = Tail(@)] /\ Volatile(next)
  <2>1. /\ DOMAIN run' = DOMAIN run /\ run'.doc = run.doc /\ run'.key = run.key /\ run'.stage = "sign"
        /\ run'.program = Tail(run.program)
    BY <1>1, <1>10, Fields DEF FlowInv
  <2>2. Undisturbed => OnItsWay(req, Tail(run.program), next)
    <3> SUFFICES ASSUME Undisturbed PROVE OnItsWay(req, Tail(run.program), next)
      OBVIOUS
    <3>1. PICK r, p, vol : r = req /\ p = run.program /\ vol = card.vol
      OBVIOUS
    <3>2. /\ r.kind \in {"decrypt", "library"} /\ RawOctets(r) /\ Len(p) # 1
          /\ DOMAIN vol = DOMAIN Cold /\ OnItsWay(r, p, vol)
      BY <1>3, <1>4, <1>5, <1>10, <3>1 DEF Undisturbed
    <3>3. PICK v : v = CardRuns(p[1], vol)
      OBVIOUS
    <3>4. OnItsWay(r, Tail(p), v) /\ Head(p) = p[1]
      BY <3>2, <3>3, GoesOn
    <3> QED
      BY <1>6, <3>1, <3>3, <3>4
  <2>3. card'.in = card.in /\ DOMAIN card' = {"in", "vol"} /\ card'.vol = next
    BY <1>7, <1>10, VolatileShape
  <2>4. Allowed(run', card')
    BY <1>1, <1>3, <1>5, <1>7, <2>1, <2>2, <2>3
       DEF FlowInv, Shape, Allowed, MayRunAgain, BeforeVerify, Compared, Final, KeyStages, Stages
  <2> QED
    BY <1>1, <1>2, <2>4, AllowedKeeps
<1>11. CASE Len(run.program) = 1 /\ FailWith("UnexpectedSignatureLength") /\ Volatile(clear)
  <2>1. /\ DOMAIN run' = DOMAIN run /\ run'.doc = run.doc /\ run'.stage = "failed"
        /\ run'.err = "UnexpectedSignatureLength"
    BY <1>11, Fields DEF FlowInv, FailWith
  <2>2. card'.in = card.in /\ DOMAIN card' = {"in", "vol"} /\ card'.vol = clear
    BY <1>7, <1>11, VolatileShape
  <2>3. Allowed(run', card')
    BY <1>5, <1>7, <2>1, <2>2
       DEF FlowInv, Shape, Allowed, MayRunAgain, BeforeVerify, Compared, Final, KeyStages, Stages
  <2> QED
    BY <1>1, <1>2, <2>3, AllowedKeeps
<1>12. CASE /\ Len(run.program) = 1 /\ Volatile(clear)
            /\ run' = [run EXCEPT !.sig = sig, !.program = <<>>,
                                  !.stage = IF req.kind \in {"decrypt", "library"} THEN "write" ELSE "check"]
  <2>1. /\ DOMAIN run' = DOMAIN run /\ run'.doc = run.doc /\ run'.key = run.key /\ run'.sig = sig
        /\ run'.stage = IF Undisturbed THEN "write" ELSE "check"
    BY <1>12, Fields DEF FlowInv, Undisturbed
  <2>2. card'.in = card.in /\ DOMAIN card' = {"in", "vol"} /\ card'.vol = clear
    BY <1>7, <1>12, VolatileShape
  <2>3. Undisturbed => RightResult(req, run.doc, run'.sig, run'.key)
    <3> SUFFICES ASSUME Undisturbed PROVE RightResult(req, run.doc, run'.sig, run'.key)
      OBVIOUS
    <3>1. PICK r, p, vol, d, key : r = req /\ p = run.program /\ vol = card.vol /\ d = run.doc /\ key = run'.key
      OBVIOUS
    <3>2. r.kind \in {"decrypt", "library"} /\ RawOctets(r) /\ Len(p) = 1 /\ OnItsWay(r, p, vol)
      BY <1>3, <1>4, <1>12, <3>1 DEF Undisturbed
    <3>3. Head(p) = p[1]
      OBVIOUS
    <3>4. RightResult(r, d, sig, key)
      BY <1>6, <3>1, <3>2, <3>3, EndsRight
    <3> QED
      BY <2>1, <3>1, <3>4
  <2>4. Allowed(run', card')
    BY <1>3, <1>5, <1>7, <2>1, <2>2, <2>3
       DEF FlowInv, Shape, Allowed, MayRunAgain, BeforeVerify, Compared, Final, KeyStages, Stages
  <2> QED
    BY <1>1, <1>2, <2>4, AllowedKeeps
<1> QED
  BY <1>8, <1>9, <1>10, <1>11, <1>12

\* Only a raw signature has an extended command, and its two halves carry
\* what it carried.
LEMMA HalvesError ==
    ASSUME NEW n, NEW h, h = CdsHalves(n)
    PROVE  h.err # "NeedCan"
  BY DEF CdsHalves, Program, Refused
RepeatsInHalves(h, cmd) == h = CdsHalves(cmd.body[1].len) /\ h.err = ""
Alone(r) == r.kind \in {"decrypt", "library"} /\ RawOctets(r)

\* Nothing was carried yet, so everything is left to carry.
LEMMA MinusZero == \A n \in Nat : n - 0 = n
  OBVIOUS

\* The two halves carry what the extended command would have carried.
LEMMA HalvesOnTheirWay ==
    ASSUME NEW r, Alone(r), NEW p, NEW vol, OnItsWay(r, p, vol),
           Extended(p[1]), NEW h, RepeatsInHalves(h, p[1])
    PROVE  OnItsWay(r, h.commands, vol)
<1>1. Extended(p[1])
  OBVIOUS
<1>2. ~DecryptProgram(p, vol, RSA_3072_SIG_BYTES + 1)
  BY <1>1 DEF DecryptProgram, SetsAnyKey, CarryBoth
<1>3. ~HashProgram(p, vol, r.slot, Digest(r.op[2], 1))
  BY <1>1 DEF HashProgram, SetsKey, SetsAnyKey, GivesHash, AsksSignature, Extended
<1>4. r.kind = "library" /\ r.op[1] = "raw"
  BY <1>2, <1>3 DEF OnItsWay, Alone
<1>5. PICK n : n = r.op[2]
  OBVIOUS
<1>6. n \in Nat /\ RawProgram(p, vol, r.slot, n)
  BY <1>4, <1>5 DEF OnItsWay, RawOctets, Alone
<1>7. Carries(p[1], n - vol.data) /\ vol.data = 0 /\ KeySet(vol, r.slot)
  BY <1>1, <1>6 DEF RawProgram, SetsKey, SetsAnyKey, CarryBoth
<1>8. p[1].body[1].len = n
  <2>1. n - 0 = n
    BY <1>6, MinusZero, Zenon
  <2>2. Carries(p[1], n)
    BY <1>7, <2>1, Zenon
  <2> QED
    BY <2>2 DEF Carries
<1>9. PICK a, b : h.commands = <<a, b>> /\ CarryBoth(a, b, n)
  <2>1. h = CdsHalves(n) /\ h.err = ""
    BY <1>8, Zenon DEF RepeatsInHalves
  <2> QED
    BY <1>6, <2>1, HalvesCarry
<1>10. PICK c : c = h.commands
  OBVIOUS
<1>11. c \in Seq(Range(c)) /\ Len(c) = 2 /\ c[1] = a /\ c[2] = b
  <2>1. c = <<a, b>>
    BY <1>9, <1>10
  <2> QED
    BY <2>1, Pair, Zenon
<1>12. RawProgram(c, vol, r.slot, n)
  BY <1>7, <1>9, <1>11 DEF RawProgram
<1> QED
  BY <1>4, <1>5, <1>10, <1>11, <1>12 DEF OnItsWay

\* Repeating an extended command in two halves keeps the invariant.
LEMMA ExtendedRefusedKeeps ==
    ASSUME FlowInv, ExtendedRefused
    PROVE  FlowInv'
<1>1. run.stage = "sign" /\ Rest /\ UNCHANGED card /\ run.program[1].stage = "PSO:CDS extended"
  BY DEF ExtendedRefused
<1>2. PinTyped /\ GoodRequest(req)
  BY <1>1, TypedAt
<1>3. /\ Undisturbed => OnItsWay(req, run.program, card.vol)
      /\ ~Undisturbed => run.key[2] = req.slot
  BY <1>1, <1>2 DEF FlowInv, FileInv, KeyStages, Vol
<1>4. RawOctets(req)
  BY <1>2 DEF GoodRequest, RawOctets, LibraryOps, MAX_SHORT, RSA_3072_SIG_BYTES, MAX_EXTENDED
<1>5. PICK h : h = CdsHalves(run.program[1].body[1].len)
  OBVIOUS
<1>6. h.err # "NeedCan"
  BY <1>5, HalvesError
<1>7. IF h.err # "" THEN FailWith(h.err) ELSE run' = [run EXCEPT !.program = h.commands]
  BY <1>5, Zenon DEF ExtendedRefused
<1>8. CASE h.err # ""
  BY <1>1, <1>2, <1>6, <1>7, <1>8, FailAllowed, AllowedKeeps
<1>9. CASE h.err = ""
  <2>1. /\ DOMAIN run' = DOMAIN run /\ run'.doc = run.doc /\ run'.key = run.key /\ run'.stage = "sign"
        /\ run'.program = h.commands
    BY <1>1, <1>7, <1>9, Fields DEF FlowInv
  <2>2. Undisturbed => OnItsWay(req, h.commands, card.vol)
    <3> SUFFICES ASSUME Undisturbed PROVE OnItsWay(req, h.commands, card.vol)
      OBVIOUS
    <3>1. PICK r, p, vol : r = req /\ p = run.program /\ vol = card.vol
      OBVIOUS
    <3>2. Alone(r) /\ OnItsWay(r, p, vol) /\ Extended(p[1])
      BY <1>1, <1>3, <1>4, <3>1 DEF Undisturbed, Extended, Alone
    <3>3. RepeatsInHalves(h, p[1])
      BY <1>5, <1>9, <3>1, Zenon DEF RepeatsInHalves
    <3>4. OnItsWay(r, h.commands, vol)
      BY <3>2, <3>3, HalvesOnTheirWay, Zenon
    <3> QED
      BY <3>1, <3>4
  <2>3. Allowed(run', card')
    BY <1>1, <1>3, <2>1, <2>2
       DEF FlowInv, Shape, Allowed, MayRunAgain, BeforeVerify, Compared, Final, KeyStages, Stages
  <2> QED
    BY <1>1, <1>2, <2>3, AllowedKeeps
<1> QED
  BY <1>8, <1>9

\* What another process does to the card between two commands of a signing
\* disturbs the program, but nothing that was settled.
LEMMA ForeignKeeps ==
    ASSUME FlowInv, NEW act \in {"hash", "mse", "select", "reset"}, Foreign(act)
    PROVE  FlowInv'
<1>1. /\ UNCHANGED <<req, run, tries, sent, disk, status, clock>> /\ foreign' = foreign + 1
      /\ foreign < MaxForeign /\ ~Undisturbed /\ run.stage # "idle"
  BY DEF Foreign, Undisturbed
<1>2. PICK v : v = [(CASE act = "hash" -> [Vol EXCEPT !.hash = <<[alg |-> "Sha256", of |-> <<"other", 0>>]>>]
                   [] act = "mse" -> [Vol EXCEPT !.mse = <<182, SignatureAlgRef("Sha256", "RsaPkcs1V1_5"),
                                                          KeyRefByte["Auth"]>>]
                   [] act = "select" -> [Vol EXCEPT !.app = FALSE]
                   [] act = "reset" -> [Cold EXCEPT !.stale = TRUE]) EXCEPT !.sm = FALSE]
  OBVIOUS
<1>3. Volatile(v)
  BY <1>2, Zenon DEF Foreign
<1>4. DOMAIN v = DOMAIN card.vol
  <2>1. PICK w : w = CASE act = "hash" -> [Vol EXCEPT !.hash = <<[alg |-> "Sha256", of |-> <<"other", 0>>]>>]
                   [] act = "mse" -> [Vol EXCEPT !.mse = <<182, SignatureAlgRef("Sha256", "RsaPkcs1V1_5"),
                                                          KeyRefByte["Auth"]>>]
                   [] act = "select" -> [Vol EXCEPT !.app = FALSE]
                   [] act = "reset" -> [Cold EXCEPT !.stale = TRUE]
    OBVIOUS
  <2>2. DOMAIN w = DOMAIN card.vol
    <3>1. CASE act = "hash"
      <4>1. w = [Vol EXCEPT !.hash = <<[alg |-> "Sha256", of |-> <<"other", 0>>]>>]
        BY <2>1, <3>1
      <4> QED
        BY <4>1 DEF Vol
    <3>2. CASE act = "mse"
      <4>1. w = [Vol EXCEPT !.mse = <<182, SignatureAlgRef("Sha256", "RsaPkcs1V1_5"), KeyRefByte["Auth"]>>]
        BY <2>1, <3>2
      <4> QED
        BY <4>1 DEF Vol
    <3>3. CASE act = "select"
      <4>1. w = [Vol EXCEPT !.app = FALSE]
        BY <2>1, <3>3
      <4> QED
        BY <4>1 DEF Vol
    <3>4. CASE act = "reset"
      <4>1. w = [Cold EXCEPT !.stale = TRUE]
        BY <2>1, <3>4
      <4>2. DOMAIN w = DOMAIN Cold
        BY <4>1
      <4> QED
        BY <4>2 DEF FlowInv, Shape
    <3> QED
      BY <3>1, <3>2, <3>3, <3>4
  <2>3. v = [w EXCEPT !.sm = FALSE]
    BY <1>2, <2>1, Zenon
  <2> QED
    BY <2>2, <2>3
<1>5. card'.in = card.in /\ DOMAIN card' = {"in", "vol"} /\ card'.vol = v
  BY <1>3, <1>4, VolatileShape
<1>6. FlowType'
  BY <1>1, <1>5, SigningAssumption DEF FlowInv, FlowType
<1>7. Shape'
  BY <1>1, <1>4, <1>5 DEF FlowInv, Shape
<1>8. RequestInv'
  BY <1>1 DEF FlowInv, RequestInv, PinTyped
<1>9. PinInv'
  BY <1>1, <1>5 DEF FlowInv, PinInv, PinTyped
<1>10. FileInv'
  BY <1>1 DEF FlowInv, FileInv, PinTyped, Undisturbed
<1> QED
  BY <1>6, <1>7, <1>8, <1>9, <1>10 DEF FlowInv

(***************************************************************************)
(* After the signature                                                     *)
(***************************************************************************)

\* LocalVerify lets a signature pass that is the one the certificate's key
\* gives over this document: whatever the other process did, the result is
\* the right one from then on.
LEMMA ExpectedRight ==
    ASSUME FlowInv, run.stage = "check", run.sig = Expected
    PROVE  RightResult(req, run.doc, run.sig, run.key)
<1>1. PinTyped
  BY TypedAt
<1>2. ~Undisturbed /\ run.key[2] = req.slot
  BY <1>1 DEF FlowInv, FileInv, KeyStages
<1>3. PICK alg : alg = document_signer(Info[run.key[1]].key)
  OBVIOUS
<1>4. run.sig[3] = KeyRefByte[run.key[2]] /\ run.sig[4] = Hash(alg)
  BY <1>3 DEF Expected
<1>5. run.sig[4].of = <<"octets", run.doc>> /\ run.sig[4].alg = alg
  BY <1>4 DEF Hash
<1> QED
  BY <1>2, <1>3, <1>4, <1>5, Zenon DEF RightResult, Undisturbed

\* From then on the result stays.
LEMMA FinalAllowed ==
    ASSUME FlowInv, PinTyped, UNCHANGED card, DOMAIN run' = DOMAIN run, run'.doc = run.doc, run'.stage \in Final,
           RightResult(req, run.doc, run.sig, run.key), run'.sig = run.sig, run'.key = run.key
    PROVE  Allowed(run', card')
<1>1. RightResult(req, run.doc, run'.sig, run'.key)
  BY Zenon
<1> QED
  BY <1>1 DEF FlowInv, Shape, Allowed, MayRunAgain, BeforeVerify, Compared, Final, KeyStages, Stages

\* The local verification makes the result final, or fails.
LEMMA LocalVerifyKeeps ==
    ASSUME FlowInv, LocalVerify
    PROVE  FlowInv'
<1>1. run.stage = "check" /\ Rest /\ UNCHANGED card
  BY DEF LocalVerify
<1>2. PinTyped
  BY <1>1, TypedAt
<1>3. \/ FailWith("LocalVerifyFailed")
      \/ run.sig = Expected /\ (Step("write") \/ run' = [run EXCEPT !.stage = "stamp", !.at = 1])
  BY DEF LocalVerify, local_verify
<1>4. CASE FailWith("LocalVerifyFailed")
  BY <1>1, <1>2, <1>4, FailAllowed, AllowedKeeps
<1>5. CASE run.sig = Expected /\ (Step("write") \/ run' = [run EXCEPT !.stage = "stamp", !.at = 1])
  <2>1. /\ DOMAIN run' = DOMAIN run /\ run'.doc = run.doc /\ run'.stage \in {"write", "stamp"}
        /\ run'.sig = run.sig /\ run'.key = run.key
    BY <1>5, Fields DEF FlowInv, Step
  <2>2. RightResult(req, run.doc, run.sig, run.key)
    BY <1>1, <1>5, ExpectedRight
  <2>3. run'.stage \in Final
    BY <2>1 DEF Final
  <2>4. Allowed(run', card')
    BY <1>1, <1>2, <2>1, <2>2, <2>3, FinalAllowed
  <2> QED
    BY <1>1, <1>2, <2>4, AllowedKeeps
<1> QED
  BY <1>3, <1>4, <1>5

\* The steps of the time-stamps.
LEMMA FinalKeeps ==
    ASSUME FlowInv, run.stage \in Final, UNCHANGED card, Rest,
           DOMAIN run' = DOMAIN run, run'.doc = run.doc, run'.stage \in Final,
           run'.sig = run.sig, run'.key = run.key
    PROVE  FlowInv'
<1>1. PinTyped
  BY TypedAt DEF Final
<1>2. RightResult(req, run.doc, run.sig, run.key)
  BY DEF FlowInv, FileInv
<1>3. Allowed(run', card')
  BY <1>1, <1>2, FinalAllowed
<1> QED
  BY <1>1, <1>3, AllowedKeeps

\* Asking an authority for a token leaves the signature alone.
LEMMA RequestTokenKeeps ==
    ASSUME FlowInv, NEW nonce, RequestToken(nonce)
    PROVE  FlowInv'
<1>1. run.stage \in {"stamp", "archive"} /\ Rest /\ UNCHANGED card
  BY DEF RequestToken
<1>2. /\ DOMAIN run' = DOMAIN run /\ run'.doc = run.doc /\ run'.stage \in {"await", "await archive"}
      /\ run'.sig = run.sig /\ run'.key = run.key
  BY Fields DEF RequestToken, FlowInv
<1>3. run.stage \in Final /\ run'.stage \in Final
  BY <1>1, <1>2 DEF Final
<1> QED
  BY <1>1, <1>2, <1>3, FinalKeeps

\* What moves on to the next authority keeps everything but where it is.
LEMMA NextAuthorityShape ==
    ASSUME FlowInv, NEW r, r = NextAuthority(run)
    PROVE  /\ DOMAIN r = DOMAIN run /\ r.doc = run.doc /\ r.stage \in {"stamp", "archive"}
           /\ r.sig = run.sig /\ r.key = run.key
  BY Fields DEF NextAuthority, FlowInv

\* So does an authority that does not answer,
LEMMA PostFailsKeeps ==
    ASSUME FlowInv, NEW retryable \in BOOLEAN, PostFails(retryable)
    PROVE  FlowInv'
<1>1. run.stage \in {"await", "await archive"} /\ Rest /\ UNCHANGED card
  BY DEF PostFails
<1>2. Step("pause") \/ Step("pause archive") \/ run' = NextAuthority(run)
  BY DEF PostFails
<1>3. /\ DOMAIN run' = DOMAIN run /\ run'.doc = run.doc
      /\ run'.stage \in {"pause", "pause archive", "stamp", "archive"}
      /\ run'.sig = run.sig /\ run'.key = run.key
  <2>1. CASE Step("pause") \/ Step("pause archive")
    BY <2>1, StepShape
  <2>2. CASE run' = NextAuthority(run)
    <3>1. PICK r : r = NextAuthority(run)
      OBVIOUS
    <3> QED
      BY <2>2, <3>1, NextAuthorityShape
  <2> QED
    BY <1>2, <2>1, <2>2
<1>4. run.stage \in Final /\ run'.stage \in Final
  BY <1>1, <1>3 DEF Final
<1> QED
  BY <1>1, <1>3, <1>4, FinalKeeps

\* the repeated query,
LEMMA PostAgainKeeps ==
    ASSUME FlowInv, PostAgain
    PROVE  FlowInv'
<1>1. run.stage \in {"pause", "pause archive"} /\ Rest /\ UNCHANGED card
  BY DEF PostAgain
<1>2. Step("await") \/ Step("await archive")
  BY DEF PostAgain
<1>3. /\ DOMAIN run' = DOMAIN run /\ run'.doc = run.doc /\ run'.stage \in {"await", "await archive"}
      /\ run'.sig = run.sig /\ run'.key = run.key
  BY <1>2, StepShape
<1>4. run.stage \in Final /\ run'.stage \in Final
  BY <1>1, <1>3 DEF Final
<1> QED
  BY <1>1, <1>3, <1>4, FinalKeeps

\* the time that passes,
LEMMA TickKeeps ==
    ASSUME FlowInv, Tick
    PROVE  FlowInv'
<1>1. /\ UNCHANGED <<req, run, card, tries, sent, disk, status, foreign>>
      /\ clock < MaxClock /\ clock' = clock + 1
  BY DEF Tick
<1>2. FlowType'
  BY <1>1, SigningAssumption DEF FlowInv, FlowType
<1>3. Shape' /\ RequestInv' /\ PinInv'
  BY <1>1 DEF FlowInv, Shape, RequestInv, PinInv, PinTyped
<1>4. FileInv'
  BY <1>1 DEF FlowInv, FileInv, PinTyped, Undisturbed, Vol
<1> QED
  BY <1>2, <1>3, <1>4 DEF FlowInv

\* and an answer, whatever it holds and whether it is kept.
LEMMA TokenArrivesKeeps ==
    ASSUME FlowInv, NEW response, NEW evidence \in BOOLEAN, TokenArrives(response, evidence)
    PROVE  FlowInv'
<1>1. run.stage \in {"await", "await archive"} /\ Rest /\ UNCHANGED card
  BY DEF TokenArrives
<1>2. PICK r : r = NextAuthority(run)
  OBVIOUS
<1>3. \E tokens, material, archive, answer :
        \/ run' = [r EXCEPT !.answer = answer]
        \/ run' = [[r EXCEPT !.tokens = tokens, !.material = material] EXCEPT !.answer = answer]
        \/ run' = [[r EXCEPT !.archive = archive, !.stage = "write"] EXCEPT !.answer = answer]
  BY <1>2, Zenon DEF TokenArrives
<1>4. /\ DOMAIN run' = DOMAIN run /\ run'.doc = run.doc /\ run'.stage \in {"stamp", "archive", "write"}
      /\ run'.sig = run.sig /\ run'.key = run.key
  <2>1. /\ DOMAIN r = DOMAIN run /\ r.doc = run.doc /\ r.stage \in {"stamp", "archive"}
        /\ r.sig = run.sig /\ r.key = run.key
    BY <1>2, NextAuthorityShape
  <2> QED
    BY <1>3, <2>1, Fields, ZenonT(60) DEF FlowInv
<1>5. run.stage \in Final /\ run'.stage \in Final
  BY <1>1, <1>4 DEF Final
<1> QED
  BY <1>1, <1>4, <1>5, FinalKeeps

\* Collecting the evidence leaves the signature alone too,
LEMMA CollectMaterialKeeps ==
    ASSUME FlowInv, NEW evidence \in BOOLEAN, CollectMaterial(evidence)
    PROVE  FlowInv'
<1>1. run.stage = "stamp" /\ Rest /\ UNCHANGED card
  BY DEF CollectMaterial
<1>2. PinTyped
  BY <1>1, TypedAt
<1>3. PICK m : m = run.material \cup {<<"chain", run.key>>}
  OBVIOUS
<1>4. \/ \E err \in {"Timestamp", "Material"} : FailWith(err)
      \/ Step("write")
      \/ \E s \in {"archive", "write"} : run' = [run EXCEPT !.material = m, !.at = 1, !.stage = s]
  BY <1>3 DEF CollectMaterial
<1>5. CASE \E err \in {"Timestamp", "Material"} : FailWith(err)
  BY <1>1, <1>2, <1>5, FailAllowed, AllowedKeeps
<1>6. CASE ~\E err \in {"Timestamp", "Material"} : FailWith(err)
  <2>1. /\ DOMAIN run' = DOMAIN run /\ run'.doc = run.doc /\ run'.stage \in {"archive", "write"}
        /\ run'.sig = run.sig /\ run'.key = run.key
    BY <1>4, <1>6, Fields DEF FlowInv, Step
  <2>2. run.stage \in Final /\ run'.stage \in Final
    BY <1>1, <2>1 DEF Final
  <2> QED
    BY <1>1, <2>1, <2>2, FinalKeeps
<1> QED
  BY <1>5, <1>6

\* and so does giving up the archive time-stamp.
LEMMA ArchiveRefusedKeeps ==
    ASSUME FlowInv, ArchiveRefused
    PROVE  FlowInv'
  BY TypedAt, FailAllowed, AllowedKeeps DEF ArchiveRefused

\* The file is written with the result of the run.
LEMMA WriteOutputKeeps ==
    ASSUME FlowInv, NEW outcome, WriteOutput(outcome)
    PROVE  FlowInv'
<1>1. run.stage = "write" /\ UNCHANGED <<req, card, tries, sent, clock, foreign>>
  BY DEF WriteOutput
<1>2. PinTyped /\ run.doc \in 1..MaxDocs /\ RightResult(req, run.doc, run.sig, run.key)
  BY <1>1, TypedAt DEF FlowInv, FlowType, FileInv, Final
<1>3. CASE UNCHANGED <<disk, status>> /\ FailWith("SignatureWrite")
  <2>1. Rest
    BY <1>1, <1>3 DEF Rest
  <2> QED
    BY <1>1, <1>2, <1>3, <2>1, FailAllowed, AllowedKeeps
<1>4. CASE ~(UNCHANGED <<disk, status>> /\ FailWith("SignatureWrite"))
  <2>1. PICK f : f = <<[sig |-> run.sig, key |-> run.key, tokens |-> run.tokens,
                        material |-> run.material, archive |-> run.archive]>>
    OBVIOUS
  <2>2. PICK level : level = describe_level(reported_timestamp_tokens, req.long_term, req.archive)
    OBVIOUS
  <2>3. /\ disk' = [disk EXCEPT ![run.doc] = f]
        /\ \/ FailWith("SignatureWrite") /\ UNCHANGED status
           \/ status' = [status EXCEPT ![run.doc] = level] /\ Step("done")
    BY <1>4, <2>1, <2>2, Zenon DEF WriteOutput
  <2>4. level \in {"none", "B", "T", "LT", "LTA"}
    BY <2>2 DEF describe_level
  <2>5. /\ DOMAIN run' = DOMAIN run /\ run'.doc = run.doc /\ run'.key = run.key /\ run'.sig = run.sig
        /\ run'.stage = "done" \/ (run'.stage = "failed" /\ run'.err = "SignatureWrite")
    BY <2>3, Fields DEF FlowInv, Step, FailWith
  <2>6. f[1].sig = run.sig /\ f[1].key = run.key
    BY <2>1
  <2>7. FlowType'
    <3>1. status' \in [1..MaxDocs -> {"none", "B", "T", "LT", "LTA"}]
      BY <1>2, <2>3, <2>4 DEF FlowInv, FlowType
    <3>2. DOMAIN disk' = 1..MaxDocs
      BY <2>3 DEF FlowInv, FlowType
    <3> QED
      BY <1>1, <1>2, <2>5, <3>1, <3>2 DEF FlowInv, FlowType, Stages
  <2>8. Shape'
    BY <1>1, <2>5 DEF FlowInv, Shape
  <2>9. RequestInv'
    BY <1>1, <1>2, <2>5 DEF FlowInv, RequestInv, PinTyped
  <2>10. PinInv'
    BY <1>1, <1>2, <2>5 DEF FlowInv, PinInv, PinTyped, BeforeVerify, Compared
  <2>11. FileInv'
    <3>1. ASSUME NEW d \in 1..MaxDocs, disk'[d] # None
          PROVE  RightResult(req, d, disk'[d][1].sig, disk'[d][1].key)
      <4>1. CASE d = run.doc
        <5>1. disk'[d] = f
          BY <1>2, <2>3, <4>1 DEF FlowInv, FlowType
        <5> QED
          BY <1>2, <2>6, <4>1, <5>1, Zenon
      <4>2. CASE d # run.doc
        <5>1. disk'[d] = disk[d]
          BY <1>2, <2>3, <4>2 DEF FlowInv, FlowType
        <5> QED
          BY <3>1, <5>1, Zenon DEF FlowInv, FileInv
      <4> QED
        BY <4>1, <4>2
    <3>2. RightResult(req, run'.doc, run'.sig, run'.key)
      BY <1>2, <2>5, Zenon
    <3>3. req' = req
      BY <1>1
    <3>4. \A d \in 1..MaxDocs : disk'[d] # None => RightResult(req', d, disk'[d][1].sig, disk'[d][1].key)
      BY <3>1, <3>3, Zenon
    <3>5. RightResult(req', run'.doc, run'.sig, run'.key)
      BY <3>2, <3>3, Zenon
    <3>6. /\ run'.stage \notin KeyStages \cup BeforeVerify \cup {"dispatch", "sign", "check"}
          /\ ~(run'.stage = "failed" /\ run'.err = "NeedCan")
      BY <2>5 DEF KeyStages, BeforeVerify
    <3> QED
      BY <3>4, <3>5, <3>6 DEF FileInv
  <2> QED
    BY <2>7, <2>8, <2>9, <2>10, <2>11 DEF FlowInv
<1> QED
  BY <1>3, <1>4

\* The next document of a batch: its serial number is compared anew.
LEMMA NextDocumentKeeps ==
    ASSUME FlowInv, NextDocument
    PROVE  FlowInv'
<1>1. Rest /\ req.origin = "gui" /\ run.doc < req.docs
  BY DEF NextDocument, more_documents
<1>2. PinTyped /\ GoodRequest(req)
  BY <1>1 DEF FlowInv, RequestInv
<1>3. /\ DOMAIN run' = DOMAIN NoRun /\ run'.stage = "policy" /\ run'.doc = run.doc + 1
  BY DEF NextDocument, NoRun
<1>4. card'.in = card.in /\ DOMAIN card' = {"in", "vol"} /\ card'.vol = Cold
  BY Fields DEF NextDocument, FlowInv, Shape
<1>5. run'.doc \in 1..MaxDocs
  BY <1>1, <1>2, <1>3, SigningAssumption DEF GoodRequest, FlowInv, FlowType
<1>6. PinTyped' /\ ~Undisturbed'
  BY <1>1, <1>2 DEF Rest, PinTyped, Undisturbed, GoodRequest
<1>7. FlowType'
  BY <1>1, <1>3, <1>4, <1>5 DEF FlowInv, FlowType, Rest, Stages
<1>8. Shape'
  BY <1>3, <1>4 DEF Shape
<1>9. RequestInv'
  BY <1>1, <1>2, <1>3, <1>6 DEF RequestInv, Rest
<1>10. PinInv'
  BY <1>1, <1>2, <1>3, <1>6 DEF FlowInv, PinInv, Rest, Compared
<1>11. FileInv'
  BY <1>1, <1>3, <1>6 DEF FlowInv, FileInv, Rest, Final, KeyStages
<1> QED
  BY <1>7, <1>8, <1>9, <1>10, <1>11 DEF FlowInv

\* The other card comes before the serial number is compared.
LEMMA SwapCardKeeps ==
    ASSUME FlowInv, NEW c \in Cards, SwapCard(c)
    PROVE  FlowInv'
<1>1. /\ UNCHANGED <<req, run, tries, sent, disk, status, clock>> /\ foreign' = foreign + 1
      /\ foreign < MaxForeign /\ run.stage \in {"policy", "open"} /\ card' = [in |-> c, vol |-> Cold]
  BY DEF SwapCard
<1>2. card'.in = c /\ card'.vol = Cold /\ DOMAIN card' = {"in", "vol"} /\ card'.vol.data = 0
  BY <1>1 DEF Cold
<1>3. FlowType'
  BY <1>1, <1>2, SigningAssumption DEF FlowInv, FlowType
<1>4. Shape'
  BY <1>1, <1>2 DEF FlowInv, Shape
<1>5. RequestInv'
  BY <1>1 DEF FlowInv, RequestInv, PinTyped
<1>6. PinInv'
  BY <1>1 DEF FlowInv, PinInv, PinTyped, Compared
<1>7. FileInv'
  BY <1>1, <1>2 DEF FlowInv, FileInv, PinTyped, Undisturbed, Vol
<1> QED
  BY <1>3, <1>4, <1>5, <1>6, <1>7 DEF FlowInv

\* No PIN was sent: the log is empty.
LEMMA EmptySequence == \A s : s = <<>> => Len(s) <= 1 /\ DOMAIN s = {}
  OBVIOUS

\* A request is refused before the PIN is asked for, or is a good one.
LEMMA AskKeeps ==
    ASSUME FlowInv, run.stage = "idle", NEW q, NEW pin \in Pins, Ask(q, pin),
           q.err = "" => \A r : WithPin(q, pin, r) => GoodRequest(r) /\ r.pin = pin
    PROVE  FlowInv'
<1>1. run.stage = "idle" /\ UNCHANGED <<card, tries, sent, disk, status, clock, foreign>>
  BY DEF Ask
<1>2. sent = <<>> /\ (\A d \in 1..MaxDocs : disk[d] = None) /\ card.vol.data = 0
  BY <1>1 DEF FlowInv, RequestInv
<1>3. CASE q.err # ""
  <2>1. req'.origin = "cli" /\ req'.pin = "none" /\ req'.kind = "document"
    <3>1. req' = [origin |-> "cli", kind |-> "document", pin |-> "none"]
      BY <1>3, Zenon DEF Ask
    <3> QED
      BY <3>1
  <2>2. DOMAIN run' = DOMAIN NoRun /\ run'.stage = "failed" /\ run'.doc = 1
    BY <1>3 DEF Ask, NoRun
  <2>3. ~PinTyped'
    BY <2>1 DEF PinTyped
  <2>4. FlowType'
    BY <1>1, <2>2, OneDocument DEF FlowInv, FlowType, Stages
  <2>5. Shape'
    BY <1>1, <2>2 DEF FlowInv, Shape
  <2>6. RequestInv'
    BY <1>1, <1>2, <2>1, <2>2, <2>3 DEF RequestInv
  <2>7. PinInv'
    BY <2>3 DEF PinInv
  <2>8. FileInv'
    BY <1>1, <1>2, <2>2, <2>3 DEF FileInv, Final, KeyStages
  <2> QED
    BY <2>4, <2>5, <2>6, <2>7, <2>8 DEF FlowInv
<1>4. CASE q.err = ""
  <2>1. GoodRequest(req') /\ req'.pin = pin
    <3>1. WithPin(q, pin, req')
      BY <1>4, Zenon DEF Ask, WithPin
    <3> QED
      BY <1>4, <3>1, Zenon
  <2>2. DOMAIN run' = DOMAIN NoRun /\ run'.stage = "policy" /\ run'.doc = 1
    BY <1>4 DEF Ask, NoRun
  <2>3. PinTyped'
    BY <2>1 DEF PinTyped, Pins
  <2>4. FlowType'
    BY <1>1, <2>2, OneDocument DEF FlowInv, FlowType, Stages
  <2>5. Shape'
    BY <1>1, <2>2 DEF FlowInv, Shape
  <2>6. RequestInv'
    <3>1. (GoodRequest(req))'
      BY <2>1 DEF GoodRequest, validate_signing_policy, requires_long_term_material
    <3> QED
      BY <2>2, <2>3, <3>1 DEF RequestInv
  <2>7. PinInv'
    <3>1. sent' = <<>>
      BY <1>1, <1>2, Zenon
    <3>2. Len(sent') <= 1 /\ DOMAIN sent' = {}
      BY <3>1, EmptySequence, Zenon
    <3> QED
      BY <2>2, <3>1, <3>2 DEF PinInv, Compared
  <2>8. FileInv'
    BY <1>1, <1>2, <2>2 DEF FileInv, Final, KeyStages, Vol
  <2> QED
    BY <2>4, <2>5, <2>6, <2>7, <2>8 DEF FlowInv
<1> QED
  BY <1>3, <1>4

\* Every client's request keeps the invariant.
LEMMA AskAnyKeeps ==
    ASSUME FlowInv, AskCli \/ AskBare \/ AskLibrary \/ AskGui
    PROVE  FlowInv'
<1>0. run.stage = "idle"
  BY Zenon DEF AskCli, AskBare, AskLibrary, AskGui
<1>1. CASE AskCli
  <2>1. PICK f \in Flags, pin \in Pins : Ask(resolve(f), pin)
    BY <1>1 DEF AskCli
  <2>2. PICK q : q = resolve(f)
    OBVIOUS
  <2>3. Ask(q, pin)
    BY <2>1, <2>2, Zenon
  <2>4. q.err = "" => \A r : WithPin(q, pin, r) => GoodRequest(r) /\ r.pin = pin
    BY <2>2, ResolvedGood, Zenon
  <2> QED
    BY <1>0, <2>3, <2>4, AskKeeps, Zenon
<1>2. CASE AskBare
  <2>1. PICK kind \in {"bare", "decrypt"}, slot \in {"Auth", "Sign"}, save \in BOOLEAN, can \in BOOLEAN,
             pin \in Pins : Ask(BareRequest(kind, slot, save, can), pin)
    BY <1>2 DEF AskBare
  <2>2. PICK q : q = BareRequest(kind, slot, save, can)
    OBVIOUS
  <2>3. Ask(q, pin)
    BY <2>1, <2>2, Zenon
  <2>4. \A r : WithPin(q, pin, r) => GoodRequest(r) /\ r.pin = pin
    <3> SUFFICES ASSUME NEW r, WithPin(q, pin, r) PROVE GoodRequest(r) /\ r.pin = pin
      OBVIOUS
    <3> QED
      BY <2>2, BareGood
  <2> QED
    BY <1>0, <2>3, <2>4, AskKeeps, Zenon
<1>3. CASE AskLibrary
  <2>1. PICK op \in LibraryOps, slot \in {"Auth", "Sign"}, pin \in Pins : Ask(LibraryRequest(op, slot), pin)
    BY <1>3, Zenon DEF AskLibrary
  <2>2. PICK q : q = LibraryRequest(op, slot)
    OBVIOUS
  <2>3. Ask(q, pin)
    BY <2>1, <2>2, Zenon
  <2>4. \A r : WithPin(q, pin, r) => GoodRequest(r) /\ r.pin = pin
    BY <2>2, LibraryGood, Zenon
  <2> QED
    BY <1>0, <2>3, <2>4, AskKeeps, Zenon
<1>4. CASE AskGui
  <2>1. PICK f \in {"Pades", "AsicEXades"}, cred \in BOOLEAN, https \in BOOLEAN, pin \in Pins :
          Ask(GuiRequest(f, MaxDocs, cred, https), pin)
    BY <1>4 DEF AskGui
  <2>2. PICK q : q = GuiRequest(f, MaxDocs, cred, https)
    OBVIOUS
  <2>3. Ask(q, pin)
    BY <2>1, <2>2, Zenon
  <2>4. \A r : WithPin(q, pin, r) => GoodRequest(r) /\ r.pin = pin
    BY <2>2, GuiGood, ZenonT(60)
  <2> QED
    BY <1>0, <2>3, <2>4, AskKeeps, Zenon
<1> QED
  BY <1>1, <1>2, <1>3, <1>4

(***************************************************************************)
(* The invariant and what follows from it                                  *)
(***************************************************************************)

\* The invariant holds before the first request.
LEMMA FlowInit == Init => FlowInv
<1> SUFFICES ASSUME Init PROVE FlowInv
  OBVIOUS
<1>1. PICK c \in Cards : card = [in |-> c, vol |-> Cold]
  BY DEF Init
<1>2. card.in = c /\ card.vol = Cold /\ card.vol.data = 0 /\ DOMAIN card = {"in", "vol"}
  BY <1>1 DEF Cold
<1>3. run.stage = "idle" /\ run.doc = 1 /\ DOMAIN run = DOMAIN NoRun
  BY DEF Init, NoRun
<1>4. ~PinTyped /\ req.origin = "none"
  BY DEF Init, NoRequest, PinTyped
<1>5. sent = <<>> /\ sent \in Seq(Attempts)
  BY DEF Init
<1>6. FlowType
  BY <1>2, <1>3, <1>5, OneDocument, SigningAssumption DEF Init, FlowType, Stages
<1>7. Shape
  BY <1>2, <1>3 DEF Shape
<1>8. \A d \in 1..MaxDocs : disk[d] = None
  BY DEF Init
<1>9. RequestInv
  BY <1>2, <1>3, <1>4, <1>5, <1>8 DEF RequestInv
<1>10. PinInv
  BY <1>4 DEF PinInv
<1>11. FileInv
  BY <1>3, <1>4, <1>8 DEF FileInv, Final, KeyStages
<1> QED
  BY <1>6, <1>7, <1>9, <1>10, <1>11 DEF FlowInv

\* Nothing that happens to a signing loses the invariant.
LEMMA FlowStep == FlowInv /\ [Next]_vars => FlowInv'
<1> SUFFICES ASSUME FlowInv, [Next]_vars PROVE FlowInv'
  OBVIOUS
<1>1. CASE AskCli \/ AskBare \/ AskLibrary \/ AskGui
  BY <1>1, AskAnyKeeps
<1>2. CASE \E c \in Cards : SwapCard(c)
  BY <1>2, SwapCardKeeps
<1>3. CASE Policy
  BY <1>3, PolicyKeeps
<1>4. CASE \E outcome \in {"ok", "Transport"} : OpenSession(outcome)
  BY <1>4, OpenSessionKeeps
<1>5. CASE SelectApplication
  BY <1>5, SelectApplicationKeeps
<1>6. CASE Rerun
  BY <1>6, RerunKeeps
<1>7. CASE ResetCard
  BY <1>7, ResetCardKeeps
<1>8. CASE \E outcome \in {"ok", "Pace"} : Pace(outcome)
  BY <1>8, PaceKeeps
<1>9. CASE \E outcome \in {"ok", "unreadable"} : ReadCertificate(outcome)
  BY <1>9, ReadCertificateKeeps
<1>10. CASE CheckDisplayedCard
  BY <1>10, CheckDisplayedCardKeeps
<1>11. CASE \E outcome \in {"ok", "Document"} : PlanDocument(outcome)
  BY <1>11, PlanDocumentKeeps
<1>12. CASE ResolveScheme
  BY <1>12, ResolveSchemeKeeps
<1>13. CASE VerifyPin
  BY <1>13, VerifyPinKeeps
<1>14. CASE Dispatch
  BY <1>14, DispatchKeeps
<1>15. CASE \E length_ok \in BOOLEAN : SignExchange(length_ok)
  BY <1>15, SignExchangeKeeps
<1>16. CASE ExtendedRefused
  BY <1>16, ExtendedRefusedKeeps
<1>17. CASE \E act \in {"hash", "mse", "select", "reset"} : Foreign(act)
  BY <1>17, ForeignKeeps
<1>18. CASE LocalVerify
  BY <1>18, LocalVerifyKeeps
<1>19. CASE \E nonce \in Nonces : RequestToken(nonce)
  BY <1>19, RequestTokenKeeps
<1>20. CASE \E retryable \in BOOLEAN : PostFails(retryable)
  BY <1>20, PostFailsKeeps
<1>21. CASE PostAgain
  BY <1>21, PostAgainKeeps
<1>22. CASE Tick
  BY <1>22, TickKeeps
<1>23. CASE \E flaw \in Flaws, evidence \in BOOLEAN :
              run.stage \in {"await", "await archive"} /\ TokenArrives(Answer(flaw), evidence)
  <2>1. PICK flaw \in Flaws, evidence \in BOOLEAN : TokenArrives(Answer(flaw), evidence)
    BY <1>23, Zenon
  <2>2. \E response : TokenArrives(response, evidence)
    BY <2>1, Zenon
  <2> QED
    BY <2>2, TokenArrivesKeeps
<1>24. CASE \E evidence \in BOOLEAN : CollectMaterial(evidence)
  BY <1>24, CollectMaterialKeeps
<1>25. CASE ArchiveRefused
  BY <1>25, ArchiveRefusedKeeps
<1>26. CASE \E outcome \in {"ok", "output fails", "certificate fails"} : WriteOutput(outcome)
  BY <1>26, WriteOutputKeeps
<1>27. CASE NextDocument
  BY <1>27, NextDocumentKeeps
<1>28. CASE UNCHANGED vars
  <2>1. UNCHANGED <<req, run, card, tries, sent, disk, status, clock, foreign>>
    BY <1>28 DEF vars
  <2>2. FlowType' /\ Shape' /\ RequestInv' /\ PinInv'
    BY <2>1 DEF FlowInv, FlowType, Shape, RequestInv, PinInv, PinTyped
  <2>3. FileInv'
    BY <2>1 DEF FlowInv, FileInv, PinTyped, Undisturbed, Vol
  <2> QED
    BY <2>2, <2>3 DEF FlowInv
<1>29. CASE Finished
  BY <1>28, <1>29 DEF Finished
<1> QED
  BY <1>1, <1>2, <1>3, <1>4, <1>5, <1>6, <1>7, <1>8, <1>9, <1>10, <1>11, <1>12, <1>13, <1>14, <1>15, <1>16,
     <1>17, <1>18, <1>19, <1>20, <1>21, <1>22, <1>23, <1>24, <1>25, <1>26, <1>27, <1>28, <1>29, Zenon DEF Next

\* The invariant holds in every state of a signing.
THEOREM FlowInvariant == Spec => []FlowInv
<1> QED
  BY FlowInit, FlowStep, PTL DEF Spec

\* The file that is written holds a signature over this document's own octets
\* by the key of the certificate that was read, or the decryption of the whole
\* ciphertext, for every number of cards, of documents and of steps of the
\* other process.
THEOREM ResultIsTheRightOne == Spec => []WrittenResultIsTheRightOne
<1>1. FlowInv => WrittenResultIsTheRightOne
  <2> SUFFICES ASSUME FlowInv, NEW d \in Written
               PROVE  LET f == disk[d][1] IN
                      IF req.kind = "decrypt" THEN f.sig[4] = RSA_3072_SIG_BYTES + 1
                      ELSE IF req.kind = "library" THEN
                           /\ f.sig[3] = KeyRefByte[req.slot]
                           /\ IF req.op[1] = "raw" THEN f.sig[4] = req.op[2] ELSE f.sig[4] = Hash(req.op[2])
                      ELSE /\ f.sig[3] = KeyRefByte[req.slot] /\ f.key[2] = req.slot
                           /\ f.sig[4].of = <<"octets", d>>
                           /\ f.sig[4].alg = document_signer(Info[f.key[1]].key)
    BY Zenon DEF WrittenResultIsTheRightOne
  <2>1. d \in 1..MaxDocs /\ disk[d] # None
    BY DEF Written
  <2>2. PinTyped /\ GoodRequest(req)
    BY <2>1 DEF FlowInv, RequestInv
  <2>3. PICK sig, key : sig = disk[d][1].sig /\ key = disk[d][1].key
    OBVIOUS
  <2>4. RightResult(req, d, sig, key)
    BY <2>1, <2>3, Zenon DEF FlowInv, FileInv
  <2>5. req.kind = "library" => Hash(req.op[2]) = Digest(req.op[2], 1)
    <3>1. req.kind = "library" => run.doc = 1
      BY <2>2 DEF GoodRequest, FlowInv, RequestInv
    <3> QED
      BY <3>1 DEF Hash, Digest
  <2>6. CASE req.kind = "decrypt"
    BY <2>3, <2>4, <2>6 DEF RightResult
  <2>7. CASE req.kind = "library"
    BY <2>3, <2>4, <2>5, <2>7 DEF RightResult
  <2>8. CASE req.kind \notin {"decrypt", "library"}
    <3>1. /\ sig[3] = KeyRefByte[req.slot] /\ key[2] = req.slot
          /\ sig[4].of = <<"octets", d>>
          /\ sig[4].alg = document_signer(Info[key[1]].key)
      BY <2>4, <2>8, Zenon DEF RightResult
    <3> QED
      BY <2>3, <2>8, <3>1, Zenon
  <2> QED
    BY <2>6, <2>7, <2>8
<1> QED
  BY <1>1, FlowInvariant, PTL

\* The graphical client sends the PIN to the card it shows and to no other,
\* and the command line sends a typed PIN once, although it may run the
\* session again.
THEOREM PinGoesWhereMeant == Spec => []PinSpentAsMeant
<1>1. FlowInv => PinSpentAsMeant
  BY DEF FlowInv, PinInv, PinSpentAsMeant, PinOnlyToDisplayedCard, OneAttemptPerTypedPin
<1> QED
  BY <1>1, FlowInvariant, PTL

\* No request is refused by the policy after the PIN for it was typed on the
\* command line: what the options make is refused when they are resolved.
THEOREM RefusedBeforeThePin == Spec => NoPinForARefusedRequest
<1>1. FlowInv /\ [Next]_vars => [run.stage = "policy" /\ req.origin = "cli" => run'.stage # "failed"]_vars
  <2> SUFFICES ASSUME FlowInv, Next, run.stage = "policy", req.origin = "cli"
               PROVE  run'.stage # "failed"
    OBVIOUS
  <2>1. CASE Policy
    BY <2>1, PolicyKeeps
  <2>2. CASE \E c \in Cards : SwapCard(c)
    BY <2>2 DEF SwapCard
  <2> QED
    BY <2>1, <2>2
       DEF Next, AskCli, AskBare, AskLibrary, AskGui, Ask, OpenSession, SelectApplication, Rerun, ResetCard,
           Pace, ReadCertificate, CheckDisplayedCard, PlanDocument, ResolveScheme, VerifyPin, Dispatch,
           SignExchange, ExtendedRefused, Foreign, LocalVerify, RequestToken, PostFails, PostAgain, Tick,
           CollectMaterial, ArchiveRefused, WriteOutput, NextDocument, Finished, Ended
<1> QED
  BY <1>1, FlowInvariant, PTL DEF Spec, NoPinForARefusedRequest

(***************************************************************************)
(* What is reported: a second invariant, on top of the first               *)
(***************************************************************************)

\* The stages in which tokens for the signature are collected, those of the
\* archive token, and those in which a query is open.
Collecting == {"stamp", "await", "pause"}
Archiving == {"archive", "await archive", "pause archive"}
Waiting == {"await", "pause", "await archive", "pause archive"}

\* A token made for the signature sig, for its own request, by the one
\* certificate it can name, as TokensAreForThisRequest has it of a file.
NamedBy(token) ==
    {c \in Range(token.certs) : c.parses /\ c.issuer = token.sid.issuer /\ c.serial = token.sid.serial}
NonceValues(tst) ==
    {tst.optional[i].value : i \in {j \in DOMAIN tst.optional : tst.optional[j].tag = "INTEGER"}}
RightToken(t, sig) ==
    /\ t.token.tst.imprint.hash = t.of /\ t.of[2] = sig
    /\ NonceValues(t.token.tst) = {positive_integer(t.nonce)}
    /\ t.token.tst.gen_time \in (t.asked - Skew)..(t.got + Skew)
    /\ Cardinality(NamedBy(t.token)) = 1
    /\ \A c \in NamedBy(t.token) : t.token.tst.gen_time \in c.not_before..c.not_after
RightTokens(f) == \A t \in f.tokens \cup Range(f.archive) : RightToken(t, f.sig)

\* The certificates of the tokens are among the evidence, and so is the chain
\* of the signer.
Covered(f) == \A t \in f.tokens : SignerCertificate(t.token).der \in f.material
Complete(f) == f.tokens # {} /\ Covered(f) /\ <<"chain", f.key>> \in f.material

\* A run that has not come to its time-stamps.
NoStamps(r) == r.tokens = {} /\ r.material = {} /\ r.archive = None

\* What the time-stamps of a run r must have, by its stage, for request q.
Stamps(q, r) ==
    /\ IsFiniteSet(r.tokens)
    /\ r.stage \notin Final \cup {"failed"} => NoStamps(r)
    /\ r.stage \in Final => RightTokens(r)
    /\ r.stage \in Final /\ requires_long_term_material(q) => Covered(r)
    /\ r.stage \in Collecting \cup Archiving => r.archive = None
    /\ r.stage \in Archiving => q.archive /\ Complete(r)
    /\ r.stage = "write" =>
         /\ requires_long_term_material(q) => Complete(r)
         /\ q.archive => Len(r.archive) = 1 /\ SignerCertificate(r.archive[1].token).der \in r.material
         /\ ~q.archive => r.archive = None

\* The level a file f has.
Reached(f, level) ==
    /\ level = "B" => f.tokens = {}
    /\ level \in {"T", "LT", "LTA"} => f.tokens # {}
    /\ level \in {"LT", "LTA"} => Covered(f) /\ <<"chain", f.key>> \in f.material
    /\ level = "LTA" => f.archive # None /\ SignerCertificate(f.archive[1].token).der \in f.material

\* A query that is open was sent with a nonce, no later than now; the tokens of
\* the run and of the files are right, and no level was reported for a document
\* that is not done or has no file.
StampInv ==
    /\ run.answer # "honest refused"
    /\ run.stage \in Waiting => run.asked \in 0..clock /\ run.nonce \in Nonces
    /\ Stamps(req, run)
    /\ \A d \in 1..MaxDocs : disk[d] # None => RightTokens(disk[d][1])
    /\ \A d \in 1..MaxDocs : disk[d] = None => status[d] = "none"
    /\ \A d \in 1..MaxDocs : disk[d] # None /\ status[d] # "none" => Reached(disk[d][1], status[d])
    /\ \A d \in 1..MaxDocs : d > run.doc \/ (d = run.doc /\ run.stage # "done") => status[d] = "none"

\* A step of the run that leaves the request, the files and the clock alone
\* has only the run's own parts to show.
LEMMA StampFrame ==
    ASSUME StampInv, UNCHANGED <<req, disk, status, clock>>, run.stage # "done", run'.doc = run.doc,
           run'.answer # "honest refused", Stamps(req, run'),
           run'.stage \in Waiting => run'.asked \in 0..clock /\ run'.nonce \in Nonces
    PROVE  StampInv'
<1>1. \A d \in 1..MaxDocs : disk'[d] = None => status'[d] = "none"
  BY Zenon DEF StampInv
<1>2. Stamps(req', run')
  BY Zenon
<1>3. \A d \in 1..MaxDocs : disk'[d] # None => RightTokens(disk'[d][1])
  BY Zenon DEF StampInv
<1>4. \A d \in 1..MaxDocs : disk'[d] # None /\ status'[d] # "none" => Reached(disk'[d][1], status'[d])
  BY Zenon DEF StampInv
<1>5. \A d \in 1..MaxDocs : d > run'.doc \/ (d = run'.doc /\ run'.stage # "done") => status'[d] = "none"
  BY DEF StampInv
<1>6. run'.stage \in Waiting => run'.asked \in 0..clock' /\ run'.nonce \in Nonces
  BY Zenon
<1> QED
  BY <1>1, <1>2, <1>3, <1>4, <1>5, <1>6, Zenon DEF StampInv

\* A run without time-stamps that is not in a stage that needs some.
LEMMA NoneNeeded ==
    ASSUME NEW q, NEW r, NoStamps(r),
           r.stage = "write" => ~requires_long_term_material(q) /\ ~q.archive, r.stage \notin Archiving
    PROVE  Stamps(q, r)
<1>1. IsFiniteSet(r.tokens)
  BY FS_EmptySet DEF NoStamps
<1>2. RightTokens(r) /\ Covered(r)
  BY DEF NoStamps, RightTokens, Covered, Range, None
<1> QED
  BY <1>1, <1>2, Zenon DEF Stamps, NoStamps

\* What a step leaves alone that has nothing to do with time-stamps.
SameStamps(r) ==
    r.tokens = run.tokens /\ r.material = run.material /\ r.archive = run.archive /\ r.doc = run.doc
    /\ r.answer = run.answer
Early == Stages \ (Final \cup {"failed"})

\* Up to the signature there are none; the signature of a document goes on to
\* them, any other result into its file.
LEMMA EarlyKeeps ==
    ASSUME FlowInv, StampInv, UNCHANGED <<req, disk, status, clock>>, run.stage \in Early, SameStamps(run'),
           run'.stage \in Early \cup {"failed", "stamp", "write"},
           run'.stage = "write" => PinTyped /\ req.kind # "document"
    PROVE  StampInv'
<1>1. run.stage \notin Final \cup {"failed"}
  BY DEF Early
<1>2. NoStamps(run')
  BY <1>1, Zenon DEF StampInv, Stamps, NoStamps, SameStamps
<1>3. run'.stage = "write" => ~requires_long_term_material(req) /\ ~req.archive
  BY Zenon DEF FlowInv, RequestInv, GoodRequest, requires_long_term_material
<1>4. run'.stage \notin Archiving \cup Waiting
  BY DEF Early, Archiving, Waiting, Final
<1>5. Stamps(req, run')
  BY <1>2, <1>3, <1>4, NoneNeeded
<1>6. run.stage # "done" /\ run'.answer # "honest refused" /\ run'.doc = run.doc
  BY <1>1 DEF Final, StampInv, SameStamps
<1> QED
  BY <1>4, <1>5, <1>6, StampFrame

\* A run that fails keeps what it has, and says nothing of it.
LEMMA FailKeeps ==
    ASSUME FlowInv, StampInv, UNCHANGED <<req, disk, status, clock>>, run.stage # "done", NEW err, FailWith(err)
    PROVE  StampInv'
<1>1. run'.stage = "failed" /\ SameStamps(run')
  BY Fields DEF FlowInv, FailWith, SameStamps
<1>2. run'.stage \notin Final \cup Collecting \cup Archiving \cup Waiting \cup {"write"}
  BY <1>1 DEF Final, Collecting, Archiving, Waiting
<1>3. IsFiniteSet(run'.tokens)
  BY <1>1, Zenon DEF StampInv, Stamps, SameStamps
<1>4. Stamps(req, run')
  BY <1>1, <1>2, <1>3 DEF Stamps
<1> QED
  BY <1>1, <1>2, <1>4, StampFrame DEF SameStamps, StampInv

\* So does a step that only goes on,
LEMMA StepKeepsStamps ==
    ASSUME FlowInv, NEW next, Step(next)
    PROVE  SameStamps(run') /\ run'.stage = next
  BY Fields DEF Step, FlowInv, SameStamps

\* The session up to the PIN has no time-stamps,
LEMMA SessionStamps ==
    ASSUME FlowInv, StampInv,
           \/ Policy
           \/ \E outcome \in {"ok", "Transport"} : OpenSession(outcome)
           \/ SelectApplication
           \/ ResetCard
           \/ \E outcome \in {"ok", "Pace"} : Pace(outcome)
           \/ \E outcome \in {"ok", "unreadable"} : ReadCertificate(outcome)
           \/ CheckDisplayedCard
           \/ \E outcome \in {"ok", "Document"} : PlanDocument(outcome)
           \/ ResolveScheme
           \/ VerifyPin
    PROVE  StampInv'
<1>1. run.stage \in BeforeVerify /\ UNCHANGED <<req, disk, status, clock>>
  BY DEF BeforeVerify, Policy, OpenSession, SelectApplication, ResetCard, Pace, ReadCertificate,
         CheckDisplayedCard, PlanDocument, ResolveScheme, VerifyPin, Rest
<1>2. run.stage \in Early /\ run.stage # "done"
  BY <1>1 DEF Early, BeforeVerify, Final, Stages
<1>3. \/ \E err : FailWith(err)
      \/ \E next \in BeforeVerify \cup {"dispatch"} : Step(next)
      \/ run' = [run EXCEPT !.key = <<card.in, req.slot>>, !.stage = IF req.kind = "document" THEN "serial" ELSE "scheme"]
      \/ run' = [run EXCEPT !.scheme = IF req.kind = "decrypt" THEN "Citizen" ELSE Info[card.in].scheme, !.stage = "verify"]
  BY DEF BeforeVerify, Policy, OpenSession, SelectApplication, ResetCard, Pace, ReadCertificate,
         CheckDisplayedCard, PlanDocument, ResolveScheme, VerifyPin
<1>4. CASE \E err : FailWith(err)
  BY <1>1, <1>2, <1>4, FailKeeps
<1>5. CASE \E next \in BeforeVerify \cup {"dispatch"} : Step(next)
  <2>1. SameStamps(run') /\ run'.stage \in BeforeVerify \cup {"dispatch"}
    BY <1>5, StepKeepsStamps
  <2>2. run'.stage \in Early /\ run'.stage # "write"
    BY <2>1 DEF Early, BeforeVerify, Final, Stages
  <2> QED
    BY <1>1, <1>2, <2>1, <2>2, EarlyKeeps
<1>6. CASE \/ run' = [run EXCEPT !.key = <<card.in, req.slot>>, !.stage = IF req.kind = "document" THEN "serial" ELSE "scheme"]
           \/ run' = [run EXCEPT !.scheme = IF req.kind = "decrypt" THEN "Citizen" ELSE Info[card.in].scheme, !.stage = "verify"]
  <2>1. SameStamps(run') /\ run'.stage \in {"serial", "scheme", "verify"}
    BY <1>6, Fields DEF FlowInv, SameStamps
  <2>2. run'.stage \in Early /\ run'.stage # "write"
    BY <2>1 DEF Early, BeforeVerify, Final, Stages
  <2> QED
    BY <1>1, <1>2, <2>1, <2>2, EarlyKeeps
<1> QED
  BY <1>3, <1>4, <1>5, <1>6

\* nor has the signature,
LEMMA SignatureStamps ==
    ASSUME FlowInv, StampInv,
           \/ Dispatch
           \/ \E length_ok \in BOOLEAN : SignExchange(length_ok)
           \/ ExtendedRefused
           \/ LocalVerify
    PROVE  StampInv'
<1>1. run.stage \in {"dispatch", "sign", "check"} /\ UNCHANGED <<req, disk, status, clock>>
  BY DEF Dispatch, SignExchange, ExtendedRefused, LocalVerify, Rest
<1>2. run.stage \in Early /\ run.stage # "done"
  BY <1>1 DEF Early, Final, Stages
<1>3. PinTyped
  BY <1>1, TypedAt
<1>4. \/ \E err : FailWith(err)
      \/ \E program, expect : run' = [run EXCEPT !.stage = "sign", !.program = program, !.expect = expect]
      \/ \E program : run' = [run EXCEPT !.program = program]
      \/ \E sig : run' = [run EXCEPT !.sig = sig, !.program = <<>>,
                            !.stage = IF req.kind \in {"decrypt", "library"} THEN "write" ELSE "check"]
      \/ req.kind = "bare" /\ Step("write")
      \/ run' = [run EXCEPT !.stage = "stamp", !.at = 1]
  <2>1. CASE Dispatch
    <3>1. PICK p : /\ p = CASE req.kind = "decrypt" -> decrypt_rsa_pkcs1("Auth", RSA_3072_SIG_BYTES)
                          [] req.kind = "library" -> LibraryProgram(req.op, req.slot)
                          [] OTHER -> sign_dispatch_by_alg(Info[card.in].key, run.scheme, req.slot)
      OBVIOUS
    <3>2. IF p.err # "" THEN FailWith(p.err)
          ELSE run' = [run EXCEPT !.stage = "sign", !.program = p.commands, !.expect = p.expect]
      BY <2>1, <3>1, Zenon DEF Dispatch
    <3> QED
      BY <3>2, Zenon
  <2>2. CASE \E length_ok \in BOOLEAN : SignExchange(length_ok)
    BY <2>2, Zenon DEF SignExchange
  <2>3. CASE ExtendedRefused
    BY <2>3, Zenon DEF ExtendedRefused
  <2>4. CASE LocalVerify
    BY <2>4, Zenon DEF LocalVerify
  <2> QED
    BY <2>1, <2>2, <2>3, <2>4
<1>5. CASE \E err : FailWith(err)
  BY <1>1, <1>2, <1>5, FailKeeps
<1>6. CASE ~\E err : FailWith(err)
  <2>1. SameStamps(run') /\ run'.stage \in {"sign", "check", "stamp", "write"} \cup {run.stage}
        /\ (run'.stage = "write" => req.kind # "document")
    BY <1>1, <1>4, <1>6, Fields DEF FlowInv, SameStamps, Step
  <2>2. run'.stage \in Early \cup {"failed", "stamp", "write"}
    BY <1>2, <2>1 DEF Early, Final, Stages
  <2> QED
    BY <1>1, <1>2, <1>3, <2>1, <2>2, EarlyKeeps
<1> QED
  BY <1>5, <1>6

\* nor what another process does, or whoever swaps the cards.
LEMMA OthersStamps ==
    ASSUME StampInv, UNCHANGED <<req, run, disk, status, clock>>
    PROVE  StampInv'
  BY Zenon DEF StampInv

\* A run that starts over has none yet: the session with a CAN,
LEMMA FreshStamps ==
    ASSUME NEW q, NEW r, NoStamps(r), r.stage \in {"policy", "failed"}
    PROVE  Stamps(q, r)
<1>1. r.stage \notin Archiving \cup {"write"}
  BY DEF Archiving
<1> QED
  BY <1>1, NoneNeeded
LEMMA RerunStamps ==
    ASSUME FlowInv, StampInv, Rerun
    PROVE  StampInv'
<1>1. run.stage = "failed" /\ UNCHANGED <<req, disk, status, clock>> /\ req.origin = "cli"
  BY DEF Rerun, Rest, may_rerun
<1>2. NoStamps(run') /\ run'.answer = "none" /\ run'.stage = "policy" /\ run'.doc = 1
  BY DEF Rerun, NoRun, NoStamps, None
<1>3. run.doc = 1
  BY <1>1 DEF FlowInv, RequestInv
<1>4. Stamps(req, run')
  BY <1>2, FreshStamps
<1> QED
  BY <1>1, <1>2, <1>3, <1>4, StampFrame DEF Waiting

\* the next document, for which nothing was reported,
LEMMA NextDocumentStamps ==
    ASSUME FlowInv, StampInv, NextDocument
    PROVE  StampInv'
<1>1. UNCHANGED <<req, disk, status, clock>>
  BY DEF NextDocument, Rest
<1>2. NoStamps(run') /\ run'.answer = "none" /\ run'.stage = "policy" /\ run'.doc = run.doc + 1
  BY DEF NextDocument, NoRun, NoStamps, None
<1>3. Stamps(req, run')
  BY <1>2, FreshStamps
<1>4. \A d \in 1..MaxDocs : d > run'.doc \/ (d = run'.doc /\ run'.stage # "done") => status'[d] = "none"
  <2>1. run.doc \in Nat /\ MaxDocs \in Nat
    BY SigningAssumption DEF FlowInv, FlowType
  <2>2. \A d \in 1..MaxDocs : d > run.doc => status[d] = "none"
    BY Zenon DEF StampInv
  <2>3. \A d \in 1..MaxDocs : d > run'.doc \/ d = run'.doc => d > run.doc
    BY <1>2, <2>1
  <2> QED
    BY <1>1, <2>2, <2>3, Zenon
<1>5. run'.stage \notin Waiting
  BY <1>2 DEF Waiting
<1>6. \A d \in 1..MaxDocs : disk'[d] = None => status'[d] = "none"
  BY <1>1, Zenon DEF StampInv
<1>7. /\ \A d \in 1..MaxDocs : disk'[d] # None => RightTokens(disk'[d][1])
      /\ \A d \in 1..MaxDocs : disk'[d] # None /\ status'[d] # "none" => Reached(disk'[d][1], status'[d])
  BY <1>1, Zenon DEF StampInv
<1>8. run'.answer # "honest refused" /\ Stamps(req', run')
  BY <1>1, <1>2, <1>3
<1> QED
  BY <1>4, <1>5, <1>6, <1>7, <1>8, Zenon DEF StampInv

\* and the first one, when a request is made.
LEMMA AskStamps ==
    ASSUME FlowInv, StampInv, AskCli \/ AskBare \/ AskLibrary \/ AskGui
    PROVE  StampInv'
<1>1. run.stage = "idle" /\ \E r, pin : Ask(r, pin)
  BY Zenon DEF AskCli, AskBare, AskLibrary, AskGui
<1>2. UNCHANGED <<disk, status, clock>>
  BY <1>1, Zenon DEF Ask
<1>3. NoStamps(run') /\ run'.answer = "none" /\ run'.stage \in {"policy", "failed"}
  BY <1>1 DEF Ask, NoRun, NoStamps, None
<1>4. Stamps(req', run')
  BY <1>3, FreshStamps
<1>5. \A d \in 1..MaxDocs : disk'[d] = None /\ status'[d] = "none"
  BY <1>1, <1>2 DEF StampInv, FlowInv, RequestInv
<1>6. run'.stage \notin Waiting /\ run'.answer # "honest refused"
  BY <1>3 DEF Waiting
<1> QED
  BY <1>4, <1>5, <1>6, Zenon DEF StampInv

\* A query leaves the time-stamps of the run alone,
LEMMA SameKeeps ==
    ASSUME FlowInv, StampInv, UNCHANGED <<req, disk, status, clock>>, SameStamps(run'),
           run'.sig = run.sig, run'.key = run.key,
           \/ run.stage \in Collecting /\ run'.stage \in Collecting
           \/ run.stage \in Archiving /\ run'.stage \in Archiving,
           run'.stage \in Waiting => run'.asked \in 0..clock /\ run'.nonce \in Nonces
    PROVE  StampInv'
<1>1. /\ run.stage \in Final /\ run'.stage \in Final /\ run.stage # "done" /\ run'.stage # "write"
      /\ (run'.stage \in Archiving => run.stage \in Archiving)
      /\ run.stage \in Collecting \cup Archiving
  BY DEF Final, Collecting, Archiving
<1>2. /\ run'.tokens = run.tokens /\ run'.material = run.material /\ run'.archive = run.archive
      /\ run'.doc = run.doc /\ run'.answer = run.answer
  BY DEF SameStamps
<1>3. IsFiniteSet(run'.tokens) /\ run'.archive = None
  BY <1>1, <1>2, Zenon DEF StampInv, Stamps
<1>4. RightTokens(run')
  BY <1>1, <1>2, Zenon DEF StampInv, Stamps, RightTokens
<1>5. requires_long_term_material(req) => Covered(run')
  BY <1>1, <1>2, Zenon DEF StampInv, Stamps, Covered
<1>6. run'.stage \in Archiving => req.archive /\ Complete(run')
  BY <1>1, <1>2, Zenon DEF StampInv, Stamps, Complete, Covered
<1>7. Stamps(req, run')
  BY <1>1, <1>3, <1>4, <1>5, <1>6, Zenon DEF Stamps
<1>8. run'.answer # "honest refused"
  BY <1>2 DEF StampInv
<1> QED
  BY <1>1, <1>2, <1>7, <1>8, StampFrame

\* whether it is sent,
LEMMA RequestTokenStamps ==
    ASSUME FlowInv, StampInv, NEW nonce \in Nonces, RequestToken(nonce)
    PROVE  StampInv'
<1>1. run.stage \in {"stamp", "archive"} /\ UNCHANGED <<req, disk, status, clock>>
  BY DEF RequestToken, Rest
<1>2. /\ run'.stage = (IF run.stage = "stamp" THEN "await" ELSE "await archive")
      /\ SameStamps(run') /\ run'.sig = run.sig /\ run'.key = run.key /\ run'.asked = clock /\ run'.nonce = nonce
  BY Fields DEF RequestToken, FlowInv, SameStamps
<1>3. clock \in 0..clock
  BY SigningAssumption DEF FlowInv, FlowType
<1> QED
  BY <1>1, <1>2, <1>3, SameKeeps DEF Collecting, Archiving

\* gets no answer
LEMMA PostFailsStamps ==
    ASSUME FlowInv, StampInv, NEW retryable \in BOOLEAN, PostFails(retryable)
    PROVE  StampInv'
<1>1. run.stage \in {"await", "await archive"} /\ UNCHANGED <<req, disk, status, clock>>
  BY DEF PostFails, Rest
<1>2. Step(IF run.stage = "await" THEN "pause" ELSE "pause archive") \/ run' = NextAuthority(run)
  BY DEF PostFails
<1>3. /\ SameStamps(run') /\ run'.sig = run.sig /\ run'.key = run.key
      /\ \/ run'.stage = (IF run.stage = "await" THEN "pause" ELSE "pause archive")
            /\ run'.asked = run.asked /\ run'.nonce = run.nonce
         \/ run'.stage = (IF run.stage = "await" THEN "stamp" ELSE "archive")
  BY <1>1, <1>2, Fields DEF FlowInv, Step, NextAuthority, SameStamps
<1>4. run.asked \in 0..clock /\ run.nonce \in Nonces
  BY <1>1 DEF StampInv, Waiting
<1>5. run'.stage \in Waiting => run'.asked \in 0..clock /\ run'.nonce \in Nonces
  BY <1>1, <1>3, <1>4 DEF Waiting
<1> QED
  BY <1>1, <1>3, <1>5, SameKeeps DEF Collecting, Archiving

\* or is sent again.
LEMMA PostAgainStamps ==
    ASSUME FlowInv, StampInv, PostAgain
    PROVE  StampInv'
<1>1. run.stage \in {"pause", "pause archive"} /\ UNCHANGED <<req, disk, status, clock>>
  BY DEF PostAgain, Rest
<1>2. /\ SameStamps(run') /\ run'.sig = run.sig /\ run'.key = run.key
      /\ run'.stage = (IF run.stage = "pause" THEN "await" ELSE "await archive")
      /\ run'.asked = run.asked /\ run'.nonce = run.nonce
  BY <1>1, Fields DEF FlowInv, Step, PostAgain, SameStamps
<1>3. run.asked \in 0..clock /\ run.nonce \in Nonces
  BY <1>1 DEF StampInv, Waiting
<1> QED
  BY <1>1, <1>2, <1>3, SameKeeps DEF Collecting, Archiving

\* Time passes while it is open.
LEMMA TickStamps ==
    ASSUME FlowInv, StampInv, Tick
    PROVE  StampInv'
<1>1. UNCHANGED <<req, run, disk, status>> /\ clock' = clock + 1
  BY DEF Tick
<1>2. clock \in Nat
  BY SigningAssumption DEF FlowInv, FlowType
<1>3. run.stage \in Waiting => run.asked \in 0..clock /\ run.nonce \in Nonces
  BY DEF StampInv
<1>4. run'.stage \in Waiting => run'.asked \in 0..clock' /\ run'.nonce \in Nonces
  BY <1>1, <1>2, <1>3
<1> QED
  BY <1>1, <1>4, Zenon DEF StampInv

\* The evidence for the signer's own chain completes it.
LEMMA CollectMaterialStamps ==
    ASSUME FlowInv, StampInv, NEW evidence \in BOOLEAN, CollectMaterial(evidence)
    PROVE  StampInv'
<1>1. run.stage = "stamp" /\ UNCHANGED <<req, disk, status, clock>>
  BY DEF CollectMaterial, Rest
<1>2. run.stage \in Final /\ run.stage \in Collecting /\ run.stage # "done"
  BY <1>1 DEF Final, Collecting
<1>3. /\ IsFiniteSet(run.tokens) /\ RightTokens(run) /\ run.archive = None
      /\ requires_long_term_material(req) => Covered(run)
  BY <1>2, Zenon DEF StampInv, Stamps
<1>4. PICK m : m = run.material \cup {<<"chain", run.key>>}
  OBVIOUS
<1>5. \/ \E err : FailWith(err)
      \/ ~requires_long_term_material(req) /\ Step("write")
      \/ /\ run.tokens # {}
         /\ run' = [run EXCEPT !.material = m, !.at = 1, !.stage = IF req.archive THEN "archive" ELSE "write"]
  BY <1>4 DEF CollectMaterial
<1>6. CASE \E err : FailWith(err)
  BY <1>1, <1>2, <1>6, FailKeeps
<1>7. CASE ~requires_long_term_material(req) /\ Step("write")
  <2>1. SameStamps(run') /\ run'.stage = "write" /\ run'.sig = run.sig
    BY <1>7, StepKeepsStamps, StepShape
  <2>2. IsFiniteSet(run'.tokens) /\ RightTokens(run') /\ run'.archive = None /\ run'.answer # "honest refused"
        /\ run'.doc = run.doc
    BY <1>3, <2>1, Zenon DEF SameStamps, RightTokens, StampInv
  <2>3. ~req.archive
    BY <1>7 DEF requires_long_term_material
  <2>4. run'.stage \notin Collecting \cup Archiving \cup Waiting /\ run'.stage \in Final
    BY <2>1 DEF Collecting, Archiving, Waiting, Final
  <2>5. Stamps(req, run')
    BY <1>7, <2>1, <2>2, <2>3, <2>4, Zenon DEF Stamps
  <2> QED
    BY <1>1, <1>2, <2>2, <2>4, <2>5, StampFrame
<1>8. CASE /\ run.tokens # {}
           /\ run' = [run EXCEPT !.material = m, !.at = 1, !.stage = IF req.archive THEN "archive" ELSE "write"]
  <2>1. /\ run'.tokens = run.tokens /\ run'.archive = run.archive /\ run'.material = m
        /\ run'.doc = run.doc /\ run'.answer = run.answer /\ run'.sig = run.sig /\ run'.key = run.key
        /\ run'.stage = IF req.archive THEN "archive" ELSE "write"
    BY <1>8, Fields DEF FlowInv
  <2>2. IsFiniteSet(run'.tokens) /\ RightTokens(run') /\ run'.archive = None /\ run'.answer # "honest refused"
    BY <1>3, <2>1, Zenon DEF RightTokens, StampInv
  <2>3. CASE requires_long_term_material(req)
    <3>1. run'.stage \notin Waiting /\ run'.stage \in Final /\ (run'.stage = "write" => ~req.archive)
          /\ (run'.stage \in Archiving => req.archive)
      BY <2>1 DEF Archiving, Waiting, Final
    <3>2. run.material \subseteq run'.material /\ <<"chain", run'.key>> \in run'.material
      BY <1>4, <2>1
    <3>3. Covered(run')
      BY <1>3, <2>1, <2>3, <3>2 DEF Covered
    <3>4. Complete(run')
      BY <1>8, <2>1, <3>2, <3>3, Zenon DEF Complete
    <3>5. Stamps(req, run')
      BY <2>2, <3>1, <3>3, <3>4, Zenon DEF Stamps
    <3> QED
      BY <1>1, <1>2, <2>1, <2>2, <3>1, <3>5, StampFrame
  <2>4. CASE ~requires_long_term_material(req)
    BY <1>6, <1>7, <2>4 DEF CollectMaterial
  <2> QED
    BY <2>3, <2>4
<1> QED
  BY <1>5, <1>6, <1>7, <1>8

\* Without an archive time-stamp there is no file.
LEMMA ArchiveRefusedStamps ==
    ASSUME FlowInv, StampInv, ArchiveRefused
    PROVE  StampInv'
  BY FailKeeps DEF ArchiveRefused, Rest

\* What describe_level says of a run that may write its file is reached.
LEMMA LevelReached ==
    ASSUME NEW q, NEW r, NEW f, Stamps(q, r), r.stage = "write", NEW level,
           level = describe_level(Cardinality(r.tokens) + Len(r.archive), q.long_term, q.archive),
           f.tokens = r.tokens, f.material = r.material, f.archive = r.archive, f.key = r.key
    PROVE  Reached(f, level)
<1>1. PICK n : n = Cardinality(r.tokens)
  OBVIOUS
<1>2. n \in Nat /\ (n = 0 <=> r.tokens = {})
  BY <1>1, FS_CardinalityType, FS_EmptySet DEF Stamps
<1>3. Len(r.archive) = IF q.archive THEN 1 ELSE 0
  BY DEF Stamps, None
<1>4. (Cardinality(r.tokens) + Len(r.archive)) - (IF q.archive THEN 1 ELSE 0) = n
  BY <1>1, <1>2, <1>3
<1>5. level = IF n = 0 THEN "B" ELSE IF ~q.long_term THEN "T" ELSE IF q.archive THEN "LTA" ELSE "LT"
  BY <1>4, Zenon DEF describe_level
<1>6. level \in {"LT", "LTA"} => requires_long_term_material(q)
  BY <1>5 DEF requires_long_term_material
<1>7. requires_long_term_material(q) => Complete(r)
  BY Zenon DEF Stamps
<1>8. level \in {"LT", "LTA"} => Covered(f) /\ <<"chain", f.key>> \in f.material
  BY <1>6, <1>7, Zenon DEF Complete, Covered
<1>9. level = "LTA" => q.archive
  BY <1>5
<1>10. level = "LTA" => f.archive # None /\ SignerCertificate(f.archive[1].token).der \in f.material
  <2>1. level = "LTA" => Len(f.archive) = 1 /\ SignerCertificate(f.archive[1].token).der \in f.material
    BY <1>9, Zenon DEF Stamps
  <2>2. Len(None) = 0
    BY DEF None
  <2> QED
    BY <2>1, <2>2
<1>11. (level = "B" => f.tokens = {}) /\ (level \in {"T", "LT", "LTA"} => f.tokens # {})
  BY <1>2, <1>5
<1> QED
  BY <1>8, <1>10, <1>11, Zenon DEF Reached

\* The file gets the tokens of the run, and its document the level reached.
LEMMA WriteOutputStamps ==
    ASSUME FlowInv, StampInv, NEW outcome, WriteOutput(outcome)
    PROVE  StampInv'
<1>1. run.stage = "write" /\ UNCHANGED <<req, clock>> /\ run.doc \in 1..MaxDocs
  BY DEF WriteOutput, FlowInv, FlowType
<1>2. run.stage \in Final /\ Stamps(req, run) /\ run.stage # "done"
  BY <1>1 DEF Final, StampInv
<1>3. CASE UNCHANGED <<disk, status>> /\ FailWith("SignatureWrite")
  BY <1>1, <1>2, <1>3, FailKeeps
<1>4. CASE ~(UNCHANGED <<disk, status>> /\ FailWith("SignatureWrite"))
  <2>1. PICK f : f = [sig |-> run.sig, key |-> run.key, tokens |-> run.tokens,
                      material |-> run.material, archive |-> run.archive]
    OBVIOUS
  <2>2. PICK level : level = describe_level(Cardinality(run.tokens) + Len(run.archive), req.long_term, req.archive)
    OBVIOUS
  <2>3. /\ disk' = [disk EXCEPT ![run.doc] = <<f>>]
        /\ \/ FailWith("SignatureWrite") /\ UNCHANGED status
           \/ status' = [status EXCEPT ![run.doc] = level] /\ Step("done")
    BY <1>4, <2>1, <2>2, Zenon DEF WriteOutput, reported_timestamp_tokens
  <2>4. /\ f.sig = run.sig /\ f.key = run.key /\ f.tokens = run.tokens /\ f.material = run.material
        /\ f.archive = run.archive
    BY <2>1
  <2>5. /\ run'.stage \in {"done", "failed"} /\ SameStamps(run') /\ run'.sig = run.sig
        /\ run'.stage = "failed" => UNCHANGED status
        /\ run'.stage = "done" => status' = [status EXCEPT ![run.doc] = level]
    BY <2>3, Fields DEF FlowInv, Step, FailWith, SameStamps
  <2>6. RightTokens(run) /\ (requires_long_term_material(req) => Covered(run))
    BY <1>2, Zenon DEF Stamps
  <2>7. RightTokens(f)
    BY <2>4, <2>6, Zenon DEF RightTokens
  <2>8. Reached(f, level)
    BY <1>1, <1>2, <2>2, <2>4, LevelReached
  <2>9. Stamps(req', run')
    <3>1. RightTokens(run') /\ (requires_long_term_material(req) => Covered(run'))
      BY <2>5, <2>6, Zenon DEF RightTokens, Covered, SameStamps
    <3>2. IsFiniteSet(run'.tokens)
      BY <1>2, <2>5, Zenon DEF Stamps, SameStamps
    <3>3. run'.stage \notin Collecting \cup Archiving /\ run'.stage \in Final \cup {"failed"} /\ run'.stage # "write"
      BY <2>5 DEF Collecting, Archiving, Final
    <3> QED
      BY <1>1, <3>1, <3>2, <3>3, Zenon DEF Stamps
  <2>10. /\ \A d \in 1..MaxDocs : d # run.doc => disk'[d] = disk[d] /\ status'[d] = status[d]
         /\ disk'[run.doc] = <<f>>
         /\ status'[run.doc] = (IF run'.stage = "done" THEN level ELSE status[run.doc])
    BY <1>1, <2>3, <2>5 DEF FlowInv, FlowType
  <2>11. status[run.doc] = "none"
    BY <1>1, <1>2, Zenon DEF StampInv
  <2>12. disk'[run.doc] # None /\ disk'[run.doc][1] = f
    BY <2>10 DEF None
  <2>13. \A d \in 1..MaxDocs : disk'[d] # None => RightTokens(disk'[d][1])
    BY <2>7, <2>10, <2>12, Zenon DEF StampInv
  <2>14. \A d \in 1..MaxDocs : disk'[d] = None => status'[d] = "none"
    BY <2>10, <2>12, Zenon DEF StampInv
  <2>15. \A d \in 1..MaxDocs : disk'[d] # None /\ status'[d] # "none" => Reached(disk'[d][1], status'[d])
    BY <2>8, <2>10, <2>11, <2>12, Zenon DEF StampInv
  <2>16. \A d \in 1..MaxDocs : d > run'.doc \/ (d = run'.doc /\ run'.stage # "done") => status'[d] = "none"
    <3>1. run'.doc = run.doc
      BY <2>5 DEF SameStamps
    <3>2. ~(run.doc > run.doc)
      BY <1>1, SigningAssumption
    <3> QED
      BY <2>10, <2>11, <3>1, <3>2, Zenon DEF StampInv
  <2>17. run'.answer # "honest refused" /\ run'.stage \notin Waiting
    BY <2>5 DEF SameStamps, StampInv, Waiting
  <2> QED
    BY <2>9, <2>13, <2>14, <2>15, <2>16, <2>17, Zenon DEF StampInv
<1> QED
  BY <1>3, <1>4

(***************************************************************************)
(* Tokens: what check_binding makes sure of, and what it accepts           *)
(***************************************************************************)

\* The least of some positions is one of them, and none has position 0.
LEMMA FirstPosition ==
    ASSUME NEW S \in SUBSET (Nat \ {0}), S # {}
    PROVE  Min(S) \in S /\ FirstOf(S) = Min(S)
<1>1. PICK m \in S : \A k \in S : ~ (<<k, m>> \in OpToRel(<, Nat))
  BY WFMin, NatLessThanWellFounded, Zenon
<1>2. \A k \in S : ~(k < m)
  BY <1>1, Zenon DEF OpToRel
<1>3. \A k \in S : m <= k
  BY <1>2, SMT
<1>4. Min(S) \in S
  BY <1>1, <1>3, Zenon DEF Min
<1> QED
  BY <1>4, Zenon DEF FirstOf
LEMMA OnlyPosition ==
    ASSUME NEW i \in Nat \ {0}
    PROVE  FirstOf({i}) = i
  BY FirstPosition

\* positive_integer: whatever octets the nonce has, its INTEGER is one that
\* nonnegative_der_integer takes.
LEMMA NonceOctets ==
    ASSUME NEW bytes \in Seq(0..255)
    PROVE  nonnegative_der_integer(positive_integer(bytes))
<1>1. PICK used : used = {i \in DOMAIN bytes : bytes[i] # 0}
  OBVIOUS
<1>2. CASE used = {}
  <2>1. positive_integer(bytes) = <<0>>
    BY <1>1, <1>2, Zenon DEF positive_integer
  <2> QED
    BY <2>1 DEF nonnegative_der_integer
<1>3. CASE used # {}
  <2>1. PICK m : m = Min(used)
    OBVIOUS
  <2>2. used \subseteq Nat \ {0}
    BY <1>1
  <2>3. m \in used
    BY <1>3, <2>1, <2>2, FirstPosition, Zenon
  <2>4. m \in 1..Len(bytes) /\ bytes[m] \in 1..255
    BY <1>1, <2>3
  <2>5. PICK magnitude : magnitude = SubSeq(bytes, m, Len(bytes))
    OBVIOUS
  <2>6. magnitude \in Seq(0..255) /\ Len(magnitude) >= 1 /\ magnitude[1] = bytes[m]
    <3>1. m \in Int /\ 1 <= m /\ m <= Len(bytes) /\ Len(bytes) \in Nat
      BY <2>4
    <3>2. \A i \in m..Len(bytes) : bytes[i] \in 0..255
      <4>1. \A i \in 1..Len(bytes) : bytes[i] \in 0..255
        BY ElementOfSeq, Zenon
      <4>2. \A i \in m..Len(bytes) : i \in 1..Len(bytes)
        BY <3>1
      <4> QED
        BY <4>1, <4>2, Zenon
    <3>3. PICK n : n = Len(bytes)
      OBVIOUS
    <3>4. /\ SubSeq(bytes, m, n) \in Seq(0..255)
          /\ Len(SubSeq(bytes, m, n)) = IF m <= n THEN n - m + 1 ELSE 0
          /\ \A i \in 1..n - m + 1 : SubSeq(bytes, m, n)[i] = bytes[m + i - 1]
      <4>1. m \in Int /\ n \in Int
        BY <3>1, <3>3
      <4>2. \A i \in m..n : bytes[i] \in 0..255
        BY <3>2, <3>3, Zenon
      <4>3. SubSeq(bytes, m, n) \in Seq(0..255)
        BY ONLY <4>1, <4>2, SubSeqProperties
      <4>4. Len(SubSeq(bytes, m, n)) = IF m <= n THEN n - m + 1 ELSE 0
        BY ONLY <4>1, <4>2, SubSeqProperties
      <4>5. \A i \in 1..n - m + 1 : SubSeq(bytes, m, n)[i] = bytes[m + i - 1]
        BY ONLY <4>1, <4>2, SubSeqProperties
      <4> QED
        BY <4>3, <4>4, <4>5
    <3>5. 1 \in 1..n - m + 1 /\ m + 1 - 1 = m /\ m <= n
      BY <3>1, <3>3
    <3>6. magnitude[1] = bytes[m] /\ Len(magnitude) = n - m + 1
      BY <2>5, <3>3, <3>4, <3>5
    <3> QED
      BY <2>5, <3>1, <3>3, <3>4, <3>6
  <2>7. positive_integer(bytes) = IF magnitude[1] >= 128 THEN <<0>> \o magnitude ELSE magnitude
    BY <1>1, <1>3, <2>1, <2>5, Zenon DEF positive_integer
  <2>8. CASE magnitude[1] >= 128
    <3>1. PICK v : v = <<0>> \o magnitude
      OBVIOUS
    <3>2. Len(v) = 1 + Len(magnitude) /\ v[1] = 0 /\ v[2] = magnitude[1]
      BY <2>6, <3>1
    <3>3. v # <<>>
      BY <2>6, <3>2
    <3> QED
      BY <2>7, <2>8, <3>1, <3>2, <3>3 DEF nonnegative_der_integer
  <2>9. CASE ~(magnitude[1] >= 128)
    <3>1. magnitude # <<>>
      BY <2>6
    <3>2. magnitude[1] \in 1..255
      BY <2>4, <2>6, Zenon
    <3>3. magnitude[1] < 128 /\ magnitude[1] # 0
      <4>1. \A k \in 1..255 : ~(k >= 128) => k < 128 /\ k # 0
        OBVIOUS
      <4> QED
        BY <2>9, <3>2, <4>1, Zenon
    <3> QED
      BY <2>7, <2>9, <3>1, <3>3 DEF nonnegative_der_integer
  <2> QED
    BY <2>8, <2>9
<1> QED
  BY <1>2, <1>3

Bound(token, digest, nonce) ==
    /\ parse_tst_info(token.tst) /\ token.tst.imprint.hash = digest
    /\ Optional(token.tst, "INTEGER") = positive_integer(nonce)
    /\ select_signer_certificate(token.certs, token.sid).err = ""
    /\ tsa_certificate_is_usable(SignerCertificate(token), token.tst.gen_time)
\* check_binding: a token it takes is over the digest, with the nonce, and its
\* signer is one certificate that was fit then.
LEMMA BoundToken ==
    ASSUME NEW token, NEW digest, NEW alg, NEW nonce, check_binding(token, digest, alg, nonce) = ""
    PROVE  Bound(token, digest, nonce)
<1>1. PICK signer : signer = select_signer_certificate(token.certs, token.sid)
  OBVIOUS
<1>2. PICK tsa : tsa = Optional(token.tst, "[0]")
  OBVIOUS
<1>3. PICK named : named = tsa_name_matches_certificate(tsa, signer.cert)
  OBVIOUS
<1>4. (IF \/ token.form # "ok" \/ token.content # "TST_INFO" \/ token.attributes = <<>>
          \/ ~parse_tst_info(token.tst)
       THEN "Malformed"
       ELSE IF token.tst.imprint.alg # alg \/ token.tst.imprint.hash # digest THEN "ImprintMismatch"
       ELSE IF Optional(token.tst, "INTEGER") # positive_integer(nonce) THEN "NonceMismatch"
       ELSE IF signer.err # "" THEN signer.err
       ELSE IF tsa # None /\ named # "" THEN named
       ELSE IF ~CmsVerifies(token, signer.cert.key) THEN "TokenSignatureInvalid"
       ELSE IF ~verify_signing_certificate_attribute(token.attributes, signer.cert)
       THEN "SigningCertificateAttributeInvalid"
       ELSE IF ~tsa_certificate_is_usable(signer.cert, token.tst.gen_time)
       THEN "NoUsableTsaCertificate" ELSE "") = ""
  BY <1>1, <1>2, <1>3, Zenon DEF check_binding
<1>5. /\ parse_tst_info(token.tst) /\ token.tst.imprint.hash = digest
      /\ Optional(token.tst, "INTEGER") = positive_integer(nonce) /\ signer.err = ""
      /\ tsa_certificate_is_usable(signer.cert, token.tst.gen_time)
  BY <1>4
<1> QED
  BY <1>1, <1>5, Zenon DEF SignerCertificate, Bound

\* Its nonce is the only INTEGER among the optional fields,
LEMMA OneNonce ==
    ASSUME NEW tst, NEW S, tst.optional \in Seq(S), parse_tst_info(tst), NEW value, value # None,
           Optional(tst, "INTEGER") = value
    PROVE  NonceValues(tst) = {value}
<1>1. PICK order : order = <<"SEQUENCE", "BOOLEAN", "INTEGER", "[0]", "[1]">>
  OBVIOUS
<1>2. PICK fields : fields = tst.optional
  OBVIOUS
<1>3. \A i, j \in DOMAIN fields : i < j => Place(order, fields[i].tag) < Place(order, fields[j].tag)
  BY <1>1, <1>2, Zenon DEF parse_tst_info, OptionalFieldsRead, InOrder
<1>4. Place(order, "INTEGER") = 3
  <2>1. {i \in DOMAIN order : order[i] = "INTEGER"} = {3}
    BY <1>1
  <2> QED
    BY <2>1, OnlyPosition DEF Place
<1>5. PICK at : at = {i \in DOMAIN fields : fields[i].tag = "INTEGER"}
  OBVIOUS
<1>6. \A i, j \in at : ~(i < j)
  BY <1>3, <1>4, <1>5
<1>7. at \subseteq Nat \ {0}
  BY <1>2, <1>5
<1>8. \A i, j \in at : i = j
  BY <1>6, <1>7
<1>9. Optional(tst, "INTEGER") = IF FirstOf(at) = 0 THEN None ELSE fields[FirstOf(at)].value
  BY <1>2, <1>5, Zenon DEF Optional, Field
<1>10. FirstOf(at) # 0 /\ value = fields[FirstOf(at)].value
  BY <1>9, Zenon
<1>11. at # {}
  BY <1>10 DEF FirstOf
<1>12. FirstOf(at) \in at
  BY <1>7, <1>11, FirstPosition
<1>13. NonceValues(tst) = {fields[i].value : i \in at}
  BY <1>2, <1>5, Zenon DEF NonceValues
<1> QED
  BY <1>8, <1>10, <1>12, <1>13

\* and its signer the one certificate it can name.
LEMMA OneSigner ==
    ASSUME NEW token, IsFiniteSet(Range(token.certs)), token.sid.kind = "IssuerAndSerialNumber",
           select_signer_certificate(token.certs, token.sid).err = ""
    PROVE  /\ Cardinality(NamedBy(token)) = 1
           /\ NamedBy(token) = {SignerCertificate(token)}
<1>1. PICK found : found = NamedBy(token)
  OBVIOUS
<1>2. \A c : certificate_matches_sid(c, token.sid) =
               IF c.issuer = token.sid.issuer /\ c.serial = token.sid.serial THEN "yes" ELSE "no"
  BY DEF certificate_matches_sid
<1>3. PICK parsed : parsed = {c \in Range(token.certs) : c.parses}
  OBVIOUS
<1>4. {c \in parsed : certificate_matches_sid(c, token.sid) = "yes"} = found
  BY <1>1, <1>2, <1>3 DEF NamedBy
<1>5. ~\E c \in parsed : certificate_matches_sid(c, token.sid) = "bad"
  BY <1>2
<1>6. select_signer_certificate(token.certs, token.sid) =
        IF found = {} THEN [err |-> "NoMatchingTsaCertificate", cert |-> None]
        ELSE IF Cardinality(found) > 1 THEN [err |-> "AmbiguousTsaCertificate", cert |-> None]
        ELSE [err |-> "", cert |-> CHOOSE c \in found : TRUE]
  BY <1>3, <1>4, <1>5, Zenon DEF select_signer_certificate
<1>7. found # {} /\ ~(Cardinality(found) > 1) /\ SignerCertificate(token) = CHOOSE c \in found : TRUE
  <2>1. PICK result, one, n : /\ result = select_signer_certificate(token.certs, token.sid)
                              /\ one = (CHOOSE c \in found : TRUE) /\ n = Cardinality(found)
    OBVIOUS
  <2>2. result = IF found = {} THEN [err |-> "NoMatchingTsaCertificate", cert |-> None]
                 ELSE IF n > 1 THEN [err |-> "AmbiguousTsaCertificate", cert |-> None]
                 ELSE [err |-> "", cert |-> one]
    BY <1>6, <2>1, Zenon
  <2>3. result.err = ""
    BY <2>1
  <2>4. found # {} /\ ~(n > 1) /\ result.cert = one
    BY <2>2, <2>3
  <2> QED
    BY <2>1, <2>4, Zenon DEF SignerCertificate
<1>8. IsFiniteSet(found)
  <2>1. found \subseteq Range(token.certs)
    BY <1>1 DEF NamedBy
  <2> QED
    BY <2>1, FS_Subset
<1>9. Cardinality(found) = 1
  <2>1. PICK n : n = Cardinality(found)
    OBVIOUS
  <2>2. n \in Nat /\ n # 0
    BY <1>7, <1>8, <2>1, FS_CardinalityType, FS_EmptySet
  <2>3. ~(n > 1)
    BY <1>7, <2>1, Zenon
  <2>4. n = 1
    BY ONLY <2>2, <2>3
  <2> QED
    BY <2>1, <2>4
<1>10. PICK c : found = {c}
  BY <1>8, <1>9, FS_Singleton
<1>11. SignerCertificate(token) = c
  BY <1>7, <1>10
<1> QED
  BY <1>1, <1>9, <1>10, <1>11

\* A token as an authority sends it: its fields are a sequence and it names
\* its signer by issuer and serial number.
SentToken(token) ==
    /\ \E S : token.tst.optional \in Seq(S)
    /\ IsFiniteSet(Range(token.certs))
    /\ token.sid.kind = "IssuerAndSerialNumber"

Attests(token, digest, nonce) ==
    /\ token.tst.imprint.hash = digest
    /\ NonceValues(token.tst) = {positive_integer(nonce)}
    /\ Cardinality(NamedBy(token)) = 1
    /\ \A c \in NamedBy(token) : token.tst.gen_time \in c.not_before..c.not_after
\* verified_token: what it takes is for this digest and this nonce.
LEMMA VerifiedToken ==
    ASSUME NEW response, NEW digest, NEW alg, NEW nonce \in Seq(0..255), SentToken(response.token),
           NEW v, v = verified_token(response, digest, alg, nonce), v.err = ""
    PROVE  Attests(v.token, digest, nonce)
<1>0. v.err = ""
  OBVIOUS
<1>1. PICK token : token = response.token
  OBVIOUS
<1>2. v.token = token /\ v.err = "" /\ check_binding(token, digest, alg, nonce) = ""
  <2>1. PICK s, bound : s = parse_status_info(response.status) /\ bound = check_binding(token, digest, alg, nonce)
    OBVIOUS
  <2>2. PICK err : err = IF response.form # "ok" \/ s = -1 \/ (token # None /\ token.form = "trailing")
                         THEN "Malformed"
                         ELSE IF s \notin {STATUS_GRANTED, STATUS_GRANTED_WITH_MODS} THEN "Rejected"
                         ELSE IF token = None THEN "NoToken" ELSE bound
    OBVIOUS
  <2>3. v = [err |-> err, token |-> token]
    BY <1>1, <2>1, <2>2, Zenon DEF verified_token
  <2>4. v.token = token /\ err = ""
    BY ONLY <1>0, <2>3
  <2>5. bound = ""
    BY <2>2, <2>4, Zenon
  <2> QED
    BY <2>1, <2>4, <2>5, Zenon
<1>3. Bound(token, digest, nonce)
  BY <1>2, BoundToken
<1>4. positive_integer(nonce) # None
  BY NonceOctets DEF nonnegative_der_integer, None
<1>5. NonceValues(token.tst) = {positive_integer(nonce)}
  <2>1. PICK S : token.tst.optional \in Seq(S)
    BY <1>1, Zenon DEF SentToken
  <2> QED
    BY <1>3, <1>4, <2>1, OneNonce, Zenon DEF Bound
<1>6. Cardinality(NamedBy(token)) = 1 /\ NamedBy(token) = {SignerCertificate(token)}
  BY <1>1, <1>3, OneSigner, Zenon DEF SentToken, Bound
<1>7. token.tst.gen_time \in SignerCertificate(token).not_before..SignerCertificate(token).not_after
  BY <1>3, Zenon DEF tsa_certificate_is_usable, Bound
<1>8. \A c \in NamedBy(token) : token.tst.gen_time \in c.not_before..c.not_after
  BY <1>6, <1>7, Zenon
<1> QED
  BY <1>2, <1>3, <1>5, <1>6, <1>8, Zenon DEF Bound, Attests

\* What an answer does to the run, with its parts named.
Verified(response, v) == v = verified_token(response, Stamped, DigestAlg, run.nonce)
Live(v) == v.err = "" /\ require_live_timestamp_time(GeneratedAt(v.token), run.asked, clock)
Kept(v, evidence) ==
    Live(v) /\ IF run.stage = "await" THEN requires_long_term_material(req) => evidence
               ELSE authenticate_archive_timestamp(v.token, evidence)
Stamp(v) == [token |-> v.token, asked |-> run.asked, nonce |-> run.nonce, got |-> clock, of |-> Stamped]

\* A token that is kept is right.
LEMMA KeptIsRight ==
    ASSUME FlowInv, StampInv, run.stage \in {"await", "await archive"}, NEW response, SentToken(response.token),
           NEW v, Verified(response, v), Live(v), NEW t, t = Stamp(v)
    PROVE  RightToken(t, run.sig)
<1>1. /\ t.token = v.token /\ t.asked = run.asked /\ t.nonce = run.nonce /\ t.got = clock /\ t.of = Stamped
  BY DEF Stamp
<1>2. run.nonce \in Nonces
  BY DEF StampInv, Waiting
<1>3. run.nonce \in Seq(0..255)
  BY <1>2, AnswersAssumption
<1>4. v.err = "" /\ v.token.tst.gen_time \in (run.asked - Skew)..(clock + Skew)
  BY Zenon DEF Live, require_live_timestamp_time, GeneratedAt
<1>5. PICK digest, alg : digest = Stamped /\ alg = DigestAlg
  OBVIOUS
<1>6. v = verified_token(response, digest, alg, run.nonce)
  BY <1>5, Zenon DEF Verified
<1>7. Attests(v.token, digest, run.nonce)
  BY <1>3, <1>4, <1>6, VerifiedToken
<1>8. Stamped[2] = run.sig
  BY DEF Stamped
<1> QED
  BY <1>1, <1>4, <1>5, <1>7, <1>8, Zenon DEF RightToken, Attests

\* The authority is left behind whatever it answered,
LEMMA NextAuthorityStamps ==
    ASSUME FlowInv, NEW r, r = NextAuthority(run)
    PROVE  /\ SameStamps(r) /\ r.sig = run.sig /\ r.key = run.key /\ DOMAIN r = DOMAIN run
           /\ r.stage = IF run.stage = "await" THEN "stamp" ELSE "archive"
  BY Fields DEF NextAuthority, FlowInv, SameStamps

Taken(r, v, t, evidence, answer) ==
    \/ run' = [r EXCEPT !.answer = answer]
    \/ /\ Kept(v, evidence) /\ run.stage = "await"
       /\ run' = [[r EXCEPT !.tokens = r.tokens \cup {t},
                            !.material = r.material \cup (IF requires_long_term_material(req)
                                                          THEN EvidenceOf(v.token) ELSE {})]
                  EXCEPT !.answer = answer]
    \/ /\ Kept(v, evidence) /\ run.stage # "await"
       /\ run' = [[r EXCEPT !.archive = <<t>>, !.stage = "write"] EXCEPT !.answer = answer]
\* and an answer is kept, as a token or as the archive token, or it is not.
LEMMA AnswerTaken ==
    ASSUME NEW response, NEW evidence \in BOOLEAN, TokenArrives(response, evidence), NEW v, Verified(response, v),
           NEW r, r = NextAuthority(run), NEW t, t = Stamp(v), NEW answer,
           answer = IF response.honest /\ ~Live(v) THEN "honest refused" ELSE "fine"
    PROVE  Taken(r, v, t, evidence, answer)
<1>1. PICK live : live = (v.err = "" /\ require_live_timestamp_time(GeneratedAt(v.token), run.asked, clock))
  OBVIOUS
<1>2. Live(v) = live
  BY <1>1, Zenon DEF Live
<1>3. PICK kept : kept = (live /\ IF run.stage = "await" THEN requires_long_term_material(req) => evidence
                                  ELSE authenticate_archive_timestamp(v.token, evidence))
  OBVIOUS
<1>4. Kept(v, evidence) = kept
  BY <1>2, <1>3, Zenon DEF Kept
<1>5. run' = [(IF ~kept THEN r
               ELSE IF run.stage = "await"
               THEN [r EXCEPT !.tokens = r.tokens \cup {t},
                              !.material = r.material \cup (IF requires_long_term_material(req)
                                                            THEN EvidenceOf(v.token) ELSE {})]
               ELSE [r EXCEPT !.archive = <<t>>, !.stage = "write"])
              EXCEPT !.answer = answer]
  BY <1>1, <1>2, <1>3, Zenon DEF TokenArrives, Verified, Stamp
<1> QED
  BY <1>4, <1>5, Zenon DEF Taken

\* An answer that is kept adds a right token, with its evidence where evidence
\* is kept, or the archive token under evidence that is there already; an
\* honest one is not refused.
HonestTaken(response, v) == response.honest => Live(v)
LEMMA TokenArrivesStamps ==
    ASSUME FlowInv, StampInv, NEW response, NEW evidence \in BOOLEAN, TokenArrives(response, evidence),
           NEW v, Verified(response, v), Live(v) => SentToken(response.token), HonestTaken(response, v)
    PROVE  StampInv'
<1>1. run.stage \in {"await", "await archive"} /\ UNCHANGED <<req, disk, status, clock>>
  BY DEF TokenArrives, Rest
<1>2. run.stage \in Final /\ run.stage # "done" /\ run.stage \in Collecting \cup Archiving
  BY <1>1 DEF Final, Collecting, Archiving
<1>3. PICK r : r = NextAuthority(run)
  OBVIOUS
<1>4. PICK t : t = Stamp(v)
  OBVIOUS
<1>5. PICK answer : answer = IF response.honest /\ ~Live(v) THEN "honest refused" ELSE "fine"
  OBVIOUS
<1>6. answer # "honest refused"
  BY <1>5, Zenon DEF HonestTaken
<1>7. Live(v) => RightToken(t, run.sig)
  BY <1>1, <1>4, KeptIsRight
<1>8. /\ SameStamps(r) /\ r.sig = run.sig /\ r.key = run.key /\ DOMAIN r = DOMAIN run
      /\ r.stage = IF run.stage = "await" THEN "stamp" ELSE "archive"
  BY <1>3, NextAuthorityStamps
<1>9. {"tokens", "material", "archive", "stage", "answer", "sig", "key", "doc"} \subseteq DOMAIN r
  BY <1>8, Fields DEF FlowInv
<1>10. /\ IsFiniteSet(run.tokens) /\ RightTokens(run) /\ run.archive = None
       /\ requires_long_term_material(req) => Covered(run)
       /\ run.stage \in Archiving => req.archive /\ Complete(run)
  BY <1>2, Zenon DEF StampInv, Stamps
<1>11. CASE run' = [r EXCEPT !.answer = answer]
  <2>1. /\ run'.tokens = run.tokens /\ run'.material = run.material /\ run'.archive = run.archive
        /\ run'.doc = run.doc /\ run'.answer = answer /\ run'.sig = run.sig /\ run'.key = run.key
        /\ run'.stage = IF run.stage = "await" THEN "stamp" ELSE "archive"
    BY <1>8, <1>9, <1>11 DEF SameStamps
  <2>2. /\ run'.stage \in Final /\ run'.stage # "write" /\ run'.stage \notin Waiting
        /\ (run'.stage \in Archiving => run.stage \in Archiving)
    BY <1>1, <2>1 DEF Final, Waiting, Archiving
  <2>3. /\ IsFiniteSet(run'.tokens) /\ RightTokens(run') /\ run'.archive = None
        /\ requires_long_term_material(req) => Covered(run')
    BY <1>10, <2>1, Zenon DEF RightTokens, Covered
  <2>4. run'.stage \in Archiving => req.archive /\ Complete(run')
    BY <1>10, <2>1, <2>2, Zenon DEF Complete, Covered
  <2>5. Stamps(req, run')
    BY <2>2, <2>3, <2>4, Zenon DEF Stamps
  <2> QED
    BY <1>1, <1>2, <1>6, <2>1, <2>2, <2>5, StampFrame
<1>12. PICK m : m = r.material \cup (IF requires_long_term_material(req) THEN EvidenceOf(v.token) ELSE {})
  OBVIOUS
<1>13. CASE /\ Kept(v, evidence) /\ run.stage = "await"
            /\ run' = [[r EXCEPT !.tokens = r.tokens \cup {t}, !.material = m] EXCEPT !.answer = answer]
  <2>1. /\ run'.tokens = run.tokens \cup {t} /\ run'.material = m /\ run'.archive = run.archive
        /\ run'.doc = run.doc /\ run'.answer = answer /\ run'.sig = run.sig /\ run'.key = run.key
        /\ run'.stage = "stamp"
    BY <1>8, <1>9, <1>13 DEF SameStamps
  <2>2. run'.stage \in Final /\ run'.stage # "write" /\ run'.stage \notin Waiting \cup Archiving
    BY <2>1 DEF Final, Waiting, Archiving
  <2>3. IsFiniteSet(run'.tokens)
    BY <1>10, <2>1, FS_AddElement
  <2>4. RightToken(t, run.sig)
    BY <1>7, <1>13 DEF Kept
  <2>5. RightTokens(run')
    BY <1>10, <2>1, <2>4 DEF RightTokens
  <2>6. requires_long_term_material(req) => Covered(run')
    <3>1. SUFFICES ASSUME requires_long_term_material(req) PROVE Covered(run')
      OBVIOUS
    <3>2. t.token = v.token
      BY <1>4 DEF Stamp
    <3>3. SignerCertificate(t.token).der \in run'.material /\ run.material \subseteq run'.material
      BY <1>8, <1>12, <2>1, <3>1, <3>2 DEF EvidenceOf, SameStamps
    <3>4. \A x \in run.tokens : SignerCertificate(x.token).der \in run.material
      BY <1>10, <3>1, Zenon DEF Covered
    <3> QED
      BY <2>1, <3>3, <3>4 DEF Covered
  <2>7. run'.archive = None
    BY <1>10, <2>1
  <2>8. Stamps(req, run')
    BY <2>2, <2>3, <2>5, <2>6, <2>7, Zenon DEF Stamps
  <2> QED
    BY <1>1, <1>2, <1>6, <2>1, <2>2, <2>8, StampFrame
<1>14. CASE /\ Kept(v, evidence) /\ run.stage # "await"
            /\ run' = [[r EXCEPT !.archive = <<t>>, !.stage = "write"] EXCEPT !.answer = answer]
  <2>1. /\ run'.tokens = run.tokens /\ run'.material = run.material /\ run'.archive = <<t>>
        /\ run'.doc = run.doc /\ run'.answer = answer /\ run'.sig = run.sig /\ run'.key = run.key
        /\ run'.stage = "write"
    BY <1>8, <1>9, <1>14 DEF SameStamps
  <2>2. run'.stage \in Final /\ run'.stage \notin Waiting \cup Archiving \cup Collecting
    BY <2>1 DEF Final, Waiting, Archiving, Collecting
  <2>3. req.archive /\ Complete(run)
    BY <1>1, <1>10, <1>14 DEF Archiving
  <2>4. Complete(run') /\ Covered(run')
    BY <2>1, <2>3, Zenon DEF Complete, Covered
  <2>5. RightToken(t, run.sig)
    BY <1>7, <1>14 DEF Kept
  <2>6. Range(run'.archive) = {t} /\ run'.archive[1] = t /\ Len(run'.archive) = 1
    BY <2>1 DEF Range
  <2>7. RightTokens(run')
    <3>1. \A x \in run.tokens : RightToken(x, run.sig)
      BY <1>10, Zenon DEF RightTokens
    <3> QED
      BY <2>1, <2>5, <2>6, <3>1 DEF RightTokens
  <2>8. SignerCertificate(run'.archive[1].token).der \in run'.material
    <3>1. t.token = v.token
      BY <1>4 DEF Stamp
    <3>2. EvidenceOf(v.token) \subseteq run.material
      BY <1>14 DEF Kept, authenticate_archive_timestamp, require_archive_path_covered
    <3>3. SignerCertificate(v.token).der \in EvidenceOf(v.token)
      BY DEF EvidenceOf
    <3>4. SignerCertificate(v.token).der \in run.material
      BY <3>2, <3>3
    <3> QED
      BY <2>1, <2>6, <3>1, <3>4, Zenon
  <2>9. IsFiniteSet(run'.tokens)
    BY <1>10, <2>1
  <2>10. Stamps(req, run')
    BY <2>2, <2>3, <2>4, <2>6, <2>7, <2>8, <2>9, Zenon DEF Stamps
  <2> QED
    BY <1>1, <1>2, <1>6, <2>1, <2>2, <2>10, StampFrame
<1>15. Taken(r, v, t, evidence, answer)
  BY <1>3, <1>4, <1>5, AnswerTaken
<1> QED
  BY <1>11, <1>12, <1>13, <1>14, <1>15, Zenon DEF Taken

\* The answers of the authorities: what each sends is a token, or none.
FewCertificates(certs) == (\E c : certs = <<c>>) \/ (\E c, d : certs = <<c, d>>)
LEMMA FewAreFinite ==
    ASSUME NEW certs, FewCertificates(certs)
    PROVE  IsFiniteSet(Range(certs))
<1>1. CASE \E c : certs = <<c>>
  <2>1. PICK c : certs = <<c>>
    BY <1>1
  <2>2. Range(certs) = {c}
    BY <2>1 DEF Range
  <2> QED
    BY <2>2, FS_Singleton
<1>2. CASE \E c, d : certs = <<c, d>>
  <2>1. PICK c, d : certs = <<c, d>>
    BY <1>2
  <2>2. Range(certs) = {c} \cup {d}
    BY <2>1 DEF Range
  <2>3. IsFiniteSet({c})
    BY FS_Singleton
  <2> QED
    BY <2>2, <2>3, FS_AddElement
<1> QED
  BY <1>1, <1>2 DEF FewCertificates

\* A time-stamp's fields are one or two.
LEMMA TstFields ==
    ASSUME NEW digest, NEW nonce, NEW time, NEW more, more = <<>> \/ (\E f : more = <<f>>),
           NEW tst, tst = Tst(digest, nonce, time, more)
    PROVE  \E S : tst.optional \in Seq(S)
<1>1. PICK first : first = [tag |-> "INTEGER", value |-> nonce]
  OBVIOUS
<1>2. tst.optional = <<first>> \o more
  BY <1>1 DEF Tst
<1>3. CASE more = <<>>
  <2>1. <<first>> \in Seq({first})
    OBVIOUS
  <2>2. tst.optional \in Seq({first})
    BY <1>2, <1>3, <2>1
  <2> QED
    BY <2>2
<1>4. CASE \E f : more = <<f>>
  <2>1. PICK f : more = <<f>>
    BY <1>4
  <2>2. <<first>> \in Seq({first, f}) /\ more \in Seq({first, f})
    BY <2>1
  <2>3. tst.optional \in Seq({first, f})
    BY <1>2, <2>2
  <2> QED
    BY <2>3
<1> QED
  BY <1>3, <1>4

\* A response, its token and whether it is honest.
Sends(x, honest) == SentToken(x.token) /\ x.honest = honest /\ DOMAIN x = {"form", "honest", "status", "token"}
LEMMA ResponseSends ==
    ASSUME NEW certs, NEW key, NEW tst, NEW honest, FewCertificates(certs), \E S : tst.optional \in Seq(S),
           NEW x, x = Response(certs, key, tst, honest)
    PROVE  Sends(x, honest)
<1>1. /\ x.token.certs = certs /\ x.token.tst = tst /\ x.token.sid.kind = "IssuerAndSerialNumber"
      /\ x.honest = honest /\ DOMAIN x = {"form", "honest", "status", "token"}
  <2>1. PICK form, granted, sid, attributes, signature, c :
          /\ sid = [kind |-> "IssuerAndSerialNumber", issuer |-> c.issuer, serial |-> c.serial]
          /\ x = [form |-> form, honest |-> honest, status |-> granted,
                  token |-> [form |-> form, content |-> "TST_INFO", attributes |-> attributes, tst |-> tst,
                             certs |-> certs, sid |-> sid, signature |-> signature]]
    BY Zenon DEF Response
  <2> QED
    BY <2>1
<1>2. IsFiniteSet(Range(certs))
  BY FewAreFinite
<1> QED
  BY <1>1, <1>2, Zenon DEF Sends, SentToken

\* Only the answer without a flaw is honest.
LEMMA AnswerSends ==
    ASSUME NEW flaw \in Flaws, NEW x, x = Answer(flaw)
    PROVE  /\ SentToken(x.token) \/ x.token = None
           /\ flaw # "none" => x.honest = FALSE
<1>1. PICK cert, other, next, expired, nonce, good :
        /\ cert = TsaCert(req.authorities[run.at], "key")
        /\ other = [cert EXCEPT !.key = "twin", !.der = <<"certificate", req.authorities[run.at], "twin">>]
        /\ next = TsaCert(req.authorities[run.at], "next key")
        /\ expired = [cert EXCEPT !.not_after = clock - 1]
        /\ nonce = positive_integer(run.nonce)
        /\ good = Tst(Stamped, nonce, clock, <<>>)
  OBVIOUS
<1>2. \A digest, n, time, tst : tst = Tst(digest, n, time, <<>>) => \E S : tst.optional \in Seq(S)
  BY TstFields, Zenon
<1>3. \A digest, n, time, f, tst : tst = Tst(digest, n, time, <<f>>) => \E S : tst.optional \in Seq(S)
  BY TstFields, Zenon
<1>4. \A c, d : FewCertificates(<<c>>) /\ FewCertificates(<<c, d>>)
  BY Zenon DEF FewCertificates
<1>5. \E S : good.optional \in Seq(S)
  BY <1>1, <1>2, Zenon
<1>6. CASE flaw \in {"none", "expired", "twin", "other signer"}
  <2>1. \E certs, key, honest : FewCertificates(certs) /\ x = Response(certs, key, good, honest)
                                /\ (flaw # "none" => honest = FALSE)
    <3>1. CASE flaw = "none"
      BY <1>1, <1>4, <3>1, Zenon DEF Answer
    <3>2. CASE flaw = "expired"
      BY <1>1, <1>4, <3>2, Zenon DEF Answer
    <3>3. CASE flaw = "twin"
      BY <1>1, <1>4, <3>3, Zenon DEF Answer
    <3>4. CASE flaw = "other signer"
      BY <1>1, <1>4, <3>4, Zenon DEF Answer
    <3> QED
      BY <1>6, <3>1, <3>2, <3>3, <3>4
  <2>2. PICK certs, key, honest : FewCertificates(certs) /\ x = Response(certs, key, good, honest)
                                  /\ (flaw # "none" => honest = FALSE)
    BY <2>1, Zenon
  <2>3. Sends(x, honest)
    BY <1>5, <2>2, ResponseSends, Zenon
  <2> QED
    BY <2>2, <2>3 DEF Sends
<1>7. CASE flaw \in {"digest", "replay", "stale", "field twice"}
  <2>1. PICK digest, n, time, more : /\ more = <<>> \/ (\E f : more = <<f>>)
                                     /\ x = Response(<<cert>>, "key", Tst(digest, n, time, more), FALSE)
    <3>1. CASE flaw = "digest"
      BY <1>1, <3>1, Zenon DEF Answer
    <3>2. CASE flaw = "replay"
      BY <1>1, <3>2, Zenon DEF Answer
    <3>3. CASE flaw = "stale"
      BY <1>1, <3>3, Zenon DEF Answer
    <3>4. CASE flaw = "field twice"
      BY <1>1, <3>4, Zenon DEF Answer
    <3> QED
      BY <1>7, <3>1, <3>2, <3>3, <3>4
  <2>2. PICK tst : tst = Tst(digest, n, time, more)
    OBVIOUS
  <2>3. \E S : tst.optional \in Seq(S)
    BY <2>1, <2>2, TstFields, Zenon
  <2>4. x = Response(<<cert>>, "key", tst, FALSE)
    BY <2>1, <2>2, Zenon
  <2>5. Sends(x, FALSE)
    BY <1>4, <2>3, <2>4, ResponseSends, Zenon
  <2> QED
    BY <2>5 DEF Sends
<1>8. CASE flaw \in {"refused", "no token"}
  <2>1. PICK y : y = Response(<<cert>>, "key", good, FALSE)
    OBVIOUS
  <2>2. Sends(y, FALSE)
    BY <1>4, <1>5, <2>1, ResponseSends, Zenon
  <2>3. CASE flaw = "refused"
    <3>1. PICK granted : x = [y EXCEPT !.status = granted]
      BY <1>1, <2>1, <2>3, Zenon DEF Answer
    <3>2. x.token = y.token /\ x.honest = y.honest
      BY <2>2, <3>1 DEF Sends
    <3> QED
      BY <2>2, <3>2 DEF Sends
  <2>4. CASE flaw = "no token"
    <3>1. x = [y EXCEPT !.token = None]
      BY <1>1, <2>1, <2>4, Zenon DEF Answer
    <3>2. x.token = None /\ x.honest = y.honest
      BY <2>2, <3>1 DEF Sends
    <3> QED
      BY <2>2, <3>2 DEF Sends
  <2> QED
    BY <1>8, <2>3, <2>4
<1> QED
  BY <1>6, <1>7, <1>8, AnswersAssumption

\* An INTEGER of one octet is its value.
LEMMA OneOctet ==
    ASSUME NEW b \in 0..127
    PROVE  unsigned_integer(<<b>>) = b /\ nonnegative_der_integer(<<b>>)
<1>1. PICK v : v = <<b>>
  OBVIOUS
<1>2. Len(v) = 1 /\ v[1] = b /\ v # <<>>
  BY <1>1
<1>3. nonnegative_der_integer(v)
  BY <1>2 DEF nonnegative_der_integer
<1>4. unsigned_integer(v) = (IF 0 < Len(v) THEN v[Len(v) - 0] ELSE 0)
                            + 256 * (IF 1 < Len(v) THEN v[Len(v) - 1] ELSE 0)
                            + 256 * 256 * (IF 2 < Len(v) THEN v[Len(v) - 2] ELSE 0)
  BY <1>2, <1>3 DEF unsigned_integer
<1>5. unsigned_integer(v) = b
  BY <1>2, <1>4
<1> QED
  BY <1>1, <1>3, <1>5

\* What an honest authority attests reads as it was asked for.
ReadsAs(tst, alg, digest, n) ==
    /\ parse_tst_info(tst) /\ tst.imprint.alg = alg /\ tst.imprint.hash = digest
    /\ Optional(tst, "INTEGER") = n /\ Optional(tst, "[0]") = None
LEMMA HonestTst ==
    ASSUME NEW digest, NEW n, nonnegative_der_integer(n), NEW time \in Nat, NEW tst,
           tst = Tst(digest, n, time, <<>>)
    PROVE  ReadsAs(tst, DigestAlg, digest, n) /\ tst.gen_time = time
<1>1. PICK f, alg : f = [tag |-> "INTEGER", value |-> n] /\ alg = DigestAlg
  OBVIOUS
<1>2. tst = [form |-> "ok", version |-> <<1>>, imprint |-> [alg |-> alg, parameters |-> "absent", hash |-> digest],
             serial |-> <<1>>, gen_time |-> time, optional |-> <<f>> \o <<>>]
  BY <1>1, Zenon DEF Tst
<1>3. <<f>> \o <<>> = <<f>>
  OBVIOUS
<1>4. /\ tst.form = "ok" /\ tst.version = <<1>> /\ tst.imprint.alg = alg /\ tst.imprint.hash = digest
      /\ tst.imprint.parameters = "absent" /\ tst.serial = <<1>> /\ tst.gen_time = time /\ tst.optional = <<f>>
  BY <1>2, <1>3
<1>5. PICK o, order : o = <<f>> /\ order = <<"SEQUENCE", "BOOLEAN", "INTEGER", "[0]", "[1]">>
  OBVIOUS
<1>6. DOMAIN o = {1} /\ o[1] = f /\ f.tag = "INTEGER" /\ f.value = n
  BY <1>1, <1>5
<1>7. Place(order, "INTEGER") = 3
  <2>1. {i \in DOMAIN order : order[i] = "INTEGER"} = {3}
    BY <1>5
  <2> QED
    BY <2>1, OnlyPosition DEF Place
<1>8. OptionalFieldsRead(o)
  <2>1. InOrder(o, order)
    BY <1>6, <1>7 DEF InOrder
  <2> QED
    BY <1>5, <1>6, <2>1 DEF OptionalFieldsRead
<1>9. parse_tst_info(tst)
  <2>1. unsigned_integer(tst.version) = 1 /\ nonnegative_der_integer(tst.serial)
    <3>1. 1 \in 0..127
      OBVIOUS
    <3>2. unsigned_integer(<<1>>) = 1 /\ nonnegative_der_integer(<<1>>)
      BY ONLY <3>1, OneOctet
    <3> QED
      BY <1>4, <3>2, Zenon
  <2>2. parse_algorithm_identifier(tst.imprint)
    BY <1>4 DEF parse_algorithm_identifier
  <2>3. OptionalFieldsRead(tst.optional)
    BY <1>4, <1>5, <1>8, Zenon
  <2>4. tst.gen_time >= 0
    BY <1>4
  <2> QED
    BY <1>4, <2>1, <2>2, <2>3, <2>4, Zenon DEF parse_tst_info
<1>10. Field(o, "INTEGER") = 1
  <2>1. {i \in DOMAIN o : o[i].tag = "INTEGER"} = {1}
    BY <1>6
  <2> QED
    BY <2>1, OnlyPosition DEF Field
<1>11. Field(o, "[0]") = 0
  <2>1. {i \in DOMAIN o : o[i].tag = "[0]"} = {}
    BY <1>6
  <2> QED
    BY <2>1 DEF Field, FirstOf
<1>12. tst.optional = o
  BY <1>4, <1>5
<1>13. Optional(tst, "INTEGER") = n
  BY <1>6, <1>10, <1>12 DEF Optional
<1>14. Optional(tst, "[0]") = None
  BY <1>11, <1>12 DEF Optional
<1> QED
  BY <1>1, <1>4, <1>9, <1>13, <1>14, Zenon DEF ReadsAs

\* The certificate it does so with is fit for it.
LEMMA HonestCertificate ==
    ASSUME NEW a, NEW c, c = TsaCert(a, "key"), NEW time \in 0..MaxClock
    PROVE  tsa_certificate_is_usable(c, time)
<1>1. PICK x, y : /\ x = [oid |-> "EXT_KEY_USAGE", form |-> "ok", critical |-> "TRUE",
                          value |-> <<"KP_TIME_STAMPING">>]
                  /\ y = [oid |-> "KEY_USAGE", form |-> "ok", critical |-> "TRUE", value |-> <<6, 192>>]
  OBVIOUS
<1>2. c = [parses |-> TRUE, issuer |-> "tsa ca", serial |-> <<7>>, subject |-> a, key |-> "key",
           der |-> <<"certificate", a, "key">>, not_before |-> 0, not_after |-> MaxClock, extensions |-> <<x, y>>]
  BY <1>1, Zenon DEF TsaCert
<1>3. c.not_before = 0 /\ c.not_after = MaxClock /\ c.extensions = <<x, y>>
  BY ONLY <1>2
<1>4. PICK exts : exts = <<x, y>>
  OBVIOUS
<1>5. DOMAIN exts = {1, 2} /\ exts[1] = x /\ exts[2] = y /\ exts # <<>>
  BY <1>4
<1>6. /\ x.oid = "EXT_KEY_USAGE" /\ x.form = "ok" /\ x.critical = "TRUE" /\ x.value = <<"KP_TIME_STAMPING">>
      /\ y.oid = "KEY_USAGE" /\ y.form = "ok" /\ y.critical = "TRUE" /\ y.value = <<6, 192>>
  BY <1>1
<1>7. parse_extended_key_usage(<<"KP_TIME_STAMPING">>)
  BY DEF parse_extended_key_usage, IsInjective
<1>8. PICK bits : bits = <<6, 192>>
  OBVIOUS
<1>9. Len(bits) = 2 /\ bits[1] = 6 /\ bits[2] = 192 /\ bits # <<>>
  BY <1>8
<1>10. parse_key_usage(bits) /\ allows_timestamp_signature(bits) /\ ~allows_ca_signing(bits)
  <2>1. 2^6 = 64 /\ 192 % 64 = 0 /\ (192 \div 64) % 2 = 1 /\ 192 \div 64 # 0 /\ (192 \div 2) % 4 = 0
    OBVIOUS
  <2>2. validate_bit_string(bits)
    BY <1>9, <2>1 DEF validate_bit_string
  <2> QED
    BY <1>9, <2>1, <2>2 DEF parse_key_usage, allows_timestamp_signature, allows_ca_signing
<1>11. ExtensionReads(x, "StrictDer")
  BY <1>6, <1>7 DEF ExtensionReads
<1>12. ExtensionReads(y, "StrictDer")
  BY <1>6, <1>8, <1>10 DEF ExtensionReads
<1>13. parse_extensions(exts)
  BY <1>5, <1>6, <1>11, <1>12 DEF parse_extensions, parse_extensions_with_policy
<1>14. Extension(exts, "EXT_KEY_USAGE") = 1
  <2>1. {i \in DOMAIN exts : exts[i].oid = "EXT_KEY_USAGE"} = {1}
    BY <1>5, <1>6
  <2> QED
    BY <2>1, OnlyPosition DEF Extension
<1>15. Extension(exts, "KEY_USAGE") = 2
  <2>1. {i \in DOMAIN exts : exts[i].oid = "KEY_USAGE"} = {2}
    BY <1>5, <1>6
  <2> QED
    BY <2>1, OnlyPosition DEF Extension
<1>16. Extension(exts, "BASIC_CONSTRAINTS") = 0
  <2>1. {i \in DOMAIN exts : exts[i].oid = "BASIC_CONSTRAINTS"} = {}
    BY <1>5, <1>6
  <2> QED
    BY <2>1 DEF Extension, FirstOf
<1>17. c.extensions = exts /\ exts # None
  BY <1>3, <1>4, <1>5 DEF None
<1>18. time \in c.not_before..c.not_after
  BY <1>3
<1> QED
  BY <1>5, <1>6, <1>8, <1>10, <1>13, <1>14, <1>15, <1>16, <1>17, <1>18 DEF tsa_certificate_is_usable

\* The attribute that refers to the one certificate names it.
LEMMA HonestAttribute ==
    ASSUME NEW cert, NEW ref, NEW att, NEW attributes, attributes = <<att>>,
           ref = [form |-> "ok", alg |-> "absent", issuer_serial |-> None, hash |-> <<"hash", "Sha256", cert.der>>],
           att = [oid |-> "SIGNING_CERTIFICATE_V2", form |-> "ok", policies |-> "absent", references |-> <<ref>>]
    PROVE  verify_signing_certificate_attribute(attributes, cert)
<1>1. DOMAIN attributes = {1} /\ attributes[1] = att
  OBVIOUS
<1>2. PICK references : references = <<ref>>
  OBVIOUS
<1>3. /\ att.oid = "SIGNING_CERTIFICATE_V2" /\ att.form = "ok" /\ att.policies = "absent"
      /\ att.references = references
  BY <1>2
<1>4. DOMAIN references = {1} /\ references[1] = ref /\ references # <<>>
  BY <1>2
<1>5. PICK hash : hash = <<"hash", "Sha256", cert.der>>
  OBVIOUS
<1>6. ref.form = "ok" /\ ref.alg = "absent" /\ ref.issuer_serial = None /\ ref.hash = hash
  BY <1>5
<1>7. {i \in DOMAIN attributes : attributes[i].oid \in {"SIGNING_CERTIFICATE", "SIGNING_CERTIFICATE_V2"}} = {1}
  BY <1>1, <1>3
<1>8. Cardinality({1}) = 1 /\ (CHOOSE i \in {1} : TRUE) = 1
  BY FS_Singleton
<1>9. EssHashAlgorithm(att.oid, ref) = "Sha256"
  BY <1>3, <1>6 DEF EssHashAlgorithm
<1>10. EssReferenceReads(att.oid, ref)
  BY <1>3, <1>6, <1>9 DEF EssReferenceReads
<1>11. att.references[1] = ref
  BY <1>3, <1>4
<1>12. \A i \in DOMAIN att.references : EssReferenceReads(att.oid, att.references[i])
  BY <1>3, <1>4, <1>10
<1>13. att.policies \in {"absent", "some"} /\ att.references # <<>>
  BY <1>3, <1>4
<1>14. ref.hash = <<"hash", EssHashAlgorithm(att.oid, ref), cert.der>>
  BY <1>5, <1>6, <1>9, Zenon
<1>15. PICK ess : ess = {i \in DOMAIN attributes : attributes[i].oid \in {"SIGNING_CERTIFICATE", "SIGNING_CERTIFICATE_V2"}}
  OBVIOUS
<1>16. Cardinality(ess) = 1 /\ attributes[CHOOSE i \in ess : TRUE] = att
  BY <1>1, <1>7, <1>8, <1>15, Zenon
<1>17. att.form = "ok" /\ (ref.issuer_serial # None => issuer_serial_matches(ref.issuer_serial[1], cert))
  BY <1>3, <1>6
<1> QED
  BY <1>11, <1>12, <1>13, <1>14, <1>15, <1>16, <1>17, Zenon DEF verify_signing_certificate_attribute

Identifies(sid, cert) ==
    cert.parses /\ sid.kind = "IssuerAndSerialNumber" /\ sid.issuer = cert.issuer /\ sid.serial = cert.serial
Finds(certs, sid, cert) ==
    LET signer == select_signer_certificate(certs, sid) IN signer.err = "" /\ signer.cert = cert
\* The one certificate is found,
LEMMA HonestSigner ==
    ASSUME NEW cert, NEW sid, NEW certs, certs = <<cert>>, Identifies(sid, cert)
    PROVE  Finds(certs, sid, cert)
<1>1. cert.parses /\ sid.kind = "IssuerAndSerialNumber" /\ sid.issuer = cert.issuer /\ sid.serial = cert.serial
  BY DEF Identifies
<1>2. certificate_matches_sid(cert, sid) = "yes"
  BY <1>1 DEF certificate_matches_sid
<1>3. PICK parsed : parsed = {c \in Range(certs) : c.parses}
  OBVIOUS
<1>4. parsed = {cert}
  BY <1>1, <1>3 DEF Range
<1>5. {c \in parsed : certificate_matches_sid(c, sid) = "yes"} = {cert}
  BY <1>2, <1>4
<1>6. ~\E c \in parsed : certificate_matches_sid(c, sid) = "bad"
  BY <1>2, <1>4
<1>7. PICK found : found = {cert}
  OBVIOUS
<1>8. found # {} /\ Cardinality(found) = 1 /\ (CHOOSE c \in found : TRUE) = cert
  BY <1>7, FS_Singleton
<1>9. ~(Cardinality(found) > 1)
  BY <1>8
<1>10. select_signer_certificate(certs, sid) = [err |-> "", cert |-> cert]
  BY <1>3, <1>5, <1>6, <1>7, <1>8, <1>9, Zenon DEF select_signer_certificate
<1>11. PICK found_one : found_one = select_signer_certificate(certs, sid)
  OBVIOUS
<1>12. found_one = [err |-> "", cert |-> cert]
  BY <1>10, <1>11, Zenon
<1>13. found_one.err = "" /\ found_one.cert = cert
  BY ONLY <1>12
<1> QED
  BY <1>11, <1>13, Zenon DEF Finds

\* and a granted status is read.
GrantedStatus == <<[tag |-> "INTEGER", value |-> <<0>>]>>
LEMMA HonestStatus ==
    ASSUME NEW granted, granted = GrantedStatus
    PROVE  parse_status_info(granted) = 0
<1>1. PICK f, rest : f = [tag |-> "INTEGER", value |-> <<0>>] /\ rest = Tail(granted)
  OBVIOUS
<1>2. granted = <<f>> /\ granted # <<>> /\ granted[1] = f /\ f.tag = "INTEGER" /\ f.value = <<0>>
  BY <1>1 DEF GrantedStatus
<1>3. rest = <<>> /\ DOMAIN rest = {}
  BY <1>1, <1>2
<1>4. InOrder(rest, <<"SEQUENCE", "BIT STRING">>)
  BY <1>3 DEF InOrder
<1>5. unsigned_integer(<<0>>) = 0
  <2>1. 0 \in 0..127
    OBVIOUS
  <2> QED
    BY ONLY <2>1, OneOctet
<1>6. parse_status_info(granted) = unsigned_integer(granted[1].value)
  BY <1>1, <1>2, <1>3, <1>4 DEF parse_status_info
<1> QED
  BY <1>2, <1>5, <1>6, Zenon

\* An honest answer is verified, whatever octets the nonce has.
Accepted(v, tst) == v.err = "" /\ v.token.tst = tst
LEMMA HonestVerified ==
    ASSUME NEW digest, NEW alg, NEW nonce \in Seq(0..255), NEW tst,
           ReadsAs(tst, alg, digest, positive_integer(nonce)), tst.gen_time \in 0..MaxClock,
           NEW a, NEW cert, cert = TsaCert(a, "key"), NEW certs, certs = <<cert>>,
           NEW x, x = Response(certs, "key", tst, TRUE), NEW v, v = verified_token(x, digest, alg, nonce)
    PROVE  Accepted(v, tst)
<1>1. cert.key = "key" /\ cert.parses
  BY DEF TsaCert
<1>2. (CHOOSE c \in Range(certs) : c.key = "key") = cert
  <2>1. Range(certs) = {cert}
    BY DEF Range
  <2> QED
    BY <1>1, <2>1
<1>3. PICK ref, att, attributes, sid, signature, granted :
        /\ ref = [form |-> "ok", alg |-> "absent", issuer_serial |-> None, hash |-> <<"hash", "Sha256", cert.der>>]
        /\ att = [oid |-> "SIGNING_CERTIFICATE_V2", form |-> "ok", policies |-> "absent", references |-> <<ref>>]
        /\ attributes = <<att>>
        /\ sid = [kind |-> "IssuerAndSerialNumber", issuer |-> cert.issuer, serial |-> cert.serial]
        /\ signature = <<"signature", "key", attributes, tst>>
        /\ granted = <<[tag |-> "INTEGER", value |-> <<0>>]>>
  OBVIOUS
<1>4. PICK token : token = [form |-> "ok", content |-> "TST_INFO", attributes |-> attributes, tst |-> tst,
                            certs |-> certs, sid |-> sid, signature |-> signature]
  OBVIOUS
<1>5. PICK c : c = CHOOSE y \in Range(certs) : y.key = "key"
  OBVIOUS
<1>6. c = cert
  BY <1>2, <1>5, Zenon
<1>7. x = [form |-> "ok", honest |-> TRUE, status |-> granted, token |-> token]
  BY <1>3, <1>4, <1>5, <1>6, Zenon DEF Response
<1>8. x.form = "ok" /\ x.status = granted /\ x.token = token
  BY ONLY <1>7
<1>9. /\ token.form = "ok" /\ token.content = "TST_INFO" /\ token.attributes = attributes /\ token.tst = tst
      /\ token.certs = certs /\ token.sid = sid /\ token.signature = signature
      /\ DOMAIN token = {"form", "content", "attributes", "tst", "certs", "sid", "signature"}
  BY ONLY <1>4
<1>10. token # None
  BY ONLY <1>9 DEF None
<1>11. parse_status_info(granted) = 0
  BY <1>3, HonestStatus, Zenon DEF GrantedStatus
<1>12. PICK signer : signer = select_signer_certificate(token.certs, token.sid)
  OBVIOUS
<1>13. signer.err = "" /\ signer.cert = cert
  <2>1. signer = select_signer_certificate(certs, sid)
    BY <1>9, <1>12, Zenon
  <2>2. sid.kind = "IssuerAndSerialNumber" /\ sid.issuer = cert.issuer /\ sid.serial = cert.serial
    BY ONLY <1>3
  <2>3. Identifies(sid, cert)
    BY <1>1, <2>2, Zenon DEF Identifies
  <2>4. Finds(certs, sid, cert)
    BY <2>3, HonestSigner, Zenon
  <2> QED
    BY <2>1, <2>4, Zenon DEF Finds
<1>14. verify_signing_certificate_attribute(token.attributes, signer.cert)
  BY <1>3, <1>9, <1>13, HonestAttribute, Zenon
<1>15. tsa_certificate_is_usable(signer.cert, token.tst.gen_time)
  BY <1>9, <1>13, HonestCertificate, Zenon
<1>16. CmsVerifies(token, signer.cert.key)
  BY <1>1, <1>3, <1>9, <1>13, Zenon DEF CmsVerifies
<1>17. token.attributes # <<>>
  BY ONLY <1>3, <1>9
<1>18. ReadsAs(token.tst, alg, digest, positive_integer(nonce))
  BY <1>9, Zenon
<1>19. check_binding(token, digest, alg, nonce) = ""
  BY <1>9, <1>12, <1>13, <1>14, <1>15, <1>16, <1>17, <1>18, Zenon DEF check_binding, ReadsAs
<1>20. 0 # -1 /\ 0 \in {STATUS_GRANTED, STATUS_GRANTED_WITH_MODS} /\ token.form # "trailing"
  BY ONLY <1>9 DEF STATUS_GRANTED, STATUS_GRANTED_WITH_MODS
<1>21. v = [err |-> "", token |-> token]
  BY <1>8, <1>10, <1>11, <1>19, <1>20, Zenon DEF verified_token
<1>22. v.err = "" /\ v.token = token
  BY ONLY <1>21
<1> QED
  BY <1>9, <1>22, Zenon DEF Accepted

\* What arrives, of an authority that deviates or does not: a token that is
\* kept was sent, and the honest answer is live.
LEMMA AnswerArrives ==
    ASSUME FlowInv, StampInv, run.stage \in {"await", "await archive"}, NEW flaw \in Flaws,
           NEW x, x = Answer(flaw), NEW v, Verified(x, v)
    PROVE  (Live(v) => SentToken(x.token)) /\ HonestTaken(x, v)
<1>1. (SentToken(x.token) \/ x.token = None) /\ (flaw # "none" => x.honest = FALSE)
  BY AnswerSends
<1>2. PICK digest, alg : digest = Stamped /\ alg = DigestAlg
  OBVIOUS
<1>3. v = verified_token(x, digest, alg, run.nonce)
  BY <1>2, Zenon DEF Verified
<1>4. v.err = "" => x.token # None
  <2> SUFFICES ASSUME v.err = "", x.token = None PROVE FALSE
    OBVIOUS
  <2>1. PICK s, bound : /\ s = parse_status_info(x.status)
                        /\ bound = check_binding(x.token, digest, alg, run.nonce)
    OBVIOUS
  <2>2. PICK err : err = IF x.form # "ok" \/ s = -1 \/ (x.token # None /\ x.token.form = "trailing")
                         THEN "Malformed"
                         ELSE IF s \notin {STATUS_GRANTED, STATUS_GRANTED_WITH_MODS} THEN "Rejected"
                         ELSE IF x.token = None THEN "NoToken" ELSE bound
    OBVIOUS
  <2>3. v = [err |-> err, token |-> x.token]
    BY <1>3, <2>1, <2>2, Zenon DEF verified_token
  <2>4. v.err = err
    BY ONLY <2>3
  <2>5. err \in {"Malformed", "Rejected", "NoToken"}
    BY <2>2, Zenon
  <2> QED
    BY <2>4, <2>5
<1>5. Live(v) => SentToken(x.token)
  BY <1>1, <1>4, Zenon DEF Live
<1>6. CASE flaw # "none"
  BY <1>1, <1>5, <1>6, Zenon DEF HonestTaken
<1>7. CASE flaw = "none"
  <2>1. PICK a, cert, n, tst : /\ a = req.authorities[run.at] /\ cert = TsaCert(a, "key")
                               /\ n = positive_integer(run.nonce) /\ tst = Tst(digest, n, clock, <<>>)
    OBVIOUS
  <2>2. x = Response(<<cert>>, "key", tst, TRUE)
    BY <1>2, <1>7, <2>1, Zenon DEF Answer
  <2>3. run.nonce \in Nonces /\ run.asked \in 0..clock
    BY DEF StampInv, Waiting
  <2>4. run.nonce \in Seq(0..255)
    BY <2>3, AnswersAssumption
  <2>5. clock \in Nat /\ clock \in 0..MaxClock
    <3>1. clock \in 0..MaxClock
      BY Zenon DEF FlowInv, FlowType
    <3>2. clock \in Nat
      BY ONLY <3>1, SigningAssumption
    <3> QED
      BY <3>1, <3>2
  <2>6. nonnegative_der_integer(n)
    BY <2>1, <2>4, NonceOctets
  <2>7. ReadsAs(tst, alg, digest, n) /\ tst.gen_time = clock
    <3>1. tst = Tst(digest, n, clock, <<>>)
      BY <2>1, Zenon
    <3>2. ReadsAs(tst, DigestAlg, digest, n) /\ tst.gen_time = clock
      BY <2>5, <2>6, <3>1, HonestTst, Zenon
    <3> QED
      BY <1>2, <3>2, Zenon
  <2>8. ReadsAs(tst, alg, digest, positive_integer(run.nonce)) /\ tst.gen_time \in 0..MaxClock
    BY <2>1, <2>5, <2>7, Zenon
  <2>9. PICK certs : certs = <<cert>>
    OBVIOUS
  <2>10. x = Response(certs, "key", tst, TRUE)
    BY <2>2, <2>9, Zenon
  <2>11. v.err = "" /\ v.token.tst = tst
    <3>1. cert = TsaCert(a, "key")
      BY <2>1, Zenon
    <3>2. Accepted(v, tst)
      BY <1>3, <2>4, <2>8, <2>9, <2>10, <3>1, HonestVerified, Zenon
    <3> QED
      BY <3>2, Zenon DEF Accepted
  <2>12. clock \in (run.asked - Skew)..(clock + Skew)
    <3>1. Skew \in Nat
      BY AnswersAssumption
    <3>2. PICK asked : asked = run.asked
      OBVIOUS
    <3>3. asked \in 0..clock
      BY <2>3, <3>2, Zenon
    <3>4. clock \in (asked - Skew)..(clock + Skew)
      BY ONLY <2>5, <3>1, <3>3
    <3> QED
      BY <3>2, <3>4, Zenon
  <2>13. GeneratedAt(v.token) = clock
    BY <2>7, <2>11, Zenon DEF GeneratedAt
  <2>14. Live(v)
    BY <2>11, <2>12, <2>13, Zenon DEF Live, require_live_timestamp_time
  <2> QED
    BY <1>5, <2>14, Zenon DEF HonestTaken
<1> QED
  BY <1>6, <1>7

\* There are no time-stamps before the first request,
LEMMA StampInit == Init => StampInv
<1> SUFFICES ASSUME Init PROVE StampInv
  OBVIOUS
<1>1. NoStamps(run) /\ run.stage = "idle" /\ run.answer = "none"
  BY DEF Init, NoRun, NoStamps, None
<1>2. run.stage \notin Archiving \cup {"write"}
  BY <1>1 DEF Archiving
<1>3. run.stage \notin Waiting
  BY <1>1 DEF Waiting
<1>4. Stamps(req, run)
  BY <1>1, <1>2, NoneNeeded
<1>5. run.answer # "honest refused"
  BY <1>1
<1>6. \A d \in 1..MaxDocs : disk[d] = None /\ status[d] = "none"
  BY DEF Init
<1> QED
  BY <1>3, <1>4, <1>5, <1>6, Zenon DEF StampInv

\* and no step of a signing loses them.
LEMMA StampStep == FlowInv /\ StampInv /\ [Next]_vars => StampInv'
<1> SUFFICES ASSUME FlowInv, StampInv, [Next]_vars PROVE StampInv'
  OBVIOUS
<1>1. CASE AskCli \/ AskBare \/ AskLibrary \/ AskGui
  BY <1>1, AskStamps
<1>2. CASE \E c \in Cards : SwapCard(c)
  BY <1>2, OthersStamps DEF SwapCard
<1>3. CASE \/ Policy
           \/ \E outcome \in {"ok", "Transport"} : OpenSession(outcome)
           \/ SelectApplication
           \/ ResetCard
           \/ \E outcome \in {"ok", "Pace"} : Pace(outcome)
           \/ \E outcome \in {"ok", "unreadable"} : ReadCertificate(outcome)
           \/ CheckDisplayedCard
           \/ \E outcome \in {"ok", "Document"} : PlanDocument(outcome)
           \/ ResolveScheme
           \/ VerifyPin
  BY <1>3, SessionStamps
<1>4. CASE Rerun
  BY <1>4, RerunStamps
<1>5. CASE \/ Dispatch
           \/ \E length_ok \in BOOLEAN : SignExchange(length_ok)
           \/ ExtendedRefused
           \/ LocalVerify
  BY <1>5, SignatureStamps
<1>6. CASE \E act \in {"hash", "mse", "select", "reset"} : Foreign(act)
  BY <1>6, OthersStamps DEF Foreign
<1>7. CASE \E nonce \in Nonces : RequestToken(nonce)
  BY <1>7, RequestTokenStamps
<1>8. CASE \E retryable \in BOOLEAN : PostFails(retryable)
  BY <1>8, PostFailsStamps
<1>9. CASE PostAgain
  BY <1>9, PostAgainStamps
<1>10. CASE Tick
  BY <1>10, TickStamps
<1>11. CASE \E flaw \in Flaws, evidence \in BOOLEAN :
              run.stage \in {"await", "await archive"} /\ TokenArrives(Answer(flaw), evidence)
  <2>1. PICK flaw \in Flaws, evidence \in BOOLEAN :
          run.stage \in {"await", "await archive"} /\ TokenArrives(Answer(flaw), evidence)
    BY <1>11, Zenon
  <2>2. PICK x : x = Answer(flaw)
    OBVIOUS
  <2>3. PICK v : Verified(x, v)
    BY Zenon DEF Verified
  <2>4. TokenArrives(x, evidence)
    BY <2>1, <2>2, Zenon
  <2>5. (Live(v) => SentToken(x.token)) /\ HonestTaken(x, v)
    BY <2>1, <2>2, <2>3, AnswerArrives
  <2> QED
    BY <2>3, <2>4, <2>5, TokenArrivesStamps
<1>12. CASE \E evidence \in BOOLEAN : CollectMaterial(evidence)
  BY <1>12, CollectMaterialStamps
<1>13. CASE ArchiveRefused
  BY <1>13, ArchiveRefusedStamps
<1>14. CASE \E outcome \in {"ok", "output fails", "certificate fails"} : WriteOutput(outcome)
  BY <1>14, WriteOutputStamps
<1>15. CASE NextDocument
  BY <1>15, NextDocumentStamps
<1>16. CASE UNCHANGED vars
  BY <1>16, OthersStamps DEF vars
<1>17. CASE Finished
  BY <1>16, <1>17 DEF Finished
<1> QED
  BY <1>1, <1>2, <1>3, <1>4, <1>5, <1>6, <1>7, <1>8, <1>9, <1>10, <1>11, <1>12, <1>13, <1>14, <1>15, <1>16,
     <1>17, Zenon DEF Next

\* The time-stamps of the run and of the files are right in every state.
THEOREM StampInvariant == Spec => []StampInv
<1>1. Init => FlowInv /\ StampInv
  BY FlowInit, StampInit
<1>2. FlowInv /\ StampInv /\ [Next]_vars => (FlowInv /\ StampInv)'
  BY FlowStep, StampStep
<1> QED
  BY <1>1, <1>2, PTL DEF Spec

\* What the client says of a written file is true of it: describe_level names
\* a level that the file's tokens, evidence and archive time-stamp support;
\* every token in it was made for its own signature and its own request's
\* nonce, while the request was open, by the one certificate it can name, which
\* was valid then; and an honest authority is never refused, whatever octets
\* the nonce has.
THEOREM ReportIsTrueHolds == Spec => []ReportIsTrue
<1>1. FlowInv => TypeOK
  <2> SUFFICES ASSUME FlowInv PROVE TypeOK
    OBVIOUS
  <2>1. \A i \in DOMAIN sent : sent[i].card \in Cards /\ sent[i].left \in 0..Tries
    <3>1. sent \in Seq(Attempts)
      BY Zenon DEF FlowInv, FlowType
    <3>2. \A i \in DOMAIN sent : sent[i] \in Attempts
      BY ONLY <3>1
    <3>3. \A a \in Attempts : a.card \in Cards /\ a.left \in 0..Tries
      BY ONLY DEF Attempts
    <3> QED
      BY <3>2, <3>3, Zenon
  <2> QED
    BY <2>1 DEF FlowInv, FlowType, TypeOK
<1>2. StampInv => ReportedLevelIsReached
  <2> SUFFICES ASSUME StampInv, NEW d \in 1..MaxDocs, disk[d] # None, status[d] # "none"
               PROVE  LET f == disk[d][1]
                          certs == {SignerCertificate(t.token).der : t \in f.tokens} IN
                      /\ status[d] = "B" => f.tokens = {}
                      /\ status[d] \in {"T", "LT", "LTA"} => f.tokens # {}
                      /\ status[d] \in {"LT", "LTA"} => certs \cup {<<"chain", f.key>>} \subseteq f.material
                      /\ status[d] = "LTA" => /\ f.archive # None
                                              /\ SignerCertificate(f.archive[1].token).der \in f.material
    BY Zenon DEF ReportedLevelIsReached, Written
  <2>1. PICK f, level : f = disk[d][1] /\ level = status[d]
    OBVIOUS
  <2>2. Reached(f, level)
    BY <2>1, Zenon DEF StampInv
  <2>3. level \in {"LT", "LTA"} =>
          {SignerCertificate(t.token).der : t \in f.tokens} \cup {<<"chain", f.key>>} \subseteq f.material
    BY <2>2, Zenon DEF Reached, Covered
  <2> QED
    BY <2>1, <2>2, <2>3, Zenon DEF Reached
<1>3. StampInv => TokensAreForThisRequest
  <2>1. StampInv => \A d \in Written : RightTokens(disk[d][1])
    BY Zenon DEF StampInv, Written
  <2> QED
    BY <2>1, Zenon DEF TokensAreForThisRequest, RightTokens, RightToken, NamedBy, NonceValues
<1>4. FlowInv /\ StampInv => ReportIsTrue
  BY <1>1, <1>2, <1>3 DEF ReportIsTrue, StampInv, HonestAnswerAccepted
<1> QED
  BY <1>4, FlowInvariant, StampInvariant, PTL
=============================================================================
