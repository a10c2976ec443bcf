-------------------------- MODULE TrustWalkProofs ---------------------------
(***************************************************************************)
(* Theorems about certificate paths, their evidence and the requests made  *)
(* for them, for every world that TrustAssumption and HttpAssumption admit.*)
(***************************************************************************)
EXTENDS TrustWalk, FiniteSetTheorems, SequenceTheorems, WellFoundedInduction, TLAPS

(***************************************************************************)
(* First positions                                                         *)
(***************************************************************************)

\* A set of positions that is not empty has a first one.
LEMMA LeastPosition ==
    ASSUME NEW S, S \subseteq Nat, S # {}
    PROVE  Min(S) \in S /\ \A i \in S : Min(S) <= i
<1>1. PICK m \in S : \A k \in S : ~ (<<k, m>> \in OpToRel(<, Nat))
  BY WFMin, NatLessThanWellFounded, Zenon
<1>2. \A k \in S : ~(k < m)
  BY <1>1, Zenon DEF OpToRel
<1>3. \A k \in S : m <= k
  BY <1>2, SMT
<1>4. QED
  BY <1>3, Zenon DEF Min

\* FirstOf is zero for no position and the first one otherwise.
LEMMA FirstPosition ==
    ASSUME NEW S, S \subseteq Nat \ {0}
    PROVE  /\ FirstOf(S) = 0 <=> S = {}
           /\ S # {} => FirstOf(S) \in S
<1>1. CASE S = {}
  BY <1>1 DEF FirstOf
<1>2. CASE S # {}
  <2>1. S \subseteq Nat
    OBVIOUS
  <2>2. Min(S) \in S
    BY <1>2, <2>1, LeastPosition, Zenon
  <2>3. FirstOf(S) = Min(S)
    BY <1>2, Zenon DEF FirstOf
  <2>4. Min(S) # 0
    BY <2>2
  <2>5. QED
    BY <1>2, <2>2, <2>3, <2>4, Zenon
<1>3. QED
  BY <1>1, <1>2

(***************************************************************************)
(* The two readers of extensions                                           *)
(***************************************************************************)

\* A position in a sequence is a number from one on.
LEMMA PositionsOf ==
    ASSUME NEW s, IsSequence(s)
    PROVE  DOMAIN s \subseteq Nat \ {0}
BY DEF IsSequence

\* path_extension_profile, where it accepts, found no error.
LEMMA NothingFaulty ==
    ASSUME NEW exts, ExtensionsForm(exts), Ok(path_extension_profile(exts))
    PROVE  Faulty(exts) = {}
<1>1. SUFFICES ASSUME Faulty(exts) # {} PROVE FALSE
  OBVIOUS
<1>2. Faulty(exts) \subseteq Nat
  BY PositionsOf DEF ExtensionsForm, Faulty
<1>3. Min(Faulty(exts)) \in Faulty(exts)
  BY <1>1, <1>2, LeastPosition, Zenon
<1>4. ErrorAt(exts, Min(Faulty(exts))) # ""
  BY <1>3, Zenon DEF Faulty
<1>5. path_extension_profile(exts) = [err |-> ErrorAt(exts, Min(Faulty(exts)))]
  BY <1>1, Zenon DEF path_extension_profile
<1>6. \A e : [err |-> e].err = e
  OBVIOUS
<1>7. path_extension_profile(exts).err = ErrorAt(exts, Min(Faulty(exts)))
  BY <1>5, <1>6, Zenon
<1>8. QED
  BY <1>4, <1>7, Zenon DEF Ok

\* The element of an extension that could be read.
WasRead(x) == x.tag = "SEQUENCE" /\ x.value.tag # "bad" /\ x.critical \in {-1, 255}

\* All of its extensions were read without an error, then.
LEMMA NoError ==
    ASSUME NEW exts, ExtensionsForm(exts), Ok(path_extension_profile(exts)),
           NEW i \in DOMAIN exts
    PROVE  PathExtensionError(exts[i]) = "" /\ WasRead(exts[i])
<1>1. Faulty(exts) = {}
  BY NothingFaulty
<1>2. ErrorAt(exts, i) = ""
  BY <1>1, Zenon DEF Faulty
<1>3. PathExtensionError(exts[i]) = ""
  <2>1. ErrorAt(exts, i) \in {"InvalidOcspNoCheck", "Duplicate", PathExtensionError(exts[i])}
    BY Zenon DEF ErrorAt
  <2>2. QED
    BY <1>2, <2>1
<1>4. QED
  BY <1>3, SMT DEF PathExtensionError, WasRead

\* Where the octet is absent or 255, both readings of it agree.
LEMMA CriticalOctet ==
    ASSUME NEW c \in {-1, 255}
    PROVE  c \notin {-1, 0} <=> c = 255
OBVIOUS

\* The lenient reader finds the same extension that the strict one found.
LEMMA SameExtension ==
    ASSUME NEW exts, ExtensionsForm(exts), Ok(path_extension_profile(exts)), NEW oid
    PROVE  LET at == PositionOf(exts, oid) IN
           /\ at # 0 => at \in DOMAIN exts /\ exts[at].oid = oid
           /\ find_extension_with_meta(exts, oid) =
                IF at = 0 THEN Absent ELSE <<[value |-> exts[at].value, critical |-> exts[at].critical = 255]>>
<1> DEFINE S == {i \in DOMAIN exts : exts[i].oid = oid}
           T == {i \in DOMAIN exts : exts[i].tag = "bad" \/ (exts[i].tag = "SEQUENCE" /\ exts[i].oid = oid)}
<1>1. S = T
  <2>1. \A i \in DOMAIN exts : exts[i].tag = "SEQUENCE"
    BY NoError, Zenon DEF WasRead
  <2>2. QED
    BY <2>1
<1>2. S \subseteq Nat \ {0}
  BY PositionsOf DEF ExtensionsForm
<1>3. PositionOf(exts, oid) = FirstOf(S)
  BY Zenon DEF PositionOf
<1>4. PositionOf(exts, oid) # 0 => PositionOf(exts, oid) \in S
  BY <1>2, <1>3, FirstPosition, Zenon
<1>5. ASSUME PositionOf(exts, oid) # 0
      PROVE  LET at == PositionOf(exts, oid) IN
             exts[at].tag # "bad" /\ exts[at].value.tag # "bad"
             /\ (exts[at].critical \notin {-1, 0} <=> exts[at].critical = 255)
  <2>1. PICK at \in DOMAIN exts : PositionOf(exts, oid) = at
    BY <1>4, <1>5
  <2>2. exts[at].tag = "SEQUENCE" /\ exts[at].value.tag # "bad" /\ exts[at].critical \in {-1, 255}
    <3>1. PICK x : x = exts[at]
      OBVIOUS
    <3>2. WasRead(x)
      BY <3>1, NoError, Zenon
    <3>3. x.tag = "SEQUENCE" /\ x.value.tag # "bad" /\ x.critical \in {-1, 255}
      BY <3>2 DEF WasRead
    <3>4. QED
      BY <3>1, <3>3, Zenon
  <2>3. exts[at].critical \notin {-1, 0} <=> exts[at].critical = 255
    BY <2>2, CriticalOctet
  <2>4. exts[at].tag # "bad"
    BY <2>2
  <2>5. QED
    BY <2>1, <2>2, <2>3, <2>4, Zenon
<1>6. find_extension_with_meta(exts, oid) =
        LET at == FirstOf(T) IN
        IF at = 0 THEN Absent
        ELSE IF exts[at].tag = "bad" \/ exts[at].value.tag = "bad" THEN Absent
        ELSE <<[value |-> exts[at].value, critical |-> exts[at].critical \notin {-1, 0}]>>
  BY Zenon DEF find_extension_with_meta
<1>7. FirstOf(T) = PositionOf(exts, oid)
  BY <1>1, <1>3, Zenon
<1> HIDE DEF S, T
<1>8. QED
  BY <1>4, <1>5, <1>6, <1>7 DEF S

\* What path_extension_profile returns where it accepts.
LEMMA ProfileOfExtensions ==
    ASSUME NEW exts, ExtensionsForm(exts), Ok(path_extension_profile(exts))
    PROVE  LET p == path_extension_profile(exts)
               bc == PositionOf(exts, "BASIC_CONSTRAINTS")
               ku == PositionOf(exts, "KEY_USAGE")
               eku == PositionOf(exts, "EXT_KEY_USAGE") IN
           /\ p.basic_constraints =
                IF bc = 0 THEN [ca |-> FALSE, path_len |-> Absent, critical |-> FALSE, present |-> FALSE]
                ELSE parse_path_basic_constraints(exts[bc].value, exts[bc].critical = 255)[1]
           /\ p.key_usage = IF ku = 0 THEN Absent ELSE parse_path_key_usage(exts[ku].value)
           /\ p.eku = (eku # 0)
           /\ p.ocsp_signing = (eku # 0 /\ \E e \in Range(exts[eku].value.value) : e.value = "KP_OCSP_SIGNING")
<1>1. Faulty(exts) = {}
  BY NothingFaulty
<1> HIDE DEF Faulty
<1>2. QED
  BY <1>1, Zenon DEF path_extension_profile

\* Both readers take the same octets of a named bit list.
LEMMA UsageOctets ==
    ASSUME NEW v \in Seq(0..255), Len(v) \in 2..3
    PROVE  /\ v # <<>>
           /\ (IF Len(v) > 1 THEN v[2] ELSE 0) = v[2]
           /\ (IF Len(v) > 2 THEN v[3] ELSE 0) = (IF Len(v) = 3 THEN v[3] ELSE 0)
OBVIOUS

\* extract_key_usage and parse_path_key_usage name the same usages.
LEMMA SameKeyUsage ==
    ASSUME NEW exts, ExtensionsForm(exts), Ok(path_extension_profile(exts))
    PROVE  extract_key_usage(exts) = path_extension_profile(exts).key_usage
<1> DEFINE at == PositionOf(exts, "KEY_USAGE")
<1>1. path_extension_profile(exts).key_usage = IF at = 0 THEN Absent ELSE parse_path_key_usage(exts[at].value)
  BY ProfileOfExtensions
<1>2. CASE at = 0
  <2>1. find_extension_with_meta(exts, "KEY_USAGE") = Absent
    BY <1>2, SameExtension
  <2>2. QED
    BY <1>1, <1>2, <2>1, Zenon DEF extract_key_usage
<1>3. CASE at # 0
  <2>1. at \in DOMAIN exts /\ exts[at].oid = "KEY_USAGE"
    BY <1>3, SameExtension
  <2>2. PICK x : x = exts[at]
    OBVIOUS
  <2>3. PathExtensionError(x) = "" /\ x.oid = "KEY_USAGE"
    BY <2>1, <2>2, NoError, Zenon
  <2>4. parse_path_key_usage(x.value) # Absent
    BY <2>3, SMT DEF PathExtensionError
  <2>5. x.value.tag = "BIT STRING" /\ Len(x.value.value) \in 2..3
    BY <2>4, Zenon DEF parse_path_key_usage
  <2>6. parse_path_key_usage(x.value) = <<KeyUsageBits(x.value.value[2], IF Len(x.value.value) = 3 THEN x.value.value[3] ELSE 0)>>
    BY <2>4, Zenon DEF parse_path_key_usage
  <2>7. PICK y : y = [value |-> x.value, critical |-> x.critical = 255]
    OBVIOUS
  <2>71. y.value = x.value
    BY <2>7
  <2>72. find_extension_with_meta(exts, "KEY_USAGE") = <<y>>
    BY <1>3, <2>2, <2>7, SameExtension
  <2>8. x.value.value \in Seq(0..255)
    BY <2>1, <2>2, <2>5 DEF ExtensionsForm
  <2>9. extract_key_usage(exts) =
          <<KeyUsageBits(IF Len(x.value.value) > 1 THEN x.value.value[2] ELSE 0,
                         IF Len(x.value.value) > 2 THEN x.value.value[3] ELSE 0)>>
    <3>1. <<y>> # Absent /\ <<y>>[1] = y
      BY DEF Absent
    <3>2. x.value.value # <<>>
      BY <2>5, <2>8, UsageOctets, Zenon
    <3>3. find_extension_with_meta(exts, "KEY_USAGE") # Absent /\ find_extension_with_meta(exts, "KEY_USAGE")[1] = y
      BY <2>72, <3>1, Zenon
    <3>4. QED
      BY <2>5, <2>71, <3>2, <3>3, Zenon DEF extract_key_usage
  <2>10. /\ (IF Len(x.value.value) > 1 THEN x.value.value[2] ELSE 0) = x.value.value[2]
         /\ (IF Len(x.value.value) > 2 THEN x.value.value[3] ELSE 0) = (IF Len(x.value.value) = 3 THEN x.value.value[3] ELSE 0)
    BY <2>5, <2>8, UsageOctets, Zenon
  <2>11. QED
    BY <1>1, <1>3, <2>2, <2>6, <2>9, <2>10, Zenon
<1>4. QED
  BY <1>2, <1>3

\* The octets from the end are numbers, and a leading zero is none of them.
LEMMA OctetsFromEnd ==
    ASSUME NEW v \in Seq(0..255), NEW k \in 0..2
    PROVE  /\ FromEnd(v, k) \in Nat
           /\ v # <<>> /\ v[1] = 0 => FromEnd(Tail(v), k) = FromEnd(v, k)
<1>1. FromEnd(v, k) \in Nat
  <2>1. CASE k < Len(v)
    <3>1. Len(v) - k \in 1..Len(v)
      BY <2>1
    <3>2. v[Len(v) - k] \in 0..255
      BY <3>1, ElementOfSeq, Zenon
    <3>3. FromEnd(v, k) \in 0..255
      BY <2>1, <3>2, Zenon DEF FromEnd
    <3>4. \A o \in 0..255 : o \in Nat
      OBVIOUS
    <3>5. QED
      BY <3>3, <3>4, Zenon
  <2>2. CASE ~(k < Len(v))
    BY <2>2 DEF FromEnd
  <2>3. QED
    BY <2>1, <2>2
<1>2. ASSUME v # <<>>, v[1] = 0 PROVE FromEnd(Tail(v), k) = FromEnd(v, k)
  <2>1. Len(Tail(v)) = Len(v) - 1 /\ Len(v) \in Nat /\ Len(v) >= 1
    BY <1>2
  <2>2. CASE k < Len(v) - 1
    <3>1. Len(v) - 1 - k \in 1..(Len(v) - 1)
      BY <2>1, <2>2
    <3>2. Tail(v)[Len(v) - 1 - k] = v[Len(v) - 1 - k + 1]
      BY <1>2, <2>1, <3>1
    <3>3. QED
      BY <2>1, <2>2, <3>2 DEF FromEnd
  <2>3. CASE ~(k < Len(v) - 1)
    BY <1>2, <2>1, <2>3 DEF FromEnd
  <2>4. QED
    BY <2>2, <2>3
<1>3. QED
  BY <1>1, <1>2

\* parse_path_length reads the number that the lenient reader reads.
LEMMA SamePathLength ==
    ASSUME NEW v \in Seq(0..255), parse_path_length(v) # -1
    PROVE  parse_path_length(v) = BigEndian(v) /\ BigEndian(v) \in Nat
<1>1. v # <<>>
  BY DEF parse_path_length
<1>2. BigEndian(v) \in Nat
  <2>1. FromEnd(v, 0) \in Nat /\ FromEnd(v, 1) \in Nat /\ FromEnd(v, 2) \in Nat
    BY OctetsFromEnd
  <2>2. QED
    BY <2>1 DEF BigEndian
<1>3. parse_path_length(v) = BigEndian(IF v[1] = 0 /\ Len(v) > 1 THEN Tail(v) ELSE v)
  BY Zenon DEF parse_path_length
<1>4. ASSUME v[1] = 0, Len(v) > 1 PROVE BigEndian(Tail(v)) = BigEndian(v)
  <2>2. FromEnd(Tail(v), 2) = FromEnd(v, 2) /\ FromEnd(Tail(v), 1) = FromEnd(v, 1) /\ FromEnd(Tail(v), 0) = FromEnd(v, 0)
    BY <1>1, <1>4, OctetsFromEnd
  <2>3. QED
    BY <2>2, Zenon DEF BigEndian
<1>5. QED
  BY <1>2, <1>3, <1>4, Zenon

\* Sequences of up to two elements.
LEMMA ShortSequence ==
    ASSUME NEW v, IsSequence(v)
    PROVE  /\ Len(v) \in Nat /\ DOMAIN v = 1..Len(v)
           /\ Len(v) = 0 => v = <<>>
           /\ v # <<>> => Len(v) >= 1 /\ Len(Tail(v)) = Len(v) - 1
           /\ Len(v) = 1 => Tail(v) = <<>>
           /\ Len(v) = 2 => Tail(v) # <<>> /\ Len(Tail(v)) = 1 /\ Tail(v)[1] = v[2]
<1>1. v \in Seq(Range(v))
  BY DEF IsSequence
<1>2. Len(v) \in Nat /\ DOMAIN v = 1..Len(v)
  BY <1>1
<1>3. Len(v) = 0 => v = <<>>
  BY <1>1
<1>4. v # <<>> => Len(v) >= 1 /\ Len(Tail(v)) = Len(v) - 1
  BY <1>1
<1>5. v # <<>> => Tail(v) \in Seq(Range(v)) /\ \A i \in 1..Len(Tail(v)) : Tail(v)[i] = v[i + 1]
  BY <1>1, HeadTailProperties, Zenon
<1> DEFINE t == Tail(v)
<1>51. v # <<>> => t \in Seq(Range(v)) /\ Len(t) = Len(v) - 1 /\ \A i \in 1..Len(t) : t[i] = v[i + 1]
  BY <1>4, <1>5
<1>52. Len(v) \in {1, 2} => v # <<>>
  BY <1>1
<1> HIDE DEF t
<1>6. Len(v) = 1 => t = <<>>
  BY <1>2, <1>51, <1>52
<1>7. Len(v) = 2 => t # <<>> /\ Len(t) = 1 /\ t[1] = v[2]
  BY <1>2, <1>51, <1>52
<1>8. QED
  BY <1>2, <1>3, <1>4, <1>6, <1>7 DEF t

\* The shape of basic constraints that parse_path_basic_constraints accepts.
Flagged(v) ==
    /\ Len(v) \in 1..2 /\ v[1].tag = "BOOLEAN" /\ v[1].value \in {<<0>>, <<255>>}
    /\ Len(v) = 2 => v[2].tag = "INTEGER" /\ parse_path_length(v[2].value) # -1
\* What parse_path_basic_constraints makes of that shape.
LEMMA StrictConstraints ==
    ASSUME NEW value, NEW critical \in BOOLEAN, value.tag = "SEQUENCE" => IsSequence(value.value),
           parse_path_basic_constraints(value, critical) # Absent
    PROVE  /\ value.tag = "SEQUENCE" /\ IsSequence(value.value)
           /\ \/ /\ value.value = <<>>
                 /\ parse_path_basic_constraints(value, critical) =
                      <<[ca |-> FALSE, critical |-> critical, present |-> TRUE, path_len |-> Absent]>>
              \/ /\ Flagged(value.value)
                 /\ parse_path_basic_constraints(value, critical) =
                      <<[ca |-> value.value[1].value = <<255>>, critical |-> critical, present |-> TRUE,
                         path_len |-> IF Len(value.value) = 1 THEN Absent ELSE <<parse_path_length(value.value[2].value)>>]>>
<1>1. value.tag = "SEQUENCE"
  BY Zenon DEF parse_path_basic_constraints
<1>2. PICK v : v = value.value /\ IsSequence(v)
  BY <1>1
<1> DEFINE flag == v # <<>> /\ v[1].tag = "BOOLEAN"
           ca == flag /\ v[1].value = <<255>>
           rest == IF flag THEN Tail(v) ELSE v
<1>3. /\ flag => v[1].value \in {<<0>>, <<255>>}
      /\ ~(Len(rest) > 1)
      /\ Len(rest) = 1 => rest[1].tag = "INTEGER" /\ ca /\ parse_path_length(rest[1].value) # -1
      /\ parse_path_basic_constraints(value, critical) =
           <<[ca |-> ca, critical |-> critical, present |-> TRUE,
              path_len |-> IF rest = <<>> THEN Absent ELSE <<parse_path_length(rest[1].value)>>]>>
  BY <1>1, <1>2, Zenon DEF parse_path_basic_constraints
<1>4. CASE ~flag
  <2>1. rest = v /\ ~ca
    BY <1>4, Zenon
  <2>2. v = <<>>
    <3>1. Len(v) = 0
      <4>1. ~(Len(v) > 1) /\ Len(v) # 1
        BY <1>3, <2>1, Zenon
      <4>2. Len(v) \in Nat
        BY <1>2, ShortSequence
      <4>3. QED
        BY <4>1, <4>2
    <3>2. QED
      BY <1>2, <3>1, ShortSequence, Zenon
  <2>3. ca = FALSE
    BY <2>1
  <2>4. QED
    BY <1>1, <1>2, <1>3, <2>1, <2>2, <2>3, Zenon
<1>5. CASE flag
  <2>1. rest = Tail(v)
    BY <1>5, Zenon
  <2>2. v # <<>> /\ v[1].tag = "BOOLEAN"
    BY <1>5
  <2>3. Len(v) \in 1..2
    <3>1. ~(Len(Tail(v)) > 1)
      BY <1>3, <2>1, Zenon
    <3>2. Len(v) \in Nat /\ Len(v) >= 1 /\ Len(Tail(v)) = Len(v) - 1
      BY <1>2, <2>2, ShortSequence
    <3>3. PICK n : n = Len(Tail(v))
      OBVIOUS
    <3>4. PICK m \in Nat : m = Len(v)
      BY <3>2
    <3>5. ~(n > 1) /\ m >= 1 /\ n = m - 1
      BY <3>1, <3>2, <3>3, <3>4, Zenon
    <3>6. m \in 1..2
      BY <3>5
    <3>7. QED
      BY <3>4, <3>6, Zenon
  <2>4. Len(v) = 2 => rest # <<>> /\ Len(rest) = 1 /\ rest[1] = v[2]
    BY <1>2, <2>1, ShortSequence, Zenon
  <2>5. Len(v) = 1 => rest = <<>>
    BY <1>2, <2>1, ShortSequence, Zenon
  <2>6. Flagged(v)
    BY <1>3, <1>5, <2>2, <2>3, <2>4, Zenon DEF Flagged
  <2>7. (IF rest = <<>> THEN Absent ELSE <<parse_path_length(rest[1].value)>>)
        = (IF Len(v) = 1 THEN Absent ELSE <<parse_path_length(v[2].value)>>)
    <3>1. CASE Len(v) = 1
      BY <2>5, <3>1, Zenon
    <3>2. CASE Len(v) = 2
      <4>1. Len(v) # 1
        BY <3>2
      <4>2. QED
        BY <2>4, <3>2, <4>1, Zenon
    <3>3. QED
      BY <2>3, <3>1, <3>2
  <2>8. ca = (v[1].value = <<255>>)
    BY <1>5
  <2>9. QED
    BY <1>1, <1>2, <1>3, <2>6, <2>7, <2>8, Zenon
<1>6. QED
  BY <1>4, <1>5

\* extract_basic_constraints and parse_path_basic_constraints agree.
LEMMA SameConstraints ==
    ASSUME NEW exts, ExtensionsForm(exts), Ok(path_extension_profile(exts))
    PROVE  /\ extract_basic_constraints(exts) = path_extension_profile(exts).basic_constraints
           /\ LET n == path_extension_profile(exts).basic_constraints.path_len IN n # Absent => n[1] \in Nat
<1> DEFINE at == PositionOf(exts, "BASIC_CONSTRAINTS")
           none == [ca |-> FALSE, path_len |-> Absent, critical |-> FALSE, present |-> FALSE]
<1>1. path_extension_profile(exts).basic_constraints =
        IF at = 0 THEN none ELSE parse_path_basic_constraints(exts[at].value, exts[at].critical = 255)[1]
  BY ProfileOfExtensions
<1>2. CASE at = 0
  <2>1. find_extension_with_meta(exts, "BASIC_CONSTRAINTS") = Absent
    BY <1>2, SameExtension
  <2>2. extract_basic_constraints(exts) = none
    BY <2>1, Zenon DEF extract_basic_constraints
  <2>3. none.path_len = Absent
    OBVIOUS
  <2>4. QED
    BY <1>1, <1>2, <2>2, <2>3, Zenon
<1>3. CASE at # 0
  <2>1. at \in DOMAIN exts /\ exts[at].oid = "BASIC_CONSTRAINTS"
    BY <1>3, SameExtension
  <2>2. PICK x : x = exts[at]
    OBVIOUS
  <2>3. PathExtensionError(x) = "" /\ x.oid = "BASIC_CONSTRAINTS"
    BY <2>1, <2>2, NoError, Zenon
  <2>4. PICK value : value = x.value
    OBVIOUS
  <2>5. PICK critical \in BOOLEAN : critical = (x.critical = 255)
    OBVIOUS
  <2>6. parse_path_basic_constraints(value, critical) # Absent
    <3>1. parse_path_basic_constraints(x.value, x.critical = 255) # Absent
      BY <2>3, SMT DEF PathExtensionError
    <3>2. QED
      BY <2>4, <2>5, <3>1, Zenon
  <2>7. value.tag = "SEQUENCE" => IsSequence(value.value) /\ \A j \in DOMAIN value.value : value.value[j].value \in Seq(0..255)
    BY <2>1, <2>2, <2>4 DEF ExtensionsForm
  <2>8. /\ value.tag = "SEQUENCE" /\ IsSequence(value.value)
        /\ \/ /\ value.value = <<>>
              /\ parse_path_basic_constraints(value, critical) =
                      <<[ca |-> FALSE, critical |-> critical, present |-> TRUE, path_len |-> Absent]>>
           \/ /\ Flagged(value.value)
              /\ parse_path_basic_constraints(value, critical) =
                      <<[ca |-> value.value[1].value = <<255>>, critical |-> critical, present |-> TRUE,
                         path_len |-> IF Len(value.value) = 1 THEN Absent ELSE <<parse_path_length(value.value[2].value)>>]>>
    BY <2>6, <2>7, StrictConstraints, Zenon
  <2>9. PICK y : y = [value |-> value, critical |-> critical]
    OBVIOUS
  <2>10. y.value = value /\ y.critical = critical
    BY <2>9
  <2>11. find_extension_with_meta(exts, "BASIC_CONSTRAINTS") = <<y>>
    <3>1. find_extension_with_meta(exts, "BASIC_CONSTRAINTS") = <<[value |-> x.value, critical |-> x.critical = 255]>>
      BY <1>3, <2>2, SameExtension
    <3>2. QED
      BY <2>4, <2>5, <2>9, <3>1, Zenon
  <2>12. <<y>> # Absent /\ <<y>>[1] = y
    BY DEF Absent
  <2>13. PICK v : v = value.value /\ IsSequence(v)
    BY <2>8, Zenon
  <2> DEFINE flags == Tagged(v, "BOOLEAN")
             lens == Tagged(v, "INTEGER")
  <2>14. extract_basic_constraints(exts) =
           [ca |-> flags # {} /\ v[Max(flags)].value \notin {<<>>, <<0>>},
            path_len |-> IF lens = {} THEN Absent ELSE <<BigEndian(v[Max(lens)].value)>>,
            critical |-> critical, present |-> TRUE]
    <3>1. PICK f : f = find_extension_with_meta(exts, "BASIC_CONSTRAINTS")
      OBVIOUS
    <3>2. f # Absent /\ f[1].value = value /\ f[1].critical = critical
      BY <2>10, <2>11, <2>12, <3>1, Zenon
    <3>3. ~(f = Absent \/ f[1].value.tag # "SEQUENCE")
      BY <2>8, <3>2, Zenon
    <3>4. f[1].value.value = v /\ f[1].critical = critical
      BY <2>13, <3>2, Zenon
    <3>5. QED
      BY <3>1, <3>3, <3>4, Zenon DEF extract_basic_constraints
  <2>15. path_extension_profile(exts).basic_constraints = parse_path_basic_constraints(value, critical)[1]
    BY <1>1, <1>3, <2>2, <2>4, <2>5, Zenon
  <2>16. CASE v = <<>> /\ parse_path_basic_constraints(value, critical) =
                      <<[ca |-> FALSE, critical |-> critical, present |-> TRUE, path_len |-> Absent]>>
    <3>1. flags = {} /\ lens = {}
      BY <2>16 DEF Tagged
    <3>2. path_extension_profile(exts).basic_constraints =
            [ca |-> FALSE, critical |-> critical, present |-> TRUE, path_len |-> Absent]
      BY <2>15, <2>16
    <3> HIDE DEF flags, lens
    <3>3. (flags # {} /\ v[Max(flags)].value \notin {<<>>, <<0>>}) = FALSE
      BY <3>1
    <3>4. extract_basic_constraints(exts) = [ca |-> FALSE, path_len |-> Absent, critical |-> critical, present |-> TRUE]
      BY <2>14, <3>1, <3>3, Zenon
    <3>5. [ca |-> FALSE, path_len |-> Absent, critical |-> critical, present |-> TRUE]
          = [ca |-> FALSE, critical |-> critical, present |-> TRUE, path_len |-> Absent]
      OBVIOUS
    <3>6. [ca |-> FALSE, critical |-> critical, present |-> TRUE, path_len |-> Absent].path_len = Absent
      OBVIOUS
    <3>7. QED
      BY <3>2, <3>4, <3>5, <3>6, Zenon
  <2>17. CASE /\ Flagged(v)
              /\ parse_path_basic_constraints(value, critical) =
                      <<[ca |-> v[1].value = <<255>>, critical |-> critical, present |-> TRUE,
                         path_len |-> IF Len(v) = 1 THEN Absent ELSE <<parse_path_length(v[2].value)>>]>>
    <3>1. /\ Len(v) \in 1..2 /\ v[1].tag = "BOOLEAN" /\ v[1].value \in {<<0>>, <<255>>}
          /\ Len(v) = 2 => v[2].tag = "INTEGER" /\ parse_path_length(v[2].value) # -1
      BY <2>17, Zenon DEF Flagged
    <3>2. DOMAIN v = 1..Len(v)
      BY <2>13, ShortSequence
    <3>3. flags = {1}
      BY <3>1, <3>2 DEF Tagged
    <3>4. lens = IF Len(v) = 1 THEN {} ELSE {2}
      BY <3>1, <3>2 DEF Tagged
    <3> HIDE DEF flags, lens
    <3>5. Max({1}) = 1 /\ Max({2}) = 2
      BY DEF Max
    <3>6. (flags # {} /\ v[Max(flags)].value \notin {<<>>, <<0>>}) = (v[1].value = <<255>>)
      <4>1. \A o \in {<<0>>, <<255>>} : o \notin {<<>>, <<0>>} <=> o = <<255>>
        OBVIOUS
      <4>2. flags # {}
        BY <3>3
      <4>3. v[Max(flags)].value \in {<<0>>, <<255>>} /\ v[Max(flags)].value = v[1].value
        BY <3>1, <3>3, <3>5, Zenon
      <4>4. QED
        BY <4>1, <4>2, <4>3, Zenon
    <3>7. (IF lens = {} THEN Absent ELSE <<BigEndian(v[Max(lens)].value)>>)
          = (IF Len(v) = 1 THEN Absent ELSE <<parse_path_length(v[2].value)>>)
         /\ (Len(v) # 1 => parse_path_length(v[2].value) \in Nat)
      <4>1. CASE Len(v) = 1
        BY <3>4, <4>1, Zenon
      <4>2. CASE Len(v) # 1
        <5>1. Len(v) = 2 /\ 2 \in DOMAIN v
          BY <3>1, <3>2, <4>2
        <5>2. parse_path_length(v[2].value) # -1
          BY <3>1, <5>1, Zenon
        <5>3. v[2].value \in Seq(0..255)
          BY <2>7, <2>8, <2>13, <5>1, Zenon
        <5>4. parse_path_length(v[2].value) = BigEndian(v[2].value) /\ BigEndian(v[2].value) \in Nat
          BY <5>2, <5>3, SamePathLength, Zenon
        <5>5. {2} # {}
          OBVIOUS
        <5>6. QED
          BY <3>4, <3>5, <4>2, <5>4, <5>5, Zenon
      <4>3. QED
        BY <4>1, <4>2
    <3>8. path_extension_profile(exts).basic_constraints =
            [ca |-> v[1].value = <<255>>, critical |-> critical, present |-> TRUE,
             path_len |-> IF Len(v) = 1 THEN Absent ELSE <<parse_path_length(v[2].value)>>]
      BY <2>15, <2>17
    <3>9. PICK n : n = (IF Len(v) = 1 THEN Absent ELSE <<parse_path_length(v[2].value)>>)
      OBVIOUS
    <3>10. n # Absent => n[1] \in Nat
      BY <3>7, <3>9 DEF Absent
    <3>11. PICK ca : ca = (v[1].value = <<255>>)
      OBVIOUS
    <3>12. extract_basic_constraints(exts) = [ca |-> ca, path_len |-> n, critical |-> critical, present |-> TRUE]
      BY <2>14, <3>6, <3>7, <3>9, <3>11, Zenon
    <3>13. path_extension_profile(exts).basic_constraints = [ca |-> ca, critical |-> critical, present |-> TRUE, path_len |-> n]
      BY <3>8, <3>9, <3>11, Zenon
    <3>14. QED
      BY <3>10, <3>12, <3>13
  <2>18. QED
    BY <2>8, <2>13, <2>16, <2>17, Zenon
<1>4. QED
  BY <1>2, <1>3

\* extract_extended_key_usage_meta finds purposes where the strict reader
\* does, and finds the one for OCSP where that one did.
LEMMA SamePurposes ==
    ASSUME NEW exts, ExtensionsForm(exts), Ok(path_extension_profile(exts))
    PROVE  /\ (extract_extended_key_usage_meta(exts) # Absent) = path_extension_profile(exts).eku
           /\ path_extension_profile(exts).ocsp_signing =>
                \E eku \in Range(extract_extended_key_usage_meta(exts)) : "KP_OCSP_SIGNING" \in eku.oids
<1> DEFINE at == PositionOf(exts, "EXT_KEY_USAGE")
<1>1. /\ path_extension_profile(exts).eku = (at # 0)
      /\ path_extension_profile(exts).ocsp_signing = (at # 0 /\ \E e \in Range(exts[at].value.value) : e.value = "KP_OCSP_SIGNING")
  BY ProfileOfExtensions
<1>2. CASE at = 0
  <2>1. find_extension_with_meta(exts, "EXT_KEY_USAGE") = Absent
    BY <1>2, SameExtension
  <2>2. extract_extended_key_usage_meta(exts) = Absent
    BY <2>1, Zenon DEF extract_extended_key_usage_meta
  <2>3. QED
    BY <1>1, <1>2, <2>2
<1>3. CASE at # 0
  <2>1. at \in DOMAIN exts /\ exts[at].oid = "EXT_KEY_USAGE"
    BY <1>3, SameExtension
  <2>2. PICK x : x = exts[at]
    OBVIOUS
  <2>3. PathExtensionError(x) = "" /\ x.oid = "EXT_KEY_USAGE"
    BY <2>1, <2>2, NoError, Zenon
  <2>4. parse_path_extended_key_usage(x.value)
    BY <2>3, SMT DEF PathExtensionError
  <2>5. PICK v : v = x.value.value
    OBVIOUS
  <2>6. x.value.tag = "SEQUENCE" /\ \A i \in DOMAIN v : v[i].tag = "OID"
    BY <2>4, <2>5, Zenon DEF parse_path_extended_key_usage
  <2>7. PICK y : y = [value |-> x.value, critical |-> x.critical = 255]
    OBVIOUS
  <2>8. y.value = x.value
    BY <2>7
  <2>9. PICK f : f = find_extension_with_meta(exts, "EXT_KEY_USAGE")
    OBVIOUS
  <2>10. f = <<y>>
    BY <1>3, <2>2, <2>7, <2>9, SameExtension
  <2>11. f # Absent /\ f[1].value.tag = "SEQUENCE" /\ f[1].value.value = v
    <3>1. f # Absent /\ f[1] = y
      BY <2>10 DEF Absent
    <3>2. QED
      BY <2>5, <2>6, <2>8, <3>1, Zenon
  <2>12. PICK z : z = [critical |-> f[1].critical, oids |-> {e.value : e \in {q \in Range(v) : q.tag = "OID"}}]
    OBVIOUS
  <2>13. extract_extended_key_usage_meta(exts) = <<z>>
    BY <2>9, <2>11, <2>12, Zenon DEF extract_extended_key_usage_meta
  <2>14. <<z>> # Absent /\ z \in Range(<<z>>)
    BY DEF Absent, Range
  <2>15. z.oids = {e.value : e \in {q \in Range(v) : q.tag = "OID"}}
    BY <2>12
  <2>16. ASSUME NEW e \in Range(v), e.value = "KP_OCSP_SIGNING" PROVE "KP_OCSP_SIGNING" \in z.oids
    <3>1. e.tag = "OID"
      BY <2>6, Zenon DEF Range
    <3>2. QED
      BY <2>15, <2>16, <3>1, Zenon
  <2>17. (extract_extended_key_usage_meta(exts) # Absent) = TRUE
    BY <2>13, <2>14
  <2>18. path_extension_profile(exts).eku = TRUE
    BY <1>1, <1>3
  <2>19. ASSUME path_extension_profile(exts).ocsp_signing
         PROVE  \E eku \in Range(extract_extended_key_usage_meta(exts)) : "KP_OCSP_SIGNING" \in eku.oids
    <3>1. \E e \in Range(v) : e.value = "KP_OCSP_SIGNING"
      BY <1>1, <2>2, <2>5, <2>19, Zenon
    <3>2. QED
      BY <2>13, <2>14, <2>16, <3>1, Zenon
  <2>20. QED
    BY <2>17, <2>18, <2>19
<1>4. QED
  BY <1>2, <1>3

\* The extensions of a certificate that reads have the shape its readers
\* count on.
LEMMA CertificateExtensions ==
    ASSUME NEW n, Reads(n)
    PROVE  /\ n \in DOMAIN Der /\ CertificateForm(Cert(n))
           /\ ExtensionsForm(Exts(Cert(n)))
<1>1. n \in DOMAIN Der
  BY DEF Reads, Certs
<1>2. CertificateForm(Cert(n))
  BY <1>1, TrustAssumption
<1>3. PICK c : c = Cert(n)
  OBVIOUS
<1>4. CASE c.extensions = Absent
  <2>1. ExtensionsForm(<<>>)
    BY DEF ExtensionsForm, IsSequence, Range
  <2>2. QED
    BY <1>1, <1>2, <1>3, <1>4, <2>1, Zenon DEF Exts, Absent
<1>5. CASE c.extensions # Absent
  BY <1>1, <1>2, <1>3, <1>5, Zenon DEF Exts, CertificateForm
<1>6. QED
  BY <1>4, <1>5

\* ReadersAgree for every certificate.
LEMMA ReadersAgreeOnAll ==
    ASSUME NEW n, Reads(n), Ok(path_extension_profile(Exts(Cert(n))))
    PROVE  LET exts == Exts(Cert(n))
               p == path_extension_profile(exts) IN
           /\ extract_basic_constraints(exts) = p.basic_constraints
           /\ extract_key_usage(exts) = p.key_usage
           /\ (extract_extended_key_usage_meta(exts) # Absent) = p.eku
<1>1. PICK exts : exts = Exts(Cert(n))
  OBVIOUS
<1>2. ExtensionsForm(exts) /\ Ok(path_extension_profile(exts))
  BY <1>1, CertificateExtensions, Zenon
<1>3. /\ extract_basic_constraints(exts) = path_extension_profile(exts).basic_constraints
      /\ extract_key_usage(exts) = path_extension_profile(exts).key_usage
      /\ (extract_extended_key_usage_meta(exts) # Absent) = path_extension_profile(exts).eku
  BY <1>2, SameConstraints, SameKeyUsage, SamePurposes, Zenon
<1>4. QED
  BY <1>1, <1>3, Zenon

\* matches_key_usage: the purposes exclude each other.
LEMMA PurposesApart ==
    ASSUME NEW usage
    PROVE  /\ ~(matches_key_usage("Auth", usage) /\ matches_key_usage("NonRep", usage))
           /\ ~(matches_key_usage("Dsc", usage) /\ matches_key_usage("Csca", usage))
           /\ ~(matches_key_usage("NonRep", usage) /\ matches_key_usage("Mls", usage))
BY DEF matches_key_usage

\* x509.rs and cert_state.rs: the strict and the lenient reader take the same
\* constraints, usages and purposes from every certificate the strict one
\* accepts, and no certificate serves two purposes that exclude each other.
THEOREM ReadersAndPurposes == Spec => []CertificateReadOneWay
<1>1. ReadersAgree
  BY ReadersAgreeOnAll, Zenon DEF ReadersAgree
<1>2. OnePurposePerCertificate
  <2>1. SUFFICES ASSUME NEW c
                 PROVE LET Binds(p) == bind_to_purpose(c, "Good", p) = "" IN
                       ~(Binds("Auth") /\ Binds("NonRep")) /\ ~(Binds("Dsc") /\ Binds("Csca"))
                       /\ ~(Binds("NonRep") /\ Binds("Mls"))
    BY Zenon DEF OnePurposePerCertificate
  <2>2. PICK usage : usage = IF c.extensions = Absent THEN Absent ELSE extract_key_usage(c.extensions[1])
    OBVIOUS
  <2>3. ASSUME NEW p, bind_to_purpose(c, "Good", p) = "" PROVE matches_key_usage(p, usage[1])
    BY <2>2, <2>3 DEF bind_to_purpose
  <2>4. QED
    BY <2>3, PurposesApart, Zenon
<1>3. CertificateReadOneWay
  BY <1>1, <1>2 DEF CertificateReadOneWay
<1>4. QED
  BY <1>3, PTL

(***************************************************************************)
(* Destinations                                                            *)
(***************************************************************************)

\* is_public_ipv4: an address that passes is not a local one.
LEMMA PublicIpv4 ==
    ASSUME NEW a, \A i \in 1..4 : a[i] \in 0..255, is_public_ipv4(a)
    PROVE  ~LocalIpv4(a)
<1>1. a[1] \in 0..255 /\ a[2] \in 0..255
  OBVIOUS
<1>2. Within(a, <<169, 254>>) => a[1] = 169 /\ a[2] = 254
  BY DEF Within
<1>3. Within(a, <<192, 168>>) => a[1] = 192 /\ a[2] = 168
  BY DEF Within
<1>4. QED
  BY <1>1, <1>2, <1>3 DEF is_public_ipv4, LocalIpv4

\* is_public_ipv6: an address that passes is not a local one, in any of the
\* forms in which it can stand for an IPv4 address.
LEMMA PublicIpv6 ==
    ASSUME NEW a, \A i \in 1..16 : a[i] \in 0..255, Len(a) # 4, is_public_ipv6(a)
    PROVE  ~LocalAddress(a)
<1>0. a[1] # 0 => ~Zeros(a, 1, 12) /\ ~Zeros(a, 1, 10)
  BY DEF Zeros
<1>1. a # [i \in 1..16 |-> IF i = 16 THEN 1 ELSE 0]
  BY DEF is_public_ipv6, Zeros
<1>2. ASSUME NEW q, q # None, \A i \in 1..4 : q[i] \in 0..255, embedded_ipv4(a) = q PROVE ~LocalIpv4(q)
  <2>1. is_public_ipv4(q)
    BY <1>2, Zenon DEF is_public_ipv6
  <2>2. QED
    BY <1>2, <2>1, PublicIpv4, Zenon
<1>3. ASSUME Within(a, [i \in 1..12 |-> IF i > 10 THEN 255 ELSE 0])
      PROVE ~LocalIpv4(<<a[13], a[14], a[15], a[16]>>)
  <2>0. \A i \in 1..12 : a[i] = IF i > 10 THEN 255 ELSE 0
    BY <1>3 DEF Within
  <2>1. Zeros(a, 1, 10) /\ a[11] = 255 /\ a[12] = 255
    BY <2>0 DEF Zeros
  <2>2. embedded_ipv4(a) = <<a[13], a[14], a[15], a[16]>>
    BY <2>1, Zenon DEF embedded_ipv4
  <2>3. PICK q : q = <<a[13], a[14], a[15], a[16]>>
    OBVIOUS
  <2>4. q # None /\ \A i \in 1..4 : q[i] \in 0..255
    BY <2>3 DEF None
  <2>5. QED
    BY <1>2, <2>2, <2>3, <2>4, Zenon
<1>4. ASSUME Within(a, <<32, 2>>) PROVE ~LocalIpv4(<<a[3], a[4], a[5], a[6]>>)
  <2>1. a[1] = 32 /\ a[2] = 2
    BY <1>4 DEF Within
  <2>2. embedded_ipv4(a) = <<a[3], a[4], a[5], a[6]>>
    <3>1. a[1] # 0
      BY <2>1
    <3>2. QED
      BY <1>0, <2>1, <3>1, Zenon DEF embedded_ipv4
  <2>3. PICK q : q = <<a[3], a[4], a[5], a[6]>>
    OBVIOUS
  <2>4. q # None /\ \A i \in 1..4 : q[i] \in 0..255
    BY <2>3 DEF None
  <2>5. QED
    BY <1>2, <2>2, <2>3, <2>4, Zenon
<1>5. ASSUME a[1] \in {252, 253} \/ (a[1] = 254 /\ a[2] \in 128..191) PROVE FALSE
  <2>1. embedded_ipv4(a) = None
    <3>1. a[1] # 0 /\ a[1] # 32
      BY <1>5
    <3>2. QED
      BY <1>0, <3>1, Zenon DEF embedded_ipv4
  <2>2. QED
    BY <1>5, <2>1 DEF is_public_ipv6
<1>6. QED
  BY <1>1, <1>3, <1>4, <1>5 DEF LocalAddress

\* is_public: an address that passes is not a local one in any of its forms.
LEMMA PublicIsNotLocal ==
    ASSUME NEW a \in Address, is_public(a)
    PROVE  ~LocalAddress(a)
<1>1. PICK n : n = Len(a)
  OBVIOUS
<1>2. a \in Seq(0..255) /\ n \in {4, 16}
  BY <1>1, Zenon DEF Address
<1>3. \A i \in 1..n : a[i] \in 0..255
  BY <1>1, <1>2, ElementOfSeq, Zenon
<1>4. CASE n = 4
  <2>1. is_public_ipv4(a) /\ (LocalAddress(a) => LocalIpv4(a))
    BY <1>1, <1>4, Zenon DEF is_public, LocalAddress
  <2>2. QED
    BY <1>3, <1>4, <2>1, PublicIpv4, Zenon
<1>5. CASE n = 16
  <2>1. n # 4
    BY <1>5
  <2>2. is_public_ipv6(a) /\ Len(a) # 4
    BY <1>1, <2>1, Zenon DEF is_public
  <2>3. QED
    BY <1>3, <1>5, <2>2, PublicIpv6, Zenon
<1>6. QED
  BY <1>2, <1>4, <1>5, Zenon

\* What a look-up brings: addresses, and the one that is used among them.
LookupForm(l) == l.all \subseteq Address /\ (l.all # {} => l.first \in l.all)

\* A look-up that brings none.
LEMMA NoneFound ==
    ASSUME NEW kind
    PROVE  LookupForm(NoAddress(kind)) /\ NoAddress(kind).all = {} /\ NoAddress(kind).kind = kind
BY DEF LookupForm, NoAddress

\* classify_dnssec_lookup: the addresses of the records.
LEMMA ClassifiedForm ==
    ASSUME NEW answer, RecordsForm(answer)
    PROVE  LookupForm(classify_dnssec_lookup(answer))
<1>1. PICK records : records = answer.list
  OBVIOUS
<1>2. PICK found : found = {i \in Proven(records, "Secure") : records[i].address # None}
  OBVIOUS
<1>3. found \subseteq Nat /\ \A i \in found : records[i].address \in Address
  BY <1>1, <1>2 DEF RecordsForm, Proven
<1>4. ASSUME found # {}
      PROVE  LookupForm([kind |-> "Secure", first |-> records[Min(found)].address,
                         all |-> {records[i].address : i \in found}])
  <2>1. PICK m : m = Min(found)
    OBVIOUS
  <2>2. m \in found
    BY <1>3, <1>4, <2>1, LeastPosition, Zenon
  <2>3. LookupForm([kind |-> "Secure", first |-> records[m].address, all |-> {records[i].address : i \in found}])
    BY <1>3, <2>2 DEF LookupForm
  <2>4. QED
    BY <2>1, <2>3, Zenon
<1>5. LookupForm(classify_proven_addresses(records))
  BY <1>2, <1>4, NoneFound, Zenon DEF classify_proven_addresses
<1>6. QED
  BY <1>1, <1>5, NoneFound, Zenon DEF classify_dnssec_lookup

\* combine_dnssec_lookups: the addresses of both families.
LEMMA CombinedForm ==
    ASSUME NEW first, NEW second, LookupForm(first), LookupForm(second)
    PROVE  LET c == combine_dnssec_lookups(first, second) IN
           LookupForm(c) /\ (c.kind = "Secure" => c.all # {})
<1>1. CASE first.all \cup second.all # {}
  BY <1>1 DEF combine_dnssec_lookups, LookupForm
<1>2. CASE first.all \cup second.all = {}
  <2>1. PICK kind : combine_dnssec_lookups(first, second) = NoAddress(kind) /\ kind # "Secure"
    <3>1. "Bogus" # "Secure" /\ "SecureEmpty" # "Secure" /\ "Fallback" # "Secure"
      OBVIOUS
    <3>2. QED
      BY <1>2, <3>1, Zenon DEF combine_dnssec_lookups
  <2>2. QED
    BY <2>1, NoneFound, Zenon
<1>3. QED
  BY <1>1, <1>2

\* The result of resolve_addresses: an error, or addresses of which the first
\* is used.
AddressesForm(r) ==
    /\ r.err # "ok"
    /\ r.err = "" => r.first \in r.all /\ r.all \subseteq Address

\* Both results have that form.
LEMMA AddressesOrError ==
    /\ \A a, S : a \in S /\ S \subseteq Address => AddressesForm([err |-> "", first |-> a, all |-> S])
    /\ AddressesForm([err |-> "BadUrl"]) /\ AddressesForm([err |-> "UnsafeDestination"])
    /\ AddressesForm([err |-> "Io", io |-> "Other"])
BY DEF AddressesForm

\* resolve_addresses: an error, or addresses of which the first is used.
LEMMA ResolvedAddresses ==
    ASSUME NEW h, NEW endpoint, NEW dns, h.address \in Address, DnsForm(dns)
    PROVE  AddressesForm(resolve_addresses(h, endpoint, dns))
<1>1. PICK l : l = combine_dnssec_lookups(classify_dnssec_lookup(dns.v4), classify_dnssec_lookup(dns.v6))
  OBVIOUS
<1>2. LookupForm(l) /\ (l.kind = "Secure" => l.all # {})
  BY <1>1, ClassifiedForm, CombinedForm, Zenon DEF DnsForm
<1>3. PICK p : p = IF dns.platform = <<>> THEN [err |-> "Io", io |-> "Other"]
                   ELSE [err |-> "", first |-> dns.platform[1], all |-> Range(dns.platform)]
  OBVIOUS
<1>4. AddressesForm(p)
  <2>1. CASE dns.platform = <<>>
    BY <1>3, <2>1, AddressesOrError, Zenon
  <2>2. CASE dns.platform # <<>>
    <3>1. PICK q : q = dns.platform
      OBVIOUS
    <3>2. q \in Seq(Address) /\ q # <<>>
      BY <2>2, <3>1 DEF DnsForm
    <3>3. q[1] \in Range(q) /\ Range(q) \subseteq Address
      BY <3>2 DEF Range
    <3>4. p = [err |-> "", first |-> q[1], all |-> Range(q)]
      BY <1>3, <2>2, <3>1, Zenon
    <3>5. QED
      BY <3>3, <3>4, AddressesOrError, Zenon
  <2>3. QED
    BY <2>1, <2>2
<1>5. AddressesForm([err |-> "", first |-> h.address, all |-> {h.address}])
  BY AddressesOrError, Zenon
<1>6. l.kind = "Secure" => AddressesForm([err |-> "", first |-> l.first, all |-> l.all])
  BY <1>2, AddressesOrError, Zenon DEF LookupForm
<1>7. QED
  BY <1>1, <1>3, <1>4, <1>5, <1>6, AddressesOrError, Zenon DEF resolve_addresses

\* The result of resolve_destination: an error, or an address that is not a
\* local one when a certificate named the host.
DestinationForm(d, endpoint) ==
    /\ d.err # "ok"
    /\ d.err = "" /\ endpoint = "CertificateMaterial" => ~LocalAddress(d.address)

\* resolve_destination gives such a result.
LEMMA ResolvedForm ==
    ASSUME NEW h, NEW endpoint, NEW dns, h.address \in Address, DnsForm(dns)
    PROVE  DestinationForm(resolve_destination(h, endpoint, dns), endpoint)
<1>1. PICK r : r = resolve_addresses(h, endpoint, dns)
  OBVIOUS
<1>2. AddressesForm(r)
  BY <1>1, ResolvedAddresses, Zenon
<1>3. \A a : ~LocalAddress(a) \/ endpoint # "CertificateMaterial" => DestinationForm([err |-> "", address |-> a], endpoint)
  BY DEF DestinationForm
<1>4. DestinationForm([err |-> "UnsafeDestination"], endpoint)
  BY DEF DestinationForm
<1>5. ASSUME r.err # "" PROVE DestinationForm(r, endpoint)
  BY <1>2, <1>5, Zenon DEF DestinationForm, AddressesForm
<1>6. ASSUME r.err = "", endpoint = "CertificateMaterial" => \A a \in r.all : is_public(a)
      PROVE  DestinationForm([err |-> "", address |-> r.first], endpoint)
  <2>1. endpoint = "CertificateMaterial" => ~LocalAddress(r.first)
    BY <1>2, <1>6, PublicIsNotLocal, Zenon DEF AddressesForm
  <2>2. QED
    BY <1>3, <2>1, Zenon
<1>7. QED
  BY <1>1, <1>4, <1>5, <1>6, Zenon DEF resolve_destination, CheckAddresses

(***************************************************************************)
(* Responses                                                               *)
(***************************************************************************)

\* A set of positions of a sequence that is not empty has a last one.
LEMMA GreatestPosition ==
    ASSUME NEW n \in Nat, NEW S, S \subseteq 1..n, S # {}
    PROVE  Max(S) \in S
<1>1. PICK T : T = {n - i : i \in S}
  OBVIOUS
<1>2. T \subseteq Nat /\ T # {}
  <2>1. \A i \in S : n - i \in Nat
    OBVIOUS
  <2>2. QED
    BY <1>1, <2>1, Zenon
<1>3. PICK t : t \in T /\ \A j \in T : t <= j
  BY <1>2, LeastPosition, Zenon
<1>4. PICK m \in S : t = n - m
  BY <1>1, <1>3, Zenon
<1>5. \A i \in S : t <= n - i
  BY <1>1, <1>3
<1>6. \A i \in S : m >= i
  BY <1>4, <1>5
<1>7. QED
  BY <1>6, Zenon DEF Max

\* The value the first and the last header of a name carry is that of one of
\* the headers of that name.
LEMMA HeaderChosen ==
    ASSUME NEW s, StreamForm(s), NEW name
    PROVE  /\ FirstHeader(s, name) = None \/ \E i \in Headers(s, name) : FirstHeader(s, name) = <<s.headers[i].value>>
           /\ LastHeader(s, name) = None \/ \E i \in Headers(s, name) : LastHeader(s, name) = <<s.headers[i].value>>
           /\ FirstHeader(s, name) = None => Headers(s, name) = {}
           /\ LastHeader(s, name) = None => Headers(s, name) = {}
<1>1. PICK h : h = s.headers
  OBVIOUS
<1>2. PICK S : S = Headers(s, name)
  OBVIOUS
<1>3. PICK n : n = Len(h)
  OBVIOUS
<1>4. DOMAIN h = 1..n /\ n \in Nat
  BY <1>1, <1>3, Zenon DEF StreamForm
<1>5. S \subseteq 1..n
  BY <1>1, <1>2, <1>4, Zenon DEF Headers
<1>6. S \subseteq Nat
  BY <1>4, <1>5
<1>7. S # {} => Min(S) \in S /\ Max(S) \in S
  BY <1>4, <1>5, <1>6, LeastPosition, GreatestPosition, Zenon
<1>8. \A x : <<x>> # None
  BY DEF None
<1>9. QED
  BY <1>1, <1>2, <1>7, <1>8, Zenon DEF FirstHeader, LastHeader

\* What reading a response gives: an error, with an address to go to that has
\* a look-up, or a body that is bounded, and whole when its length was told.
ResponseForm(r, s) ==
    /\ r.err # "ok"
    /\ r.err = "" => \E n : r = Body(n, s) /\ n <= BodyLimit /\ (Told(s) => n = s.size)
    /\ r.err = "HttpStatus" => r.location = None \/ r.location[1].url.host \in DOMAIN DnsAnswers

\* The errors that carry no more than their name and the one of the transport.
LEMMA ErrorResponse ==
    ASSUME NEW s, NEW e, e \notin {"ok", "", "HttpStatus"}
    PROVE  ResponseForm([err |-> e], s) /\ \A io : ResponseForm([err |-> e, io |-> io], s)
                                        /\ ResponseForm([err |-> e, retryable |-> io], s)
<1>1. ASSUME NEW r, r.err = e PROVE ResponseForm(r, s)
  BY <1>1, Zenon DEF ResponseForm
<1>2. [err |-> e].err = e /\ \A io : [err |-> e, io |-> io].err = e /\ [err |-> e, retryable |-> io].err = e
  OBVIOUS
<1>3. QED
  BY <1>1, <1>2, Zenon

\* A body of n octets.
LEMMA BodyResponse ==
    ASSUME NEW s, NEW n, n <= BodyLimit, Told(s) => n = s.size
    PROVE  ResponseForm(Body(n, s), s)
<1>1. Body(n, s).err = ""
  BY DEF Body
<1>2. QED
  BY <1>1 DEF ResponseForm

\* A status that is no success, with the address the server names.
LEMMA StatusResponse ==
    ASSUME NEW s, StreamForm(s), NEW code
    PROVE  ResponseForm([err |-> "HttpStatus", code |-> code, location |-> LastHeader(s, "location")], s)
<1>1. PICK l : l = LastHeader(s, "location")
  OBVIOUS
<1>2. l = None \/ \E i \in Headers(s, "location") : l = <<s.headers[i].value>>
  BY <1>1, HeaderChosen, Zenon
<1>3. l = None \/ l[1].url.host \in DOMAIN DnsAnswers
  <2>1. CASE l = None
    BY <2>1
  <2>2. CASE l # None
    <3>1. PICK i \in Headers(s, "location") : l = <<s.headers[i].value>>
      BY <1>2, <2>2, Zenon
    <3>2. \A x : <<x>>[1] = x
      OBVIOUS
    <3>3. QED
      BY <3>1, <3>2, Zenon DEF StreamForm
  <2>3. QED
    BY <2>1, <2>2
<1>4. PICK r : r = [err |-> "HttpStatus", code |-> code, location |-> l]
  OBVIOUS
<1>5. r.err = "HttpStatus" /\ r.location = l
  BY <1>4
<1>6. ResponseForm(r, s)
  BY <1>3, <1>5, Zenon DEF ResponseForm
<1>7. QED
  BY <1>1, <1>4, <1>6, Zenon

\* A length that counts is the one that was told, where one was.
LEMMA LengthCounts ==
    ASSUME NEW s, StreamForm(s), NEW i \in Headers(s, "content-length"), Told(s)
    PROVE  s.size = s.headers[i].value.length
<1>1. PICK j \in DOMAIN s.headers : TellsAt(s, j)
  BY Zenon DEF Told
<1>5. s.code \notin Bodyless
  BY Zenon DEF Told
<1>2. i = j
  BY <1>1, Zenon DEF TellsAt
<1>3. s.headers[j].name = "content-length"
  BY <1>2, Zenon DEF Headers
<1>4. QED
  BY <1>1, <1>2, <1>3, <1>5, Zenon DEF StreamForm

\* A body until the end of the connection had no length told.
LEMMA NoneTold ==
    ASSUME NEW s, ~Chunked(s), \A i \in Headers(s, "content-length") : s.headers[i].value.length = -1
    PROVE  ~Told(s)
<1>1. SUFFICES ASSUME NEW j \in DOMAIN s.headers, TellsAt(s, j) PROVE FALSE
  BY Zenon DEF Told
<1>2. CASE s.headers[j].name = "content-length"
  <2>1. j \in Headers(s, "content-length")
    BY <1>2, Zenon DEF Headers
  <2>2. QED
    BY <1>1, <1>2, <2>1, Zenon DEF TellsAt
<1>3. CASE s.headers[j].name # "content-length"
  <2>1. j \in Headers(s, "transfer-encoding") /\ s.headers[j].value.coding = "chunked"
    BY <1>1, <1>3, Zenon DEF TellsAt, Headers
  <2>2. QED
    BY <2>1, Zenon DEF Chunked
<1>4. QED
  BY <1>2, <1>3

\* A chunked body up to the empty chunk is within the limit and what was told.
LEMMA ChunksTaken ==
    ASSUME NEW s, StreamForm(s), Chunked(s), EndsSent(s) # {}, ~TooLarge(s, s.sent)
    PROVE  ResponseForm(Body(ChunkedOctets(s.chunks), s), s)
<1>1. PICK c : c = s.chunks
  OBVIOUS
<1>2. PICK n : n = s.sent
  OBVIOUS
<1>3. c \in Seq(Nat) /\ n \in Nat
  BY <1>1, <1>2, Zenon DEF StreamForm
<1>4. PICK e \in Ends(c) : e <= n
  BY <1>1, <1>2, Zenon DEF EndsSent
<1>5. PICK l : l = Len(c)
  OBVIOUS
<1>6. l \in Nat /\ DOMAIN c = 1..l
  BY <1>3, <1>5, LenProperties, Zenon
<1>7. Ends(c) \subseteq 1..l
  BY <1>6, Zenon DEF Ends
<1>8. PICK m : m = Min(Ends(c))
  OBVIOUS
<1>9. m \in Ends(c) /\ \A j \in Ends(c) : m <= j
  <2>1. Ends(c) \subseteq Nat /\ Ends(c) # {}
    BY <1>4, <1>6, <1>7
  <2>2. QED
    BY <1>8, <2>1, LeastPosition, Zenon
<1>10. m \in 1..l /\ m <= e
  BY <1>4, <1>7, <1>9
<1>11. PICK k : k = m - 1
  OBVIOUS
<1>12. k \in 0..l /\ k <= n /\ \A j \in Ends(c) : k < j
  BY <1>3, <1>4, <1>6, <1>7, <1>9, <1>10, <1>11
<1>13. Octets(SubSeq(c, 1, k)) <= BodyLimit
  <2>1. \A j \in EndsSent(s) : k < j
    BY <1>1, <1>12, Zenon DEF EndsSent
  <2>2. QED
    BY <1>1, <1>2, <1>5, <1>12, <2>1, Zenon DEF TooLarge
<1>14. ChunkedOctets(s.chunks) <= BodyLimit
  BY <1>1, <1>8, <1>11, <1>13, Zenon DEF ChunkedOctets
<1>16. ASSUME Told(s) PROVE s.size = ChunkedOctets(s.chunks)
  <2>1. PICK j \in DOMAIN s.headers : TellsAt(s, j)
    BY <1>16, Zenon DEF Told
  <2>7. s.code \notin Bodyless
    BY <1>16, Zenon DEF Told
  <2>2. PICK i \in Headers(s, "transfer-encoding") : TRUE
    BY Zenon DEF Chunked
  <2>3. i = j
    BY <2>1, <2>2, Zenon DEF TellsAt
  <2>4. s.headers[j].name = "transfer-encoding"
    BY <2>3, Zenon DEF Headers
  <2>5. s.headers[j].name # "content-length"
    BY <2>4
  <2>6. QED
    BY <2>1, <2>5, <2>7, Zenon DEF StreamForm
<1>17. QED
  BY <1>14, <1>16, BodyResponse, Zenon

\* read_chunked_body looks at one chunk more than has arrived.
LEMMA TooLargeSooner ==
    ASSUME NEW s, s.sent \in Nat, TooLarge(s, s.sent)
    PROVE  TooLarge(s, s.sent + 1)
<1>1. PICK n : n = s.sent
  OBVIOUS
<1>2. \A k \in 0..Len(s.chunks) : k <= n => k <= n + 1
  BY <1>1
<1>3. QED
  BY <1>1, <1>2, Zenon DEF TooLarge

\* Both readers of a chunked body.
LEMMA ChunkedResponse ==
    ASSUME NEW s, StreamForm(s), Chunked(s)
    PROVE  ResponseForm(read_chunked_body(s), s) /\ ResponseForm(read_chunked(s), s)
<1>1. s.sent \in Nat
  BY Zenon DEF StreamForm
<1>2. {"BodyTooLarge", "BadChunkSize", "BadChunking", "Io"} \cap {"ok", "", "HttpStatus"} = {}
  OBVIOUS
<1>3. QED
  BY <1>1, <1>2, ChunksTaken, TooLargeSooner, ErrorResponse, Zenon DEF read_chunked_body, read_chunked

\* A body of a length that counts, when all of it has arrived.
LEMMA LengthTaken ==
    ASSUME NEW s, StreamForm(s), NEW i \in Headers(s, "content-length"), NEW n, n = s.headers[i].value.length,
           n # -1, ~(n > BodyLimit), ~(s.sent < n)
    PROVE  ResponseForm(Body(n, s), s)
<1>1. PICK k : k = s.sent
  OBVIOUS
<1>2. n \in Nat \cup {-1} /\ k \in Nat
  BY <1>1, Zenon DEF StreamForm
<1>3. BodyLimit \in Nat
  BY HttpAssumption, Zenon
<1>4. n \in Nat /\ n <= BodyLimit /\ n <= k
  BY <1>1, <1>2, <1>3
<1>5. ASSUME Told(s) PROVE n = s.size
  BY <1>5, LengthCounts, Zenon
<1>6. QED
  BY <1>4, <1>5, BodyResponse, Zenon

\* read_response, over plain HTTP.
LEMMA PlainResponse ==
    ASSUME NEW s, StreamForm(s)
    PROVE  ResponseForm(read_response(s), s)
<1>1. {"Io", "BadStatusLine", "UnknownBodyLength", "BodyTooLarge"} \cap {"ok", "", "HttpStatus"} = {}
  OBVIOUS
<1>2. PICK l : l = LastHeader(s, "content-length")
  OBVIOUS
<1>3. ASSUME l # None, l[1].length # -1, ~(l[1].length > BodyLimit), ~(s.sent < l[1].length)
      PROVE  ResponseForm(Body(l[1].length, s), s)
  <2>1. PICK i \in Headers(s, "content-length") : l = <<s.headers[i].value>>
    BY <1>2, <1>3, HeaderChosen, Zenon
  <2>2. \A x : <<x>>[1] = x
    OBVIOUS
  <2>3. l[1].length = s.headers[i].value.length
    BY <2>1, <2>2, Zenon
  <2>4. QED
    BY <1>3, <2>3, LengthTaken, Zenon
<1>4. PICK q : q = IF l[1].length > BodyLimit THEN [err |-> "BodyTooLarge"]
                   ELSE IF s.sent < l[1].length THEN [err |-> "Io", io |-> StreamError(s)]
                   ELSE Body(l[1].length, s)
  OBVIOUS
<1>5. l # None /\ l[1].length # -1 => ResponseForm(q, s)
  BY <1>1, <1>3, <1>4, ErrorResponse, Zenon
<1>6. PICK b : b = CASE Chunked(s) -> read_chunked_body(s)
                     [] ~Chunked(s) /\ (l = None \/ (l # None /\ l[1].length = -1)) -> [err |-> "UnknownBodyLength"]
                     [] OTHER -> q
  OBVIOUS
<1>7. ResponseForm(b, s)
  <2>1. ~(l = None \/ (l # None /\ l[1].length = -1)) => l # None /\ l[1].length # -1
    OBVIOUS
  <2>2. QED
    BY <1>1, <1>5, <1>6, <2>1, ChunkedResponse, ErrorResponse, Zenon
<1>8. read_response(s) =
        CASE s.code = -1 -> IF s.end = "silence" THEN [err |-> "Io", io |-> "WouldBlock"] ELSE [err |-> "BadStatusLine"]
          [] s.code \notin {-1} \cup 200..299 ->
               [err |-> "HttpStatus", code |-> s.code, location |-> LastHeader(s, "location")]
          [] OTHER -> b
  BY <1>2, <1>4, <1>6, Zenon DEF read_response
<1>9. ResponseForm([err |-> "Io", io |-> "WouldBlock"], s) /\ ResponseForm([err |-> "BadStatusLine"], s)
  BY <1>1, ErrorResponse, Zenon
<1>10. ResponseForm([err |-> "HttpStatus", code |-> s.code, location |-> LastHeader(s, "location")], s)
  BY StatusResponse, Zenon
<1>11. QED
  BY <1>7, <1>8, <1>9, <1>10, Zenon

\* Framing::read_response, over TLS.
LEMMA FramedResponse ==
    ASSUME NEW s, StreamForm(s)
    PROVE  ResponseForm(Framing_read_response(s), s)
<1>1. {"Stalled", "ClosedInHeaders", "BodyTooLarge", "ClosedInBody", "Io"} \cap {"ok", "", "HttpStatus"} = {}
  OBVIOUS
<1>2. PICK t : t = FirstHeader(s, "content-length")
  OBVIOUS
<1>3. PICK l : l = IF t = None THEN None ELSE IF t[1].length = -1 THEN None ELSE <<t[1].length>>
  OBVIOUS
<1>4. ASSUME l # None, ~(l[1] > BodyLimit), s.sent >= l[1] PROVE ResponseForm(Body(l[1], s), s)
  <2>1. t # None /\ t[1].length # -1 /\ l = <<t[1].length>>
    BY <1>3, <1>4, Zenon
  <2>2. PICK i \in Headers(s, "content-length") : t = <<s.headers[i].value>>
    BY <1>2, <2>1, HeaderChosen, Zenon
  <2>3. \A x : <<x>>[1] = x
    OBVIOUS
  <2>4. PICK n : n = l[1]
    OBVIOUS
  <2>5. n = s.headers[i].value.length /\ n # -1
    BY <2>1, <2>2, <2>3, <2>4, Zenon
  <2>6. PICK k : k = s.sent
    OBVIOUS
  <2>7. n \in Nat \cup {-1} /\ k \in Nat
    BY <2>5, <2>6, Zenon DEF StreamForm
  <2>8. ~(k < n)
    BY <1>4, <2>4, <2>5, <2>6, <2>7
  <2>9. QED
    BY <1>4, <2>4, <2>5, <2>6, <2>8, LengthTaken, Zenon
<1>5. ASSUME ~Chunked(s), l = None, ~(s.sent > BodyLimit) PROVE ResponseForm(Body(s.sent, s), s)
  <2>1. ~Told(s)
    <3>1. SUFFICES ASSUME NEW i \in Headers(s, "content-length"), s.headers[i].value.length # -1, Told(s) PROVE FALSE
      BY <1>5, NoneTold, Zenon
    <3>2. t # None
      BY <1>2, <3>1, HeaderChosen, Zenon
    <3>3. PICK j \in Headers(s, "content-length") : t = <<s.headers[j].value>>
      BY <1>2, <3>2, HeaderChosen, Zenon
    <3>4. PICK e \in DOMAIN s.headers : TellsAt(s, e)
      BY <3>1, Zenon DEF Told
    <3>5. i = e /\ j = e
      BY <3>3, <3>4, Zenon DEF TellsAt
    <3>6. \A x : <<x>>[1] = x /\ <<x>> # None
      BY DEF None
    <3>7. t[1].length # -1
      BY <3>1, <3>3, <3>5, <3>6, Zenon
    <3>8. QED
      BY <1>3, <1>5, <3>2, <3>6, <3>7, Zenon
  <2>2. PICK k : k = s.sent
    OBVIOUS
  <2>3. k \in Nat /\ BodyLimit \in Nat
    BY <2>2, HttpAssumption, Zenon DEF StreamForm
  <2>4. k <= BodyLimit
    BY <1>5, <2>2, <2>3
  <2>5. QED
    BY <2>1, <2>2, <2>4, BodyResponse, Zenon
<1>6. s.code \in Bodyless => ResponseForm(Body(s.sent, s), s)
  <2>1. s.code \in Bodyless => s.sent <= BodyLimit /\ ~Told(s)
    BY Zenon DEF StreamForm, Told
  <2>2. QED
    BY <2>1, BodyResponse, Zenon
<1>7. PICK q : q = IF l # None
                   THEN IF l[1] > BodyLimit THEN [err |-> "BodyTooLarge"]
                        ELSE IF s.sent >= l[1] THEN Body(l[1], s)
                        ELSE IF s.end = "silence" THEN [err |-> "Stalled"]
                        ELSE [err |-> "ClosedInBody"]
                   ELSE IF s.sent > BodyLimit THEN [err |-> "BodyTooLarge"]
                        ELSE IF s.end = "silence" THEN [err |-> "Stalled"]
                        ELSE IF s.end = "close" THEN Body(s.sent, s)
                        ELSE [err |-> "Io", io |-> StreamError(s)]
  OBVIOUS
<1>8. ~Chunked(s) => ResponseForm(q, s)
  BY <1>1, <1>4, <1>5, <1>7, ErrorResponse, Zenon
<1>9. Framing_read_response(s) =
        CASE s.code = -1 -> IF s.end = "silence" THEN [err |-> "Stalled"] ELSE [err |-> "ClosedInHeaders"]
          [] s.code \in Bodyless -> Body(s.sent, s)
          [] s.code \notin Bodyless \cup {-1} /\ Chunked(s) -> read_chunked(s)
          [] OTHER -> q
  BY <1>2, <1>3, <1>7, Zenon DEF Framing_read_response
<1>10. QED
  BY <1>1, <1>6, <1>8, <1>9, ChunkedResponse, ErrorResponse, Zenon

\* send_request and the request around it, in the scheme of the address.
LEMMA ExchangeForm ==
    ASSUME NEW s, StreamForm(s)
    PROVE  ResponseForm(Exchange(s), s)
<1>1. PICK r : r = Framing_read_response(s)
  OBVIOUS
<1>2. ResponseForm(r, s)
  BY <1>1, FramedResponse, Zenon
<1>3. "Https" \notin {"ok", "", "HttpStatus"}
  OBVIOUS
<1>4. ResponseForm(https_exchange(s), s)
  BY <1>1, <1>2, <1>3, StatusResponse, ErrorResponse, Zenon DEF https_exchange
<1>5. QED
  BY <1>4, PlainResponse, Zenon DEF Exchange

(***************************************************************************)
(* Requests                                                                *)
(***************************************************************************)

\* What a request brings in the end.
ResultForm(r) ==
    /\ r.err # "ok"
    /\ r.err = "" => r.octets <= BodyLimit /\ (r.told => r.whole)

RequestFields == {"st", "method", "first", "url", "endpoint", "credentials", "followed", "address", "for", "result"}

\* A request in work: its host has a look-up; credentials go to the configured
\* host over TLS; the address a certificate led to is not a local one.
RequestForm(h) ==
    /\ DOMAIN h = RequestFields
    /\ h.st \in {"resolve", "connect", "read", "stalled", "done"}
    /\ h.url.host \in DOMAIN DnsAnswers /\ h.for \in DOMAIN Streams
    /\ h.credentials \in BOOLEAN /\ (h.credentials => h.endpoint = "Authority")
    /\ h.credentials /\ h.st # "done" => h.url.scheme = "https" /\ h.url.host = h.first.host
    /\ h.st \in {"connect", "read", "stalled"} /\ h.endpoint = "CertificateMaterial" => ~LocalAddress(h.address)
    /\ h.st = "done" => ResultForm(h.result)
HttpInv == http = NoRequest \/ RequestForm(http)

\* A request that ends keeps its form when its result has it.
LEMMA FinishedForm ==
    ASSUME NEW h, RequestForm(h), NEW r, ResultForm(r)
    PROVE  RequestForm([h EXCEPT !.st = "done", !.result = r])
<1>1. PICK g : g = [h EXCEPT !.st = "done", !.result = r]
  OBVIOUS
<1>2. /\ DOMAIN g = RequestFields /\ g.st = "done" /\ g.result = r /\ g.url = h.url /\ g.for = h.for
      /\ g.credentials = h.credentials /\ g.endpoint = h.endpoint
  BY <1>1 DEF RequestForm, RequestFields
<1>3. RequestForm(g)
  BY <1>2, Zenon DEF RequestForm
<1>4. QED
  BY <1>1, <1>3, Zenon

\* A result that is an error by name.
LEMMA ErrorResult ==
    ASSUME NEW e, e \notin {"ok", ""}
    PROVE  ResultForm([err |-> e]) /\ \A x : ResultForm([err |-> e, io |-> x]) /\ ResultForm([err |-> e, retryable |-> x])
<1>1. ASSUME NEW r, r.err = e PROVE ResultForm(r)
  BY <1>1, Zenon DEF ResultForm
<1>2. [err |-> e].err = e /\ \A x : [err |-> e, io |-> x].err = e /\ [err |-> e, retryable |-> x].err = e
  OBVIOUS
<1>3. QED
  BY <1>1, <1>2, Zenon

\* get, post and post_authority.
LEMMA RequestStarts ==
    ASSUME NEW method, NEW url, NEW endpoint, NEW credentials \in BOOLEAN, NEW for,
           StartRequest(method, url, endpoint, credentials, for),
           url.host \in DOMAIN DnsAnswers, for \in DOMAIN Streams, credentials => endpoint = "Authority"
    PROVE  RequestForm(http')
<1>1. PICK h : h = http'
  OBVIOUS
<1>2. CASE credentials /\ url.scheme # "https"
  <2>1. ResultForm([err |-> "InsecureCredentials"])
    <3>1. "InsecureCredentials" \notin {"ok", ""}
      OBVIOUS
    <3>2. QED
      BY <3>1, ErrorResult, Zenon
  <2>2. /\ DOMAIN h = RequestFields /\ h.st = "done" /\ h.url = url /\ h.for = for /\ h.endpoint = endpoint
        /\ h.credentials = credentials /\ h.result = [err |-> "InsecureCredentials"]
    BY <1>1, <1>2 DEF StartRequest, RequestFields
  <2>3. RequestForm(h)
    BY <2>1, <2>2, Zenon DEF RequestForm
  <2>4. QED
    BY <1>1, <2>3, Zenon
<1>3. CASE ~(credentials /\ url.scheme # "https")
  <2>1. /\ DOMAIN h = RequestFields /\ h.st = "resolve" /\ h.url = url /\ h.for = for /\ h.endpoint = endpoint
        /\ h.credentials = credentials /\ h.first = url
    BY <1>1, <1>3 DEF StartRequest, RequestFields
  <2>2. h.st # "done" /\ h.st \notin {"connect", "read", "stalled"}
    BY <2>1
  <2>3. RequestForm(h)
    BY <1>3, <2>1, <2>2, Zenon DEF RequestForm
  <2>4. QED
    BY <1>1, <2>3, Zenon
<1>4. QED
  BY <1>2, <1>3, Zenon

\* get_once and post_once: the destination.
LEMMA ResolveKeeps ==
    ASSUME HttpInv, Resolve
    PROVE  HttpInv'
<1>1. PICK h : h = http
  OBVIOUS
<1>2. h.st = "resolve" /\ RequestForm(h)
  <2>1. h.st = "resolve"
    BY <1>1, Zenon DEF Resolve
  <2>2. h # NoRequest
    BY <2>1 DEF NoRequest
  <2>3. QED
    BY <1>1, <2>1, <2>2, Zenon DEF HttpInv
<1>3. PICK dns, d :
        /\ dns \in DnsAnswers[h.url.host]
        /\ d = resolve_destination(h.url.host, h.endpoint, dns)
        /\ http' = IF d.err = "" THEN [h EXCEPT !.st = "connect", !.address = d.address]
                   ELSE [h EXCEPT !.st = "done", !.result = d]
  BY <1>1, Zenon DEF Resolve, Finished
<1>4. h.url.host.address \in Address /\ DnsForm(dns)
  BY <1>2, <1>3, HttpAssumption, Zenon DEF RequestForm
<1>5. DestinationForm(d, h.endpoint)
  BY <1>3, <1>4, ResolvedForm, Zenon
<1>6. CASE d.err = ""
  <2>1. PICK g : g = [h EXCEPT !.st = "connect", !.address = d.address]
    OBVIOUS
  <2>2. /\ DOMAIN g = RequestFields /\ g.st = "connect" /\ g.url = h.url /\ g.for = h.for /\ g.endpoint = h.endpoint
        /\ g.credentials = h.credentials /\ g.first = h.first /\ g.address = d.address
    BY <1>2, <2>1 DEF RequestForm, RequestFields
  <2>3. RequestForm(g)
    <3>1. g.st # "done" /\ h.st # "done"
      BY <1>2, <2>2
    <3>2. QED
      BY <1>2, <1>5, <1>6, <2>2, <3>1, Zenon DEF RequestForm, DestinationForm
  <2>4. QED
    BY <1>3, <1>6, <2>1, <2>3, Zenon DEF HttpInv
<1>7. CASE d.err # ""
  <2>1. ResultForm(d)
    BY <1>5, <1>7, Zenon DEF DestinationForm, ResultForm
  <2>2. QED
    BY <1>2, <1>3, <1>7, <2>1, FinishedForm, Zenon DEF HttpInv
<1>8. QED
  BY <1>6, <1>7, Zenon

\* connected_stream and tcp_connect.
LEMMA ConnectKeeps ==
    ASSUME HttpInv, Connect
    PROVE  HttpInv'
<1>1. PICK h : h = http
  OBVIOUS
<1>2. h.st = "connect" /\ RequestForm(h)
  BY <1>1 DEF Connect, HttpInv, NoRequest
<1>3. \/ http' = [h EXCEPT !.st = "read"]
      \/ \E r : ResultForm(r) /\ http' = [h EXCEPT !.st = "done", !.result = r]
  <2>1. "Https" \notin {"ok", ""} /\ "Io" \notin {"ok", ""}
    OBVIOUS
  <2>2. QED
    BY <1>1, <2>1, ErrorResult, Zenon DEF Connect, Finished
<1>4. CASE http' = [h EXCEPT !.st = "read"]
  <2>1. PICK g : g = [h EXCEPT !.st = "read"]
    OBVIOUS
  <2>2. /\ DOMAIN g = RequestFields /\ g.st = "read" /\ g.url = h.url /\ g.for = h.for /\ g.endpoint = h.endpoint
        /\ g.credentials = h.credentials /\ g.first = h.first /\ g.address = h.address
    BY <1>2, <2>1 DEF RequestForm, RequestFields
  <2>3. RequestForm(g)
    <3>1. g.st # "done" /\ h.st # "done"
      BY <1>2, <2>2
    <3>2. QED
      BY <1>2, <2>2, <3>1, Zenon DEF RequestForm
  <2>4. QED
    BY <1>4, <2>1, <2>3, Zenon DEF HttpInv
<1>5. CASE \E r : ResultForm(r) /\ http' = [h EXCEPT !.st = "done", !.result = r]
  <2>1. PICK r : ResultForm(r) /\ http' = [h EXCEPT !.st = "done", !.result = r]
    BY <1>5
  <2>2. PICK g : g = [h EXCEPT !.st = "done", !.result = r]
    OBVIOUS
  <2>3. RequestForm(g)
    BY <1>2, <2>1, <2>2, FinishedForm, Zenon
  <2>4. QED
    BY <2>1, <2>2, <2>3, Zenon DEF HttpInv
<1>6. QED
  BY <1>3, <1>4, <1>5, Zenon

\* The rest of one turn: done, or redirected to a host that has a look-up,
\* with credentials only to the same host and over TLS.
LEMMA TurnKeeps ==
    ASSUME NEW h, h = http, RequestForm(h), h.st \in {"read", "stalled"}, NEW r, ResultForm(r),
           r.err = "HttpStatus" => r.location = None \/ r.location[1].url.host \in DOMAIN DnsAnswers
    PROVE  RequestForm(AfterResponse(r))
<1>1. ASSUME NEW q, ResultForm(q) PROVE RequestForm(Finished(q))
  BY <1>1, FinishedForm, Zenon DEF Finished
<1>2. ResultForm([err |-> "UnsafeRedirect"])
  <2>1. "UnsafeRedirect" \notin {"ok", ""}
    OBVIOUS
  <2>2. QED
    BY <2>1, ErrorResult, Zenon
<1>3. ASSUME NEW url, url.host \in DOMAIN DnsAnswers, check_redirect(h.url, url, h.endpoint)
      PROVE  RequestForm([h EXCEPT !.st = "resolve", !.url = url, !.followed = h.followed + 1])
  <2>1. PICK g : g = [h EXCEPT !.st = "resolve", !.url = url, !.followed = h.followed + 1]
    OBVIOUS
  <2>2. /\ DOMAIN g = RequestFields /\ g.st = "resolve" /\ g.url = url /\ g.for = h.for /\ g.endpoint = h.endpoint
        /\ g.credentials = h.credentials /\ g.first = h.first
    BY <2>1 DEF RequestForm, RequestFields
  <2>3. g.st # "done" /\ g.st \notin {"connect", "read", "stalled"} /\ h.st # "done"
    BY <2>2
  <2>4. h.credentials => url.scheme = "https" /\ url.host = h.first.host
    <3>1. "https" # "http"
      OBVIOUS
    <3>2. QED
      BY <1>3, <2>3, <3>1, Zenon DEF RequestForm, check_redirect
  <2>5. RequestForm(g)
    BY <1>3, <2>2, <2>3, <2>4, Zenon DEF RequestForm
  <2>6. QED
    BY <2>1, <2>5, Zenon
<1>4. PICK g : g = AfterResponse(r)
  OBVIOUS
<1>5. \/ g = Finished(r)
      \/ g = Finished([err |-> "UnsafeRedirect"])
      \/ /\ r.err = "HttpStatus" /\ r.location # None /\ check_redirect(h.url, r.location[1].url, h.endpoint)
         /\ g = [h EXCEPT !.st = "resolve", !.url = r.location[1].url, !.followed = h.followed + 1]
  <2>1. PICK x : x = [http EXCEPT !.st = "resolve", !.url = r.location[1].url, !.followed = @ + 1]
    OBVIOUS
  <2>2. x = [h EXCEPT !.st = "resolve", !.url = r.location[1].url, !.followed = h.followed + 1]
    BY <2>1
  <2>3. \/ g = Finished(r)
        \/ g = Finished([err |-> "UnsafeRedirect"])
        \/ /\ r.err = "HttpStatus" /\ r.location # None /\ check_redirect(http.url, r.location[1].url, http.endpoint)
           /\ g = x
    BY <1>4, <2>1, Zenon DEF AfterResponse
  <2>4. QED
    BY <2>2, <2>3, Zenon
<1>6. ASSUME r.err = "HttpStatus", r.location # None, check_redirect(h.url, r.location[1].url, h.endpoint)
      PROVE  RequestForm([h EXCEPT !.st = "resolve", !.url = r.location[1].url, !.followed = h.followed + 1])
  <2>1. PICK url : url = r.location[1].url
    OBVIOUS
  <2>2. RequestForm([h EXCEPT !.st = "resolve", !.url = url, !.followed = h.followed + 1])
    BY <1>3, <1>6, <2>1, Zenon
  <2>3. QED
    BY <2>1, <2>2, Zenon
<1>7. RequestForm(Finished(r)) /\ RequestForm(Finished([err |-> "UnsafeRedirect"]))
  BY <1>1, <1>2, Zenon
<1>8. QED
  BY <1>4, <1>5, <1>6, <1>7, Zenon

\* read_response and what follows it.
LEMMA ReadKeeps ==
    ASSUME HttpInv, Read
    PROVE  HttpInv'
<1>1. PICK h : h = http
  OBVIOUS
<1>2. h.st \in {"read", "stalled"} /\ RequestForm(h)
  <2>1. h.st \in {"read", "stalled"}
    BY <1>1, Zenon DEF Read
  <2>2. h # NoRequest
    BY <2>1 DEF NoRequest
  <2>3. QED
    BY <1>1, <2>1, <2>2, Zenon DEF HttpInv
<1>3. PICK s, r :
        /\ s \in Streams[h.for]
        /\ r = Exchange(s)
        /\ http' = IF r.err = "Stalled" THEN [h EXCEPT !.st = "stalled"]
                   ELSE AfterResponse(IF r.err = "" THEN [r EXCEPT !.code = 200] ELSE r)
  BY <1>1, Zenon DEF Read
<1>4. StreamForm(s)
  BY <1>2, <1>3, HttpAssumption, Zenon DEF RequestForm
<1>5. ResponseForm(r, s)
  BY <1>3, <1>4, ExchangeForm, Zenon
<1>6. CASE r.err = "Stalled"
  <2>1. PICK g : g = [h EXCEPT !.st = "stalled"]
    OBVIOUS
  <2>2. /\ DOMAIN g = RequestFields /\ g.st = "stalled" /\ g.url = h.url /\ g.for = h.for /\ g.endpoint = h.endpoint
        /\ g.credentials = h.credentials /\ g.first = h.first /\ g.address = h.address
    BY <1>2, <2>1 DEF RequestForm, RequestFields
  <2>3. RequestForm(g)
    <3>1. g.st # "done" /\ h.st # "done" /\ h.st \in {"connect", "read", "stalled"}
      BY <1>2, <2>2
    <3>2. QED
      BY <1>2, <2>2, <3>1, Zenon DEF RequestForm
  <2>4. QED
    BY <1>3, <1>6, <2>1, <2>3, Zenon DEF HttpInv
<1>7. CASE r.err = ""
  <2>1. PICK n : r = Body(n, s) /\ n <= BodyLimit /\ (Told(s) => n = s.size)
    BY <1>5, <1>7, Zenon DEF ResponseForm
  <2>2. PICK q : q = [r EXCEPT !.code = 200]
    OBVIOUS
  <2>3. q.err = "" /\ q.octets = n /\ q.told = Told(s) /\ q.whole = (n = s.size)
    BY <2>1, <2>2 DEF Body
  <2>4. ResultForm(q) /\ q.err # "HttpStatus"
    <3>1. q.err # "ok" /\ q.err # "HttpStatus"
      BY <2>3
    <3>2. QED
      BY <2>1, <2>3, <3>1, Zenon DEF ResultForm
  <2>5. RequestForm(AfterResponse(q))
    BY <1>1, <1>2, <2>4, TurnKeeps, Zenon
  <2>6. r.err # "Stalled"
    BY <1>7
  <2>7. QED
    BY <1>3, <1>7, <2>2, <2>5, <2>6, Zenon DEF HttpInv
<1>8. CASE r.err \notin {"", "Stalled"}
  <2>1. ResultForm(r)
    BY <1>5, <1>8, Zenon DEF ResultForm, ResponseForm
  <2>2. RequestForm(AfterResponse(r))
    BY <1>1, <1>2, <1>5, <2>1, TurnKeeps, Zenon DEF ResponseForm
  <2>3. QED
    BY <1>3, <1>8, <2>2, Zenon DEF HttpInv
<1>9. QED
  BY <1>6, <1>7, <1>8, Zenon

\* Every step of a request in work.
LEMMA HttpStepKeeps ==
    ASSUME HttpInv, HttpStep
    PROVE  HttpInv'
BY ResolveKeeps, ConnectKeeps, ReadKeeps, Zenon DEF HttpStep

\* The form of a request says what it may reach, reveal and bring back.
LEMMA RequestsAreContained ==
    ASSUME HttpInv
    PROVE  RequestsContained
<1>1. PICK h : h = http
  OBVIOUS
<1>2. CASE h = NoRequest
  <2>1. h.st = "idle"
    BY <1>2 DEF NoRequest
  <2>2. h.st \notin {"connect", "read", "done"}
    BY <2>1
  <2>3. QED
    BY <1>1, <2>2, Zenon DEF RequestsContained, NoLocalDestination, CredentialsStayWithTheirHost, BodyIsWholeAndBounded
<1>3. CASE RequestForm(h)
  <2>1. h.st \in {"connect", "read"} => h.st \in {"connect", "read", "stalled"} /\ h.st # "done"
    OBVIOUS
  <2>2. QED
    BY <1>1, <1>3, <2>1, Zenon
       DEF RequestsContained, NoLocalDestination, CredentialsStayWithTheirHost, BodyIsWholeAndBounded, RequestForm, ResultForm
<1>4. QED
  BY <1>1, <1>2, <1>3, Zenon DEF HttpInv

(***************************************************************************)
(* The walk, step by step                                                  *)
(***************************************************************************)

WalkFields == {"pc", "current", "visited", "cas", "issuer", "urls", "rng", "failures", "nonce", "result"}
OnPath == {"search", "fetch", "linked", "ocsp", "crl?", "crl", "climb", "display", "display fetch"}
Asking == {"fetch", "ocsp", "crl", "display fetch"}
AddressList(urls) == urls \in Seq(DOMAIN Url) /\ Len(urls) <= MaxAddresses

\* The walk's record: from "search" on the current certificate reads, and
\* while an address is asked there is one.
WalkForm(v) ==
    /\ DOMAIN v = WalkFields
    /\ v.pc \in Pcs
    /\ v.cas \in 0..MAX_DEPTH
    /\ v.visited \in Seq(DOMAIN Der) /\ Len(v.visited) <= DISPLAY_DEPTH
    /\ AddressList(v.urls)
    /\ v.pc \in OnPath => Reads(v.current)
    /\ v.pc \in Asking => v.urls # <<>>

\* What the steps do to the record v, giving u.  It ends without success:
Stops(u, v) ==
    /\ DOMAIN u = WalkFields /\ v.pc # "done"
    /\ u.pc = "done" /\ u.result # "ok"
    /\ u.visited = v.visited /\ u.cas = v.cas /\ u.urls = v.urls
\* a chain begins:
Begins(u, v) ==
    /\ DOMAIN u = WalkFields /\ v.pc = "start"
    /\ u.pc = "enter" /\ u.result = "" /\ u.visited = <<>> /\ u.cas = 0 /\ u.urls = <<>>
\* the current certificate is put on the path, and is the anchor, or is
\* refused, or its issuer is to be searched for:
Enters(u, v) ==
    LET c == Cert(v.current)
        p == validate_path_extensions(c) IN
    /\ DOMAIN u = WalkFields /\ v.pc = "enter" /\ start.call # "display"
    /\ Reads(v.current) /\ validate_certificate_time(c, start.reference_time)
    /\ ~(Len(v.visited) >= MAX_DEPTH)
    /\ u.visited = Append(v.visited, v.current) /\ u.current = v.current /\ u.urls = v.urls
    /\ \/ IsAnchor(v.current) /\ u.pc = "done" /\ u.result = "ok" /\ u.cas = v.cas
       \/ ~IsAnchor(v.current) /\ u.pc = "done" /\ u.result # "ok" /\ u.cas = v.cas
       \/ /\ ~IsAnchor(v.current) /\ u.pc = "search" /\ u.result = v.result /\ Ok(p)
          /\ u.cas = IF p.basic_constraints.ca /\ c.issuer # c.subject /\ v.cas < MAX_DEPTH THEN v.cas + 1 ELSE v.cas
\* the search for an issuer and for its status goes on in pc:
Goes(u, v, pc) ==
    /\ DOMAIN u = WalkFields /\ u.pc = pc
    /\ u.result = v.result /\ u.visited = v.visited /\ u.cas = v.cas /\ u.current = v.current
    /\ AddressList(u.urls) /\ (pc \in Asking => u.urls # <<>>)
\* the issuer becomes the current certificate:
Climbs(u, v) ==
    /\ DOMAIN u = WalkFields /\ u.pc = "enter"
    /\ u.result = v.result /\ u.visited = v.visited /\ u.cas = v.cas /\ u.urls = v.urls /\ u.current = v.issuer
\* the display puts the current certificate on its path:
Shows(u, v) ==
    /\ DOMAIN u = WalkFields /\ v.pc = "enter" /\ start.call = "display"
    /\ Reads(v.current) /\ ~(Len(v.visited) >= DISPLAY_DEPTH)
    /\ u.visited = Append(v.visited, v.current) /\ u.current = v.current /\ u.cas = v.cas
    /\ AddressList(u.urls)
    /\ \/ u.pc = "done" /\ u.result # "ok"
       \/ u.pc = "display" /\ u.result = v.result
       \/ u.pc = "display fetch" /\ u.result = v.result /\ u.urls # <<>>

\* bounded_certificate_addresses gives at most three of the addresses.
LEMMA BoundedAddresses ==
    ASSUME NEW a \in Seq(DOMAIN Url)
    PROVE  AddressList(bounded_certificate_addresses(a))
<1>1. PICK new : new = {i \in DOMAIN a : \A j \in 1..(i - 1) : a[j] # a[i]}
  OBVIOUS
<1>2. new \subseteq Nat \ {0} /\ \A i \in new : a[i] \in DOMAIN Url
  <2>1. new \subseteq DOMAIN a
    BY <1>1
  <2>2. DOMAIN a \subseteq Nat \ {0} /\ \A i \in DOMAIN a : a[i] \in DOMAIN Url
    OBVIOUS
  <2>3. QED
    BY <2>1, <2>2, Zenon
<1>3. PICK first : first = FirstOf(new)
  OBVIOUS
<1>4. PICK second : second = FirstOf(new \ {first})
  OBVIOUS
<1>5. PICK third : third = FirstOf(new \ {first, second})
  OBVIOUS
<1>6. ASSUME NEW S, S \subseteq new PROVE FirstOf(S) = 0 \/ a[FirstOf(S)] \in DOMAIN Url
  BY <1>2, <1>6, FirstPosition, Zenon
<1>7. /\ first = 0 \/ a[first] \in DOMAIN Url
      /\ second = 0 \/ a[second] \in DOMAIN Url
      /\ third = 0 \/ a[third] \in DOMAIN Url
  <2>1. new \subseteq new /\ new \ {first} \subseteq new /\ new \ {first, second} \subseteq new
    OBVIOUS
  <2>2. QED
    BY <1>3, <1>4, <1>5, <1>6, <2>1, Zenon
<1>8. AddressList(<<>>)
  BY DEF AddressList, MaxAddresses
<1>9. ASSUME NEW x \in DOMAIN Url PROVE AddressList(<<x>>)
  BY DEF AddressList, MaxAddresses
<1>10. ASSUME NEW x \in DOMAIN Url, NEW y \in DOMAIN Url PROVE AddressList(<<x, y>>)
  BY DEF AddressList, MaxAddresses
<1>11. ASSUME NEW x \in DOMAIN Url, NEW y \in DOMAIN Url, NEW z \in DOMAIN Url PROVE AddressList(<<x, y, z>>)
  BY DEF AddressList, MaxAddresses
<1>12. QED
  BY <1>1, <1>3, <1>4, <1>5, <1>7, <1>8, <1>9, <1>10, <1>11, Zenon DEF bounded_certificate_addresses

\* The addresses a certificate that reads names.
LEMMA AddressesOf ==
    ASSUME NEW n, Reads(n)
    PROVE  /\ AddressList(bounded_certificate_addresses(extract_ca_issuers_urls(Exts(Cert(n)))))
           /\ AddressList(bounded_certificate_addresses(extract_ocsp_urls(Exts(Cert(n)))))
           /\ AddressList(bounded_certificate_addresses(extract_crl_distribution_urls(Exts(Cert(n)))))
           /\ extract_ca_issuers_urls(Exts(Cert(n))) \in Seq(DOMAIN Url)
<1>1. n \in DOMAIN Der
  BY DEF Reads, Certs
<1>2. CertificateForm(Cert(n))
  BY <1>1, TrustAssumption, Zenon
<1>3. /\ extract_ca_issuers_urls(Exts(Cert(n))) \in Seq(DOMAIN Url)
      /\ extract_ocsp_urls(Exts(Cert(n))) \in Seq(DOMAIN Url)
      /\ extract_crl_distribution_urls(Exts(Cert(n))) \in Seq(DOMAIN Url)
  BY <1>2, Zenon DEF CertificateForm
<1>4. QED
  BY <1>3, BoundedAddresses, Zenon

\* The addresses that are left.
LEMMA AddressesLeft ==
    ASSUME NEW urls, AddressList(urls), urls # <<>>
    PROVE  /\ AddressList(Tail(urls)) /\ urls[1] \in DOMAIN Url
           /\ Len(urls) # 1 => Tail(urls) # <<>>
<1>1. PICK n : n = Len(urls)
  OBVIOUS
<1>2. urls \in Seq(DOMAIN Url) /\ n <= MaxAddresses
  BY <1>1, Zenon DEF AddressList
<1>3. n \in Nat /\ n # 0
  BY <1>1, <1>2, EmptySeq, LenProperties, Zenon
<1>4. urls[1] \in DOMAIN Url
  <2>1. 1 \in 1..n
    BY <1>3
  <2>2. QED
    BY <1>1, <1>2, <2>1, ElementOfSeq, Zenon
<1>5. PICK t : t = Tail(urls)
  OBVIOUS
<1>6. t \in Seq(DOMAIN Url) /\ Len(t) = n - 1
  BY <1>1, <1>2, <1>5, HeadTailProperties, Zenon
<1>7. Len(t) <= MaxAddresses
  BY <1>2, <1>3, <1>6 DEF MaxAddresses
<1>8. n # 1 => t # <<>>
  <2>1. ASSUME t = <<>> PROVE n = 1
    <3>1. Len(t) = 0
      BY <2>1
    <3>2. QED
      BY <1>3, <1>6, <3>1
  <2>2. QED
    BY <2>1
<1>9. QED
  BY <1>1, <1>4, <1>5, <1>6, <1>7, <1>8, Zenon DEF AddressList

\* Each of these keeps the form.
LEMMA StopsKeeps ==
    ASSUME NEW u, NEW v, WalkForm(v), Stops(u, v)
    PROVE  WalkForm(u)
<1>1. "done" \in Pcs /\ "done" \notin OnPath /\ "done" \notin Asking
  BY DEF Pcs, OnPath, Asking
<1>2. QED
  BY <1>1, Zenon DEF WalkForm, Stops

\* Begins keeps the form of the record.
LEMMA BeginsKeeps ==
    ASSUME NEW u, NEW v, Begins(u, v)
    PROVE  WalkForm(u)
<1>1. "enter" \in Pcs /\ "enter" \notin OnPath /\ "enter" \notin Asking
  BY DEF Pcs, OnPath, Asking
<1>2. 0 \in 0..MAX_DEPTH /\ 0 <= DISPLAY_DEPTH /\ 0 <= MaxAddresses
  BY TrustAssumption DEF MaxAddresses
<1>3. \A S : <<>> \in Seq(S) /\ Len(<<>>) = 0
  OBVIOUS
<1>4. QED
  BY <1>1, <1>2, <1>3, Zenon DEF WalkForm, Begins, AddressList

\* Goes keeps the form of the record where its certificate reads.
LEMMA GoesKeeps ==
    ASSUME NEW u, NEW v, NEW pc \in Pcs, WalkForm(v), Goes(u, v, pc), pc \in OnPath => Reads(v.current)
    PROVE  WalkForm(u)
BY Zenon DEF WalkForm, Goes

\* Climbs keeps the form of the record.
LEMMA ClimbsKeeps ==
    ASSUME NEW u, NEW v, WalkForm(v), Climbs(u, v)
    PROVE  WalkForm(u)
<1>1. "enter" \in Pcs /\ "enter" \notin OnPath /\ "enter" \notin Asking
  BY DEF Pcs, OnPath, Asking
<1>2. QED
  BY <1>1, Zenon DEF WalkForm, Climbs

\* One certificate more on a path.
LEMMA LongerPath ==
    ASSUME NEW path, path \in Seq(DOMAIN Der), NEW n, Reads(n), NEW k \in Nat, ~(Len(path) >= k), NEW m \in Nat, k <= m
    PROVE  Append(path, n) \in Seq(DOMAIN Der) /\ Len(Append(path, n)) <= m
<1>1. n \in DOMAIN Der
  BY DEF Reads, Certs
<1>2. PICK a : a = Append(path, n)
  OBVIOUS
<1>3. PICK l : l = Len(path)
  OBVIOUS
<1>4. a \in Seq(DOMAIN Der) /\ Len(a) = l + 1
  BY <1>1, <1>2, <1>3, AppendProperties, Zenon
<1>5. l \in Nat
  BY <1>3, LenProperties, Zenon
<1>6. l + 1 <= m
  BY <1>3, <1>5
<1>7. QED
  BY <1>2, <1>4, <1>6, Zenon

\* Enters keeps the form of the record: the guard bounds the path.
LEMMA EntersKeeps ==
    ASSUME NEW u, NEW v, WalkForm(v), Enters(u, v)
    PROVE  WalkForm(u)
<1>1. {"done", "search"} \subseteq Pcs /\ "done" \notin OnPath \cup Asking /\ "search" \notin Asking
  BY DEF Pcs, OnPath, Asking
<1>2. MAX_DEPTH \in Nat /\ DISPLAY_DEPTH \in Nat /\ MAX_DEPTH <= DISPLAY_DEPTH
  BY TrustAssumption, Zenon
<1>3. u.visited \in Seq(DOMAIN Der) /\ Len(u.visited) <= DISPLAY_DEPTH
  BY <1>2, LongerPath, Zenon DEF WalkForm, Enters
<1>4. PICK k : k = v.cas
  OBVIOUS
<1>5. k \in 0..MAX_DEPTH
  BY <1>4, Zenon DEF WalkForm
<1>6. u.cas = k \/ (k < MAX_DEPTH /\ u.cas = k + 1)
  BY <1>4, Zenon DEF Enters
<1>7. u.cas \in 0..MAX_DEPTH
  BY <1>2, <1>5, <1>6
<1>8. u.pc \in {"done", "search"} /\ DOMAIN u = WalkFields /\ AddressList(u.urls) /\ Reads(u.current)
  BY Zenon DEF WalkForm, Enters
<1>9. QED
  BY <1>1, <1>3, <1>7, <1>8, Zenon DEF WalkForm

\* Shows keeps the form of the record: DISPLAY_DEPTH bounds the path.
LEMMA ShowsKeeps ==
    ASSUME NEW u, NEW v, WalkForm(v), Shows(u, v)
    PROVE  WalkForm(u)
<1>1. {"done", "display", "display fetch"} \subseteq Pcs /\ "done" \notin OnPath \cup Asking /\ "display" \notin Asking
  BY DEF Pcs, OnPath, Asking
<1>2. DISPLAY_DEPTH \in Nat /\ DISPLAY_DEPTH <= DISPLAY_DEPTH
  BY TrustAssumption
<1>3. u.visited \in Seq(DOMAIN Der) /\ Len(u.visited) <= DISPLAY_DEPTH
  BY <1>2, LongerPath, Zenon DEF WalkForm, Shows
<1>4. QED
  BY <1>1, <1>3, Zenon DEF WalkForm, Shows

\* The records the actions write, in these terms.
LEMMA DoneStops ==
    ASSUME NEW v, WalkForm(v), v.pc # "done", NEW r, r # "ok"
    PROVE  Stops([v EXCEPT !.pc = "done", !.result = r], v) /\ [v EXCEPT !.pc = "done", !.result = r].result = r
<1>1. PICK u : u = [v EXCEPT !.pc = "done", !.result = r]
  OBVIOUS
<1>2. /\ DOMAIN u = WalkFields /\ u.pc = "done" /\ u.result = r
      /\ u.visited = v.visited /\ u.cas = v.cas /\ u.urls = v.urls
  BY <1>1 DEF WalkForm, WalkFields
<1>3. Stops(u, v)
  BY <1>2, Zenon DEF Stops
<1>4. QED
  BY <1>1, <1>2, <1>3, Zenon

\* Continue(pc) goes on in pc without addresses.
LEMMA MovesOn ==
    ASSUME NEW v, WalkForm(v), NEW pc, NEW urls, AddressList(urls), pc \in Asking => urls # <<>>
    PROVE  LET u == [v EXCEPT !.pc = pc, !.urls = urls] IN Goes(u, v, pc) /\ u.issuer = v.issuer
<1>1. PICK u : u = [v EXCEPT !.pc = pc, !.urls = urls]
  OBVIOUS
<1>2. /\ DOMAIN u = WalkFields /\ u.pc = pc /\ u.result = v.result /\ u.issuer = v.issuer /\ u.current = v.current
      /\ u.visited = v.visited /\ u.cas = v.cas /\ u.urls = urls
  BY <1>1 DEF WalkForm, WalkFields
<1>3. Goes(u, v, pc)
  BY <1>2, Zenon DEF Goes
<1>4. QED
  BY <1>1, <1>2, <1>3, Zenon

\* No address is a list of addresses.
LEMMA NoAddresses ==
    AddressList(<<>>)
BY DEF AddressList, MaxAddresses

\* The next address, and when there is none the step pc.
LEMMA NextAddress ==
    ASSUME NEW v, WalkForm(v), v.pc \in Asking, NEW pc, pc \notin Asking
    PROVE  /\ Len(v.urls) # 1 =>
                LET u == [v EXCEPT !.urls = Tail(@), !.failures = @ + 1] IN Goes(u, v, v.pc) /\ u.issuer = v.issuer
           /\ LET u == [[v EXCEPT !.urls = Tail(@), !.failures = @ + 1] EXCEPT !.pc = pc] IN Goes(u, v, pc) /\ u.issuer = v.issuer
<1>1. PICK a : a = Tail(v.urls)
  OBVIOUS
<1>2. AddressList(a) /\ (Len(v.urls) # 1 => a # <<>>)
  BY <1>1, AddressesLeft, Zenon DEF WalkForm
<1>3. PICK u : u = [v EXCEPT !.urls = Tail(@), !.failures = @ + 1]
  OBVIOUS
<1>4. u = [v EXCEPT !.urls = a, !.failures = v.failures + 1]
  BY <1>1, <1>3, Zenon
<1>5. /\ DOMAIN u = WalkFields /\ u.pc = v.pc /\ u.result = v.result /\ u.issuer = v.issuer /\ u.current = v.current
      /\ u.visited = v.visited /\ u.cas = v.cas /\ u.urls = a
  BY <1>4 DEF WalkForm, WalkFields
<1>6. Len(v.urls) # 1 => Goes(u, v, v.pc)
  BY <1>2, <1>5, Zenon DEF Goes
<1>7. PICK t : t = [u EXCEPT !.pc = pc]
  OBVIOUS
<1>8. /\ DOMAIN t = WalkFields /\ t.pc = pc /\ t.result = v.result /\ t.issuer = v.issuer /\ t.current = v.current
      /\ t.visited = v.visited /\ t.cas = v.cas /\ t.urls = a
  BY <1>5, <1>7 DEF WalkFields
<1>9. Goes(t, v, pc)
  BY <1>2, <1>8, Zenon DEF Goes
<1>10. QED
  BY <1>3, <1>5, <1>6, <1>7, <1>8, <1>9, Zenon

\* The evidence in the material.
MaterialForm == DOMAIN material = {"certificates", "ocsp", "crls"} /\ IsSequence(material.ocsp) /\ IsSequence(material.crls)
SameEvidence == DOMAIN material' = DOMAIN material /\ material'.ocsp = material.ocsp /\ material'.crls = material.crls

\* A certificate more in the material is no evidence more.
LEMMA MaterialWith ==
    ASSUME MaterialForm, \/ material' = material
                         \/ \E x : material' = [material EXCEPT !.certificates = x]
    PROVE  SameEvidence
<1>1. CASE material' = material
  BY <1>1, Zenon DEF SameEvidence
<1>2. CASE \E x : material' = [material EXCEPT !.certificates = x]
  <2>1. PICK x, m, n : m = material /\ n = material' /\ n = [m EXCEPT !.certificates = x]
    BY <1>2
  <2>2. DOMAIN m = {"certificates", "ocsp", "crls"}
    BY <2>1, Zenon DEF MaterialForm
  <2>3. DOMAIN n = DOMAIN m /\ n.ocsp = m.ocsp /\ n.crls = m.crls
    BY <2>1, <2>2
  <2>4. QED
    BY <2>1, <2>3, Zenon DEF SameEvidence
<1>3. QED
  BY <1>1, <1>2, Zenon

\* collect_chains_seeded_with, verify_chain_to_approved_anchor and walk_chain: a call begins or is refused.
LEMMA BeginEffect ==
    ASSUME WalkForm(w), MaterialForm, Begin
    PROVE  (Stops(w', w) \/ Begins(w', w)) /\ SameEvidence
<1>1. PICK v : v = w
  OBVIOUS
<1>2. v.pc = "start" /\ v.pc # "done" /\ "NoTrustAnchor" # "ok" /\ WalkForm(v)
  BY <1>1 DEF Begin
<1>3. \/ w' = [v EXCEPT !.pc = "done", !.result = "NoTrustAnchor"]
      \/ w' = [NoWalk EXCEPT !.pc = "enter", !.current = start.leaf]
  BY <1>1, Zenon DEF Begin, Done
<1>4. ASSUME w' = [v EXCEPT !.pc = "done", !.result = "NoTrustAnchor"] PROVE Stops(w', v)
  BY <1>2, <1>4, DoneStops, Zenon
<1>5. ASSUME w' = [NoWalk EXCEPT !.pc = "enter", !.current = start.leaf] PROVE Begins(w', v)
  <2>1. PICK n, u : n = start.leaf /\ u = [NoWalk EXCEPT !.pc = "enter", !.current = n]
    OBVIOUS
  <2>2. DOMAIN u = WalkFields /\ u.pc = "enter" /\ u.result = "" /\ u.visited = <<>> /\ u.cas = 0 /\ u.urls = <<>>
    BY <2>1 DEF NoWalk, WalkFields
  <2>3. QED
    BY <1>2, <1>5, <2>1, <2>2, Zenon DEF Begins
<1>6. SameEvidence
  BY MaterialWith, Zenon DEF Begin
<1>7. QED
  BY <1>1, <1>3, <1>4, <1>5, <1>6, Zenon

\* WalkGuard::enter lets a certificate on a path that is not full.
LEMMA GuardLets ==
    ASSUME NEW visited, NEW name, guard_enter(visited, name) = ""
    PROVE  ~(Len(visited) >= MAX_DEPTH) /\ name \notin Range(visited)
<1>1. "ChainCycle" # "" /\ "ChainTooDeep" # ""
  OBVIOUS
<1>2. QED
  BY <1>1, Zenon DEF guard_enter

\* The head of the loop: the walk stops, or the certificate is put on the path.
LEMMA EnterEffect ==
    ASSUME WalkForm(w), MaterialForm, Enter
    PROVE  (Stops(w', w) \/ Enters(w', w)) /\ SameEvidence
<1>1. PICK v : v = w
  OBVIOUS
<1>2. v.pc = "enter" /\ v.pc # "done" /\ start.call # "display" /\ WalkForm(v)
  BY <1>1 DEF Enter
<1>3. PICK c : c = Cert(v.current)
  OBVIOUS
<1>4. PICK guard : guard = guard_enter(v.visited, v.current)
  OBVIOUS
<1>5. PICK p : p = validate_path_extensions(c)
  OBVIOUS
<1>6. PICK e : e = [v EXCEPT !.visited = IF guard = "" /\ Len(@) < MAX_DEPTH THEN Append(@, v.current) ELSE @]
  OBVIOUS
<1>7. PICK s : s = [e EXCEPT !.pc = "search",
                     !.cas = IF p.basic_constraints.ca /\ c.issuer # c.subject /\ @ < MAX_DEPTH THEN @ + 1 ELSE @]
  OBVIOUS
<1>8. \/ w' = [v EXCEPT !.pc = "done", !.result = "Certificate"]
      \/ guard # "" /\ w' = [v EXCEPT !.pc = "done", !.result = guard]
      \/ /\ Reads(v.current) /\ validate_certificate_time(c, start.reference_time) /\ guard = ""
         /\ \/ IsAnchor(v.current) /\ w' = [e EXCEPT !.pc = "done", !.result = "ok"]
            \/ ~IsAnchor(v.current) /\ w' = [e EXCEPT !.pc = "done", !.result = "Certificate"]
            \/ ~IsAnchor(v.current) /\ Ok(p) /\ w' = s
  BY <1>1, <1>3, <1>4, <1>5, <1>6, <1>7, Zenon DEF Enter, Done
<1>9. CASE w' = [v EXCEPT !.pc = "done", !.result = "Certificate"]
  <2>1. "Certificate" # "ok"
    OBVIOUS
  <2>2. Stops(w', v)
    BY <1>2, <1>9, <2>1, DoneStops, Zenon
  <2>3. QED
    BY <1>1, <2>2, MaterialWith, Zenon DEF Enter
<1>10. CASE guard # "" /\ w' = [v EXCEPT !.pc = "done", !.result = guard]
  <2>1. guard # "ok"
    <3>1. "ChainCycle" # "ok" /\ "ChainTooDeep" # "ok"
      OBVIOUS
    <3>2. QED
      BY <1>4, <1>10, <3>1, Zenon DEF guard_enter
  <2>2. Stops(w', v)
    BY <1>2, <1>10, <2>1, DoneStops, Zenon
  <2>3. QED
    BY <1>1, <2>2, MaterialWith, Zenon DEF Enter
<1>11. CASE /\ Reads(v.current) /\ validate_certificate_time(c, start.reference_time) /\ guard = ""
            /\ \/ IsAnchor(v.current) /\ w' = [e EXCEPT !.pc = "done", !.result = "ok"]
               \/ ~IsAnchor(v.current) /\ w' = [e EXCEPT !.pc = "done", !.result = "Certificate"]
               \/ ~IsAnchor(v.current) /\ Ok(p) /\ w' = s
  <2>1. ~(Len(v.visited) >= MAX_DEPTH)
    BY <1>4, <1>11, GuardLets, Zenon
  <2>2. PICK a : a = Append(v.visited, v.current)
    OBVIOUS
  <2>3. e = [v EXCEPT !.visited = a]
    <3>1. PICK l : l = Len(v.visited)
      OBVIOUS
    <3>2. l \in Nat /\ MAX_DEPTH \in Nat
      BY <1>2, <3>1, LenProperties, TrustAssumption, Zenon DEF WalkForm
    <3>3. l < MAX_DEPTH
      BY <2>1, <3>1, <3>2
    <3>4. QED
      BY <1>6, <1>11, <2>2, <3>1, <3>3, Zenon
  <2>4. /\ DOMAIN e = WalkFields /\ e.visited = a /\ e.cas = v.cas /\ e.urls = v.urls /\ e.current = v.current
        /\ e.result = v.result
    BY <1>2, <2>3 DEF WalkForm, WalkFields
  <2>5. ASSUME NEW r PROVE LET u == [e EXCEPT !.pc = "done", !.result = r] IN
          /\ DOMAIN u = WalkFields /\ u.visited = a /\ u.cas = v.cas /\ u.urls = v.urls /\ u.current = v.current
          /\ u.pc = "done" /\ u.result = r
    BY <2>4 DEF WalkFields
  <2>6. PICK k : k = IF p.basic_constraints.ca /\ c.issuer # c.subject /\ v.cas < MAX_DEPTH THEN v.cas + 1 ELSE v.cas
    OBVIOUS
  <2>7. s = [e EXCEPT !.pc = "search", !.cas = k]
    BY <1>7, <2>4, <2>6, Zenon
  <2>8. /\ DOMAIN s = WalkFields /\ s.visited = a /\ s.cas = k /\ s.urls = v.urls /\ s.current = v.current
        /\ s.pc = "search" /\ s.result = v.result
    BY <2>4, <2>7 DEF WalkFields
  <2>9. "Certificate" # "ok"
    OBVIOUS
  <2>10. Enters(w', v)
    <3>1. PICK u : u = w'
      OBVIOUS
    <3>2. ASSUME IsAnchor(v.current), u = [e EXCEPT !.pc = "done", !.result = "ok"] PROVE Enters(u, v)
      <4>1. /\ DOMAIN u = WalkFields /\ u.visited = a /\ u.cas = v.cas /\ u.urls = v.urls /\ u.current = v.current
            /\ u.pc = "done" /\ u.result = "ok"
        BY <2>5, <3>2, Zenon
      <4>2. QED
        BY <1>2, <1>3, <1>11, <2>1, <2>2, <3>2, <4>1, Zenon DEF Enters
    <3>3. ASSUME ~IsAnchor(v.current), u = [e EXCEPT !.pc = "done", !.result = "Certificate"] PROVE Enters(u, v)
      <4>1. /\ DOMAIN u = WalkFields /\ u.visited = a /\ u.cas = v.cas /\ u.urls = v.urls /\ u.current = v.current
            /\ u.pc = "done" /\ u.result # "ok"
        BY <2>5, <2>9, <3>3, Zenon
      <4>2. QED
        BY <1>2, <1>3, <1>11, <2>1, <2>2, <3>3, <4>1, Zenon DEF Enters
    <3>4. ASSUME ~IsAnchor(v.current), Ok(p), u = s PROVE Enters(u, v)
      BY <1>2, <1>3, <1>5, <1>11, <2>1, <2>2, <2>6, <2>8, <3>4, Zenon DEF Enters
    <3>5. QED
      BY <1>11, <3>1, <3>2, <3>3, <3>4, Zenon
  <2>11. QED
    BY <1>1, <2>10, MaterialWith, Zenon DEF Enter
<1>12. QED
  BY <1>8, <1>9, <1>10, <1>11, Zenon

\* An issuer is found, at hand or fetched.
LEMMA IssuerTaken ==
    ASSUME NEW v, WalkForm(v), NEW n
    PROVE  /\ Goes([v EXCEPT !.pc = "linked", !.issuer = n], v, "linked")
           /\ Goes([v EXCEPT !.pc = "linked", !.issuer = n, !.urls = <<>>], v, "linked")
<1>1. "linked" \notin Asking
  BY DEF Asking
<1>2. PICK u : u = [v EXCEPT !.pc = "linked", !.issuer = n]
  OBVIOUS
<1>3. /\ DOMAIN u = WalkFields /\ u.pc = "linked" /\ u.result = v.result /\ u.current = v.current
      /\ u.visited = v.visited /\ u.cas = v.cas /\ u.urls = v.urls
  BY <1>2 DEF WalkForm, WalkFields
<1>4. PICK t : t = [v EXCEPT !.pc = "linked", !.issuer = n, !.urls = <<>>]
  OBVIOUS
<1>5. /\ DOMAIN t = WalkFields /\ t.pc = "linked" /\ t.result = v.result /\ t.current = v.current
      /\ t.visited = v.visited /\ t.cas = v.cas /\ t.urls = <<>>
  BY <1>4 DEF WalkForm, WalkFields
<1>6. Goes(u, v, "linked") /\ Goes(t, v, "linked")
  BY <1>1, <1>3, <1>5, NoAddresses, Zenon DEF Goes, WalkForm
<1>7. QED
  BY <1>2, <1>4, <1>6, Zenon

\* find_issuer at hand: an issuer, or addresses to ask, or the end.
LEMMA FindIssuerEffect ==
    ASSUME WalkForm(w), FindIssuer
    PROVE  Stops(w', w) \/ Goes(w', w, "linked") \/ Goes(w', w, "fetch")
<1>1. PICK v : v = w
  OBVIOUS
<1>2. v.pc = "search" /\ v.pc # "done" /\ WalkForm(v) /\ "NoIssuer" # "ok"
  BY <1>1, Zenon DEF FindIssuer
<1>3. Reads(v.current)
  <2>1. "search" \in OnPath
    BY DEF OnPath
  <2>2. QED
    BY <1>2, <2>1, Zenon DEF WalkForm
<1>4. PICK urls : urls = bounded_certificate_addresses(extract_ca_issuers_urls(Exts(Cert(v.current))))
  OBVIOUS
<1>5. AddressList(urls)
  BY <1>3, <1>4, AddressesOf, Zenon
<1>6. \/ \E n : w' = [v EXCEPT !.pc = "linked", !.issuer = n]
      \/ w' = [v EXCEPT !.pc = "done", !.result = "NoIssuer"]
      \/ urls # <<>> /\ w' = [v EXCEPT !.pc = "fetch", !.urls = urls]
  BY <1>1, <1>4, Zenon DEF FindIssuer, Done
<1>7. ASSUME NEW n, w' = [v EXCEPT !.pc = "linked", !.issuer = n] PROVE Goes(w', v, "linked")
  BY <1>2, <1>7, IssuerTaken, Zenon
<1>8. ASSUME w' = [v EXCEPT !.pc = "done", !.result = "NoIssuer"] PROVE Stops(w', v)
  BY <1>2, <1>8, DoneStops, Zenon
<1>9. ASSUME urls # <<>>, w' = [v EXCEPT !.pc = "fetch", !.urls = urls] PROVE Goes(w', v, "fetch")
  BY <1>2, <1>5, <1>9, MovesOn, Zenon
<1>10. QED
  BY <1>1, <1>6, <1>7, <1>8, <1>9, Zenon

\* A request leaves the walk where it was.
LEMMA RequestEffect ==
    ASSUME WalkForm(w), Request
    PROVE  Goes(w', w, w.pc) /\ w'.issuer = w.issuer
<1>1. PICK v, u : v = w /\ u = w'
  OBVIOUS
<1>2. WalkForm(v)
  BY <1>1, Zenon
<1>3. u = v \/ \E k : u = [v EXCEPT !.nonce = k]
  BY <1>1, Zenon DEF Request
<1>4. ASSUME NEW k, u = [v EXCEPT !.nonce = k]
      PROVE  /\ DOMAIN u = WalkFields /\ u.pc = v.pc /\ u.result = v.result /\ u.issuer = v.issuer /\ u.current = v.current
             /\ u.visited = v.visited /\ u.cas = v.cas /\ u.urls = v.urls
  BY <1>2, <1>4 DEF WalkForm, WalkFields
<1>5. /\ DOMAIN u = WalkFields /\ u.pc = v.pc /\ u.result = v.result /\ u.issuer = v.issuer /\ u.current = v.current
      /\ u.visited = v.visited /\ u.cas = v.cas /\ u.urls = v.urls
  BY <1>2, <1>3, <1>4, Zenon DEF WalkForm
<1>6. Goes(u, v, v.pc)
  BY <1>2, <1>5, Zenon DEF Goes, WalkForm
<1>7. QED
  BY <1>1, <1>5, <1>6, Zenon

\* Without a nonce the lists are asked.
LEMMA NoRandomEffect ==
    ASSUME WalkForm(w), NoRandom
    PROVE  Goes(w', w, "crl?") /\ w'.issuer = w.issuer
<1>1. PICK v, u : v = w /\ u = w'
  OBVIOUS
<1>2. WalkForm(v) /\ "crl?" \notin Asking
  BY <1>1 DEF Asking
<1>3. u = [[v EXCEPT !.pc = "crl?", !.urls = <<>>] EXCEPT !.rng = TRUE]
  BY <1>1, Zenon DEF NoRandom, Continue
<1>4. /\ DOMAIN u = WalkFields /\ u.pc = "crl?" /\ u.result = v.result /\ u.issuer = v.issuer /\ u.current = v.current
      /\ u.visited = v.visited /\ u.cas = v.cas /\ u.urls = <<>>
  BY <1>2, <1>3 DEF WalkForm, WalkFields
<1>5. Goes(u, v, "crl?")
  BY <1>2, <1>4, NoAddresses, Zenon DEF Goes
<1>6. QED
  BY <1>1, <1>4, <1>5, Zenon

\* find_issuer for one address: an issuer, the next address, or the end.
LEMMA IssuerFetchedEffect ==
    ASSUME WalkForm(w), IssuerFetched
    PROVE  Stops(w', w) \/ Goes(w', w, "linked") \/ Goes(w', w, "fetch")
<1>1. PICK v : v = w
  OBVIOUS
<1>2. v.pc = "fetch" /\ v.pc # "done" /\ WalkForm(v) /\ "NoIssuer" # "ok" /\ v.pc \in Asking /\ "linked" \notin Asking
  BY <1>1 DEF IssuerFetched, Asking
<1>3. \/ \E n : w' = [v EXCEPT !.pc = "linked", !.issuer = n, !.urls = <<>>]
      \/ w' = [v EXCEPT !.pc = "done", !.result = "NoIssuer"]
      \/ Len(v.urls) # 1 /\ w' = [v EXCEPT !.urls = Tail(@), !.failures = @ + 1]
  BY <1>1, Zenon DEF IssuerFetched, Done, NextUrl
<1>4. ASSUME NEW n, w' = [v EXCEPT !.pc = "linked", !.issuer = n, !.urls = <<>>] PROVE Goes(w', v, "linked")
  BY <1>2, <1>4, IssuerTaken, Zenon
<1>5. ASSUME w' = [v EXCEPT !.pc = "done", !.result = "NoIssuer"] PROVE Stops(w', v)
  BY <1>2, <1>5, DoneStops, Zenon
<1>6. ASSUME Len(v.urls) # 1, w' = [v EXCEPT !.urls = Tail(@), !.failures = @ + 1] PROVE Goes(w', v, "fetch")
  BY <1>2, <1>6, NextAddress, Zenon
<1>7. QED
  BY <1>1, <1>3, <1>4, <1>5, <1>6, Zenon

\* The link is checked before any status is asked for.
LEMMA LinkedEffect ==
    ASSUME WalkForm(w), Linked
    PROVE  \/ Stops(w', w)
           \/ /\ Accepts(w.issuer) /\ w'.issuer = w.issuer
              /\ \/ start.call = "verify" /\ Goes(w', w, "climb")
                 \/ Goes(w', w, "ocsp") \/ Goes(w', w, "crl?")
<1>1. PICK v, u : v = w /\ u = w'
  OBVIOUS
<1>2. /\ v.pc = "linked" /\ v.pc # "done" /\ WalkForm(v) /\ "climb" \notin Asking /\ "crl?" \notin Asking
      /\ "InvalidIssuer" # "ok" /\ "Revocation" # "ok"
  <2>1. v.pc = "linked" /\ WalkForm(v)
    BY <1>1, Zenon DEF Linked
  <2>2. QED
    BY <2>1 DEF Asking
<1>3. Reads(v.current)
  <2>1. "linked" \in OnPath
    BY DEF OnPath
  <2>2. QED
    BY <1>2, <2>1, Zenon DEF WalkForm
<1>4. PICK urls : urls = bounded_certificate_addresses(extract_ocsp_urls(Exts(Cert(v.current))))
  OBVIOUS
<1>5. AddressList(urls)
  BY <1>3, <1>4, AddressesOf, Zenon
<1>6. \/ \E r \in {"InvalidIssuer", "Revocation"} : u = [v EXCEPT !.pc = "done", !.result = r]
      \/ Accepts(v.issuer) /\ start.call = "verify" /\ u = [v EXCEPT !.pc = "climb", !.urls = <<>>]
      \/ Accepts(v.issuer) /\ u = [v EXCEPT !.pc = "crl?", !.urls = <<>>]
      \/ Accepts(v.issuer) /\ urls # <<>> /\ u = [v EXCEPT !.pc = "ocsp", !.urls = urls]
  BY <1>1, <1>4, Zenon DEF Linked, Done, Continue
<1>7. ASSUME NEW r \in {"InvalidIssuer", "Revocation"}, u = [v EXCEPT !.pc = "done", !.result = r] PROVE Stops(u, v)
  BY <1>2, <1>7, DoneStops, Zenon
<1>8. ASSUME NEW pc \in {"climb", "crl?"}, u = [v EXCEPT !.pc = pc, !.urls = <<>>]
      PROVE  Goes(u, v, pc) /\ u.issuer = v.issuer
  <2>1. pc \notin Asking
    BY <1>2
  <2>2. QED
    BY <1>2, <1>8, <2>1, MovesOn, NoAddresses, Zenon
<1>9. ASSUME urls # <<>>, u = [v EXCEPT !.pc = "ocsp", !.urls = urls]
      PROVE  Goes(u, v, "ocsp") /\ u.issuer = v.issuer
  BY <1>2, <1>5, <1>9, MovesOn, Zenon
<1>10. QED
  BY <1>1, <1>6, <1>7, <1>8, <1>9, Zenon

\* collect_crl_status: addresses to ask, or the end.
LEMMA CrlStartEffect ==
    ASSUME WalkForm(w), CrlStart
    PROVE  Stops(w', w) \/ (Goes(w', w, "crl") /\ w'.issuer = w.issuer)
<1>1. PICK v, u : v = w /\ u = w'
  OBVIOUS
<1>2. /\ v.pc = "crl?" /\ v.pc # "done" /\ WalkForm(v) /\ "Rng" # "ok" /\ "Revocation" # "ok"
  BY <1>1, Zenon DEF CrlStart
<1>3. Reads(v.current)
  <2>1. "crl?" \in OnPath
    BY DEF OnPath
  <2>2. QED
    BY <1>2, <2>1, Zenon DEF WalkForm
<1>4. PICK urls : urls = bounded_certificate_addresses(extract_crl_distribution_urls(Exts(Cert(v.current))))
  OBVIOUS
<1>5. AddressList(urls)
  BY <1>3, <1>4, AddressesOf, Zenon
<1>6. \/ \E r \in {"Rng", "Revocation"} : u = [v EXCEPT !.pc = "done", !.result = r]
      \/ urls # <<>> /\ u = [v EXCEPT !.pc = "crl", !.urls = urls]
  BY <1>1, <1>4, Zenon DEF CrlStart, NoStatus, Done
<1>7. ASSUME NEW r \in {"Rng", "Revocation"}, u = [v EXCEPT !.pc = "done", !.result = r] PROVE Stops(u, v)
  BY <1>2, <1>7, DoneStops, Zenon
<1>8. ASSUME urls # <<>>, u = [v EXCEPT !.pc = "crl", !.urls = urls]
      PROVE  Goes(u, v, "crl") /\ u.issuer = v.issuer
  BY <1>2, <1>5, <1>8, MovesOn, Zenon
<1>9. QED
  BY <1>1, <1>6, <1>7, <1>8, Zenon

\* What a judged answer adds to the history and to the material.
Answered(x) == seen' = seen \cup {[subject |-> w.current, verdict |-> x]}
OcspAdded == material' = [material EXCEPT !.ocsp = Push(material.ocsp, <<http.result.body, w.nonce>>)]
CrlAdded == material' = [material EXCEPT !.crls = Push(material.crls, http.result.body)]

\* check_response and check_list give one of three verdicts.
LEMMA VerdictForm ==
    /\ \A policy, r, subject, issuer, nonce : check_response(policy, r, subject, issuer, nonce) \in Verdicts
    /\ \A list, subject, issuer : check_list(list, subject, issuer) \in Verdicts
<1>1. {"", "Revoked", "Revocation"} \subseteq Verdicts
  BY DEF Verdicts
<1>2. \A answer, produced_at : Verdict(answer, produced_at) \in Verdicts
  BY <1>1, Zenon DEF Verdict
<1>3. QED
  BY <1>1, <1>2, Zenon DEF check_response, check_list

\* collect_ocsp_status for one responder: what each verdict leads to.
LEMMA OcspEffect ==
    ASSUME WalkForm(w), OcspAnswered
    PROVE  \/ /\ material' = material /\ (seen' = seen \/ Answered("Revocation"))
              /\ Goes(w', w, "ocsp") \/ Goes(w', w, "crl?")
              /\ w'.issuer = w.issuer
           \/ /\ OcspAdded /\ Answered("")
              /\ Goes(w', w, "climb") /\ w'.issuer = w.issuer
              /\ check_response(start.nonce_policy, ParsedResponse(http.result.body, w.nonce),
                                Cert(w.current), Cert(w.issuer), w.nonce) = ""
           \/ /\ material' = material /\ Answered("Revoked")
              /\ Stops(w', w) /\ w'.result = "Revoked"
<1>1. PICK v, u : v = w /\ u = w'
  OBVIOUS
<1>2. /\ v.pc = "ocsp" /\ v.pc # "done" /\ WalkForm(v) /\ "climb" \notin Asking /\ "crl?" \notin Asking
      /\ v.pc \in Asking /\ "Revoked" # "ok"
  <2>1. v.pc = "ocsp" /\ WalkForm(v)
    BY <1>1, Zenon DEF OcspAnswered
  <2>2. QED
    BY <2>1 DEF Asking
<1>3. PICK f : f = Failed("crl?")
  OBVIOUS
<1>4. (Goes(f, v, "ocsp") \/ Goes(f, v, "crl?")) /\ f.issuer = v.issuer
  <2>1. f = IF Len(v.urls) = 1 THEN [[v EXCEPT !.urls = Tail(@), !.failures = @ + 1] EXCEPT !.pc = "crl?"]
            ELSE [v EXCEPT !.urls = Tail(@), !.failures = @ + 1]
    BY <1>1, <1>3, Zenon DEF Failed, NextUrl
  <2>2. QED
    BY <1>2, <2>1, NextAddress, Zenon
<1>5. PICK x : x = check_response(start.nonce_policy, ParsedResponse(http.result.body, w.nonce),
                                  Cert(w.current), Cert(w.issuer), w.nonce)
  OBVIOUS
<1>6. \/ u = f /\ material' = material /\ seen' = seen
      \/ OcspJudged(x)
  BY <1>1, <1>3, <1>5, Zenon DEF OcspAnswered
<1>7. x \in {"", "Revoked", "Revocation"}
  BY <1>5, VerdictForm, Zenon DEF Verdicts
<1>8. Stops([v EXCEPT !.pc = "done", !.result = "Revoked"], v) /\ [v EXCEPT !.pc = "done", !.result = "Revoked"].result = "Revoked"
  BY <1>2, DoneStops, Zenon
<1>9. LET t == [v EXCEPT !.pc = "climb", !.urls = <<>>] IN Goes(t, v, "climb") /\ t.issuer = v.issuer
  BY <1>2, MovesOn, NoAddresses, Zenon
<1>10. CASE u = f /\ material' = material /\ seen' = seen
  BY <1>1, <1>4, <1>10, Zenon
<1>11. CASE OcspJudged(x) /\ x = ""
  <2>1. u = [v EXCEPT !.pc = "climb", !.urls = <<>>] /\ OcspAdded /\ Answered("")
    BY <1>1, <1>11, Zenon DEF OcspJudged, OcspVerdict, Continue, OcspAdded, Answered, Saw
  <2>2. QED
    BY <1>1, <1>5, <1>9, <1>11, <2>1, Zenon
<1>12. CASE OcspJudged(x) /\ x = "Revoked"
  <2>1. x # ""
    BY <1>12
  <2>2. u = [v EXCEPT !.pc = "done", !.result = "Revoked"] /\ material' = material /\ Answered("Revoked")
    BY <1>1, <1>12, <2>1, Zenon DEF OcspJudged, OcspVerdict, Done, Answered, Saw
  <2>3. QED
    BY <1>1, <1>8, <2>2, Zenon
<1>13. CASE OcspJudged(x) /\ x = "Revocation"
  <2>1. x # "" /\ x # "Revoked"
    BY <1>13
  <2>2. u = f /\ material' = material /\ Answered("Revocation")
    BY <1>1, <1>3, <1>13, <2>1, Zenon DEF OcspJudged, OcspVerdict, Answered, Saw
  <2>3. QED
    BY <1>1, <1>4, <2>2, Zenon
<1>14. QED
  BY <1>6, <1>7, <1>10, <1>11, <1>12, <1>13, Zenon

\* collect_crl_status for one list: what each verdict leads to.
LEMMA CrlEffect ==
    ASSUME WalkForm(w), CrlAnswered
    PROVE  \/ /\ material' = material /\ (seen' = seen \/ Answered("Revocation"))
              /\ Stops(w', w) \/ (Goes(w', w, "crl") /\ w'.issuer = w.issuer)
           \/ /\ CrlAdded /\ Answered("")
              /\ Goes(w', w, "climb") /\ w'.issuer = w.issuer
              /\ check_list(ParsedList(http.result.body), Cert(w.current), Cert(w.issuer)) = ""
           \/ /\ material' = material /\ Answered("Revoked")
              /\ Stops(w', w) /\ w'.result = "Revoked"
<1>1. PICK v, u : v = w /\ u = w'
  OBVIOUS
<1>2. /\ v.pc = "crl" /\ v.pc # "done" /\ WalkForm(v) /\ "climb" \notin Asking
      /\ v.pc \in Asking /\ "Revoked" # "ok" /\ "Rng" # "ok" /\ "Revocation" # "ok"
  <2>1. v.pc = "crl" /\ WalkForm(v)
    BY <1>1, Zenon DEF CrlAnswered
  <2>2. QED
    BY <2>1 DEF Asking
<1>3. PICK f : f = IF Len(w.urls) = 1 THEN NoStatus ELSE NextUrl
  OBVIOUS
<1>4. Stops(f, v) \/ (Goes(f, v, "crl") /\ f.issuer = v.issuer)
  <2>1. \/ \E r \in {"Rng", "Revocation"} : f = [v EXCEPT !.pc = "done", !.result = r]
        \/ Len(v.urls) # 1 /\ f = [v EXCEPT !.urls = Tail(@), !.failures = @ + 1]
    BY <1>1, <1>3, Zenon DEF NoStatus, NextUrl, Done
  <2>2. ASSUME NEW r \in {"Rng", "Revocation"}, f = [v EXCEPT !.pc = "done", !.result = r] PROVE Stops(f, v)
    BY <1>2, <2>2, DoneStops, Zenon
  <2>3. ASSUME Len(v.urls) # 1, f = [v EXCEPT !.urls = Tail(@), !.failures = @ + 1]
        PROVE  Goes(f, v, "crl") /\ f.issuer = v.issuer
    BY <1>2, <2>3, NextAddress, Zenon
  <2>4. QED
    BY <2>1, <2>2, <2>3, Zenon
<1>5. PICK x : x = check_list(ParsedList(http.result.body), Cert(w.current), Cert(w.issuer))
  OBVIOUS
<1>6. \/ u = f /\ material' = material /\ seen' = seen
      \/ CrlJudged(x)
  BY <1>1, <1>3, <1>5, Zenon DEF CrlAnswered
<1>7. x \in {"", "Revoked", "Revocation"}
  BY <1>5, VerdictForm, Zenon DEF Verdicts
<1>8. Stops([v EXCEPT !.pc = "done", !.result = "Revoked"], v) /\ [v EXCEPT !.pc = "done", !.result = "Revoked"].result = "Revoked"
  BY <1>2, DoneStops, Zenon
<1>9. LET t == [v EXCEPT !.pc = "climb", !.urls = <<>>] IN Goes(t, v, "climb") /\ t.issuer = v.issuer
  BY <1>2, MovesOn, NoAddresses, Zenon
<1>10. CASE u = f /\ material' = material /\ seen' = seen
  BY <1>1, <1>4, <1>10, Zenon
<1>11. CASE CrlJudged(x) /\ x = ""
  <2>1. u = [v EXCEPT !.pc = "climb", !.urls = <<>>] /\ CrlAdded /\ Answered("")
    BY <1>1, <1>11, Zenon DEF CrlJudged, Continue, CrlAdded, Answered, Saw
  <2>2. QED
    BY <1>1, <1>5, <1>9, <1>11, <2>1, Zenon
<1>12. CASE CrlJudged(x) /\ x = "Revoked"
  <2>1. x # ""
    BY <1>12
  <2>2. u = [v EXCEPT !.pc = "done", !.result = "Revoked"] /\ material' = material /\ Answered("Revoked")
    BY <1>1, <1>12, <2>1, Zenon DEF CrlJudged, Done, Answered, Saw
  <2>3. QED
    BY <1>1, <1>8, <2>2, Zenon
<1>13. CASE CrlJudged(x) /\ x = "Revocation"
  <2>1. x # "" /\ x # "Revoked"
    BY <1>13
  <2>2. u = f /\ material' = material /\ Answered("Revocation")
    BY <1>1, <1>3, <1>13, <2>1, Zenon DEF CrlJudged, Answered, Saw
  <2>3. QED
    BY <1>1, <1>4, <2>2, Zenon
<1>14. QED
  BY <1>6, <1>7, <1>10, <1>11, <1>12, <1>13, Zenon

\* The end of the loop: the issuer becomes the current certificate.
LEMMA ClimbEffect ==
    ASSUME WalkForm(w), MaterialForm, Climb
    PROVE  Climbs(w', w) /\ SameEvidence
<1>1. PICK v, u : v = w /\ u = w'
  OBVIOUS
<1>2. WalkForm(v)
  BY <1>1, Zenon
<1>3. u = [v EXCEPT !.pc = "enter", !.current = v.issuer, !.issuer = "", !.rng = FALSE, !.failures = 0, !.nonce = 0]
  BY <1>1, Zenon DEF Climb
<1>4. /\ DOMAIN u = WalkFields /\ u.pc = "enter" /\ u.result = v.result /\ u.visited = v.visited
      /\ u.cas = v.cas /\ u.urls = v.urls /\ u.current = v.issuer
  BY <1>2, <1>3 DEF WalkForm, WalkFields
<1>5. SameEvidence
  BY MaterialWith, Zenon DEF Climb
<1>6. QED
  BY <1>1, <1>4, <1>5, Zenon DEF Climbs

\* walk_chain: the certificate is shown, or the display ends.
LEMMA DisplayEnterEffect ==
    ASSUME WalkForm(w), DisplayEnter
    PROVE  Stops(w', w) \/ Shows(w', w)
<1>1. PICK v, u : v = w /\ u = w'
  OBVIOUS
<1>2. v.pc = "enter" /\ v.pc # "done" /\ WalkForm(v) /\ start.call = "display"
  BY <1>1 DEF DisplayEnter
<1>3. /\ "Decode" # "ok" /\ "no root" # "ok" /\ "root" # "ok"
  OBVIOUS
<1>4. PICK urls : urls = extract_ca_issuers_urls(Exts(Cert(v.current)))
  OBVIOUS
<1>5. PICK a, e : a = Append(v.visited, v.current) /\ e = [v EXCEPT !.visited = a]
  OBVIOUS
<1>6. \/ \E r \in {"Decode", "no root"} : u = [v EXCEPT !.pc = "done", !.result = r]
      \/ /\ Reads(v.current) /\ ~(Len(v.visited) >= DISPLAY_DEPTH)
         /\ \/ \E r \in {"root", "no root"} : u = [e EXCEPT !.pc = "done", !.result = r]
            \/ \E n : u = [e EXCEPT !.pc = "display", !.issuer = n]
            \/ urls # <<>> /\ u = [e EXCEPT !.pc = "display fetch", !.urls = <<urls[1]>>]
  BY <1>1, <1>4, <1>5, Zenon DEF DisplayEnter, Done
<1>7. ASSUME NEW r \in {"Decode", "no root"}, u = [v EXCEPT !.pc = "done", !.result = r] PROVE Stops(u, v)
  BY <1>2, <1>3, <1>7, DoneStops, Zenon
<1>8. /\ DOMAIN e = WalkFields /\ e.visited = a /\ e.cas = v.cas /\ e.urls = v.urls /\ e.current = v.current
      /\ e.result = v.result
  BY <1>2, <1>5 DEF WalkForm, WalkFields
<1>9. ASSUME Reads(v.current), ~(Len(v.visited) >= DISPLAY_DEPTH), NEW r \in {"root", "no root"},
             u = [e EXCEPT !.pc = "done", !.result = r]
      PROVE  Shows(u, v)
  <2>1. /\ DOMAIN u = WalkFields /\ u.visited = a /\ u.cas = v.cas /\ u.urls = v.urls /\ u.current = v.current
        /\ u.pc = "done" /\ u.result # "ok"
    BY <1>3, <1>8, <1>9 DEF WalkFields
  <2>2. QED
    BY <1>2, <1>5, <1>9, <2>1, Zenon DEF Shows, WalkForm
<1>10. ASSUME Reads(v.current), ~(Len(v.visited) >= DISPLAY_DEPTH), NEW n, u = [e EXCEPT !.pc = "display", !.issuer = n]
       PROVE  Shows(u, v)
  <2>1. /\ DOMAIN u = WalkFields /\ u.visited = a /\ u.cas = v.cas /\ u.urls = v.urls /\ u.current = v.current
        /\ u.pc = "display" /\ u.result = v.result
    BY <1>8, <1>10 DEF WalkFields
  <2>2. QED
    BY <1>2, <1>5, <1>10, <2>1, Zenon DEF Shows, WalkForm
<1>11. ASSUME Reads(v.current), ~(Len(v.visited) >= DISPLAY_DEPTH), urls # <<>>,
              u = [e EXCEPT !.pc = "display fetch", !.urls = <<urls[1]>>]
       PROVE  Shows(u, v)
  <2>1. PICK x : x = urls[1]
    OBVIOUS
  <2>2. urls \in Seq(DOMAIN Url)
    BY <1>4, <1>11, AddressesOf, Zenon
  <2>3. x \in DOMAIN Url
    BY <1>11, <2>1, <2>2
  <2>4. AddressList(<<x>>) /\ <<x>> # <<>>
    BY <2>3 DEF AddressList, MaxAddresses
  <2>5. PICK l : l = <<x>>
    OBVIOUS
  <2>6. /\ DOMAIN u = WalkFields /\ u.visited = a /\ u.cas = v.cas /\ u.urls = l /\ u.current = v.current
        /\ u.pc = "display fetch" /\ u.result = v.result
    BY <1>8, <1>11, <2>1, <2>5 DEF WalkFields
  <2>7. QED
    BY <1>2, <1>5, <1>11, <2>4, <2>5, <2>6, Zenon DEF Shows
<1>12. QED
  BY <1>1, <1>6, <1>7, <1>9, <1>10, <1>11, Zenon

\* try_aia_fetch: a certificate of that name, or the end.
LEMMA DisplayFetchedEffect ==
    ASSUME WalkForm(w), DisplayFetched
    PROVE  Stops(w', w) \/ Goes(w', w, "display")
<1>1. PICK v, u : v = w /\ u = w'
  OBVIOUS
<1>2. v.pc = "display fetch" /\ v.pc # "done" /\ WalkForm(v) /\ "no root" # "ok" /\ "display" \notin Asking
  BY <1>1 DEF DisplayFetched, Asking
<1>3. \/ u = [v EXCEPT !.pc = "done", !.result = "no root"]
      \/ \E n : u = [v EXCEPT !.pc = "display", !.issuer = n, !.urls = <<>>]
  BY <1>1, Zenon DEF DisplayFetched, Done
<1>4. ASSUME u = [v EXCEPT !.pc = "done", !.result = "no root"] PROVE Stops(u, v)
  BY <1>2, <1>4, DoneStops, Zenon
<1>5. ASSUME NEW n, u = [v EXCEPT !.pc = "display", !.issuer = n, !.urls = <<>>] PROVE Goes(u, v, "display")
  <2>1. /\ DOMAIN u = WalkFields /\ u.pc = "display" /\ u.result = v.result /\ u.current = v.current
        /\ u.visited = v.visited /\ u.cas = v.cas /\ u.urls = <<>>
    BY <1>2, <1>5 DEF WalkForm, WalkFields
  <2>2. QED
    BY <1>2, <2>1, NoAddresses, Zenon DEF Goes
<1>6. QED
  BY <1>1, <1>3, <1>4, <1>5, Zenon

\* walk_chain: the issuer becomes the current certificate, or the display ends.
LEMMA DisplayLinkEffect ==
    ASSUME WalkForm(w), DisplayLink
    PROVE  Stops(w', w) \/ Climbs(w', w)
<1>1. PICK v, u : v = w /\ u = w'
  OBVIOUS
<1>2. v.pc = "display" /\ v.pc # "done" /\ WalkForm(v) /\ "no root" # "ok"
  BY <1>1 DEF DisplayLink
<1>3. \/ u = [v EXCEPT !.pc = "done", !.result = "no root"]
      \/ u = [v EXCEPT !.pc = "enter", !.current = v.issuer, !.issuer = ""]
  BY <1>1, Zenon DEF DisplayLink, Done
<1>4. ASSUME u = [v EXCEPT !.pc = "done", !.result = "no root"] PROVE Stops(u, v)
  BY <1>2, <1>4, DoneStops, Zenon
<1>5. ASSUME u = [v EXCEPT !.pc = "enter", !.current = v.issuer, !.issuer = ""] PROVE Climbs(u, v)
  <2>1. /\ DOMAIN u = WalkFields /\ u.pc = "enter" /\ u.result = v.result /\ u.visited = v.visited
        /\ u.cas = v.cas /\ u.urls = v.urls /\ u.current = v.issuer
    BY <1>2, <1>5 DEF WalkForm, WalkFields
  <2>2. QED
    BY <2>1, Zenon DEF Climbs
<1>6. QED
  BY <1>1, <1>3, <1>4, <1>5, Zenon

\* post_authority: a request, or its result is the end.
LEMMA AskAuthorityEffect ==
    ASSUME WalkForm(w), HttpInv, AskAuthority
    PROVE  Stops(w', w) \/ w' = w
<1>1. PICK v, u, h : v = w /\ u = w' /\ h = http
  OBVIOUS
<1>2. v.pc = "start" /\ v.pc # "done" /\ WalkForm(v)
  BY <1>1 DEF AskAuthority
<1>3. ASSUME h.st = "done" PROVE h.result.err # "ok"
  <2>1. h # NoRequest
    BY <1>3 DEF NoRequest
  <2>2. QED
    BY <1>1, <1>3, <2>1, Zenon DEF HttpInv, RequestForm, ResultForm
<1>4. PICK r : r = h.result.err
  OBVIOUS
<1>5. \/ h.st = "done" /\ u = [v EXCEPT !.pc = "done", !.result = r]
      \/ u = v
  BY <1>1, <1>4, Zenon DEF AskAuthority, Done
<1>6. ASSUME h.st = "done", u = [v EXCEPT !.pc = "done", !.result = r] PROVE Stops(u, v)
  BY <1>2, <1>3, <1>4, <1>6, DoneStops, Zenon
<1>7. QED
  BY <1>1, <1>5, <1>6, Zenon

(***************************************************************************)
(* The steps of the walk, in these terms                                   *)
(***************************************************************************)

CallsForm == IsSequence(calls) /\ calls # <<>> /\ \A i \in DOMAIN calls : CallForm(calls[i])
SeenForm == \A x \in seen : x.subject \in DOMAIN Der /\ x.verdict \in Verdicts
ControlInv == WalkForm(w) /\ MaterialForm /\ HttpInv /\ CallsForm /\ SeenForm

\* Nothing but the walk moves; a judged answer is one failure more; it is
\* revoked and that is the end; it clears the certificate.
Quiet == calls' = calls /\ SameEvidence /\ seen' = seen
Doubt == calls' = calls /\ SameEvidence /\ Answered("Revocation")
Verdictless == Quiet \/ Doubt
Halted == calls' = calls /\ SameEvidence /\ Answered("Revoked") /\ Stops(w', w) /\ w'.result = "Revoked"
ClearedNow ==
    /\ calls' = calls /\ Answered("")
    /\ Goes(w', w, "climb") /\ w'.issuer = w.issuer
    /\ \/ /\ w.pc = "ocsp" /\ OcspAdded
          /\ check_response(start.nonce_policy, ParsedResponse(http.result.body, w.nonce),
                            Cert(w.current), Cert(w.issuer), w.nonce) = ""
       \/ /\ w.pc = "crl" /\ CrlAdded
          /\ check_list(ParsedList(http.result.body), Cert(w.current), Cert(w.issuer)) = ""
Searched == w.pc \in {"search", "fetch"} /\ \E pc \in {"linked", "fetch"} : Goes(w', w, pc)
Adopted ==
    /\ w.pc = "linked" /\ Accepts(w.issuer) /\ w'.issuer = w.issuer
    /\ \/ start.call = "verify" /\ Goes(w', w, "climb")
       \/ Goes(w', w, "ocsp") \/ Goes(w', w, "crl?")
Asked == /\ w.pc \in {"ocsp", "crl?", "crl"} /\ w'.issuer = w.issuer
         /\ \E pc \in {"ocsp", "crl?", "crl"} : Goes(w', w, pc)
Advance ==
    \/ Quiet /\ w' = w
    \/ Quiet /\ Stops(w', w)
    \/ Quiet /\ Begins(w', w)
    \/ Quiet /\ Enters(w', w)
    \/ Quiet /\ Searched
    \/ Quiet /\ Adopted
    \/ Verdictless /\ Asked
    \/ Doubt /\ w.pc = "crl" /\ Stops(w', w)
    \/ Halted /\ w.pc \in {"ocsp", "crl"}
    \/ ClearedNow
    \/ Quiet /\ w.pc = "climb" /\ Climbs(w', w)
    \/ w' = NoWalk /\ w.result = "ok" /\ Len(calls) > 1 /\ calls' = Tail(calls) /\ material' = material /\ seen' = seen
    \/ Quiet /\ Shows(w', w)
    \/ Quiet /\ w.pc = "display fetch" /\ Goes(w', w, "display")
    \/ Quiet /\ w.pc = "display" /\ Climbs(w', w)

\* Each action of the walk is one of these.
LEMMA WalkAdvances ==
    ASSUME WalkForm(w), MaterialForm, Walk
    PROVE  Advance
<1>1. material' = material => SameEvidence
  BY Zenon DEF SameEvidence
<1>2. CASE Enter
  <2>1. Stops(w', w) \/ Enters(w', w)
    BY <1>2, EnterEffect, Zenon
  <2>2. Quiet
    BY <1>2, EnterEffect, Zenon DEF Enter, Quiet
  <2>3. QED
    BY <2>1, <2>2, Zenon DEF Advance
<1>3. CASE FindIssuer
  <2>1. Stops(w', w) \/ Goes(w', w, "linked") \/ Goes(w', w, "fetch")
    BY <1>3, FindIssuerEffect, Zenon
  <2>2. Quiet /\ w.pc = "search"
    BY <1>1, <1>3, Zenon DEF FindIssuer, Quiet
  <2>3. QED
    BY <2>1, <2>2, Zenon DEF Advance, Searched
<1>4. CASE Request
  <2>1. Goes(w', w, w.pc) /\ w'.issuer = w.issuer
    BY <1>4, RequestEffect, Zenon
  <2>2. Quiet /\ w.pc \in {"fetch", "ocsp", "crl"}
    BY <1>1, <1>4, Zenon DEF Request, Quiet
  <2>3. QED
    BY <2>1, <2>2, Zenon DEF Advance, Searched, Asked, Verdictless
<1>5. CASE NoRandom
  <2>1. Goes(w', w, "crl?") /\ w'.issuer = w.issuer
    BY <1>5, NoRandomEffect, Zenon
  <2>2. Quiet /\ w.pc = "ocsp"
    BY <1>1, <1>5, Zenon DEF NoRandom, Quiet
  <2>3. QED
    BY <2>1, <2>2, Zenon DEF Advance, Asked, Verdictless
<1>6. CASE IssuerFetched
  <2>1. Stops(w', w) \/ Goes(w', w, "linked") \/ Goes(w', w, "fetch")
    BY <1>6, IssuerFetchedEffect, Zenon
  <2>2. Quiet /\ w.pc = "fetch"
    BY <1>1, <1>6, Zenon DEF IssuerFetched, Quiet
  <2>3. QED
    BY <2>1, <2>2, Zenon DEF Advance, Searched
<1>7. CASE Linked
  <2>1. Quiet /\ w.pc = "linked"
    BY <1>1, <1>7, Zenon DEF Linked, Quiet
  <2>2. QED
    BY <1>7, <2>1, LinkedEffect, Zenon DEF Advance, Adopted
<1>8. CASE OcspAnswered
  <2>1. calls' = calls /\ w.pc = "ocsp"
    BY <1>8, Zenon DEF OcspAnswered
  <2>2. QED
    BY <1>1, <1>8, <2>1, OcspEffect, Zenon DEF Advance, Asked, Verdictless, Quiet, Doubt, Halted, ClearedNow
<1>9. CASE CrlStart
  <2>1. Quiet /\ w.pc = "crl?"
    BY <1>1, <1>9, Zenon DEF CrlStart, Quiet
  <2>2. QED
    BY <1>9, <2>1, CrlStartEffect, Zenon DEF Advance, Asked, Verdictless
<1>10. CASE CrlAnswered
  <2>1. calls' = calls /\ w.pc = "crl"
    BY <1>10, Zenon DEF CrlAnswered
  <2>2. QED
    BY <1>1, <1>10, <2>1, CrlEffect, Zenon DEF Advance, Asked, Verdictless, Quiet, Doubt, Halted, ClearedNow
<1>11. CASE Climb
  <2>1. calls' = calls /\ seen' = seen /\ w.pc = "climb"
    BY <1>11, Zenon DEF Climb
  <2>2. QED
    BY <1>11, <2>1, ClimbEffect, Zenon DEF Advance, Quiet
<1>12. CASE NextChain
  BY <1>12, Zenon DEF NextChain, Advance
<1>13. QED
  BY <1>2, <1>3, <1>4, <1>5, <1>6, <1>7, <1>8, <1>9, <1>10, <1>11, <1>12, Zenon DEF Walk

\* Each step is one of these.
LEMMA StepAdvances ==
    ASSUME WalkForm(w), MaterialForm, HttpInv, [Next]_vars
    PROVE  Advance
<1>1. material' = material => SameEvidence
  BY Zenon DEF SameEvidence
<1>2. CASE Begin
  <2>1. Quiet
    BY <1>2, BeginEffect, Zenon DEF Begin, Quiet
  <2>2. QED
    BY <1>2, <2>1, BeginEffect, Zenon DEF Advance
<1>3. CASE Display
  <2>1. CASE DisplayEnter
    <3>1. Quiet
      BY <1>1, <2>1, Zenon DEF DisplayEnter, Quiet
    <3>2. QED
      BY <2>1, <3>1, DisplayEnterEffect, Zenon DEF Advance
  <2>2. CASE DisplayRequest
    <3>1. Quiet /\ w' = w
      BY <1>1, <2>2, Zenon DEF DisplayRequest, Quiet
    <3>2. QED
      BY <3>1, Zenon DEF Advance
  <2>3. CASE DisplayFetched
    <3>1. Quiet /\ w.pc = "display fetch"
      BY <1>1, <2>3, Zenon DEF DisplayFetched, Quiet
    <3>2. QED
      BY <2>3, <3>1, DisplayFetchedEffect, Zenon DEF Advance
  <2>4. CASE DisplayLink
    <3>1. Quiet /\ w.pc = "display"
      BY <1>1, <2>4, Zenon DEF DisplayLink, Quiet
    <3>2. QED
      BY <2>4, <3>1, DisplayLinkEffect, Zenon DEF Advance
  <2>5. QED
    BY <1>3, <2>1, <2>2, <2>3, <2>4, Zenon DEF Display
<1>4. CASE AskAuthority
  <2>1. Quiet
    BY <1>1, <1>4, Zenon DEF AskAuthority, Quiet
  <2>2. QED
    BY <1>4, <2>1, AskAuthorityEffect, Zenon DEF Advance
<1>5. CASE HttpProgress \/ CacheInsert \/ CacheGet \/ CacheTick \/ UNCHANGED vars
  <2>1. Quiet /\ w' = w
    BY <1>1, <1>5, Zenon DEF HttpProgress, CacheInsert, CacheGet, CacheTick, vars, Quiet
  <2>2. QED
    BY <2>1, Zenon DEF Advance
<1>6. QED
  BY <1>2, <1>3, <1>4, <1>5, WalkAdvances, Zenon DEF Next, Progress

\* What Append does to the members of a sequence.
LEMMA Appended ==
    ASSUME NEW S, NEW s \in Seq(S), NEW x \in S
    PROVE  IsSequence(Append(s, x)) /\ Range(s) \cup {x} \subseteq Range(Append(s, x))
<1>1. /\ Append(s, x) \in Seq(S) /\ Len(Append(s, x)) = Len(s) + 1
      /\ \A i \in 1..Len(s) : Append(s, x)[i] = s[i]
      /\ Append(s, x)[Len(s) + 1] = x
  OBVIOUS
<1>2. PICK t, l : t = Append(s, x) /\ l = Len(s)
  OBVIOUS
<1>3. /\ t \in Seq(S) /\ Len(t) = l + 1
      /\ \A i \in 1..l : t[i] = s[i]
      /\ t[l + 1] = x
  BY <1>1, <1>2, Zenon
<1>4. l \in Nat /\ DOMAIN s = 1..l
  BY <1>2, LenProperties, Zenon
<1>5. DOMAIN t = 1..(l + 1)
  BY <1>3, LenProperties, Zenon
<1>6. (\A i \in 1..l : i \in 1..(l + 1)) /\ l + 1 \in 1..(l + 1)
  BY <1>4
<1>7. Range(s) \cup {x} \subseteq Range(t)
  BY <1>3, <1>4, <1>5, <1>6, Zenon DEF Range
<1>8. IsSequence(t)
  BY <1>3, SeqOfRange, Zenon DEF IsSequence
<1>9. QED
  BY <1>2, <1>7, <1>8, Zenon

\* Push keeps a sequence one and loses nothing.
LEMMA Pushed ==
    ASSUME NEW s, IsSequence(s), NEW x
    PROVE  IsSequence(Push(s, x)) /\ Range(s) \cup {x} \subseteq Range(Push(s, x))
<1>1. CASE x \in Range(s)
  <2>1. Push(s, x) = s
    BY <1>1, Zenon DEF Push
  <2>2. QED
    BY <1>1, <2>1
<1>2. CASE x \notin Range(s)
  <2>1. s \in Seq(Range(s) \cup {x}) /\ x \in Range(s) \cup {x}
    <3>1. Range(s) \subseteq Range(s) \cup {x}
      OBVIOUS
    <3>2. QED
      BY <3>1, SeqMonotonic, Zenon DEF IsSequence
  <2>2. Push(s, x) = Append(s, x)
    BY <1>2, Zenon DEF Push
  <2>3. \A S : s \in Seq(S) /\ x \in S => IsSequence(Append(s, x)) /\ Range(s) \cup {x} \subseteq Range(Append(s, x))
    BY Appended, Zenon
  <2>4. QED
    BY <2>1, <2>2, <2>3, Zenon
<1>3. QED
  BY <1>1, <1>2

\* What the walk starts from.
LEMMA NewWalk ==
    WalkForm(NoWalk)
<1>1. PICK v : v = NoWalk
  OBVIOUS
<1>2. DOMAIN v = WalkFields /\ v.pc = "start" /\ v.cas = 0 /\ v.visited = <<>> /\ v.urls = <<>>
  BY <1>1 DEF NoWalk, WalkFields
<1>3. "start" \in Pcs /\ "start" \notin OnPath /\ "start" \notin Asking
  BY DEF Pcs, OnPath, Asking
<1>4. 0 \in 0..MAX_DEPTH /\ 0 <= DISPLAY_DEPTH
  BY TrustAssumption
<1>5. \A S : <<>> \in Seq(S) /\ Len(<<>>) = 0
  OBVIOUS
<1>6. WalkForm(v)
  BY <1>2, <1>3, <1>4, <1>5, NoAddresses, Zenon DEF WalkForm
<1>7. QED
  BY <1>1, <1>6, Zenon

\* The record keeps its form.
LEMMA WalkFormKept ==
    ASSUME WalkForm(w), Advance
    PROVE  WalkForm(w')
<1>1. {"linked", "fetch", "ocsp", "crl?", "crl", "climb", "display"} \subseteq Pcs
  BY DEF Pcs
<1>2. {"search", "linked", "fetch", "ocsp", "crl?", "crl", "climb", "display", "display fetch"} \subseteq OnPath
  BY DEF OnPath
<1>3. w.pc \in {"search", "linked", "fetch", "ocsp", "crl?", "crl", "climb", "display", "display fetch"} => Reads(w.current)
  BY <1>2, Zenon DEF WalkForm
<1>4. ASSUME NEW pc \in {"linked", "fetch", "ocsp", "crl?", "crl", "climb", "display"},
             w.pc \in {"search", "linked", "fetch", "ocsp", "crl?", "crl", "climb", "display", "display fetch"}, Goes(w', w, pc)
      PROVE  WalkForm(w')
  BY <1>1, <1>3, <1>4, GoesKeeps, Zenon
<1>5. CASE Searched \/ Adopted \/ Asked \/ ClearedNow \/ (w.pc = "display fetch" /\ Goes(w', w, "display"))
  BY <1>4, <1>5, Zenon DEF Searched, Adopted, Asked, ClearedNow
<1>6. CASE w' = NoWalk
  BY <1>6, NewWalk, Zenon
<1>7. CASE Stops(w', w) \/ Begins(w', w) \/ Enters(w', w) \/ Climbs(w', w) \/ Shows(w', w) \/ w' = w
  BY <1>7, StopsKeeps, BeginsKeeps, EntersKeeps, ClimbsKeeps, ShowsKeeps, Zenon
<1>8. QED
  BY <1>5, <1>6, <1>7, Zenon DEF Advance, Halted

\* The material keeps its form, loses nothing and holds what was just judged good.
LEMMA MaterialKept ==
    ASSUME MaterialForm, Advance
    PROVE  /\ MaterialForm'
           /\ Range(material.ocsp) \subseteq Range(material'.ocsp) /\ Range(material.crls) \subseteq Range(material'.crls)
           /\ OcspAdded => <<http.result.body, w.nonce>> \in Range(material'.ocsp)
           /\ CrlAdded => http.result.body \in Range(material'.crls)
<1>1. PICK m, n : m = material /\ n = material'
  OBVIOUS
<1>2. DOMAIN m = {"certificates", "ocsp", "crls"} /\ IsSequence(m.ocsp) /\ IsSequence(m.crls)
  BY <1>1, Zenon DEF MaterialForm
<1>3. ASSUME OcspAdded
      PROVE  /\ DOMAIN n = {"certificates", "ocsp", "crls"} /\ IsSequence(n.ocsp) /\ n.crls = m.crls
             /\ Range(m.ocsp) \cup {<<http.result.body, w.nonce>>} \subseteq Range(n.ocsp)
  <2>1. PICK x, s : x = <<http.result.body, w.nonce>> /\ s = Push(m.ocsp, x)
    OBVIOUS
  <2>2. n = [m EXCEPT !.ocsp = s]
    BY <1>1, <1>3, <2>1, Zenon DEF OcspAdded
  <2>3. DOMAIN n = {"certificates", "ocsp", "crls"} /\ n.ocsp = s /\ n.crls = m.crls
    BY <1>2, <2>2
  <2>4. IsSequence(s) /\ Range(m.ocsp) \cup {x} \subseteq Range(s)
    BY <1>2, <2>1, Pushed, Zenon
  <2>5. QED
    BY <2>1, <2>3, <2>4, Zenon
<1>4. ASSUME CrlAdded
      PROVE  /\ DOMAIN n = {"certificates", "ocsp", "crls"} /\ IsSequence(n.crls) /\ n.ocsp = m.ocsp
             /\ Range(m.crls) \cup {http.result.body} \subseteq Range(n.crls)
  <2>1. PICK x, s : x = http.result.body /\ s = Push(m.crls, x)
    OBVIOUS
  <2>2. n = [m EXCEPT !.crls = s]
    BY <1>1, <1>4, <2>1, Zenon DEF CrlAdded
  <2>3. DOMAIN n = {"certificates", "ocsp", "crls"} /\ n.crls = s /\ n.ocsp = m.ocsp
    BY <1>2, <2>2
  <2>4. IsSequence(s) /\ Range(m.crls) \cup {x} \subseteq Range(s)
    BY <1>2, <2>1, Pushed, Zenon
  <2>5. QED
    BY <2>1, <2>3, <2>4, Zenon
<1>5. OcspAdded \/ CrlAdded \/ SameEvidence
  BY Zenon DEF Advance, Quiet, Verdictless, Doubt, Halted, ClearedNow, SameEvidence
<1>6. OcspAdded \/ CrlAdded \/ (DOMAIN n = DOMAIN m /\ n.ocsp = m.ocsp /\ n.crls = m.crls)
  BY <1>1, <1>5, Zenon DEF SameEvidence
<1>7. /\ DOMAIN n = {"certificates", "ocsp", "crls"} /\ IsSequence(n.ocsp) /\ IsSequence(n.crls)
      /\ Range(m.ocsp) \subseteq Range(n.ocsp) /\ Range(m.crls) \subseteq Range(n.crls)
  BY <1>2, <1>3, <1>4, <1>6, Zenon
<1>8. QED
  BY <1>1, <1>3, <1>4, <1>7, Zenon DEF MaterialForm

\* The calls of a start, and those left after the first, are calls.
LEMMA CallsKept ==
    ASSUME CallsForm, Advance
    PROVE  CallsForm'
<1>1. CASE calls' = calls
  BY <1>1, Zenon DEF CallsForm
<1>2. ASSUME Len(calls) > 1, calls' = Tail(calls)
      PROVE  CallsForm'
  <2>1. PICK c, S : c = calls /\ S = Range(c)
    OBVIOUS
  <2>2. c \in Seq(S) /\ c # <<>> /\ \A i \in DOMAIN c : CallForm(c[i])
    BY <2>1, Zenon DEF CallsForm, IsSequence
  <2>3. PICK t, n : t = Tail(c) /\ n = Len(c)
    OBVIOUS
  <2>4. t \in Seq(S) /\ Len(t) = n - 1 /\ \A i \in 1..Len(t) : t[i] = c[i + 1]
    BY <2>2, <2>3, HeadTailProperties, Zenon
  <2>5. n \in Nat /\ n > 1 /\ DOMAIN c = 1..n
    BY <1>2, <2>1, <2>2, <2>3, LenProperties, Zenon
  <2>6. DOMAIN t = 1..(n - 1)
    BY <2>4, LenProperties, Zenon
  <2>7. \A i \in 1..(n - 1) : i + 1 \in 1..n
    BY <2>5
  <2>8. \A i \in DOMAIN t : CallForm(t[i])
    BY <2>2, <2>4, <2>5, <2>6, <2>7, Zenon
  <2>9. t # <<>>
    <3>1. ASSUME t = <<>> PROVE FALSE
      <4>1. Len(t) = 0
        BY <3>1
      <4>2. QED
        BY <2>4, <2>5, <4>1
    <3>2. QED
      BY <3>1
  <2>10. IsSequence(t)
    BY <2>4, SeqOfRange, Zenon DEF IsSequence
  <2>11. t = calls'
    BY <1>2, <2>1, <2>3, Zenon
  <2>12. QED
    BY <2>8, <2>9, <2>10, <2>11, Zenon DEF CallsForm
<1>3. QED
  BY <1>1, <1>2, Zenon DEF Advance, Quiet, Verdictless, Doubt, Halted, ClearedNow

\* An answer is judged for the certificate in work.
LEMMA SeenKept ==
    ASSUME WalkForm(w), SeenForm, Advance
    PROVE  SeenForm'
<1>1. CASE seen' = seen
  BY <1>1, Zenon DEF SeenForm
<1>2. ASSUME NEW x \in Verdicts, Answered(x), w.pc \in {"ocsp", "crl?", "crl"}
      PROVE  SeenForm'
  <2>1. w.pc \in OnPath
    BY <1>2 DEF OnPath
  <2>2. w.current \in DOMAIN Der
    BY <2>1 DEF WalkForm, Reads, Certs
  <2>3. PICK a : a = [subject |-> w.current, verdict |-> x]
    OBVIOUS
  <2>4. a.subject = w.current /\ a.verdict = x
    BY <2>3
  <2>5. seen' = seen \cup {a}
    BY <1>2, <2>3, Zenon DEF Answered
  <2>6. QED
    BY <2>2, <2>4, <2>5, Zenon DEF SeenForm
<1>3. {"", "Revoked", "Revocation"} \subseteq Verdicts
  BY DEF Verdicts
<1>4. ASSUME w.pc \in {"ocsp", "crl?", "crl"}, Doubt \/ Answered("Revoked") \/ Answered("")
      PROVE  SeenForm'
  BY <1>2, <1>3, <1>4, Zenon DEF Doubt
<1>5. QED
  BY <1>1, <1>4, Zenon DEF Advance, Quiet, Verdictless, Halted, ClearedNow, Asked

\* A request is made only for an address that leads somewhere.
LEMMA RequestKept ==
    ASSUME ControlInv, Next
    PROVE  HttpInv'
<1>1. \A u \in DOMAIN Url : Url[u].host \in DOMAIN DnsAnswers /\ u \in DOMAIN Streams
  BY TrustAssumption, Zenon
<1>2. ASSUME NEW m, NEW u, u \in DOMAIN Url, StartRequest(m, Url[u], "CertificateMaterial", FALSE, u)
      PROVE  HttpInv'
  BY <1>1, <1>2, RequestStarts, Zenon DEF HttpInv
<1>3. w.pc \in Asking => w.urls[1] \in DOMAIN Url
  BY AddressesLeft, Zenon DEF ControlInv, WalkForm
<1>4. CASE http' = http
  BY <1>4, Zenon DEF ControlInv, HttpInv
<1>5. CASE http' = NoRequest
  BY <1>5, Zenon DEF HttpInv
<1>6. CASE Request
  <2>1. w.pc \in Asking
    BY <1>6 DEF Request, Asking
  <2>2. QED
    BY <1>2, <1>3, <1>6, <2>1, Zenon DEF Request
<1>7. CASE DisplayRequest
  <2>1. w.pc \in Asking
    BY <1>7 DEF DisplayRequest, Asking
  <2>2. QED
    BY <1>2, <1>3, <1>7, <2>1, Zenon DEF DisplayRequest
<1>8. CASE AskAuthority
  <2>1. 1 \in DOMAIN calls
    <3>1. PICK c, S : c = calls /\ S = Range(c)
      OBVIOUS
    <3>2. c \in Seq(S) /\ c # <<>>
      BY <3>1, Zenon DEF ControlInv, CallsForm, IsSequence
    <3>3. QED
      BY <3>1, <3>2
  <2>2. CallForm(start)
    BY <2>1, Zenon DEF ControlInv, CallsForm, start
  <2>3. start.leaf \in DOMAIN Url /\ start.credentials \in BOOLEAN
    BY <1>8, <2>2, Zenon DEF AskAuthority, CallForm
  <2>4. CASE StartRequest("POST", Url[start.leaf], "Authority", start.credentials, start.leaf)
    BY <1>1, <2>3, <2>4, RequestStarts, Zenon DEF HttpInv
  <2>5. QED
    BY <1>4, <1>8, <2>4, Zenon DEF AskAuthority
<1>9. CASE HttpProgress
  BY <1>9, HttpStepKeeps, Zenon DEF HttpProgress, ControlInv
<1>10. CASE Enter \/ FindIssuer \/ NoRandom \/ Linked \/ CrlStart \/ Climb \/ NextChain
  BY <1>4, <1>10, Zenon DEF Enter, FindIssuer, NoRandom, Linked, CrlStart, Climb, NextChain
<1>11. CASE IssuerFetched \/ OcspAnswered \/ CrlAnswered \/ DisplayFetched
  BY <1>5, <1>11, Zenon DEF IssuerFetched, OcspAnswered, CrlAnswered, DisplayFetched
<1>12. CASE Begin \/ DisplayEnter \/ DisplayLink \/ CacheInsert \/ CacheGet \/ CacheTick
  BY <1>4, <1>12, Zenon DEF Begin, DisplayEnter, DisplayLink, CacheInsert, CacheGet, CacheTick
<1>13. QED
  BY <1>6, <1>7, <1>8, <1>9, <1>10, <1>11, <1>12, Zenon DEF Next, Progress, Walk, Display

\* The control invariant holds at first and is kept by every step.
LEMMA ControlInit ==
    ASSUME Init PROVE ControlInv
<1>1. CallsForm
  BY TrustAssumption, Zenon DEF Init, CallsForm
<1>2. PICK m : m = material
  OBVIOUS
<1>3. DOMAIN m = {"certificates", "ocsp", "crls"} /\ m.ocsp = <<>> /\ m.crls = <<>>
  BY <1>2 DEF Init
<1>4. IsSequence(<<>>)
  BY DEF IsSequence
<1>5. MaterialForm
  BY <1>2, <1>3, <1>4, Zenon DEF MaterialForm
<1>6. HttpInv
  BY Zenon DEF Init, HttpInv
<1>7. SeenForm
  BY Zenon DEF Init, SeenForm
<1>8. WalkForm(w)
  BY NewWalk, Zenon DEF Init
<1>9. QED
  BY <1>1, <1>5, <1>6, <1>7, <1>8, Zenon DEF ControlInv
\* Each step keeps the control invariant and is one of the steps above.
LEMMA ControlStep ==
    ASSUME ControlInv, [Next]_vars
    PROVE  ControlInv' /\ Advance
<1>1. WalkForm(w) /\ MaterialForm /\ HttpInv /\ CallsForm /\ SeenForm
  BY Zenon DEF ControlInv
<1>2. Advance
  BY <1>1, StepAdvances, Zenon
<1>3. HttpInv'
  <2>1. CASE UNCHANGED vars
    BY <1>1, <2>1, Zenon DEF HttpInv, vars
  <2>2. QED
    BY <2>1, RequestKept, Zenon
<1>4. CallsForm'
  BY <1>1, <1>2, CallsKept, Zenon
<1>5. SeenForm'
  BY <1>1, <1>2, SeenKept, Zenon
<1>6. MaterialForm'
  BY <1>1, <1>2, MaterialKept, Zenon
<1>7. WalkForm(w')
  BY <1>1, <1>2, WalkFormKept, Zenon
<1>8. QED
  BY <1>2, <1>3, <1>4, <1>5, <1>6, <1>7, Zenon DEF ControlInv

\* NoLocalDestination, CredentialsStayWithTheirHost and BodyIsWholeAndBounded
\* of HttpClient, for every certificate, answer and stream: no request made
\* for a certificate reaches a local address, credentials stay with the
\* authority they are for, and a body that counts is whole and within the limit.
THEOREM WalkRequestsContained == Spec => []RequestsContained
<1>1. ControlInv /\ [Next]_vars => ControlInv'
  BY ControlStep, Zenon
<1>2. QED
  BY <1>1, ControlInit, RequestsAreContained, PTL DEF Spec, ControlInv

\* Once an answer said revoked, the call is over and says so.
RevokedInv == (\E x \in seen : x.verdict = "Revoked") => w.pc = "done" /\ w.result = "Revoked"

\* A walk that ended as revoked does not move.
LEMMA RevokedStays ==
    ASSUME w.pc = "done", w.result = "Revoked", Advance
    PROVE  w' = w
<1>1. /\ w.pc # "start" /\ w.pc # "enter" /\ w.pc \notin {"search", "fetch"} /\ w.pc # "linked" /\ w.pc # "crl" /\ w.pc # "ocsp"
      /\ w.pc \notin {"ocsp", "crl?", "crl"} /\ w.pc \notin {"ocsp", "crl"}
      /\ w.pc # "climb" /\ w.pc # "display" /\ w.pc # "display fetch" /\ w.result # "ok"
  OBVIOUS
<1>2. QED
  BY <1>1, Zenon DEF Advance, Stops, Begins, Enters, Searched, Adopted, Asked, Halted, ClearedNow, Shows

\* Only an answer that halts the walk says revoked.
LEMMA RevokedKept ==
    ASSUME RevokedInv, Advance
    PROVE  RevokedInv'
<1>1. CASE \E x \in seen : x.verdict = "Revoked"
  BY <1>1, RevokedStays, Zenon DEF RevokedInv
<1>2. CASE ~\E x \in seen : x.verdict = "Revoked"
  <2>1. CASE seen' = seen
    BY <1>2, <2>1, Zenon DEF RevokedInv
  <2>2. ASSUME NEW x, x # "Revoked", Answered(x)
        PROVE  RevokedInv'
    <3>1. PICK a : a = [subject |-> w.current, verdict |-> x]
      OBVIOUS
    <3>2. a.verdict = x
      BY <3>1
    <3>3. seen' = seen \cup {a}
      BY <2>2, <3>1, Zenon DEF Answered
    <3>4. QED
      BY <1>2, <2>2, <3>2, <3>3, Zenon DEF RevokedInv
  <2>3. CASE Halted
    BY <2>3, Zenon DEF Halted, Stops, RevokedInv
  <2>4. "" # "Revoked" /\ "Revocation" # "Revoked"
    OBVIOUS
  <2>5. QED
    BY <2>1, <2>2, <2>3, <2>4, Zenon DEF Advance, Quiet, Verdictless, Doubt, ClearedNow
<1>3. QED
  BY <1>1, <1>2, Zenon

\* collect_ocsp_status and collect_crl_status: an acceptable answer that says
\* revoked ends the call, and no later step of it succeeds.
THEOREM RevokedIsFinal == Spec => RevokedStopsTheWalk
<1>1. Init => RevokedInv
  BY Zenon DEF Init, RevokedInv
<1>2. ControlInv /\ RevokedInv /\ [Next]_vars => ControlInv' /\ RevokedInv'
  BY ControlStep, RevokedKept, Zenon
<1>3. ControlInv /\ RevokedInv /\ [Next]_vars =>
        [\A x \in seen : x.verdict = "Revoked" /\ x.subject \in Range(Path') => w'.result # "ok"]_vars
  <2>1. "Revoked" # "ok"
    OBVIOUS
  <2>2. QED
    BY <2>1, ControlStep, RevokedStays, Zenon DEF RevokedInv
<1>4. QED
  BY <1>1, <1>2, <1>3, ControlInit, PTL DEF Spec, RevokedStopsTheWalk

(***************************************************************************)
(* The path                                                                *)
(***************************************************************************)

Searching == {"search", "fetch", "linked", "ocsp", "crl?", "crl", "climb"}
Judged == {"ocsp", "crl?", "crl", "climb"}
Anchor(name, c) == name \in Range(c.anchors)
Link(a, b) == Cert(a).issuer = Cert(b).subject /\ verify_signed_by(Cert(a), Cert(b)) = ""

\* The CAs on the path below its i-th certificate, the leaf aside, that are
\* not self-issued: what a path length constraint counts.
Below(path, i) == {j \in 2..(i - 1) : Cert(path[j]).issuer # Cert(path[j]).subject}
CanIssue(name, n) ==
    LET bc == extract_basic_constraints(Exts(Cert(name))) IN
    /\ bc.ca /\ "keyCertSign" \in extract_key_usage(Exts(Cert(name)))[1]
    /\ bc.path_len # Absent => n <= bc.path_len[1]

\* An issuer that was checked when cas CAs were below it.
MayFollow(name, cas, c) == Reads(name) /\ (Anchor(name, c) \/ MaySign(validate_path_extensions(Cert(name)), cas))

\* What holds of the path of a call c, whatever comes next.
InTime(path, c) ==
    \A i \in 1..Len(path) : c.reference_time \in Cert(path[i]).not_before..Cert(path[i]).not_after
Joined(path, c) == \A i \in 1..(Len(path) - 1) : Link(path[i], path[i + 1]) /\ ~Anchor(path[i], c)
Issued(path, c) == \A i \in 2..Len(path) : Anchor(path[i], c) \/ CanIssue(path[i], Cardinality(Below(path, i)))
PathOk(path, c) == InTime(path, c) /\ Joined(path, c) /\ Issued(path, c)

\* The count of CAs covers those below; the current certificate is the last
\* of the path, and its issuer, once checked, may follow it.
Counted(v) == Cardinality(Below(v.visited, Len(v.visited) + 1)) <= v.cas /\ v.cas <= Len(v.visited)
AtEnd(v, c) == Len(v.visited) > 0 /\ v.visited[Len(v.visited)] = v.current /\ ~Anchor(v.current, c)
Checked(v, c) == Link(v.current, v.issuer) /\ MayFollow(v.issuer, v.cas, c)
Entering(v, c) ==
    Len(v.visited) > 0 =>
        /\ ~Anchor(v.visited[Len(v.visited)], c) /\ Link(v.visited[Len(v.visited)], v.current)
        /\ MayFollow(v.current, v.cas, c)
Trusted(v, c) ==
    /\ PathOk(v.visited, c)
    /\ v.pc \in Searching \cup {"enter"} => Counted(v)
    /\ v.pc \in Searching => AtEnd(v, c)
    /\ v.pc \in Judged => Checked(v, c)
    /\ v.pc = "enter" => Entering(v, c)

\* Success is the end of a path at an anchor.
Success(v, c) == v.pc = "done" /\ c.call # "display" /\ Len(v.visited) > 0 /\ Anchor(v.visited[Len(v.visited)], c)
PathInv ==
    /\ w.pc \in {"display", "display fetch"} => start.call = "display"
    /\ start.call # "display" => Trusted(w, start)
    /\ w.result = "ok" => Success(w, start)

\* No path.
LEMMA EmptyPath ==
    ASSUME NEW c, NEW v, v.visited = <<>>, v.cas = 0, v.pc \in {"start", "enter"}
    PROVE  Trusted(v, c)
<1>1. PICK p : p = v.visited
  OBVIOUS
<1>2. p = <<>> /\ Len(p) = 0
  BY <1>1
<1>3. InTime(p, c) /\ Joined(p, c) /\ Issued(p, c)
  <2>1. 1..0 = {} /\ 1..(0 - 1) = {} /\ 2..0 = {}
    OBVIOUS
  <2>2. QED
    BY <1>2, <2>1, Zenon DEF InTime, Joined, Issued
<1>4. Counted(v)
  <2>1. 2..(0 + 1 - 1) = {} /\ 0 <= 0
    OBVIOUS
  <2>2. Below(p, 0 + 1) = {}
    BY DEF Below
  <2>3. Cardinality(Below(p, 0 + 1)) = 0
    BY <2>2, FS_EmptySet, Zenon
  <2>4. QED
    BY <1>1, <1>2, <2>1, <2>3, Zenon DEF Counted
<1>5. ~(Len(p) > 0)
  BY <1>2
<1>6. Entering(v, c)
  BY <1>1, <1>5, Zenon DEF Entering
<1>7. v.pc \notin Searching /\ v.pc \notin Judged
  BY DEF Searching, Judged
<1>8. QED
  BY <1>1, <1>3, <1>4, <1>6, <1>7, Zenon DEF Trusted, PathOk

\* The path is as long as WalkGuard lets it be, and known by name.
LEMMA BelowFinite ==
    ASSUME NEW path, NEW n \in Nat
    PROVE  IsFiniteSet(Below(path, n)) /\ Cardinality(Below(path, n)) \in Nat
<1>1. IsFiniteSet(2..(n - 1))
  BY FS_Interval
<1>2. Below(path, n) \subseteq 2..(n - 1)
  BY DEF Below
<1>3. IsFiniteSet(Below(path, n))
  BY <1>1, <1>2, FS_Subset, Zenon
<1>4. QED
  BY <1>3, FS_CardinalityType, Zenon

\* One certificate more below.
LEMMA BelowNext ==
    ASSUME NEW path, NEW q, NEW n \in Nat, NEW x, \A i \in 1..n : q[i] = path[i], q[n + 1] = x
    PROVE  /\ \A i \in 0..(n + 1) : Below(q, i) = Below(path, i)
           /\ n = 0 \/ Cert(x).issuer = Cert(x).subject =>
                Cardinality(Below(q, n + 2)) = Cardinality(Below(path, n + 1))
           /\ Cardinality(Below(q, n + 2)) <= Cardinality(Below(path, n + 1)) + 1
<1>1. \A i \in 0..(n + 1) : Below(q, i) = Below(path, i)
  <2>1. TAKE i \in 0..(n + 1)
  <2>2. \A j \in 2..(i - 1) : j \in 1..n
    OBVIOUS
  <2>3. \A j \in 2..(i - 1) : q[j] = path[j]
    BY <2>2
  <2>4. QED
    BY <2>3, Zenon DEF Below
<1>2. PICK B, D : B = Below(path, n + 1) /\ D = Below(q, n + 2)
  OBVIOUS
<1>3. \A j : j \in B <=> j \in 2..n /\ Cert(path[j]).issuer # Cert(path[j]).subject
  <2>1. n + 1 - 1 = n
    OBVIOUS
  <2>2. QED
    BY <1>2, <2>1 DEF Below
<1>4. \A j : j \in D <=> j \in 2..(n + 1) /\ Cert(q[j]).issuer # Cert(q[j]).subject
  <2>1. n + 2 - 1 = n + 1
    OBVIOUS
  <2>2. QED
    BY <1>2, <2>1 DEF Below
<1>5. IsFiniteSet(B) /\ Cardinality(B) \in Nat
  BY <1>2, BelowFinite, n + 1 \in Nat, Zenon
<1>6. \A j \in 2..n : j \in 1..n /\ j \in 2..(n + 1)
  OBVIOUS
<1>7. \A j \in 2..(n + 1) : j \in 2..n \/ (j = n + 1 /\ n # 0)
  OBVIOUS
<1>8. n + 1 \notin 2..n
  OBVIOUS
<1>9. D = B \/ D = B \cup {n + 1}
  BY <1>3, <1>4, <1>6, <1>7
<1>10. n = 0 \/ Cert(x).issuer = Cert(x).subject => D = B
  BY <1>3, <1>4, <1>6, <1>7, Zenon
<1>11. Cardinality(D) <= Cardinality(B) + 1
  <2>1. CASE D = B
    BY <1>5, <2>1
  <2>2. CASE D = B \cup {n + 1}
    <3>1. n + 1 \notin B
      BY <1>3, <1>8, Zenon
    <3>2. Cardinality(B \cup {n + 1}) = Cardinality(B) + 1
      BY <1>5, <3>1, FS_AddElement, Zenon
    <3>3. QED
      BY <1>5, <2>2, <3>2
  <2>3. QED
    BY <1>9, <2>1, <2>2
<1>12. QED
  BY <1>1, <1>2, <1>10, <1>11, Zenon

\* The strict profile says what PathIsTrusted reads leniently.
LEMMA IssuerCan ==
    ASSUME NEW name, Reads(name), NEW cas \in Nat, MaySign(validate_path_extensions(Cert(name)), cas), NEW n \in Nat, n <= cas
    PROVE  CanIssue(name, n)
<1>1. PICK exts, p : exts = Exts(Cert(name)) /\ p = path_extension_profile(exts)
  OBVIOUS
<1>2. Ok(p) /\ validate_path_extensions(Cert(name)) = p
  <2>1. validate_path_extensions(Cert(name)) = enforce_policy(p)
    BY <1>1, Zenon DEF validate_path_extensions
  <2>2. Ok(enforce_policy(p))
    BY <2>1, Zenon DEF MaySign
  <2>3. ~Ok([err |-> "Policy"])
    BY DEF Ok
  <2>4. enforce_policy(p) = p
    BY <2>2, <2>3, Zenon DEF enforce_policy
  <2>5. QED
    BY <2>1, <2>2, <2>4, Zenon
<1>3. MaySign(p, cas)
  BY <1>2, Zenon
<1>4. extract_basic_constraints(exts) = p.basic_constraints /\ extract_key_usage(exts) = p.key_usage
  BY <1>1, <1>2, ReadersAgreeOnAll, Zenon
<1>5. p.basic_constraints.path_len # Absent => p.basic_constraints.path_len[1] \in Nat
  BY <1>1, <1>2, CertificateExtensions, SameConstraints, Zenon
<1>6. PICK b, l : b = p.basic_constraints /\ l = b.path_len[1]
  OBVIOUS
<1>7. b.ca /\ "keyCertSign" \in p.key_usage[1] /\ (b.path_len # Absent => cas <= l)
  BY <1>3, <1>6, Zenon DEF MaySign, enforce_path_length
<1>8. b.path_len # Absent => l \in Nat
  BY <1>5, <1>6, Zenon
<1>9. b.path_len # Absent => n <= l
  BY <1>7, <1>8
<1>10. QED
  BY <1>1, <1>4, <1>6, <1>7, <1>9, Zenon DEF CanIssue

\* A path and one certificate more.
Extends(q, path, x) ==
    /\ Len(path) \in Nat /\ Len(q) = Len(path) + 1
    /\ \A i \in 1..Len(path) : q[i] = path[i]
    /\ q[Len(path) + 1] = x

\* The longer path is as good as the shorter one when the certificate is in
\* time, is linked to the last one and may follow it.
LEMMA PathExtended ==
    ASSUME NEW path, NEW q, NEW x, NEW c, NEW cas \in Nat, Extends(q, path, x), PathOk(path, c),
           c.reference_time \in Cert(x).not_before..Cert(x).not_after,
           Len(path) > 0 => ~Anchor(path[Len(path)], c) /\ Link(path[Len(path)], x) /\ MayFollow(x, cas, c),
           Cardinality(Below(path, Len(path) + 1)) <= cas
    PROVE  PathOk(q, c)
<1>1. PICK n : n = Len(path)
  OBVIOUS
<1>2. n \in Nat /\ Len(q) = n + 1 /\ (\A i \in 1..n : q[i] = path[i]) /\ q[n + 1] = x
  BY <1>1, Zenon DEF Extends
<1>3. InTime(q, c)
  <2>1. \A i \in 1..(n + 1) : i \in 1..n \/ i = n + 1
    BY <1>2
  <2>2. \A i \in 1..n : c.reference_time \in Cert(path[i]).not_before..Cert(path[i]).not_after
    BY <1>1, Zenon DEF PathOk, InTime
  <2>3. QED
    BY <1>2, <2>1, <2>2, Zenon DEF InTime
<1>4. Joined(q, c)
  <2>1. Len(q) - 1 = n /\ \A i \in 1..n : i \in 1..(n - 1) \/ (i = n /\ n > 0)
    BY <1>2
  <2>2. \A i \in 1..(n - 1) : i + 1 \in 1..n
    BY <1>2
  <2>3. \A i \in 1..(n - 1) : Link(path[i], path[i + 1]) /\ ~Anchor(path[i], c)
    BY <1>1, Zenon DEF PathOk, Joined
  <2>4. \A i \in 1..(n - 1) : Link(q[i], q[i + 1]) /\ ~Anchor(q[i], c)
    <3>1. \A i \in 1..(n - 1) : i \in 1..n
      BY <1>2
    <3>2. QED
      BY <1>2, <2>2, <2>3, <3>1, Zenon
  <2>5. n > 0 => Link(q[n], q[n + 1]) /\ ~Anchor(q[n], c)
    <3>1. n > 0 => n \in 1..n
      BY <1>2
    <3>2. QED
      BY <1>1, <1>2, <3>1, Zenon
  <2>6. QED
    BY <2>1, <2>4, <2>5, Zenon DEF Joined
<1>5. Issued(q, c)
  <2>1. \A i \in 2..(n + 1) : i \in 0..(n + 1) /\ ((i \in 2..n /\ i \in 1..n) \/ (i = n + 1 /\ n > 0))
    BY <1>2
  <2>2. \A i \in 0..(n + 1) : Below(q, i) = Below(path, i)
    BY <1>2, BelowNext, Zenon
  <2>3. \A i \in 2..n : Anchor(path[i], c) \/ CanIssue(path[i], Cardinality(Below(path, i)))
    BY <1>1, Zenon DEF PathOk, Issued
  <2>4. ASSUME n > 0
        PROVE  Anchor(q[n + 1], c) \/ CanIssue(q[n + 1], Cardinality(Below(q, n + 1)))
    <3>1. Cardinality(Below(path, n + 1)) \in Nat
      BY <1>2, BelowFinite, n + 1 \in Nat, Zenon
    <3>2. Reads(x) /\ (Anchor(x, c) \/ MaySign(validate_path_extensions(Cert(x)), cas))
      BY <1>1, <2>4, Zenon DEF MayFollow
    <3>3. Anchor(x, c) \/ CanIssue(x, Cardinality(Below(path, n + 1)))
      BY <1>1, <3>1, <3>2, IssuerCan, Zenon
    <3>4. n + 1 \in 0..(n + 1)
      BY <1>2
    <3>5. QED
      BY <1>2, <2>2, <3>3, <3>4, Zenon
  <2>5. QED
    BY <1>2, <2>1, <2>2, <2>3, <2>4, Zenon DEF Issued
<1>6. QED
  BY <1>3, <1>4, <1>5, Zenon DEF PathOk

\* Enter keeps the path trusted, and succeeds at an anchor.
LEMMA EntersTrusted ==
    ASSUME NEW u, NEW v, WalkForm(v), v.result # "ok", Enters(u, v), start.reference_time \in Int, Trusted(v, start)
    PROVE  Trusted(u, start) /\ (u.result = "ok" => Success(u, start))
<1>1. PICK c, path, q, n, x : c = start /\ path = v.visited /\ q = u.visited /\ n = Len(path) /\ x = v.current
  OBVIOUS
<1>2. PICK p, a, b : p = validate_path_extensions(Cert(x)) /\ a = v.cas /\ b = u.cas
  OBVIOUS
<1>3. Counted(v) /\ Entering(v, c) /\ PathOk(path, c)
  <2>1. v.pc = "enter"
    BY Zenon DEF Enters
  <2>2. QED
    BY <1>1, <2>1, Zenon DEF Trusted
<1>4. Extends(q, path, x)
  <2>1. x \in DOMAIN Der
    BY <1>1 DEF Enters, Reads, Certs
  <2>2. path \in Seq(DOMAIN Der)
    BY <1>1, Zenon DEF WalkForm
  <2>3. q = Append(path, x)
    BY <1>1, Zenon DEF Enters
  <2>4. QED
    BY <2>1, <2>2, <2>3 DEF Extends
<1>5. n \in Nat /\ Len(q) = n + 1 /\ (\A i \in 1..n : q[i] = path[i]) /\ q[n + 1] = x
  BY <1>1, <1>4, Zenon DEF Extends
<1>6. a \in Nat /\ MAX_DEPTH \in Nat /\ ~(n >= MAX_DEPTH)
  <2>1. a \in 0..MAX_DEPTH /\ ~(n >= MAX_DEPTH)
    BY <1>1, <1>2, Zenon DEF WalkForm, Enters
  <2>2. QED
    BY <2>1, TrustAssumption
<1>7. c.reference_time \in Cert(x).not_before..Cert(x).not_after
  <2>1. CertificateForm(Cert(x))
    BY <1>1, CertificateExtensions, Zenon DEF Enters
  <2>2. PICK t, nb, na : t = c.reference_time /\ nb = Cert(x).not_before /\ na = Cert(x).not_after
    OBVIOUS
  <2>3. t \in Int /\ nb \in Int /\ na \in Int
    BY <1>1, <2>1, <2>2, Zenon DEF CertificateForm
  <2>4. t >= nb /\ t <= na
    BY <1>1, <2>2, Zenon DEF Enters, validate_certificate_time
  <2>5. t \in nb..na
    BY <2>3, <2>4
  <2>6. QED
    BY <2>2, <2>5, Zenon
<1>8. n > 0 => ~Anchor(path[n], c) /\ Link(path[n], x) /\ MayFollow(x, a, c)
  BY <1>1, <1>2, <1>3, Zenon DEF Entering
<1>9. PICK k, m : k = Cardinality(Below(path, n + 1)) /\ m = Cardinality(Below(q, n + 2))
  OBVIOUS
<1>10. k <= a /\ a <= n
  BY <1>1, <1>2, <1>3, <1>9, Zenon DEF Counted
<1>11. PathOk(q, c)
  BY <1>1, <1>3, <1>4, <1>6, <1>7, <1>8, <1>9, <1>10, PathExtended, Zenon
<1>12. (u.pc = "done" \/ u.pc = "search") /\ u.current = x
  BY <1>1, Zenon DEF Enters
<1>13. ASSUME u.pc = "done" PROVE Trusted(u, c)
  <2>1. u.pc \notin Searching \cup {"enter"} /\ u.pc \notin Searching /\ u.pc \notin Judged /\ u.pc # "enter"
    BY <1>13 DEF Searching, Judged
  <2>2. QED
    BY <1>1, <1>11, <2>1, Zenon DEF Trusted
<1>14. ASSUME u.result = "ok", u.pc = "done" PROVE Success(u, c)
  <2>1. Anchor(x, c) /\ c.call # "display"
    <3>1. IsAnchor(x)
      <4>1. u.pc # "search"
        BY <1>14
      <4>2. QED
        BY <1>1, <1>14, <4>1, Zenon DEF Enters
    <3>2. QED
      BY <1>1, <3>1, Zenon DEF IsAnchor, Anchor, Enters
  <2>2. Len(q) > 0
    BY <1>5
  <2>3. QED
    BY <1>1, <1>5, <1>14, <2>1, <2>2, Zenon DEF Success
<1>15. ASSUME u.pc = "search" PROVE Trusted(u, c) /\ ~Success(u, c) /\ u.result = v.result
  <2>1. /\ ~Anchor(x, c) /\ u.result = v.result
        /\ b = IF p.basic_constraints.ca /\ Cert(x).issuer # Cert(x).subject /\ a < MAX_DEPTH THEN a + 1 ELSE a
    <3>1. u.pc # "done"
      BY <1>15
    <3>2. QED
      BY <1>1, <1>2, <3>1, Zenon DEF Enters, IsAnchor, Anchor
  <2>2. k \in Nat
    BY <1>5, <1>9, BelowFinite, n + 1 \in Nat, Zenon
  <2>3. m \in Nat
    BY <1>5, <1>9, BelowFinite, n + 2 \in Nat, Zenon
  <2>4. (n = 0 \/ Cert(x).issuer = Cert(x).subject => m = k) /\ m <= k + 1
    BY <1>5, <1>9, BelowNext, Zenon
  <2>5. a < MAX_DEPTH
    BY <1>5, <1>6, <1>10
  <2>6. n > 0 => p.basic_constraints.ca
    BY <1>2, <1>8, <2>1, Zenon DEF MayFollow, MaySign
  <2>7. (b = a \/ b = a + 1) /\ (n > 0 /\ Cert(x).issuer # Cert(x).subject => b = a + 1)
    BY <2>1, <2>5, <2>6, Zenon
  <2>8. m <= b /\ b <= n + 1
    <3>1. n = 0 \/ n > 0
      BY <1>5
    <3>2. CASE m = k
      BY <1>5, <1>6, <1>10, <2>2, <2>7, <3>2
    <3>3. CASE n > 0 /\ Cert(x).issuer # Cert(x).subject
      BY <1>5, <1>6, <1>10, <2>2, <2>3, <2>4, <2>7, <3>3
    <3>4. QED
      BY <2>4, <3>1, <3>2, <3>3, Zenon
  <2>9. Counted(u)
    <3>1. n + 1 + 1 = n + 2
      BY <1>5
    <3>2. Cardinality(Below(q, Len(q) + 1)) = m
      BY <1>5, <1>9, <3>1, Zenon
    <3>3. QED
      BY <1>1, <1>2, <1>5, <2>8, <3>2, Zenon DEF Counted
  <2>10. AtEnd(u, c)
    <3>1. n + 1 > 0
      BY <1>5
    <3>2. QED
      BY <1>1, <1>5, <1>12, <2>1, <3>1, Zenon DEF AtEnd
  <2>11. u.pc \notin Judged /\ u.pc # "enter" /\ u.pc # "done"
    BY <1>15 DEF Judged
  <2>12. QED
    BY <1>1, <1>11, <2>1, <2>9, <2>10, <2>11, Zenon DEF Trusted, Success
<1>16. Trusted(u, c)
  BY <1>12, <1>13, <1>15, Zenon
<1>17. u.result = "ok" => Success(u, c)
  BY <1>12, <1>14, <1>15, Zenon
<1>18. QED
  BY <1>1, <1>16, <1>17, Zenon

\* A walk that ends keeps its path.
LEMMA EndTrusted ==
    ASSUME NEW u, NEW v, NEW c, Trusted(v, c), u.visited = v.visited, u.pc = "done"
    PROVE  Trusted(u, c)
<1>1. u.pc \notin Searching \cup {"enter"} /\ u.pc \notin Searching /\ u.pc \notin Judged /\ u.pc # "enter"
  BY DEF Searching, Judged
<1>2. QED
  BY <1>1, Zenon DEF Trusted

\* The search goes on; an issuer is judged once it was checked.
LEMMA GoesTrusted ==
    ASSUME NEW u, NEW v, NEW c, NEW pc, Trusted(v, c), Goes(u, v, pc), v.pc \in Searching, pc \in Searching,
           pc \in Judged => Checked(v, c) /\ u.issuer = v.issuer
    PROVE  Trusted(u, c)
<1>1. v.pc \in Searching \cup {"enter"}
  BY Zenon
<1>2. Counted(v) /\ AtEnd(v, c) /\ PathOk(v.visited, c)
  BY <1>1, Zenon DEF Trusted
<1>3. u.pc = pc /\ u.visited = v.visited /\ u.cas = v.cas /\ u.current = v.current
  BY Zenon DEF Goes
<1>4. Counted(u) /\ AtEnd(u, c) /\ PathOk(u.visited, c)
  BY <1>2, <1>3, Zenon DEF Counted, AtEnd
<1>5. u.pc \in Judged => Checked(u, c)
  BY <1>3, Zenon DEF Checked
<1>6. u.pc # "enter"
  BY <1>3 DEF Searching
<1>7. QED
  BY <1>4, <1>5, <1>6, Zenon DEF Trusted

\* The issuer that was judged is the next to enter.
LEMMA ClimbsTrusted ==
    ASSUME NEW u, NEW v, NEW c, Trusted(v, c), Climbs(u, v), v.pc = "climb"
    PROVE  Trusted(u, c)
<1>1. v.pc \in Searching \cup {"enter"} /\ v.pc \in Searching /\ v.pc \in Judged
  BY DEF Searching, Judged
<1>2. Counted(v) /\ AtEnd(v, c) /\ Checked(v, c) /\ PathOk(v.visited, c)
  BY <1>1, Zenon DEF Trusted
<1>3. u.pc = "enter" /\ u.visited = v.visited /\ u.cas = v.cas /\ u.current = v.issuer
  BY Zenon DEF Climbs
<1>4. Counted(u) /\ Entering(u, c) /\ PathOk(u.visited, c)
  BY <1>2, <1>3, Zenon DEF Counted, AtEnd, Checked, Entering
<1>5. u.pc \notin Searching /\ u.pc \notin Judged
  BY <1>3 DEF Searching, Judged
<1>6. QED
  BY <1>4, <1>5, Zenon DEF Trusted

\* What Linked and find_issuer ask of an issuer.
LEMMA AcceptedIssuer ==
    ASSUME Accepts(w.issuer)
    PROVE  Checked(w, start)
<1>1. Reads(w.issuer)
  BY Zenon DEF Accepts
<1>2. /\ Cert(w.current).issuer = Cert(w.issuer).subject /\ verify_signed_by(Cert(w.current), Cert(w.issuer)) = ""
      /\ IsAnchor(w.issuer) \/ MaySign(validate_path_extensions(Cert(w.issuer)), w.cas)
  BY Zenon DEF Accepts, validate_direct_issuer_for_path, validate_issuing_certificate
<1>3. QED
  BY <1>1, <1>2, Zenon DEF Checked, Link, MayFollow, IsAnchor, Anchor

\* Each step keeps the path trusted.
LEMMA PathKept ==
    ASSUME ControlInv, PathInv, Advance
    PROVE  PathInv'
<1>1. PICK u, v, c, d : u = w' /\ v = w /\ c = start /\ d = start'
  OBVIOUS
<1>2. /\ v.pc \in {"display", "display fetch"} => c.call = "display"
      /\ c.call # "display" => Trusted(v, c)
      /\ v.result = "ok" => Success(v, c)
  BY <1>1, Zenon DEF PathInv
<1>3. SUFFICES /\ u.pc \in {"display", "display fetch"} => d.call = "display"
               /\ d.call # "display" => Trusted(u, d)
               /\ u.result = "ok" => Success(u, d)
  BY <1>1, <1>3, Zenon DEF PathInv
<1>4. calls' = calls => d = c
  BY <1>1, Zenon DEF start
<1>5. v.pc # "done" => v.result # "ok"
  BY <1>2, Zenon DEF Success
<1>6. CASE calls' = calls /\ u = v
  BY <1>2, <1>4, <1>6, Zenon
<1>7. CASE calls' = calls /\ Stops(u, v)
  <2>1. u.pc = "done" /\ u.result # "ok" /\ u.visited = v.visited
    BY <1>7, Zenon DEF Stops
  <2>2. u.pc \notin {"display", "display fetch"}
    BY <2>1
  <2>3. QED
    BY <1>2, <1>4, <1>7, <2>1, <2>2, EndTrusted, Zenon
<1>8. CASE calls' = calls /\ Begins(u, v)
  <2>1. u.pc = "enter" /\ u.result = "" /\ u.visited = <<>> /\ u.cas = 0
    BY <1>8, Zenon DEF Begins
  <2>2. u.pc \notin {"display", "display fetch"} /\ u.pc \in {"start", "enter"} /\ u.result # "ok"
    BY <2>1
  <2>3. QED
    BY <2>1, <2>2, EmptyPath, Zenon
<1>9. CASE calls' = calls /\ Enters(u, v)
  <2>1. WalkForm(v)
    BY <1>1, Zenon DEF ControlInv
  <2>2. start.reference_time \in Int
    <3>1. 1 \in DOMAIN calls
      <4>1. PICK k, S : k = calls /\ S = Range(k)
        OBVIOUS
      <4>2. k \in Seq(S) /\ k # <<>>
        BY <4>1, Zenon DEF ControlInv, CallsForm, IsSequence
      <4>3. QED
        BY <4>1, <4>2
    <3>2. QED
      BY <3>1, Zenon DEF ControlInv, CallsForm, CallForm, start
  <2>3. v.pc = "enter" /\ c.call # "display"
    BY <1>1, <1>9, Zenon DEF Enters
  <2>4. v.result # "ok"
    <3>1. v.pc # "done"
      BY <2>3
    <3>2. QED
      BY <1>5, <3>1, Zenon
  <2>5. Trusted(v, start)
    BY <1>1, <1>2, <2>3, Zenon
  <2>6. Trusted(u, start) /\ (u.result = "ok" => Success(u, start))
    BY <1>9, <2>1, <2>2, <2>4, <2>5, EntersTrusted, Zenon
  <2>7. u.pc \notin {"display", "display fetch"}
    <3>1. u.pc = "done" \/ u.pc = "search"
      BY <1>9, Zenon DEF Enters
    <3>2. QED
      BY <3>1
  <2>8. QED
    BY <1>1, <1>4, <1>9, <2>6, <2>7, Zenon
<1>10. ASSUME NEW pc \in Searching, v.pc \in Searching, calls' = calls, Goes(u, v, pc),
              pc \in Judged => (v.pc \in Judged \/ Checked(v, c)) /\ u.issuer = v.issuer
       PROVE  /\ u.pc \in {"display", "display fetch"} => d.call = "display"
              /\ d.call # "display" => Trusted(u, d)
              /\ u.result = "ok" => Success(u, d)
  <2>1. u.pc = pc /\ u.result = v.result
    BY <1>10, Zenon DEF Goes
  <2>2. pc \notin {"display", "display fetch"} /\ v.pc # "done"
    BY <1>10 DEF Searching
  <2>3. c.call # "display" /\ pc \in Judged => Checked(v, c)
    BY <1>2, <1>10, Zenon DEF Trusted
  <2>4. c.call # "display" => Trusted(u, c)
    BY <1>2, <1>10, <2>3, GoesTrusted, Zenon
  <2>5. QED
    BY <1>4, <1>5, <1>10, <2>1, <2>2, <2>4, Zenon
<1>11. CASE calls' = calls /\ Searched
  <2>1. {"search", "fetch", "linked"} \subseteq Searching /\ \A pc \in {"linked", "fetch"} : pc \notin Judged
    BY DEF Searching, Judged
  <2>2. v.pc \in {"search", "fetch"} /\ \E pc \in {"linked", "fetch"} : Goes(u, v, pc)
    BY <1>1, <1>11, Zenon DEF Searched
  <2>3. v.pc \in Searching /\ {"linked", "fetch"} \subseteq Searching
    BY <2>1, <2>2
  <2>4. QED
    BY <1>10, <1>11, <2>1, <2>2, <2>3, Zenon
<1>12. CASE calls' = calls /\ Adopted
  <2>1. {"linked", "climb", "ocsp", "crl?"} \subseteq Searching
    BY DEF Searching
  <2>2. Checked(v, c)
    BY <1>1, <1>12, AcceptedIssuer, Zenon DEF Adopted
  <2>3. v.pc = "linked" /\ u.issuer = v.issuer /\ (Goes(u, v, "climb") \/ Goes(u, v, "ocsp") \/ Goes(u, v, "crl?"))
    BY <1>1, <1>12, Zenon DEF Adopted
  <2>4. QED
    BY <1>10, <1>12, <2>1, <2>2, <2>3, Zenon
<1>13. ASSUME NEW pc \in {"ocsp", "crl?", "crl", "climb"}, calls' = calls, v.pc \in {"ocsp", "crl?", "crl"},
              u.issuer = v.issuer, Goes(u, v, pc)
       PROVE  /\ u.pc \in {"display", "display fetch"} => d.call = "display"
              /\ d.call # "display" => Trusted(u, d)
              /\ u.result = "ok" => Success(u, d)
  <2>1. pc \in Searching /\ v.pc \in Searching /\ v.pc \in Judged
    BY <1>13 DEF Searching, Judged
  <2>2. QED
    BY <1>10, <1>13, <2>1, Zenon
<1>14. CASE calls' = calls /\ Asked
  BY <1>1, <1>13, <1>14, Zenon DEF Asked
<1>15. CASE ClearedNow
  BY <1>1, <1>13, <1>15, Zenon DEF ClearedNow
<1>16. CASE calls' = calls /\ v.pc = "climb" /\ Climbs(u, v)
  <2>1. u.pc = "enter" /\ u.result = v.result
    BY <1>16, Zenon DEF Climbs
  <2>2. u.pc \notin {"display", "display fetch"} /\ v.pc # "done"
    BY <1>16, <2>1
  <2>3. QED
    BY <1>2, <1>4, <1>5, <1>16, <2>1, <2>2, ClimbsTrusted, Zenon
<1>17. CASE u = NoWalk
  <2>1. u.pc = "start" /\ u.result = "" /\ u.visited = <<>> /\ u.cas = 0
    BY <1>17 DEF NoWalk
  <2>2. u.pc \notin {"display", "display fetch"} /\ u.pc \in {"start", "enter"} /\ u.result # "ok"
    BY <2>1
  <2>3. QED
    BY <2>1, <2>2, EmptyPath, Zenon
<1>18. CASE calls' = calls /\ Shows(u, v)
  <2>1. v.pc = "enter" /\ c.call = "display" /\ (u.result # "ok" \/ u.result = v.result)
    BY <1>1, <1>18, Zenon DEF Shows
  <2>2. v.pc # "done"
    BY <2>1
  <2>3. QED
    BY <1>4, <1>5, <1>18, <2>1, <2>2, Zenon
<1>19. CASE calls' = calls /\ v.pc \in {"display", "display fetch"} /\ (Goes(u, v, "display") \/ Climbs(u, v))
  <2>1. u.result = v.result
    BY <1>19, Zenon DEF Goes, Climbs
  <2>2. v.pc # "done"
    BY <1>19
  <2>3. QED
    BY <1>2, <1>4, <1>5, <1>19, <2>1, <2>2, Zenon
<1>20. QED
  BY <1>1, <1>6, <1>7, <1>8, <1>9, <1>11, <1>12, <1>14, <1>15, <1>16, <1>17, <1>18, <1>19, Zenon
     DEF Advance, Quiet, Verdictless, Doubt, Halted

(***************************************************************************)
(* The evidence                                                            *)
(***************************************************************************)

\* A signature that verifies was made with that key over those octets.
LEMMA SignatureOf ==
    ASSUME NEW tbs, NEW oid, NEW bits, NEW spki, verify_tbs_signature(tbs, oid, bits, spki) = ""
    PROVE  bits = <<"signature", oid, spki.key, tbs>>
<1>1. "Unsupported" # "" /\ "BadIssuerKey" # "" /\ "BadSignature" # ""
  OBVIOUS
<1>2. QED
  BY <1>1, Zenon DEF verify_tbs_signature

\* The first of some positions, as the readers use it.
LEMMA FoundFirst ==
    ASSUME NEW s, IsSequence(s), NEW T, T \subseteq DOMAIN s, FirstOf(T) # 0
    PROVE  FirstOf(T) \in T
<1>1. T \subseteq Nat \ {0}
  BY PositionsOf, Zenon
<1>2. QED
  BY <1>1, FirstPosition, Zenon

\* A responder the issuer did not certify itself was certified by it for this.
LEMMA ResponderAuthorised ==
    ASSUME NEW n, Reads(n), NEW issuer, NEW at, authorize_signer(Cert(n), issuer, at) = ""
    PROVE  \/ Cert(n).raw = issuer.raw
           \/ /\ Cert(n).issuer = issuer.subject /\ verify_signed_by(Cert(n), issuer) = ""
              /\ \E eku \in Range(extract_extended_key_usage_meta(Exts(Cert(n)))) : "KP_OCSP_SIGNING" \in eku.oids
<1>1. PICK s, exts, p : s = Cert(n) /\ exts = Exts(s) /\ p = path_extension_profile(exts)
  OBVIOUS
<1>2. "UnauthorizedResponder" # "" /\ "MalformedNoCheck" # "" /\ "ResponderRevocationRequired" # ""
  OBVIOUS
<1>3. CASE s.raw # issuer.raw
  <2>1. s.issuer = issuer.subject /\ verify_signed_by(s, issuer) = "" /\ s.extensions # Absent
    BY <1>1, <1>2, <1>3, Zenon DEF authorize_signer
  <2>2. authorize_responder_extensions(s.extensions[1]) = ""
    BY <1>1, <1>2, <1>3, Zenon DEF authorize_signer
  <2>3. exts = s.extensions[1]
    BY <1>1, <2>1, Zenon DEF Exts
  <2>4. ResponderProfile(p) = ""
    BY <1>1, <2>2, <2>3, Zenon DEF authorize_responder_extensions
  <2>5. Ok(p) /\ p.ocsp_signing
    BY <1>2, <2>4, Zenon DEF ResponderProfile
  <2>6. ExtensionsForm(exts)
    BY <1>1, CertificateExtensions, Zenon
  <2>7. \E eku \in Range(extract_extended_key_usage_meta(exts)) : "KP_OCSP_SIGNING" \in eku.oids
    BY <1>1, <2>5, <2>6, SamePurposes, Zenon
  <2>8. QED
    BY <1>1, <2>1, <2>7, Zenon
<1>4. QED
  BY <1>1, <1>3, Zenon

\* check_response: whose key made an answer that counts.
LEMMA ResponseSigned ==
    ASSUME NEW basic, NEW b, Reads(b), Signed(basic, Cert(b))
    PROVE  SignedFor(basic, Cert(b))
<1>1. PICK n : Reads(n) /\ VerifiedOcspResponse_verify(basic, Cert(n), Cert(b)) = ""
  BY Zenon DEF Signed
<1>2. "ResponderIdMismatch" # "" /\ "Signature" # ""
  OBVIOUS
<1>3. /\ verify_tbs_signature(basic.tbs, basic.alg, basic.bits, Cert(n).spki) = ""
      /\ authorize_signer(Cert(n), Cert(b), basic.produced_at) = ""
  BY <1>1, <1>2, Zenon DEF VerifiedOcspResponse_verify
<1>4. n \in DOMAIN Der /\ Ok(Cert(n))
  BY <1>1 DEF Reads, Certs
<1>5. basic.bits = <<"signature", basic.alg, Cert(n).spki.key, basic.tbs>>
  BY <1>3, SignatureOf, Zenon
<1>6. QED
  BY <1>1, <1>3, <1>4, <1>5, ResponderAuthorised, Zenon DEF SignedFor

\* An answer that counts has its response in it.
LEMMA ResponseFound ==
    ASSUME NEW basic, IsSequence(basic.responses), NEW name, NEW key, NEW serial,
           response_for(basic, name, key, serial) # Absent
    PROVE  \E r \in Range(basic.responses) :
               /\ response_for(basic, name, key, serial) = <<r>>
               /\ matches_request(r.cert_id, name, key, serial)
<1>1. PICK s, T : /\ s = basic.responses
                  /\ T = {i \in DOMAIN basic.responses : matches_request(basic.responses[i].cert_id, name, key, serial)}
  OBVIOUS
<1>2. response_for(basic, name, key, serial) = IF FirstOf(T) = 0 THEN Absent ELSE <<s[FirstOf(T)]>>
  BY <1>1, Zenon DEF response_for
<1>3. FirstOf(T) # 0
  BY <1>2, Zenon
<1>4. T \subseteq DOMAIN s
  BY <1>1
<1>5. FirstOf(T) \in T
  BY <1>1, <1>3, <1>4, FoundFirst, Zenon
<1>6. PICK i : i = FirstOf(T)
  OBVIOUS
<1>7. i \in DOMAIN s /\ matches_request(s[i].cert_id, name, key, serial)
  BY <1>1, <1>5, <1>6, Zenon
<1>8. s[i] \in Range(s) /\ response_for(basic, name, key, serial) = <<s[i]>>
  BY <1>2, <1>3, <1>6, <1>7, Zenon DEF Range
<1>9. QED
  BY <1>1, <1>7, <1>8, Zenon

\* check_response: an answer that is kept clears the certificate.
LEMMA ResponseClears ==
    ASSUME NEW policy, NEW body, NEW nonce, NEW a, NEW b, Reads(b), Link(a, b),
           check_response(policy, ParsedResponse(body, nonce), Cert(a), Cert(b), nonce) = ""
    PROVE  ClearedByOcsp(<<body, nonce>>, Cert(a), Cert(b), policy)
<1>1. PICK r, basic, c, issuer : /\ r = ParsedResponse(body, nonce) /\ basic = r.basic[1]
                                 /\ c = Cert(a) /\ issuer = Cert(b)
  OBVIOUS
<1>2. PICK name, key, serial : name = IssuerNameHash(c.issuer) /\ key = IssuerKeyHash(issuer.spki) /\ serial = c.serial
  OBVIOUS
<1>21. PICK answer : answer = response_for(basic, name, key, serial)
  OBVIOUS
<1>3. "Revocation" # "" /\ "Revoked" # ""
  OBVIOUS
<1>4. /\ Ok(r) /\ r.basic # Absent /\ Signed(basic, issuer)
      /\ ~(IF basic.nonce = Absent THEN policy = "RequireEcho" ELSE basic.nonce[1] # nonce)
      /\ Verdict(answer, basic.produced_at) = ""
  BY <1>1, <1>2, <1>3, <1>21, Zenon DEF check_response
<1>5. IsSequence(basic.responses)
  <2>1. ~Ok(UnexpectedStructure)
    BY DEF Ok, UnexpectedStructure
  <2>2. body \in DOMAIN Responses /\ nonce \in DOMAIN Responses[body] /\ r = Responses[body][nonce]
    BY <1>1, <1>4, <2>1, Zenon DEF ParsedResponse
  <2>3. body \in DOMAIN OcspDer
    BY <2>2 DEF Responses
  <2>4. DOMAIN Responses[body] = DOMAIN OcspDer[body]
    BY <2>3 DEF Responses
  <2>5. QED
    BY <1>1, <1>4, <2>2, <2>3, <2>4, TrustAssumption, Zenon
<1>6. answer # Absent /\ check_ocsp_times(basic.produced_at, answer[1].this_update, answer[1].next_update)
      /\ answer[1].status.kind = "good"
  BY <1>3, <1>4, Zenon DEF Verdict
<1>7. PICK e \in Range(basic.responses) :
        /\ answer = <<e>>
        /\ matches_request(e.cert_id, name, key, serial)
  <2>1. response_for(basic, name, key, serial) # Absent
    BY <1>6, <1>21, Zenon
  <2>2. \E e \in Range(basic.responses) :
          /\ response_for(basic, name, key, serial) = <<e>>
          /\ matches_request(e.cert_id, name, key, serial)
    BY <1>5, <2>1, ResponseFound, Zenon
  <2>3. QED
    BY <1>21, <2>2, Zenon
<1>8. answer[1] = e
  <2>1. \A y : <<y>>[1] = y
    OBVIOUS
  <2>2. QED
    BY <1>7, <2>1, Zenon
<1>9. e.status.kind = "good" /\ (e.next_update # Absent => Now <= e.next_update[1] + MAX_CLOCK_SKEW)
  BY <1>6, <1>8, Zenon DEF check_ocsp_times
<1>10. c.issuer = issuer.subject
  BY <1>1, Zenon DEF Link
<1>11. e.cert_id = encode_request(IssuerNameHash(issuer.subject), IssuerKeyHash(issuer.spki), c.serial, nonce).cert_id
  <2>2. encode_request(name, key, serial, nonce).cert_id = [alg |-> "SHA-1", name |-> name, key |-> key, serial |-> serial]
    BY DEF encode_request
  <2>3. QED
    BY <1>2, <1>7, <1>10, <2>2, Zenon DEF matches_request
<1>12. SignedFor(basic, issuer)
  BY <1>1, <1>4, ResponseSigned, Zenon
<1>13. IF basic.nonce = Absent THEN policy # "RequireEcho" ELSE basic.nonce[1] = nonce
  BY <1>4, Zenon
<1>14. PICK x : x = <<body, nonce>>
  OBVIOUS
<1>15. x[1] = body /\ x[2] = nonce
  BY <1>14
<1>16. ClearedByOcsp(x, c, issuer, policy)
  BY <1>1, <1>9, <1>11, <1>12, <1>13, <1>15, Zenon DEF ClearedByOcsp
<1>17. QED
  BY <1>1, <1>14, <1>16, Zenon

\* check_list: a list that is kept clears the certificate.
LEMMA ListClears ==
    ASSUME NEW body, NEW a, NEW b, check_list(ParsedList(body), Cert(a), Cert(b)) = ""
    PROVE  ClearedByCrl(body, Cert(a), Cert(b))
<1>1. PICK list, c, issuer : list = ParsedList(body) /\ c = Cert(a) /\ issuer = Cert(b)
  OBVIOUS
<1>2. "Revocation" # "" /\ "Revoked" # "" /\ "IssuerNameMismatch" # "" /\ "IssuerNotAuthorized" # ""
  OBVIOUS
<1>3. /\ Ok(list) /\ check_crl_times(list.this_update, list.next_update)
      /\ VerifiedCrl_verify(list, issuer) = "" /\ check_against_crl(c, list, Now) = "Good"
  BY <1>1, <1>2, Zenon DEF check_list
<1>4. PICK usage : usage = IF issuer.extensions = Absent THEN Absent ELSE extract_key_usage(issuer.extensions[1])
  OBVIOUS
<1>5. /\ usage # Absent /\ "cRLSign" \in usage[1]
      /\ verify_tbs_signature(list.tbs, list.alg, list.bits, issuer.spki) = ""
  BY <1>2, <1>3, <1>4, Zenon DEF VerifiedCrl_verify
<1>6. "cRLSign" \in extract_key_usage(Exts(issuer))[1]
  BY <1>4, <1>5, Zenon DEF Exts
<1>7. list.bits = <<"signature", list.alg, issuer.spki.key, list.tbs>>
  BY <1>5, SignatureOf, Zenon
<1>8. "Inapplicable" # "Good" /\ "Stale" # "Good" /\ "Revoked" # "Good"
  OBVIOUS
<1>9. list.issuer = c.issuer /\ find_serial(list, c.serial) = Absent
  BY <1>3, <1>8, Zenon DEF check_against_crl
<1>10. Now <= list.next_update[1] + MAX_CLOCK_SKEW
  BY <1>3, Zenon DEF check_crl_times
<1>11. c.serial \notin {y.serial : y \in Range(list.revoked)}
  <2>1. IsSequence(list.revoked)
    <3>1. ~Ok(UnexpectedStructure)
      BY DEF Ok, UnexpectedStructure
    <3>2. body \in DOMAIN Lists /\ list = Lists[body]
      BY <1>1, <1>3, <3>1, Zenon DEF ParsedList
    <3>3. body \in DOMAIN CrlDer
      BY <3>2 DEF Lists
    <3>4. QED
      BY <1>3, <3>2, <3>3, TrustAssumption, Zenon
  <2>2. PICK s, k, T : /\ s = list.revoked /\ k = c.serial
                       /\ T = {i \in DOMAIN list.revoked : list.revoked[i].serial = c.serial}
    OBVIOUS
  <2>3. T \subseteq Nat \ {0}
    BY <2>1, <2>2, PositionsOf, Zenon
  <2>4. FirstOf(T) = 0
    <3>1. \A y : <<y>> # Absent
      BY DEF Absent
    <3>2. QED
      BY <1>9, <2>2, <3>1, Zenon DEF find_serial
  <2>5. T = {}
    BY <2>3, <2>4, FirstPosition, Zenon
  <2>6. QED
    BY <2>2, <2>5, Zenon DEF Range
<1>12. QED
  BY <1>1, <1>6, <1>7, <1>9, <1>10, <1>11, Zenon DEF ClearedByCrl

\* The material m clears a for its issuer b.
ClearedLink(a, b, m, policy) ==
    \/ \E x \in Range(m.ocsp) : ClearedByOcsp(x, Cert(a), Cert(b), policy)
    \/ \E x \in Range(m.crls) : ClearedByCrl(x, Cert(a), Cert(b))

\* It clears every link of the path, and the next one once it is judged.
PathCleared(path, m, policy) == \A i \in 1..(Len(path) - 1) : ClearedLink(path[i], path[i + 1], m, policy)
Evidenced(v, m, policy) ==
    /\ PathCleared(v.visited, m, policy)
    /\ v.pc = "climb" => ClearedLink(v.current, v.issuer, m, policy)
    /\ v.pc = "enter" /\ Len(v.visited) > 0 => ClearedLink(v.visited[Len(v.visited)], v.current, m, policy)
EvidenceInv == start.call = "collect" => Evidenced(w, material, start.nonce_policy)

\* No evidence is lost.
More(n, m) == Range(m.ocsp) \subseteq Range(n.ocsp) /\ Range(m.crls) \subseteq Range(n.crls)
\* What was cleared stays cleared.
LEMMA StillCleared ==
    ASSUME NEW m, NEW n, More(n, m), NEW policy
    PROVE  /\ \A a, b : ClearedLink(a, b, m, policy) => ClearedLink(a, b, n, policy)
           /\ \A path : PathCleared(path, m, policy) => PathCleared(path, n, policy)
<1>1. \A a, b : ClearedLink(a, b, m, policy) => ClearedLink(a, b, n, policy)
  BY Zenon DEF ClearedLink, More
<1>2. QED
  BY <1>1, Zenon DEF PathCleared

\* A path without links needs none.
LEMMA NothingToClear ==
    ASSUME NEW v, v.visited = <<>>, v.pc # "climb", NEW m, NEW policy
    PROVE  Evidenced(v, m, policy)
<1>1. PICK p : p = v.visited
  OBVIOUS
<1>2. Len(p) = 0 /\ ~(Len(p) > 0) /\ 1..(Len(p) - 1) = {}
  BY <1>1
<1>3. QED
  BY <1>1, <1>2, Zenon DEF Evidenced, PathCleared

\* The certificate that enters was cleared for the one below it.
LEMMA EntersCleared ==
    ASSUME NEW u, NEW v, WalkForm(v), Enters(u, v), NEW m, NEW policy, Evidenced(v, m, policy)
    PROVE  Evidenced(u, m, policy)
<1>1. PICK path, q, n, x : path = v.visited /\ q = u.visited /\ n = Len(path) /\ x = v.current
  OBVIOUS
<1>2. Extends(q, path, x)
  <2>1. x \in DOMAIN Der
    BY <1>1 DEF Enters, Reads, Certs
  <2>2. path \in Seq(DOMAIN Der)
    BY <1>1, Zenon DEF WalkForm
  <2>3. q = Append(path, x)
    BY <1>1, Zenon DEF Enters
  <2>4. QED
    BY <2>1, <2>2, <2>3 DEF Extends
<1>3. n \in Nat /\ Len(q) = n + 1 /\ (\A i \in 1..n : q[i] = path[i]) /\ q[n + 1] = x
  BY <1>1, <1>2, Zenon DEF Extends
<1>4. Len(q) - 1 = n /\ \A i \in 1..n : i \in 1..(n - 1) \/ (i = n /\ n > 0)
  BY <1>3
<1>5. \A i \in 1..(n - 1) : i \in 1..n /\ i + 1 \in 1..n
  BY <1>3
<1>6. \A i \in 1..(n - 1) : ClearedLink(path[i], path[i + 1], m, policy)
  BY <1>1, Zenon DEF Evidenced, PathCleared
<1>7. \A i \in 1..(n - 1) : ClearedLink(q[i], q[i + 1], m, policy)
  BY <1>3, <1>5, <1>6, Zenon
<1>8. n > 0 => ClearedLink(q[n], q[n + 1], m, policy)
  <2>1. n > 0 => n \in 1..n
    BY <1>3
  <2>2. v.pc = "enter"
    BY Zenon DEF Enters
  <2>3. n > 0 => ClearedLink(path[n], x, m, policy)
    BY <1>1, <2>2, Zenon DEF Evidenced
  <2>4. QED
    BY <1>3, <2>1, <2>3, Zenon
<1>9. PathCleared(q, m, policy)
  BY <1>4, <1>7, <1>8, Zenon DEF PathCleared
<1>10. u.pc # "climb" /\ u.pc # "enter"
  <2>1. u.pc = "done" \/ u.pc = "search"
    BY Zenon DEF Enters
  <2>2. QED
    BY <2>1
<1>11. QED
  BY <1>1, <1>9, <1>10, Zenon DEF Evidenced

\* Each step keeps the evidence for the path.
LEMMA EvidenceKept ==
    ASSUME ControlInv, PathInv, EvidenceInv, Advance
    PROVE  EvidenceInv'
<1>1. PICK u, v, c, d, m, n : u = w' /\ v = w /\ c = start /\ d = start' /\ m = material /\ n = material'
  OBVIOUS
<1>2. SUFFICES ASSUME d.call = "collect" PROVE Evidenced(u, n, d.nonce_policy)
  BY <1>1, <1>2, Zenon DEF EvidenceInv
<1>3. More(n, m)
  BY <1>1, MaterialKept, Zenon DEF ControlInv, More
<1>4. CASE u = NoWalk
  <2>1. u.visited = <<>> /\ u.pc # "climb"
    BY <1>4 DEF NoWalk
  <2>2. QED
    BY <2>1, NothingToClear, Zenon
<1>5. CASE calls' = calls
  <2>1. d = c
    BY <1>1, <1>5, Zenon DEF start
  <2>2. PICK policy : policy = c.nonce_policy
    OBVIOUS
  <2>3. Evidenced(v, m, policy) /\ c.call = "collect"
    BY <1>1, <1>2, <2>1, <2>2, Zenon DEF EvidenceInv
  <2>4. c.call # "display" /\ c.call # "verify"
    BY <2>3
  <2>5. Trusted(v, c) /\ v.pc \notin {"display", "display fetch"}
    BY <1>1, <2>4, Zenon DEF PathInv
  <2>6. SUFFICES Evidenced(u, n, policy)
    BY <2>1, <2>2, Zenon
  <2>7. Evidenced(v, n, policy)
    BY <1>3, <2>3, StillCleared, Zenon DEF Evidenced
  <2>8. ASSUME u.visited = v.visited, u.pc # "climb", u.pc # "enter"
        PROVE  Evidenced(u, n, policy)
    BY <2>7, <2>8, Zenon DEF Evidenced
  <2>9. CASE u = v
    BY <2>7, <2>9, Zenon
  <2>10. CASE Stops(u, v)
    <3>1. u.pc = "done" /\ u.visited = v.visited
      BY <2>10, Zenon DEF Stops
    <3>2. u.pc # "climb" /\ u.pc # "enter"
      BY <3>1
    <3>3. QED
      BY <2>8, <3>1, <3>2, Zenon
  <2>11. CASE Begins(u, v)
    <3>1. u.pc = "enter" /\ u.visited = <<>>
      BY <2>11, Zenon DEF Begins
    <3>2. u.pc # "climb"
      BY <3>1
    <3>3. QED
      BY <3>1, <3>2, NothingToClear, Zenon
  <2>12. CASE Enters(u, v)
    <3>1. WalkForm(v)
      BY <1>1, Zenon DEF ControlInv
    <3>2. QED
      BY <2>7, <2>12, <3>1, EntersCleared, Zenon
  <2>13. ASSUME NEW pc \in {"linked", "fetch", "ocsp", "crl?", "crl"}, Goes(u, v, pc)
         PROVE  Evidenced(u, n, policy)
    <3>1. u.pc = pc /\ u.visited = v.visited
      BY <2>13, Zenon DEF Goes
    <3>2. u.pc # "climb" /\ u.pc # "enter"
      BY <2>13, <3>1
    <3>3. QED
      BY <2>8, <3>1, <3>2, Zenon
  <2>14. CASE Searched
    BY <1>1, <2>13, <2>14, Zenon DEF Searched
  <2>15. CASE Adopted
    <3>1. Goes(u, v, "ocsp") \/ Goes(u, v, "crl?")
      BY <1>1, <2>4, <2>15, Zenon DEF Adopted
    <3>2. QED
      BY <2>13, <3>1, Zenon
  <2>16. CASE Asked
    BY <1>1, <2>13, <2>16, Zenon DEF Asked
  <2>17. CASE ClearedNow
    <3>1. u.pc = "climb" /\ u.visited = v.visited /\ u.current = v.current /\ u.issuer = v.issuer
      BY <1>1, <2>17, Zenon DEF ClearedNow, Goes
    <3>2. v.pc \in Judged
      <4>1. v.pc = "ocsp" \/ v.pc = "crl"
        BY <1>1, <2>17, Zenon DEF ClearedNow
      <4>2. QED
        BY <4>1 DEF Judged
    <3>3. Link(v.current, v.issuer) /\ Reads(v.issuer)
      BY <2>5, <3>2, Zenon DEF Trusted, Checked, MayFollow
    <3>4. ClearedLink(v.current, v.issuer, n, policy)
      <4>1. PICK body, nonce : body = http.result.body /\ nonce = w.nonce
        OBVIOUS
      <4>2. ASSUME OcspAdded, check_response(policy, ParsedResponse(body, nonce), Cert(v.current), Cert(v.issuer), nonce) = ""
            PROVE  ClearedLink(v.current, v.issuer, n, policy)
        <5>1. <<body, nonce>> \in Range(n.ocsp)
          BY <1>1, <4>1, <4>2, MaterialKept, Zenon DEF ControlInv
        <5>2. ClearedByOcsp(<<body, nonce>>, Cert(v.current), Cert(v.issuer), policy)
          BY <3>3, <4>2, ResponseClears, Zenon
        <5>3. QED
          BY <5>1, <5>2, Zenon DEF ClearedLink
      <4>3. ASSUME CrlAdded, check_list(ParsedList(body), Cert(v.current), Cert(v.issuer)) = ""
            PROVE  ClearedLink(v.current, v.issuer, n, policy)
        <5>1. body \in Range(n.crls)
          BY <1>1, <4>1, <4>3, MaterialKept, Zenon DEF ControlInv
        <5>2. ClearedByCrl(body, Cert(v.current), Cert(v.issuer))
          BY <4>3, ListClears, Zenon
        <5>3. QED
          BY <5>1, <5>2, Zenon DEF ClearedLink
      <4>4. QED
        BY <1>1, <2>2, <2>17, <4>1, <4>2, <4>3, Zenon DEF ClearedNow
    <3>5. u.pc # "enter"
      BY <3>1
    <3>6. QED
      BY <2>7, <3>1, <3>4, <3>5, Zenon DEF Evidenced
  <2>18. CASE v.pc = "climb" /\ Climbs(u, v)
    <3>1. u.pc = "enter" /\ u.visited = v.visited /\ u.current = v.issuer
      BY <2>18, Zenon DEF Climbs
    <3>2. v.pc \in Searching /\ u.pc # "climb"
      BY <2>18, <3>1 DEF Searching
    <3>3. v.visited[Len(v.visited)] = v.current
      BY <2>5, <3>2, Zenon DEF Trusted, AtEnd
    <3>4. ClearedLink(v.current, v.issuer, n, policy)
      BY <2>7, <2>18, Zenon DEF Evidenced
    <3>5. QED
      BY <2>7, <3>1, <3>2, <3>3, <3>4, Zenon DEF Evidenced
  <2>19. ~Shows(u, v)
    BY <1>1, <2>4, Zenon DEF Shows
  <2>20. v.pc # "display" /\ v.pc # "display fetch"
    BY <2>5
  <2>21. u = NoWalk => Evidenced(u, n, policy)
    BY <1>4, <2>1, <2>2, Zenon
  <2>22. QED
    BY <1>1, <2>9, <2>10, <2>11, <2>12, <2>14, <2>15, <2>16, <2>17, <2>18, <2>19, <2>20, <2>21, Zenon DEF Advance, Halted
<1>6. QED
  BY <1>1, <1>4, <1>5, Zenon DEF Advance, Quiet, Verdictless, Doubt, Halted, ClearedNow

(***************************************************************************)
(* The cache                                                               *)
(***************************************************************************)

CacheInv == DOMAIN cache = {"entries", "now", "got"} /\ CacheServesCurrent

\* RevocationCache::get gives out what is usable at its time; the time moves
\* and the entries change only where nothing is given out.
LEMMA CacheKept ==
    ASSUME CacheInv, [Next]_vars
    PROVE  CacheInv'
<1>1. CASE cache' = cache
  BY <1>1, Zenon DEF CacheInv, CacheServesCurrent
<1>2. ASSUME NEW k, k = cache', DOMAIN k = {"entries", "now", "got"},
             k.got # Absent => \E ev : k.got = <<ev>> /\ Usable(ev, k.now)
      PROVE  CacheInv'
  <2>1. \A ev : <<ev>>[1] = ev
    OBVIOUS
  <2>2. k.got # Absent /\ k.got[1].status # "Revoked" => k.got[1].valid_until # Absent /\ k.now <= k.got[1].valid_until[1]
    BY <1>2, <2>1, Zenon DEF Usable, is_fresh
  <2>3. QED
    BY <1>2, <2>2, Zenon DEF CacheInv, CacheServesCurrent
<1>3. PICK h, k : h = cache /\ k = cache'
  OBVIOUS
<1>4. DOMAIN h = {"entries", "now", "got"}
  BY <1>3, Zenon DEF CacheInv
<1>5. CASE CacheInsert
  <2>1. PICK e : k = [h EXCEPT !.entries = e, !.got = Absent]
    BY <1>3, <1>5, Zenon DEF CacheInsert
  <2>2. DOMAIN k = {"entries", "now", "got"} /\ k.got = Absent
    BY <1>4, <2>1
  <2>3. QED
    BY <1>2, <1>3, <2>2, Zenon
<1>6. CASE CacheTick
  <2>1. k = [h EXCEPT !.now = h.now + 1, !.got = Absent]
    BY <1>3, <1>6, Zenon DEF CacheTick
  <2>2. DOMAIN k = {"entries", "now", "got"} /\ k.got = Absent
    BY <1>4, <2>1
  <2>3. QED
    BY <1>2, <1>3, <2>2, Zenon
<1>7. CASE CacheGet
  <2>1. PICK g : g = cache_get(h.entries, Cert(start.leaf), h.now)
    OBVIOUS
  <2>2. k = [h EXCEPT !.got = g]
    BY <1>3, <1>7, <2>1, Zenon DEF CacheGet
  <2>3. DOMAIN k = {"entries", "now", "got"} /\ k.got = g /\ k.now = h.now
    BY <1>4, <2>2
  <2>4. g # Absent => \E ev : g = <<ev>> /\ Usable(ev, h.now)
    BY <2>1, Zenon DEF cache_get
  <2>5. QED
    BY <1>2, <1>3, <2>3, <2>4, Zenon
<1>8. CASE Progress
  BY <1>1, <1>8, Zenon DEF Progress, Begin, Walk, Enter, FindIssuer, Request, NoRandom, IssuerFetched, Linked, OcspAnswered,
     CrlStart, CrlAnswered, Climb, NextChain, Display, DisplayEnter, DisplayRequest, DisplayFetched, DisplayLink, AskAuthority, HttpProgress
<1>9. QED
  BY <1>1, <1>5, <1>6, <1>7, <1>8, Zenon DEF Next, vars

(***************************************************************************)
(* What is accepted                                                        *)
(***************************************************************************)

TrustInv == ControlInv /\ PathInv /\ EvidenceInv /\ CacheInv

\* It holds at first.
LEMMA TrustInit ==
    ASSUME Init PROVE TrustInv
<1>1. PICK v, k : v = w /\ k = cache
  OBVIOUS
<1>2. v.pc = "start" /\ v.cas = 0 /\ v.visited = <<>> /\ v.result = ""
  BY <1>1 DEF Init, NoWalk
<1>3. v.pc \notin {"display", "display fetch"} /\ v.pc \in {"start", "enter"} /\ v.pc # "climb" /\ v.result # "ok"
  BY <1>2
<1>4. PathInv
  BY <1>1, <1>2, <1>3, EmptyPath, Zenon DEF PathInv
<1>5. EvidenceInv
  BY <1>1, <1>2, <1>3, NothingToClear, Zenon DEF EvidenceInv
<1>6. DOMAIN k = {"entries", "now", "got"} /\ k.got = Absent
  BY <1>1 DEF Init
<1>7. CacheInv
  BY <1>1, <1>6, Zenon DEF CacheInv, CacheServesCurrent
<1>8. QED
  BY <1>4, <1>5, <1>7, ControlInit, Zenon DEF TrustInv

\* Each step keeps it.
LEMMA TrustStep ==
    ASSUME TrustInv, [Next]_vars PROVE TrustInv'
<1>1. ControlInv /\ PathInv /\ EvidenceInv /\ CacheInv
  BY Zenon DEF TrustInv
<1>2. ControlInv' /\ Advance
  BY <1>1, ControlStep, Zenon
<1>3. PathInv'
  BY <1>1, <1>2, PathKept, Zenon
<1>4. EvidenceInv'
  BY <1>1, <1>2, EvidenceKept, Zenon
<1>5. CacheInv'
  BY <1>1, CacheKept, Zenon
<1>6. QED
  BY <1>2, <1>3, <1>4, <1>5, Zenon DEF TrustInv

\* The walk's record has its type.
LEMMA ControlType ==
    ASSUME ControlInv PROVE TypeOK
<1>1. PICK v : v = w
  OBVIOUS
<1>2. WalkForm(v) /\ SeenForm
  BY <1>1, Zenon DEF ControlInv
<1>3. \A S : \A s \in Seq(S) : Range(s) \subseteq S
  <2>1. SUFFICES ASSUME NEW S, NEW s \in Seq(S), NEW i \in DOMAIN s PROVE s[i] \in S
    BY Zenon DEF Range
  <2>2. QED
    OBVIOUS
<1>4. /\ v.pc \in Pcs /\ v.cas \in 0..MAX_DEPTH
      /\ Len(v.visited) <= DISPLAY_DEPTH /\ Range(v.visited) \subseteq DOMAIN Der
      /\ Len(v.urls) <= MaxAddresses /\ Range(v.urls) \subseteq DOMAIN Url
  BY <1>2, <1>3, Zenon DEF WalkForm, AddressList
<1>5. QED
  BY <1>1, <1>2, <1>4, Zenon DEF TypeOK, SeenForm

\* What PathIsTrusted says of an accepted path.
PathTrusted(path, c) ==
    /\ path[Len(path)] \in Range(c.anchors)
    /\ \A i \in DOMAIN path :
         /\ c.reference_time \in Cert(path[i]).not_before..Cert(path[i]).not_after
         /\ i < Len(path) => Link(path[i], path[i + 1])
         /\ i \in 2..(Len(path) - 1) => CanIssue(path[i], Cardinality(Below(path, i)))

\* A path that ended in success is trusted, and cleared where evidence is
\* collected.
LEMMA SuccessIsTrusted ==
    ASSUME TrustInv PROVE PathIsTrusted /\ EvidenceForEveryLink
<1>1. PICK v, c, path, n, m : v = w /\ c = start /\ path = v.visited /\ n = Len(path) /\ m = material
  OBVIOUS
<1>2. Path = path /\ Accepted = (v.result = "ok")
  BY <1>1, Zenon DEF Path, Accepted
<1>3. path \in Seq(DOMAIN Der)
  BY <1>1, Zenon DEF TrustInv, ControlInv, WalkForm
<1>4. n \in Nat /\ DOMAIN path = 1..n
  BY <1>1, <1>3, LenProperties, Zenon
<1>5. ASSUME v.result = "ok"
      PROVE  /\ n > 0 /\ path[n] \in Range(c.anchors)
             /\ InTime(path, c) /\ Joined(path, c) /\ Issued(path, c)
             /\ c.call = "collect" => PathCleared(path, m, c.nonce_policy)
  <2>1. Success(v, c)
    BY <1>1, <1>5, Zenon DEF TrustInv, PathInv
  <2>2. Trusted(v, c)
    BY <1>1, <2>1, Zenon DEF TrustInv, PathInv, Success
  <2>3. c.call = "collect" => Evidenced(v, m, c.nonce_policy)
    BY <1>1, Zenon DEF TrustInv, EvidenceInv
  <2>4. QED
    BY <1>1, <2>1, <2>2, <2>3, Zenon DEF Success, Anchor, Trusted, PathOk, Evidenced
<1>6. PathIsTrusted
  <2>1. SUFFICES ASSUME v.result = "ok", NEW i \in 1..n
                 PROVE  /\ c.reference_time \in Cert(path[i]).not_before..Cert(path[i]).not_after
                        /\ i < n => Link(path[i], path[i + 1])
                        /\ i \in 2..(n - 1) => CanIssue(path[i], Cardinality(Below(path, i)))
    <3>1. SUFFICES ASSUME v.result = "ok" PROVE PathTrusted(path, c)
      <4>1. v.result = "ok" => PathTrusted(Path, start)
        BY <1>1, <1>2, <3>1, Zenon
      <4>2. QED
        BY <1>1, <4>1, Zenon DEF PathIsTrusted, PathTrusted, Accepted, Link, CanIssue, Below
    <3>2. QED
      BY <1>1, <1>4, <1>5, <2>1, <3>1, Zenon DEF PathTrusted
  <2>2. c.reference_time \in Cert(path[i]).not_before..Cert(path[i]).not_after
    BY <1>1, <1>5, <2>1, Zenon DEF InTime
  <2>3. ASSUME i < n PROVE Link(path[i], path[i + 1]) /\ ~Anchor(path[i], c)
    <3>1. i \in 1..(n - 1)
      BY <1>4, <2>3
    <3>2. QED
      BY <1>1, <1>5, <2>1, <3>1, Zenon DEF Joined
  <2>4. ASSUME i \in 2..(n - 1) PROVE CanIssue(path[i], Cardinality(Below(path, i)))
    <3>1. i < n /\ i \in 2..n
      BY <1>4, <2>4
    <3>2. QED
      BY <1>1, <1>5, <2>1, <2>3, <3>1, Zenon DEF Issued
  <2>5. QED
    BY <2>2, <2>3, <2>4, Zenon
<1>7. EvidenceForEveryLink
  BY <1>1, <1>2, <1>5, Zenon DEF EvidenceForEveryLink, PathCleared, ClearedLink
<1>8. QED
  BY <1>6, <1>7

\* walk, verify_chain_with, collect_status and RevocationCache::get, for every
\* certificate, anchor, answer and list: an accepted path ends in an approved
\* anchor, every certificate of it is in time and signed by the next, every
\* issuer on it may issue with that many CAs below it, and where evidence is
\* collected there is some for every link; the cache gives out what is current.
THEOREM AcceptedPathsProved == Spec => []AcceptedIsProved
<1>1. TrustInv => AcceptedIsProved
  BY ControlType, SuccessIsTrusted, Zenon DEF TrustInv, CacheInv, AcceptedIsProved
<1>2. TrustInv /\ [Next]_vars => TrustInv'
  BY TrustStep, Zenon
<1>3. QED
  BY <1>1, <1>2, TrustInit, PTL DEF Spec
=============================================================================
