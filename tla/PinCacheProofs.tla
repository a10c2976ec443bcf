--------------------------- MODULE PinCacheProofs ---------------------------
(***************************************************************************)
(* Theorems about PinCache, for every set of callers, cards and PINs and   *)
(* every lifetime.                                                         *)
(*                                                                         *)
(* The safety properties of the cache are not inductive: a restore may put *)
(* back what a caller holds, so the invariant has to say what is known of  *)
(* a checked-out entry for as long as its generation is the current one.   *)
(***************************************************************************)
EXTENDS PinCache, TLAPS

\* A generation is stamped when the entry is made and never from the future.
GenerationInv ==
    /\ \A e \in positive_pin1 : e.generation = generation
    /\ \A e \in positive_pin2 : e.generation = generation_pin2
    /\ \A c \in Callers : \A e \in held1[c] : e.generation <= generation
    /\ \A c \in Callers : \A e \in held2[c] : e.generation <= generation_pin2

\* A checkout that could still be restored holds a PIN that was not rejected.
RestorableNotRejected ==
    /\ \A c \in Restorable1 : Secrets(held1[c]) \cap rejected["Pin1"] = {}
    /\ \A c \in Restorable2 : Secrets(held2[c]) \cap rejected["Pin2"] = {}

\* After stage_pin1_once nothing but the OneShot entry can be cached.
OneShotInv ==
    /\ once \in {"staged", "spent"} =>
         /\ \A e \in positive_pin1 : e.retention = "OneShot"
         /\ \A c \in Restorable1 : \A e \in held1[c] : e.retention = "OneShot"
    /\ OneShotSpent

\* The deadline of a PIN2 entry is never later than the user's last entry allows.
EntryAnchored(e) ==
    LET t == entered["Pin2"][<<e.serial, e.pin>>]
    IN  t # Never /\ e.entered_at <= t

EntryInv ==
    /\ \A e \in positive_pin2 : EntryAnchored(e)
    /\ \A c \in Callers : \A e \in held2[c] : EntryAnchored(e)
    /\ \A slot \in Slots : \A x \in Secret : entered[slot][x] <= now

SafetyInv ==
    /\ GenerationInv
    /\ NoRejectedPinCached
    /\ RestorableNotRejected
    /\ AtMostOneLiveCopy

IInv == TypeOK /\ SafetyInv /\ OneShotInv /\ EntryInv /\ MismatchForgets

-----------------------------------------------------------------------------
(***************************************************************************)
(* Every operation keeps the cache, the checkouts and the history          *)
(* well-typed; in particular an Option never holds two entries.            *)
(***************************************************************************)
LEMMA TypeStep == TypeOK /\ [Next]_vars => TypeOK'
<1> SUFFICES ASSUME TypeOK, [Next]_vars PROVE TypeOK'
  OBVIOUS
<1> USE LifetimeAssumption, BoundAssumption
<1>1. ASSUME NEW s \in Serials, NEW p \in Pins, NEW r \in Retention, StorePin1(s, p, r)
      PROVE  TypeOK'
  <2>1. CacheTypeOK'
    BY <1>1 DEF StorePin1, is_rejected, TypeOK, CacheTypeOK, HistoryTypeOK, IsOption, CachedPin1, CachedPin2, Secret, Slots, Retention
  <2>2. HistoryTypeOK'
    BY <1>1 DEF StorePin1, is_rejected, env, hist, TypeOK, HistoryTypeOK, Secret, Slots, Never
  <2> QED BY <2>1, <2>2 DEF TypeOK
<1>2. ASSUME NEW c \in Callers, CheckoutPin1(c)
      PROVE  TypeOK'
  <2>1. CacheTypeOK'
    BY <1>2 DEF CheckoutPin1, Live1, TypeOK, CacheTypeOK, HistoryTypeOK, IsOption, CachedPin1, CachedPin2, Secret, Slots, Retention
  <2>2. HistoryTypeOK'
    BY <1>2 DEF CheckoutPin1, Live1, env, hist, TypeOK, HistoryTypeOK, Secret, Slots, Never
  <2> QED BY <2>1, <2>2 DEF TypeOK
<1>3. ASSUME NEW c \in Callers, RestorePin1(c)
      PROVE  TypeOK'
  <2>1. CacheTypeOK'
    BY <1>3 DEF RestorePin1, Refreshed, TypeOK, CacheTypeOK, HistoryTypeOK, IsOption, CachedPin1, CachedPin2, Secret, Slots, Retention
  <2>2. HistoryTypeOK'
    BY <1>3 DEF RestorePin1, Refreshed, env, hist, TypeOK, HistoryTypeOK, Secret, Slots, Never
  <2> QED BY <2>1, <2>2 DEF TypeOK
<1>4. ASSUME NEW c \in Callers, DropPin1(c)
      PROVE  TypeOK'
  <2>1. CacheTypeOK'
    BY <1>4 DEF DropPin1, cache, TypeOK, CacheTypeOK, HistoryTypeOK, IsOption, CachedPin1, CachedPin2, Secret, Slots, Retention
  <2>2. HistoryTypeOK'
    BY <1>4 DEF DropPin1, cache, env, hist, TypeOK, HistoryTypeOK, Secret, Slots, Never
  <2> QED BY <2>1, <2>2 DEF TypeOK
<1>5. ASSUME CheckoutPin1Miss \/ HasPositivePin1Miss \/ ClearPositive
      PROVE  TypeOK'
  <2>1. CacheTypeOK'
    BY <1>5 DEF CheckoutPin1Miss, HasPositivePin1Miss, ClearPositive, clear_positive, TypeOK, CacheTypeOK, HistoryTypeOK, IsOption, CachedPin1, CachedPin2, Secret, Slots, Retention
  <2>2. HistoryTypeOK'
    BY <1>5 DEF CheckoutPin1Miss, HasPositivePin1Miss, ClearPositive, clear_positive, env, hist, TypeOK, HistoryTypeOK, Secret, Slots, Never
  <2> QED BY <2>1, <2>2 DEF TypeOK
<1>6. ASSUME NEW s \in Serials, NEW p \in Pins, StorePin2(s, p)
      PROVE  TypeOK'
  <2>1. CacheTypeOK'
    BY <1>6 DEF StorePin2, is_rejected, TypeOK, CacheTypeOK, HistoryTypeOK, IsOption, CachedPin1, CachedPin2, Secret, Slots, Retention
  <2>2. HistoryTypeOK'
    BY <1>6 DEF StorePin2, is_rejected, env, hist, TypeOK, HistoryTypeOK, Secret, Slots, Never
  <2> QED BY <2>1, <2>2 DEF TypeOK
<1>7. ASSUME NEW c \in Callers, CheckoutPin2(c)
      PROVE  TypeOK'
  <2>1. CacheTypeOK'
    BY <1>7 DEF CheckoutPin2, Live2, TypeOK, CacheTypeOK, HistoryTypeOK, IsOption, CachedPin1, CachedPin2, Secret, Slots, Retention
  <2>2. HistoryTypeOK'
    BY <1>7 DEF CheckoutPin2, Live2, env, hist, TypeOK, HistoryTypeOK, Secret, Slots, Never
  <2> QED BY <2>1, <2>2 DEF TypeOK
<1>8. ASSUME NEW c \in Callers, RestorePin2(c)
      PROVE  TypeOK'
  <2>1. CacheTypeOK'
    BY <1>8 DEF RestorePin2, TypeOK, CacheTypeOK, HistoryTypeOK, IsOption, CachedPin1, CachedPin2, Secret, Slots, Retention
  <2>2. HistoryTypeOK'
    BY <1>8 DEF RestorePin2, env, hist, TypeOK, HistoryTypeOK, Secret, Slots, Never
  <2> QED BY <2>1, <2>2 DEF TypeOK
<1>9. ASSUME NEW c \in Callers, DropPin2(c)
      PROVE  TypeOK'
  <2>1. CacheTypeOK'
    BY <1>9 DEF DropPin2, cache, TypeOK, CacheTypeOK, HistoryTypeOK, IsOption, CachedPin1, CachedPin2, Secret, Slots, Retention
  <2>2. HistoryTypeOK'
    BY <1>9 DEF DropPin2, cache, env, hist, TypeOK, HistoryTypeOK, Secret, Slots, Never
  <2> QED BY <2>1, <2>2 DEF TypeOK
<1>10. ASSUME CheckoutPin2Miss \/ ClearPositivePin2
      PROVE  TypeOK'
  <2>1. CacheTypeOK'
    BY <1>10 DEF CheckoutPin2Miss, ClearPositivePin2, clear_positive_pin2, TypeOK, CacheTypeOK, HistoryTypeOK, IsOption, CachedPin1, CachedPin2, Secret, Slots, Retention
  <2>2. HistoryTypeOK'
    BY <1>10 DEF CheckoutPin2Miss, ClearPositivePin2, clear_positive_pin2, env, hist, TypeOK, HistoryTypeOK, Secret, Slots, Never
  <2> QED BY <2>1, <2>2 DEF TypeOK
<1>11. ASSUME HasPositivePin2Miss
      PROVE  TypeOK'
  <2>1. CacheTypeOK'
    BY <1>11 DEF HasPositivePin2Miss, TypeOK, CacheTypeOK, HistoryTypeOK, IsOption, CachedPin1, CachedPin2, Secret, Slots, Retention
  <2>2. HistoryTypeOK'
    BY <1>11 DEF HasPositivePin2Miss, env, hist, TypeOK, HistoryTypeOK, Secret, Slots, Never
  <2> QED BY <2>1, <2>2 DEF TypeOK
<1>12. ASSUME NEW s \in Serials, NEW slot \in Slots, NEW p \in Pins, RecordRejected(s, slot, p)
      PROVE  TypeOK'
  <2>1. CacheTypeOK'
    BY <1>12 DEF RecordRejected, clear_positive, clear_positive_pin2, TypeOK, CacheTypeOK, HistoryTypeOK, IsOption, CachedPin1, CachedPin2, Secret, Slots, Retention
  <2>2. HistoryTypeOK'
    BY <1>12 DEF RecordRejected, clear_positive, clear_positive_pin2, env, hist, TypeOK, HistoryTypeOK, Secret, Slots, Never
  <2> QED BY <2>1, <2>2 DEF TypeOK
<1>13. ASSUME Tick
      PROVE  TypeOK'
  <2>1. CacheTypeOK'
    BY <1>13 DEF Tick, cache, TypeOK, CacheTypeOK, HistoryTypeOK, IsOption, CachedPin1, CachedPin2, Secret, Slots, Retention
  <2>2. HistoryTypeOK'
    BY <1>13 DEF Tick, cache, env, hist, TypeOK, HistoryTypeOK, Secret, Slots, Never
  <2> QED BY <2>1, <2>2 DEF TypeOK
<1>14. ASSUME SwapCard
      PROVE  TypeOK'
  <2>1. CacheTypeOK'
    BY <1>14 DEF SwapCard, cache, TypeOK, CacheTypeOK, HistoryTypeOK, IsOption, CachedPin1, CachedPin2, Secret, Slots, Retention
  <2>2. HistoryTypeOK'
    BY <1>14 DEF SwapCard, cache, env, hist, TypeOK, HistoryTypeOK, Secret, Slots, Never
  <2> QED BY <2>1, <2>2 DEF TypeOK
<1>15. ASSUME UNCHANGED vars
      PROVE  TypeOK'
  <2>1. CacheTypeOK'
    BY <1>15 DEF vars, cache, TypeOK, CacheTypeOK, HistoryTypeOK, IsOption, CachedPin1, CachedPin2, Secret, Slots, Retention
  <2>2. HistoryTypeOK'
    BY <1>15 DEF vars, cache, env, hist, TypeOK, HistoryTypeOK, Secret, Slots, Never
  <2> QED BY <2>1, <2>2 DEF TypeOK
<1> QED BY <1>1, <1>2, <1>3, <1>4, <1>5, <1>6, <1>7, <1>8, <1>9, <1>10, <1>11, <1>12, <1>13, <1>14, <1>15 DEF Next, Pin1Step, Pin2Step

(***************************************************************************)
(* Type correctness of PinCache.                                           *)
(***************************************************************************)
THEOREM TypeCorrect == Spec => []TypeOK
<1>1. Init => TypeOK
  BY DEF Init, TypeOK, CacheTypeOK, HistoryTypeOK, IsOption, Secret, Slots, Never
<1> QED BY <1>1, TypeStep, PTL DEF Spec

(***************************************************************************)
(* The safety core of the cache is inductive.                              *)
(***************************************************************************)
LEMMA SafetyStep == TypeOK /\ SafetyInv /\ [Next]_vars => SafetyInv'
<1> SUFFICES ASSUME TypeOK, SafetyInv, [Next]_vars PROVE SafetyInv'
  OBVIOUS
<1> CacheTypeOK BY DEF TypeOK
<1> USE DEF CacheTypeOK, IsOption, CachedPin1, CachedPin2, Secret, Slots, Retention, Never,
            SafetyInv, GenerationInv, NoRejectedPinCached, RestorableNotRejected, AtMostOneLiveCopy,
            Restorable1, Restorable2, Secrets
<1>1. ASSUME NEW s \in Serials, NEW p \in Pins, NEW r \in Retention, StorePin1(s, p, r)
      PROVE  SafetyInv'
  <2>1. Restorable1' = {}
    BY <1>1 DEF StorePin1
  <2>2. GenerationInv'
    BY <1>1 DEF StorePin1
  <2>3. NoRejectedPinCached'
    <3>1. Secrets(positive_pin1') = {<<s, p>>}
      BY <1>1 DEF StorePin1
    <3>2. <<s, p>> \notin rejected["Pin1"] /\ UNCHANGED <<rejected, positive_pin2>>
      BY <1>1 DEF StorePin1, is_rejected
    <3> HIDE DEF Secrets
    <3> QED BY <3>1, <3>2
  <2>4. RestorableNotRejected' /\ AtMostOneLiveCopy'
    BY <1>1, <2>1 DEF StorePin1
  <2> QED BY <2>2, <2>3, <2>4
<1>2. ASSUME NEW c \in Callers, CheckoutPin1(c)
      PROVE  SafetyInv'
  BY <1>2 DEF CheckoutPin1, Live1, env, hist
<1>3. ASSUME NEW c \in Callers, RestorePin1(c)
      PROVE  SafetyInv'
  <2>1. PICK e \in held1[c] : RestorePin1(c)!(e)
    BY <1>3 DEF RestorePin1
  <2>2. held1[c] = {e} /\ held1' = [held1 EXCEPT ![c] = {}]
    BY <2>1
  <2>3. UNCHANGED <<positive_pin2, generation, generation_pin2, rejected, held2>>
    BY <2>1
  <2>4. CASE UNCHANGED positive_pin1
    BY <2>2, <2>3, <2>4
  <2>5. CASE /\ e.generation = generation /\ positive_pin1 = {}
             /\ positive_pin1' = {Refreshed(e)}
    <3>1. /\ Refreshed(e).serial = e.serial /\ Refreshed(e).pin = e.pin
          /\ Refreshed(e).generation = e.generation
      BY <2>2 DEF Refreshed
    <3>2. c \in Restorable1
      BY <2>2, <2>5
    <3>3. Restorable1' = {}
      BY <2>2, <2>3, <3>2
    <3> QED BY <2>2, <2>3, <2>5, <3>1, <3>2, <3>3
  <2> HIDE DEF CacheTypeOK, SafetyInv
  <2> QED BY <2>1, <2>4, <2>5
<1>4. ASSUME NEW c \in Callers, DropPin1(c)
      PROVE  SafetyInv'
  BY <1>4 DEF DropPin1, cache, hist
<1>5. ASSUME CheckoutPin1Miss \/ HasPositivePin1Miss \/ ClearPositive
      PROVE  SafetyInv'
  BY <1>5 DEF CheckoutPin1Miss, HasPositivePin1Miss, ClearPositive, clear_positive, env, hist
<1>6. ASSUME NEW s \in Serials, NEW p \in Pins, StorePin2(s, p)
      PROVE  SafetyInv'
  <2>1. Restorable2' = {}
    BY <1>6 DEF StorePin2
  <2>2. GenerationInv'
    BY <1>6 DEF StorePin2
  <2>3. NoRejectedPinCached'
    <3>1. Secrets(positive_pin2') = {<<s, p>>}
      BY <1>6 DEF StorePin2
    <3>2. <<s, p>> \notin rejected["Pin2"] /\ UNCHANGED <<rejected, positive_pin1>>
      BY <1>6 DEF StorePin2, is_rejected
    <3> HIDE DEF Secrets
    <3> QED BY <3>1, <3>2
  <2>4. RestorableNotRejected' /\ AtMostOneLiveCopy'
    BY <1>6, <2>1 DEF StorePin2
  <2> QED BY <2>2, <2>3, <2>4
<1>7. ASSUME NEW c \in Callers, CheckoutPin2(c)
      PROVE  SafetyInv'
  BY <1>7 DEF CheckoutPin2, Live2, env, hist
<1>8. ASSUME NEW c \in Callers, RestorePin2(c)
      PROVE  SafetyInv'
  BY <1>8 DEF RestorePin2, env, hist
<1>9. ASSUME NEW c \in Callers, DropPin2(c)
      PROVE  SafetyInv'
  BY <1>9 DEF DropPin2, cache, hist
<1>10. ASSUME CheckoutPin2Miss \/ ClearPositivePin2
      PROVE  SafetyInv'
  BY <1>10 DEF CheckoutPin2Miss, ClearPositivePin2, clear_positive_pin2, env, hist
<1>11. ASSUME HasPositivePin2Miss
      PROVE  SafetyInv'
  BY <1>11 DEF HasPositivePin2Miss, env, hist
<1>12. ASSUME NEW s \in Serials, NEW slot \in Slots, NEW p \in Pins, RecordRejected(s, slot, p)
      PROVE  SafetyInv'
  BY <1>12 DEF RecordRejected, clear_positive, clear_positive_pin2, env, hist
<1>13. ASSUME Tick
      PROVE  SafetyInv'
  BY <1>13 DEF Tick, cache, env, hist
<1>14. ASSUME SwapCard
      PROVE  SafetyInv'
  BY <1>14 DEF SwapCard, cache, env, hist
<1>15. ASSUME UNCHANGED vars
      PROVE  SafetyInv'
  BY <1>15 DEF vars, cache, env, hist
<1> HIDE DEF CacheTypeOK, SafetyInv
<1> QED BY <1>1, <1>2, <1>3, <1>4, <1>5, <1>6, <1>7, <1>8, <1>9, <1>10, <1>11, <1>12, <1>13, <1>14, <1>15 DEF Next, Pin1Step, Pin2Step

\* Every step keeps the part of the invariant about one-shot entries.
LEMMA OneShotStep == TypeOK /\ SafetyInv /\ OneShotInv /\ [Next]_vars => OneShotInv'
<1> SUFFICES ASSUME TypeOK, SafetyInv, OneShotInv, [Next]_vars PROVE OneShotInv'
  OBVIOUS
<1> CacheTypeOK BY DEF TypeOK
<1> USE DEF CacheTypeOK, IsOption, CachedPin1, CachedPin2, Secret, Slots, Retention, Never,
            OneShotInv, OneShotSpent, Restorable1, SafetyInv, GenerationInv
<1>1. ASSUME NEW s \in Serials, NEW p \in Pins, NEW r \in Retention, StorePin1(s, p, r)
      PROVE  OneShotInv'
  BY <1>1 DEF StorePin1, is_rejected, env, hist
<1>2. ASSUME NEW c \in Callers, CheckoutPin1(c)
      PROVE  OneShotInv'
  BY <1>2 DEF CheckoutPin1, Live1, env, hist
<1>3. ASSUME NEW c \in Callers, RestorePin1(c)
      PROVE  OneShotInv'
  BY <1>3 DEF RestorePin1, Refreshed, env, hist
<1>4. ASSUME NEW c \in Callers, DropPin1(c)
      PROVE  OneShotInv'
  BY <1>4 DEF DropPin1, cache, hist
<1>5. ASSUME CheckoutPin1Miss \/ HasPositivePin1Miss \/ ClearPositive
      PROVE  OneShotInv'
  BY <1>5 DEF CheckoutPin1Miss, HasPositivePin1Miss, ClearPositive, clear_positive, env, hist
<1>6. ASSUME NEW s \in Serials, NEW p \in Pins, StorePin2(s, p)
      PROVE  OneShotInv'
  BY <1>6 DEF StorePin2, is_rejected, env, hist
<1>7. ASSUME NEW c \in Callers, CheckoutPin2(c)
      PROVE  OneShotInv'
  BY <1>7 DEF CheckoutPin2, Live2, env, hist
<1>8. ASSUME NEW c \in Callers, RestorePin2(c)
      PROVE  OneShotInv'
  BY <1>8 DEF RestorePin2, env, hist
<1>9. ASSUME NEW c \in Callers, DropPin2(c)
      PROVE  OneShotInv'
  BY <1>9 DEF DropPin2, cache, hist
<1>10. ASSUME CheckoutPin2Miss \/ ClearPositivePin2
      PROVE  OneShotInv'
  BY <1>10 DEF CheckoutPin2Miss, ClearPositivePin2, clear_positive_pin2, env, hist
<1>11. ASSUME HasPositivePin2Miss
      PROVE  OneShotInv'
  BY <1>11 DEF HasPositivePin2Miss, env, hist
<1>12. ASSUME NEW s \in Serials, NEW slot \in Slots, NEW p \in Pins, RecordRejected(s, slot, p)
      PROVE  OneShotInv'
  BY <1>12 DEF RecordRejected, clear_positive, clear_positive_pin2, env, hist
<1>13. ASSUME Tick
      PROVE  OneShotInv'
  BY <1>13 DEF Tick, cache, env, hist
<1>14. ASSUME SwapCard
      PROVE  OneShotInv'
  BY <1>14 DEF SwapCard, cache, env, hist
<1>15. ASSUME UNCHANGED vars
      PROVE  OneShotInv'
  BY <1>15 DEF vars, cache, env, hist
<1> HIDE DEF CacheTypeOK, OneShotInv
<1> QED BY <1>1, <1>2, <1>3, <1>4, <1>5, <1>6, <1>7, <1>8, <1>9, <1>10, <1>11, <1>12, <1>13, <1>14, <1>15 DEF Next, Pin1Step, Pin2Step

\* Every step keeps the part of the invariant about refused checkouts.
LEMMA MismatchStep == TypeOK /\ SafetyInv /\ MismatchForgets /\ [Next]_vars => MismatchForgets'
<1> SUFFICES ASSUME TypeOK, SafetyInv, MismatchForgets, [Next]_vars PROVE MismatchForgets'
  OBVIOUS
<1> CacheTypeOK BY DEF TypeOK
<1> USE DEF CacheTypeOK, IsOption, CachedPin1, CachedPin2, Secret, Slots, Retention, Never,
            MismatchForgets, Restorable1, Restorable2, SafetyInv, GenerationInv
<1>1. ASSUME NEW s \in Serials, NEW p \in Pins, NEW r \in Retention, StorePin1(s, p, r)
      PROVE  MismatchForgets'
  BY <1>1 DEF StorePin1, is_rejected, env, hist
<1>2. ASSUME NEW c \in Callers, CheckoutPin1(c)
      PROVE  MismatchForgets'
  BY <1>2 DEF CheckoutPin1, Live1, env, hist
<1>3. ASSUME NEW c \in Callers, RestorePin1(c)
      PROVE  MismatchForgets'
  BY <1>3 DEF RestorePin1, Refreshed, env, hist
<1>4. ASSUME NEW c \in Callers, DropPin1(c)
      PROVE  MismatchForgets'
  BY <1>4 DEF DropPin1, cache, hist
<1>5. ASSUME CheckoutPin1Miss \/ HasPositivePin1Miss \/ ClearPositive
      PROVE  MismatchForgets'
  BY <1>5 DEF CheckoutPin1Miss, HasPositivePin1Miss, ClearPositive, clear_positive, env, hist
<1>6. ASSUME NEW s \in Serials, NEW p \in Pins, StorePin2(s, p)
      PROVE  MismatchForgets'
  BY <1>6 DEF StorePin2, is_rejected, env, hist
<1>7. ASSUME NEW c \in Callers, CheckoutPin2(c)
      PROVE  MismatchForgets'
  BY <1>7 DEF CheckoutPin2, Live2, env, hist
<1>8. ASSUME NEW c \in Callers, RestorePin2(c)
      PROVE  MismatchForgets'
  BY <1>8 DEF RestorePin2, env, hist
<1>9. ASSUME NEW c \in Callers, DropPin2(c)
      PROVE  MismatchForgets'
  BY <1>9 DEF DropPin2, cache, hist
<1>10. ASSUME CheckoutPin2Miss \/ ClearPositivePin2
      PROVE  MismatchForgets'
  BY <1>10 DEF CheckoutPin2Miss, ClearPositivePin2, clear_positive_pin2, env, hist
<1>11. ASSUME HasPositivePin2Miss
      PROVE  MismatchForgets'
  BY <1>11 DEF HasPositivePin2Miss, env, hist
<1>12. ASSUME NEW s \in Serials, NEW slot \in Slots, NEW p \in Pins, RecordRejected(s, slot, p)
      PROVE  MismatchForgets'
  BY <1>12 DEF RecordRejected, clear_positive, clear_positive_pin2, env, hist
<1>13. ASSUME Tick
      PROVE  MismatchForgets'
  BY <1>13 DEF Tick, cache, env, hist
<1>14. ASSUME SwapCard
      PROVE  MismatchForgets'
  BY <1>14 DEF SwapCard, cache, env, hist
<1>15. ASSUME UNCHANGED vars
      PROVE  MismatchForgets'
  BY <1>15 DEF vars, cache, env, hist
<1> HIDE DEF CacheTypeOK, MismatchForgets
<1> QED BY <1>1, <1>2, <1>3, <1>4, <1>5, <1>6, <1>7, <1>8, <1>9, <1>10, <1>11, <1>12, <1>13, <1>14, <1>15 DEF Next, Pin1Step, Pin2Step

\* Every step keeps the part of the invariant about the entries.
LEMMA EntryStep == TypeOK /\ EntryInv /\ [Next]_vars => EntryInv'
<1> SUFFICES ASSUME TypeOK, EntryInv, [Next]_vars PROVE EntryInv'
  OBVIOUS
<1> USE DEF TypeOK, CacheTypeOK, HistoryTypeOK, IsOption, CachedPin1, CachedPin2, Secret, Slots, Retention, Never, EntryInv, EntryAnchored
<1>1. ASSUME NEW s \in Serials, NEW p \in Pins, NEW r \in Retention, StorePin1(s, p, r)
      PROVE  EntryInv'
  BY <1>1 DEF StorePin1, is_rejected, env, hist
<1>2. ASSUME NEW c \in Callers, CheckoutPin1(c)
      PROVE  EntryInv'
  BY <1>2 DEF CheckoutPin1, Live1, env, hist
<1>3. ASSUME NEW c \in Callers, RestorePin1(c)
      PROVE  EntryInv'
  BY <1>3 DEF RestorePin1, Refreshed, env, hist
<1>4. ASSUME NEW c \in Callers, DropPin1(c)
      PROVE  EntryInv'
  BY <1>4 DEF DropPin1, cache, env, hist
<1>5. ASSUME CheckoutPin1Miss \/ HasPositivePin1Miss \/ ClearPositive
      PROVE  EntryInv'
  BY <1>5 DEF CheckoutPin1Miss, HasPositivePin1Miss, ClearPositive, clear_positive, env, hist
<1>6. ASSUME NEW s \in Serials, NEW p \in Pins, StorePin2(s, p)
      PROVE  EntryInv'
  BY <1>6 DEF StorePin2, is_rejected, env, hist
<1>7. ASSUME NEW c \in Callers, CheckoutPin2(c)
      PROVE  EntryInv'
  BY <1>7 DEF CheckoutPin2, Live2, env, hist
<1>8. ASSUME NEW c \in Callers, RestorePin2(c)
      PROVE  EntryInv'
  BY <1>8 DEF RestorePin2, env, hist
<1>9. ASSUME NEW c \in Callers, DropPin2(c)
      PROVE  EntryInv'
  BY <1>9 DEF DropPin2, cache, env, hist
<1>10. ASSUME CheckoutPin2Miss \/ ClearPositivePin2
      PROVE  EntryInv'
  BY <1>10 DEF CheckoutPin2Miss, ClearPositivePin2, clear_positive_pin2, env, hist
<1>11. ASSUME HasPositivePin2Miss
      PROVE  EntryInv'
  BY <1>11 DEF HasPositivePin2Miss, env, hist
<1>12. ASSUME NEW s \in Serials, NEW slot \in Slots, NEW p \in Pins, RecordRejected(s, slot, p)
      PROVE  EntryInv'
  BY <1>12 DEF RecordRejected, clear_positive, clear_positive_pin2, env, hist
<1>13. ASSUME Tick
      PROVE  EntryInv'
  <2>1. now' = now + 1 /\ UNCHANGED <<positive_pin2, held2, entered>>
    BY <1>13 DEF Tick, cache, hist
  <2>2. now \in Nat /\ entered \in [Slots -> [Secret -> Nat \cup {Never}]] /\ Never = -1
    OBVIOUS
  <2> HIDE DEF TypeOK, CacheTypeOK, HistoryTypeOK, Secret, Slots, Never
  <2> QED BY <2>1, <2>2
<1>14. ASSUME SwapCard
      PROVE  EntryInv'
  BY <1>14 DEF SwapCard, cache, env, hist
<1>15. ASSUME UNCHANGED vars
      PROVE  EntryInv'
  BY <1>15 DEF vars, cache, env, hist
<1> HIDE DEF TypeOK, CacheTypeOK, HistoryTypeOK, EntryInv
<1> QED BY <1>1, <1>2, <1>3, <1>4, <1>5, <1>6, <1>7, <1>8, <1>9, <1>10, <1>11, <1>12, <1>13, <1>14, <1>15 DEF Next, Pin1Step, Pin2Step

(***************************************************************************)
(* The inductive invariant holds in every reachable state.                 *)
(***************************************************************************)
LEMMA Inductive == Spec => []IInv
<1>1. Init => IInv
  BY DEF Init, IInv, TypeOK, CacheTypeOK, HistoryTypeOK, IsOption, Secret, Slots, Never, SafetyInv, GenerationInv,
         NoRejectedPinCached, RestorableNotRejected, AtMostOneLiveCopy, Restorable1,
         Restorable2, Secrets, OneShotInv, OneShotSpent, MismatchForgets, EntryInv
<1>2. IInv /\ [Next]_vars => IInv'
  BY TypeStep, SafetyStep, OneShotStep, MismatchStep, EntryStep DEF IInv
<1> QED BY <1>1, <1>2, PTL DEF Spec

(***************************************************************************)
(* A PIN that record_rejected was told about never comes back into the     *)
(* positive cache, for any number of callers, cards and PINs.              *)
(***************************************************************************)
THEOREM RejectedStaysOut == Spec => []NoRejectedPinCached
<1>1. IInv => NoRejectedPinCached
  BY DEF IInv, SafetyInv
<1> QED BY <1>1, Inductive, PTL

(***************************************************************************)
(* The generation counters leave at most one copy of a PIN that can be     *)
(* used again: the cached entry or one checkout.                           *)
(***************************************************************************)
THEOREM SingleCopy == Spec => []AtMostOneLiveCopy
<1>1. IInv => AtMostOneLiveCopy
  BY DEF IInv, SafetyInv
<1> QED BY <1>1, Inductive, PTL

(***************************************************************************)
(* A PIN1 staged for one operation is not cached again after its checkout. *)
(***************************************************************************)
THEOREM OneShotIsOnce == Spec => []OneShotSpent
<1>1. IInv => OneShotSpent
  BY DEF IInv, OneShotInv
<1> QED BY <1>1, Inductive, PTL

\* A caller that held nothing receives a live entry, for the card in the reader.
LEMMA ReceivedIsLive ==
  ASSUME TypeOK, [Next]_vars, NEW c \in Callers
  PROVE  /\ \A e \in Received(held1, c) :
              e \in positive_pin1 /\ e.serial = live /\ Unexpired1(e)
         /\ \A e \in Received(held2, c) :
              e \in positive_pin2 /\ e.serial = live /\ Unexpired2(e)
<1> DEFINE Goal == /\ \A e \in Received(held1, c) :
                        e \in positive_pin1 /\ e.serial = live /\ Unexpired1(e)
                   /\ \A e \in Received(held2, c) :
                        e \in positive_pin2 /\ e.serial = live /\ Unexpired2(e)
<1>1. ASSUME held1'[c] \in {held1[c], {}}, held2'[c] \in {held2[c], {}}
      PROVE  Goal
  BY <1>1 DEF Received
<1>2. ASSUME NEW d \in Callers, CheckoutPin1(d)
      PROVE  Goal
  BY <1>2 DEF CheckoutPin1, Live1, TypeOK, CacheTypeOK, HistoryTypeOK, IsOption, Received
<1>3. ASSUME NEW d \in Callers, CheckoutPin2(d)
      PROVE  Goal
  BY <1>3 DEF CheckoutPin2, Live2, TypeOK, CacheTypeOK, HistoryTypeOK, IsOption, Received
<1>4. ASSUME NEW d \in Callers,
             RestorePin1(d) \/ DropPin1(d) \/ RestorePin2(d) \/ DropPin2(d)
      PROVE  Goal
  <2>1. /\ held1'[c] \in {held1[c], {}}
        /\ held2'[c] \in {held2[c], {}}
    BY <1>4 DEF RestorePin1, DropPin1, RestorePin2, DropPin2, TypeOK, CacheTypeOK, HistoryTypeOK
  <2> QED BY <2>1, <1>1
<1>5. \/ \E d \in Callers : CheckoutPin1(d)
      \/ \E d \in Callers : CheckoutPin2(d)
      \/ \E d \in Callers : RestorePin1(d) \/ DropPin1(d) \/ RestorePin2(d) \/ DropPin2(d)
      \/ UNCHANGED <<held1, held2>>
  BY DEF Next, Pin1Step, Pin2Step, vars, StorePin1, CheckoutPin1Miss, HasPositivePin1Miss,
         ClearPositive, StorePin2, CheckoutPin2Miss, HasPositivePin2Miss,
         ClearPositivePin2, RecordRejected, Tick, SwapCard
<1> QED BY <1>1, <1>2, <1>3, <1>4, <1>5

(***************************************************************************)
(* PIN2 is handed out only inside the consent window that opened when the  *)
(* user entered it, however often it was checked out and restored.         *)
(***************************************************************************)
THEOREM ConsentWindowHolds == Spec => ConsentWindow
<1>1. ASSUME IInv, [Next]_vars, NEW c \in Callers, NEW e \in Received(held2, c)
      PROVE  LET t == entered["Pin2"][<<e.serial, e.pin>>]
             IN  t # Never /\ now - t < Pin2Lifetime
  <2>1. e \in positive_pin2 /\ Unexpired2(e)
    BY <1>1, ReceivedIsLive DEF IInv
  <2> QED BY <2>1, <1>1, LifetimeAssumption
        DEF IInv, TypeOK, CacheTypeOK, HistoryTypeOK, EntryInv, EntryAnchored, Unexpired2, CachedPin2, Secret,
            Slots, Never
<1>2. IInv /\ [Next]_vars => [WithinConsent]_vars
  BY <1>1 DEF WithinConsent
<1> QED BY <1>2, Inductive, PTL DEF Spec, ConsentWindow

(***************************************************************************)
(* A checkout that found another card, or came too late, ends the life of  *)
(* what was cached and of what is out: neither is used again before the    *)
(* PIN is entered anew.                                                    *)
(***************************************************************************)
THEOREM MismatchForgetsHolds == Spec => []MismatchForgets
<1>1. IInv => MismatchForgets
  BY DEF IInv
<1> QED BY <1>1, Inductive, PTL

=============================================================================
