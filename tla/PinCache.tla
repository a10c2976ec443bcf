------------------------------ MODULE PinCache ------------------------------
(***************************************************************************)
(* PinSafetyCache of refineid-lib-core/src/pin_cache.rs: the process-local *)
(* positive PIN1/PIN2 cache and the negative (card-rejected) PIN memory.   *)
(*                                                                         *)
(* A positive entry is handed out DESTRUCTIVELY: checkout takes it out of  *)
(* the cache and gives it to the caller (CheckedOutPin1 / CheckedOutPin2), *)
(* who either drops it or, after a successful VERIFY, gives it back with   *)
(* restore_after_success.  Between the two the cache may be cleared,       *)
(* refilled, or told that the card rejected the PIN; two generation        *)
(* counters make such an intervening event win over the late restore.      *)
(*                                                                         *)
(* Every operation takes &mut self, so it is one atomic step; callers      *)
(* (threads of the process that share the cache) interleave between them.  *)
(* An Option<T> is a set with at most one element.                         *)
(***************************************************************************)
EXTENDS Integers

CONSTANTS
    Callers,            \* holders of checked-out entries
    Serials,            \* full token serials of the cards in use
    Pins,               \* PIN values
    Pin1Lifetime,       \* PIN1_CACHE_LIFETIME, 15 min, refreshed by use
    OneShotLifetime,    \* PIN1_ONE_SHOT_LIFETIME, 30 s
    Pin2Lifetime,       \* PIN2_CACHE_LIFETIME, 1 min from entry
    MaxTime,            \* bound on the clock
    MaxGeneration       \* bound on the invalidations (u64 in the code)

ASSUME LifetimeAssumption ==
    /\ Pin1Lifetime \in Nat /\ OneShotLifetime \in Nat /\ Pin2Lifetime \in Nat

ASSUME BoundAssumption == MaxTime \in Nat /\ MaxGeneration \in Nat

VARIABLES
    positive_pin1,      \* Option<CachedPin1>
    positive_pin2,      \* Option<CachedPin2>
    generation,
    generation_pin2,
    rejected,           \* rejected_pin1 / rejected_pin2, by slot
    held1, held2,       \* the checked-out entry each caller holds, if any
    now,                \* Instant::now()
    live,               \* serial of the card in the reader
    entered,            \* history: when each PIN was last entered, by slot
    once,               \* history: the life of the last stage_pin1_once
    refused             \* history: slots a checkout missed since they were filled

cache == <<positive_pin1, positive_pin2, generation, generation_pin2, rejected>>
env   == <<now, live>>
hist  == <<entered, once, refused>>
vars  == <<cache, held1, held2, env, hist>>

Slots     == {"Pin1", "Pin2"}
Retention == {"Reusable", "OneShot"}
Never     == -1

(***************************************************************************)
(* A rejected PIN is stored as an HMAC over serial, slot and digits with a *)
(* process-local key; what the cache tells apart is the triple itself.     *)
(***************************************************************************)
Secret == Serials \X Pins

CachedPin1 == [serial : Serials, pin : Pins, last_successful_use : Nat,
               generation : Nat, retention : Retention]
CachedPin2 == [serial : Serials, pin : Pins, entered_at : Nat,
               generation : Nat]

Secrets(entries) == {<<e.serial, e.pin>> : e \in entries}

-----------------------------------------------------------------------------
(* Retention::lifetime and the two liveness tests of the code.             *)

lifetime(retention) ==
    IF retention = "Reusable" THEN Pin1Lifetime ELSE OneShotLifetime

Unexpired1(e) == now - e.last_successful_use < lifetime(e.retention)

Unexpired2(e) == now - e.entered_at < Pin2Lifetime

is_rejected(s, slot, p) == <<s, p>> \in rejected[slot]

Init ==
    /\ positive_pin1 = {} /\ positive_pin2 = {}
    /\ generation = 0 /\ generation_pin2 = 0
    /\ rejected = [slot \in Slots |-> {}]
    /\ held1 = [c \in Callers |-> {}]
    /\ held2 = [c \in Callers |-> {}]
    /\ now = 0
    /\ live \in Serials
    /\ entered = [slot \in Slots |-> [x \in Secret |-> Never]]
    /\ once = "none"
    /\ refused = {}

(***************************************************************************)
(* clear_positive and clear_positive_pin2, also called by the operations   *)
(* below.  wrapping_add(1) on a u64 is +1 below the bound MaxGeneration.   *)
(***************************************************************************)
clear_positive ==
    /\ generation < MaxGeneration
    /\ generation' = generation + 1
    /\ positive_pin1' = {}

clear_positive_pin2 ==
    /\ generation_pin2 < MaxGeneration
    /\ generation_pin2' = generation_pin2 + 1
    /\ positive_pin2' = {}

ClearPositive ==
    /\ clear_positive
    /\ UNCHANGED <<positive_pin2, generation_pin2, rejected, held1, held2, env, hist>>

ClearPositivePin2 ==
    /\ clear_positive_pin2
    /\ UNCHANGED <<positive_pin1, generation, rejected, held1, held2, env, hist>>

-----------------------------------------------------------------------------
(* PIN1.                                                                   *)

(***************************************************************************)
(* store_pin1 (Reusable) and stage_pin1_once (OneShot), through            *)
(* store_pin1_at.  The Err(PreviouslyRejectedPin) return changes nothing.  *)
(***************************************************************************)
StorePin1(s, p, retention) ==
    /\ ~is_rejected(s, "Pin1", p)
    /\ generation < MaxGeneration
    /\ generation' = generation + 1
    /\ positive_pin1' = {[serial |-> s, pin |-> p, last_successful_use |-> now,
                          generation |-> generation + 1, retention |-> retention]}
    /\ entered' = [entered EXCEPT !["Pin1"][<<s, p>>] = now]
    /\ once' = IF retention = "OneShot" THEN "staged" ELSE "none"
    /\ refused' = refused \ {"Pin1"}
    /\ UNCHANGED <<positive_pin2, generation_pin2, rejected, held1, held2, env>>

Live1 == \E e \in positive_pin1 : e.serial = live /\ Unexpired1(e)

\* checkout_pin1 for the freshly read serial: a live entry is taken ...
CheckoutPin1(c) ==
    /\ held1[c] = {}
    /\ Live1
    /\ held1' = [held1 EXCEPT ![c] = positive_pin1]
    /\ positive_pin1' = {}
    /\ once' = IF once = "staged" THEN "spent" ELSE once
    /\ UNCHANGED <<positive_pin2, generation, generation_pin2, rejected, held2,
                   env, entered, refused>>

\* Mutant: the refused checkout empties the slot and leaves the generation, so
\* that an entry that is out can still come back.
CheckoutPin1MissSameGeneration ==
    /\ ~Live1
    /\ positive_pin1' = {}
    /\ refused' = refused \cup {"Pin1"}
    /\ UNCHANGED <<positive_pin2, generation, generation_pin2, rejected, held1, held2,
                   env, entered, once>>

\* ... and expiry, mismatch or absence destroys the entry and returns None.
CheckoutPin1Miss ==
    /\ ~Live1
    /\ clear_positive
    /\ refused' = refused \cup {"Pin1"}
    /\ UNCHANGED <<positive_pin2, generation_pin2, rejected, held1, held2, env,
                   entered, once>>

Refreshed(e) == [e EXCEPT !.last_successful_use = now]

\* Mutant: the restore does not look at the retention of the entry.
RestorePin1OneShotToo(c) ==
    \E e \in held1[c] :
      /\ held1' = [held1 EXCEPT ![c] = {}]
      /\ positive_pin1' =
           IF e.generation # generation \/ positive_pin1 # {}
           THEN positive_pin1
           ELSE {Refreshed(e)}
      /\ UNCHANGED <<positive_pin2, generation, generation_pin2, rejected, held2,
                     env, hist>>

(***************************************************************************)
(* CheckedOutPin1::restore_after_success_at: consumes the checkout; a      *)
(* OneShot entry, a changed generation or a refilled cache drops it.       *)
(***************************************************************************)
RestorePin1(c) ==
    \E e \in held1[c] :
      /\ held1' = [held1 EXCEPT ![c] = {}]
      /\ positive_pin1' =
           IF \/ e.retention = "OneShot"
              \/ e.generation # generation
              \/ positive_pin1 # {}
           THEN positive_pin1
           ELSE {Refreshed(e)}
      /\ UNCHANGED <<positive_pin2, generation, generation_pin2, rejected, held2,
                     env, hist>>

\* Dropping a CheckedOutPin1 destroys the PIN (a failed or abandoned VERIFY).
DropPin1(c) ==
    /\ held1[c] # {}
    /\ held1' = [held1 EXCEPT ![c] = {}]
    /\ UNCHANGED <<cache, held2, env, hist>>

\* has_positive_pin1: a query, but it clears (and so invalidates) when not live.
HasPositivePin1Miss ==
    /\ ~\E e \in positive_pin1 : Unexpired1(e)
    /\ clear_positive
    /\ UNCHANGED <<positive_pin2, generation_pin2, rejected, held1, held2, env, hist>>

-----------------------------------------------------------------------------
(* PIN2: the same shape, but the window is anchored at entry.              *)

\* Mutant: refilling the slot does not invalidate an outstanding checkout.
StorePin2SameGeneration(s, p) ==
    /\ ~is_rejected(s, "Pin2", p)
    /\ positive_pin2' = {[serial |-> s, pin |-> p, entered_at |-> now,
                          generation |-> generation_pin2]}
    /\ entered' = [entered EXCEPT !["Pin2"][<<s, p>>] = now]
    /\ UNCHANGED <<positive_pin1, generation, generation_pin2, rejected, held1, held2,
                   env, once, refused>>

\* store_pin2 through store_pin2_at.
StorePin2(s, p) ==
    /\ ~is_rejected(s, "Pin2", p)
    /\ generation_pin2 < MaxGeneration
    /\ generation_pin2' = generation_pin2 + 1
    /\ positive_pin2' = {[serial |-> s, pin |-> p, entered_at |-> now,
                          generation |-> generation_pin2 + 1]}
    /\ entered' = [entered EXCEPT !["Pin2"][<<s, p>>] = now]
    /\ refused' = refused \ {"Pin2"}
    /\ UNCHANGED <<positive_pin1, generation, rejected, held1, held2, env, once>>

Live2 == \E e \in positive_pin2 : e.serial = live /\ Unexpired2(e)

CheckoutPin2(c) ==
    /\ held2[c] = {}
    /\ Live2
    /\ held2' = [held2 EXCEPT ![c] = positive_pin2]
    /\ positive_pin2' = {}
    /\ UNCHANGED <<positive_pin1, generation, generation_pin2, rejected, held1,
                   env, hist>>

CheckoutPin2Miss ==
    /\ ~Live2
    /\ clear_positive_pin2
    /\ refused' = refused \cup {"Pin2"}
    /\ UNCHANGED <<positive_pin1, generation, rejected, held1, held2, env, entered, once>>

\* Mutant: a use of PIN2 renews its window, as it does for PIN1.
RestorePin2Renewed(c) ==
    \E e \in held2[c] :
      /\ held2' = [held2 EXCEPT ![c] = {}]
      /\ positive_pin2' =
           IF e.generation # generation_pin2 \/ positive_pin2 # {}
           THEN positive_pin2
           ELSE {[e EXCEPT !.entered_at = now]}
      /\ UNCHANGED <<positive_pin1, generation, generation_pin2, rejected, held1,
                     env, hist>>

\* CheckedOutPin2::restore_after_success: entered_at is left as it was.
RestorePin2(c) ==
    \E e \in held2[c] :
      /\ held2' = [held2 EXCEPT ![c] = {}]
      /\ positive_pin2' =
           IF e.generation # generation_pin2 \/ positive_pin2 # {}
           THEN positive_pin2
           ELSE {e}
      /\ UNCHANGED <<positive_pin1, generation, generation_pin2, rejected, held1,
                     env, hist>>

DropPin2(c) ==
    /\ held2[c] # {}
    /\ held2' = [held2 EXCEPT ![c] = {}]
    /\ UNCHANGED <<cache, held1, env, hist>>

\* has_positive_pin2 forgets an expired entry but keeps the generation.
HasPositivePin2Miss ==
    /\ ~\E e \in positive_pin2 : Unexpired2(e)
    /\ positive_pin2' = {}
    /\ UNCHANGED <<positive_pin1, generation, generation_pin2, rejected, held1,
                   held2, env, hist>>

-----------------------------------------------------------------------------

\* Mutant: a rejection empties the cache but leaves outstanding checkouts valid.
RecordRejectedSameGeneration(s, slot, p) ==
    /\ positive_pin1' = {} /\ positive_pin2' = {}
    /\ rejected' = [rejected EXCEPT ![slot] = @ \cup {<<s, p>>}]
    /\ UNCHANGED <<generation, generation_pin2, held1, held2, env, hist>>

(***************************************************************************)
(* record_rejected: a wrong-PIN answer for either slot clears BOTH slots.  *)
(***************************************************************************)
RecordRejected(s, slot, p) ==
    /\ clear_positive
    /\ clear_positive_pin2
    /\ rejected' = [rejected EXCEPT ![slot] = @ \cup {<<s, p>>}]
    /\ UNCHANGED <<held1, held2, env, hist>>

\* Time passes; the user swaps the card.
Tick ==
    /\ now < MaxTime
    /\ now' = now + 1
    /\ UNCHANGED <<cache, held1, held2, live, hist>>

SwapCard ==
    /\ live' \in Serials \ {live}
    /\ UNCHANGED <<cache, held1, held2, now, hist>>

Pin1Step ==
    \/ \E s \in Serials, p \in Pins, r \in Retention : StorePin1(s, p, r)
    \/ \E c \in Callers : CheckoutPin1(c) \/ RestorePin1(c) \/ DropPin1(c)
    \/ CheckoutPin1Miss \/ HasPositivePin1Miss \/ ClearPositive

Pin2Step ==
    \/ \E s \in Serials, p \in Pins : StorePin2(s, p)
    \/ \E c \in Callers : CheckoutPin2(c) \/ RestorePin2(c) \/ DropPin2(c)
    \/ CheckoutPin2Miss \/ HasPositivePin2Miss \/ ClearPositivePin2

Next ==
    \/ Pin1Step
    \/ Pin2Step
    \/ \E s \in Serials, slot \in Slots, p \in Pins : RecordRejected(s, slot, p)
    \/ Tick
    \/ SwapCard

Spec == Init /\ [][Next]_vars

-----------------------------------------------------------------------------
(* Properties.                                                             *)

(***************************************************************************)
(* Type invariant: an Option has at most one value, of the declared type.  *)
(***************************************************************************)
IsOption(o) == \A x, y \in o : x = y

CacheTypeOK ==
    /\ positive_pin1 \in SUBSET CachedPin1 /\ IsOption(positive_pin1)
    /\ positive_pin2 \in SUBSET CachedPin2 /\ IsOption(positive_pin2)
    /\ generation \in Nat /\ generation_pin2 \in Nat
    /\ rejected \in [Slots -> SUBSET Secret]
    /\ held1 \in [Callers -> SUBSET CachedPin1]
    /\ held2 \in [Callers -> SUBSET CachedPin2]
    /\ \A c \in Callers : IsOption(held1[c]) /\ IsOption(held2[c])

HistoryTypeOK ==
    /\ now \in Nat
    /\ live \in Serials
    /\ entered \in [Slots -> [Secret -> Nat \cup {Never}]]
    /\ once \in {"none", "staged", "spent"}
    /\ refused \subseteq Slots

TypeOK == CacheTypeOK /\ HistoryTypeOK

(***************************************************************************)
(* No retry is burnt twice: a PIN that the card has rejected is never in   *)
(* the positive cache, whatever was checked out when the rejection came    *)
(* (record_rejected against restore_after_success).                        *)
(***************************************************************************)
NoRejectedPinCached ==
    /\ Secrets(positive_pin1) \cap rejected["Pin1"] = {}
    /\ Secrets(positive_pin2) \cap rejected["Pin2"] = {}

(***************************************************************************)
(* A checkout is the only way back: a cached entry and the checkouts that  *)
(* could still be restored (generation unchanged) are together at most     *)
(* one, so a restore never revives a PIN that another event superseded.    *)
(***************************************************************************)
Restorable1 == {c \in Callers : \E e \in held1[c] : e.generation = generation}
Restorable2 == {c \in Callers : \E e \in held2[c] : e.generation = generation_pin2}

AtMostOneLiveCopy ==
    /\ positive_pin1 # {} => Restorable1 = {}
    /\ positive_pin2 # {} => Restorable2 = {}
    /\ \A c, d \in Restorable1 : c = d
    /\ \A c, d \in Restorable2 : c = d

(***************************************************************************)
(* A PIN staged with stage_pin1_once and handed out is gone: until PIN1 is *)
(* stored again, nothing is cached for the slot.                           *)
(***************************************************************************)
OneShotSpent == once = "spent" => positive_pin1 = {}

\* What caller c receives in a step, if it receives anything.
Received(held, c) == IF held[c] = {} THEN held'[c] ELSE {}

(***************************************************************************)
(* The consent window of PIN2: whatever was checked out and restored in    *)
(* between, PIN2 is handed out only less than PIN2_CACHE_LIFETIME after    *)
(* the user last entered it for this card.                                 *)
(***************************************************************************)
WithinConsent ==
    \A c \in Callers : \A e \in Received(held2, c) :
        LET t == entered["Pin2"][<<e.serial, e.pin>>]
        IN  t # Never /\ now - t < Pin2Lifetime

ConsentWindow == [][WithinConsent]_vars

(***************************************************************************)
(* Expiry or mismatch destroys the entry for good: once a checkout met     *)
(* another card or came too late, nothing is cached for the slot and no    *)
(* caller can put back what it took out before, until the user enters the  *)
(* PIN again.  Swapping the first card back in does not revive its PIN.    *)
(***************************************************************************)
MismatchForgets ==
    /\ "Pin1" \in refused => positive_pin1 = {} /\ Restorable1 = {}
    /\ "Pin2" \in refused => positive_pin2 = {} /\ Restorable2 = {}

=============================================================================
