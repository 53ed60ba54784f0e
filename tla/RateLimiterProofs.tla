-------------------------- MODULE RateLimiterProofs --------------------------
(* Theorems about the rate limiter, for any set of keys, any limits and any    *)
(* length of time.                                                             *)
EXTENDS RateLimiter, FiniteSetTheorems, TLAPS

-----------------------------------------------------------------------------
(* Arithmetic the provers are not asked to find inside larger steps.           *)

(* What the rate refills in any time is a natural number.                      *)
LEMMA ProductNat == \A a, b \in Nat : a * b \in Nat
  OBVIOUS

(* One tick more refills Refill units more.                                    *)
LEMMA ProductStep == \A a, b \in Int : (a + 1) * b = a * b + b
  OBVIOUS

(* Capacity and grant: the grant covers both the capacity and one request.     *)
LEMMA Amounts ==
    /\ Cap \in Nat
    /\ Grant \in Nat
    /\ Cap <= Grant
    /\ Unit <= Grant
    /\ Grant \in {Cap, Unit}
    /\ Unit \in Nat
    /\ Refill \in Nat
<1>1. Cap \in Nat
  BY ConstantsAssumption, ProductNat DEF Cap
<1> QED
  BY <1>1, ConstantsAssumption DEF Grant

(* tokenBucket.allow's refill stays within what a bucket can hold.             *)
LEMMA RefilledType ==
    ASSUME NEW e \in Entry, now \in Nat, e.lastRefill <= now
    PROVE  /\ Refilled(e) \in (0 - Unit) .. Cap
           /\ Refilled(e) >= e.tokens
           /\ Refilled(e) <= e.tokens + (now - e.lastRefill) * Refill
<1> DEFINE more == (now - e.lastRefill) * Refill
<1>1. /\ e.tokens \in Int /\ 0 - Unit <= e.tokens /\ e.tokens <= Cap
      /\ e.lastRefill \in Nat
  BY Amounts, ConstantsAssumption DEF Entry, Time
<1>2. now - e.lastRefill \in Nat
  BY <1>1
<1>3. more \in Nat
  BY <1>2, Amounts, ProductNat
<1> HIDE DEF more
<1>4. Refilled(e) = IF e.tokens + more > Cap THEN Cap ELSE e.tokens + more
  BY DEF Refilled, Capped, more
<1>5. Refilled(e) \in Int /\ 0 - Unit <= Refilled(e) /\ Refilled(e) <= Cap
      /\ Refilled(e) >= e.tokens /\ Refilled(e) <= e.tokens + more
  BY <1>1, <1>3, <1>4, Amounts
<1> QED
  BY <1>5, Amounts DEF more

-----------------------------------------------------------------------------
(* Type correctness.  TypeOK is not inductive by itself: that a refill does    *)
(* not take tokens away needs time stamps that are not in the future.          *)

Stamped == \A k \in DOMAIN buckets : /\ buckets[k].lastRefill <= now
                                     /\ buckets[k].lastSeen <= now

(* A new entry, and one a token was taken from, are entries stamped now.       *)
LEMMA EntryOps ==
    ASSUME now \in Time
    PROVE  /\ NewEntry \in Entry
           /\ NewEntry.lastRefill = now /\ NewEntry.lastSeen = now
           /\ \A e \in Entry : e.lastRefill <= now =>
                 /\ Take(e) \in Entry
                 /\ Take(e).lastRefill = now /\ Take(e).lastSeen = now
<1>1. now \in Nat
  BY ConstantsAssumption DEF Time
<1>2. Cap - Unit \in (0 - Unit) .. Cap
  BY Amounts
<1>3. NewEntry \in Entry
  BY <1>2 DEF NewEntry, Entry
<1>4. ASSUME NEW e \in Entry, e.lastRefill <= now
      PROVE  Take(e) \in Entry /\ Take(e).lastRefill = now /\ Take(e).lastSeen = now
  <2>1. Refilled(e) \in (0 - Unit) .. Cap
    BY <1>1, <1>4, RefilledType
  <2>2. (IF Refilled(e) < Unit THEN Refilled(e) ELSE Refilled(e) - Unit)
            \in (0 - Unit) .. Cap
    BY <2>1, Amounts
  <2> QED
    BY <2>2 DEF Take, Entry
<1> QED
  BY <1>3, <1>4 DEF NewEntry

(* No client can spend more at once than the grant.                            *)
LEMMA CreditType ==
    ASSUME TypeOK, Stamped, NEW k \in Keys
    PROVE  Credit(k) \in Int /\ Credit(k) <= Grant
<1>1. CASE k \in DOMAIN buckets
  <2>1. buckets[k] \in Entry /\ buckets[k].lastRefill <= now
    BY <1>1 DEF TypeOK, Stamped
  <2>2. now \in Nat
    BY ConstantsAssumption DEF TypeOK, Time
  <2>3. Refilled(buckets[k]) \in (0 - Unit) .. Cap
    BY <2>1, <2>2, RefilledType
  <2> QED
    BY <1>1, <2>3, Amounts DEF Credit
<1>2. CASE k \notin DOMAIN buckets
  BY <1>2, Amounts DEF Credit
<1> QED
  BY <1>1, <1>2

(* What evictExpiredLocked and evictOldestLocked leave is part of the map.     *)
Part(b) == /\ DOMAIN b \subseteq DOMAIN buckets
           /\ \A k \in DOMAIN b : b[k] = buckets[k]

(* Dropping a set of entries leaves a part of the map.                         *)
LEMMA WithoutPart ==
    ASSUME NEW b, Part(b), NEW S
    PROVE  Part(Without(b, S)) /\ DOMAIN Without(b, S) = DOMAIN b \ S
  BY DEF Part, Without

(* So does making room for a new key: entries are dropped, never changed.      *)
LEMMA MakeRoomPart == \A b \in MakeRoom : Part(b)
<1> DEFINE full(b) == Cardinality(DOMAIN b) >= MaxEntries
           swept   == IF full(buckets) THEN Without(buckets, Expired(buckets)) ELSE buckets
<1>1. Part(buckets)
  BY DEF Part
<1>2. Part(swept)
  BY <1>1, WithoutPart
<1>3. \A b \in EvictOldest(swept) : Part(b)
  <2> HIDE DEF swept
  <2> SUFFICES ASSUME NEW k \in Oldest(swept)
               PROVE  Part(Without(swept, {k} \ {EmptyKey}))
    BY DEF EvictOldest
  <2> QED
    BY <1>2, WithoutPart
<1>4. MakeRoom = IF full(swept) /\ DOMAIN swept # {} THEN EvictOldest(swept) ELSE {swept}
  BY DEF MakeRoom
<1> HIDE DEF swept, full
<1> QED
  BY <1>2, <1>3, <1>4

(* The start satisfies the invariant.                                          *)
LEMMA InitTyped == Init => TypeOK /\ Stamped
<1> SUFFICES ASSUME Init PROVE TypeOK /\ Stamped
  OBVIOUS
<1>1. now \in Time /\ DOMAIN buckets = {}
  BY ConstantsAssumption DEF Init, Time
<1>2. buckets \in [DOMAIN buckets -> Entry]
  BY DEF Init
<1> QED
  BY <1>1, <1>2 DEF Init, TypeOK, Stamped

(* Every action keeps it.                                                      *)
LEMMA StepTyped == TypeOK /\ Stamped /\ [Next]_vars => TypeOK' /\ Stamped'
<1> SUFFICES ASSUME TypeOK, Stamped, [Next]_vars
             PROVE  TypeOK' /\ Stamped'
  OBVIOUS
<1>0. now \in Time /\ now \in Nat
  BY ConstantsAssumption DEF TypeOK, Time
<1>1. ASSUME NEW gone, Forgive(gone)
      PROVE  forgiven' \in [Keys -> Nat]
  <2> SUFFICES ASSUME NEW k \in Keys
               PROVE  forgiven[k] + (Grant - Credit(k)) \in Nat
    BY <1>1 DEF Forgive, TypeOK
  <2> QED
    BY CreditType, Amounts DEF TypeOK
<1>2. ASSUME NEW k \in Keys, Spend(k) \/ UNCHANGED spent
      PROVE  spent' \in [Keys -> Nat]
  BY <1>2, Amounts DEF Spend, TypeOK
<1>3. ASSUME NEW k \in Keys, AllowNew(k)
      PROVE  TypeOK' /\ Stamped'
  <2>1. PICK b \in MakeRoom : buckets' = Insert(b, k) /\ Forgive(DOMAIN buckets \ DOMAIN b)
    BY <1>3 DEF AllowNew
  <2>2. Part(b)
    BY MakeRoomPart
  <2>3. /\ DOMAIN buckets' = DOMAIN b \cup {k}
        /\ \A j \in DOMAIN buckets' : buckets'[j] = IF j = k THEN NewEntry ELSE buckets[j]
        /\ buckets' = [j \in DOMAIN b \cup {k} |-> IF j = k THEN NewEntry ELSE b[j]]
    BY <2>1, <2>2 DEF Insert, Part
  <2>4. NewEntry \in Entry /\ NewEntry.lastRefill = now /\ NewEntry.lastSeen = now
    BY <1>0, EntryOps
  <2>5. buckets' \in [DOMAIN buckets' -> Entry] /\ DOMAIN buckets' \subseteq Keys
    BY <2>2, <2>3, <2>4 DEF Part, TypeOK
  <2>6. Stamped'
    BY <2>2, <2>3, <2>4, <1>0, <1>3 DEF Part, Stamped, AllowNew
  <2> QED
    BY <1>1, <1>2, <1>3, <2>1, <2>5, <2>6 DEF AllowNew, TypeOK
<1>4. ASSUME NEW k \in Keys, AllowKnown(k)
      PROVE  TypeOK' /\ Stamped'
  <2>1. /\ k \in DOMAIN buckets
        /\ buckets' = [buckets EXCEPT ![k] = Take(@)]
        /\ now' = now
    BY <1>4 DEF AllowKnown
  <2>2. buckets[k] \in Entry /\ buckets[k].lastRefill <= now
    BY <2>1 DEF TypeOK, Stamped
  <2>3. /\ Take(buckets[k]) \in Entry
        /\ Take(buckets[k]).lastRefill = now /\ Take(buckets[k]).lastSeen = now
    BY <1>0, <2>2, EntryOps
  <2>4. /\ DOMAIN buckets' = DOMAIN buckets
        /\ buckets' \in [DOMAIN buckets' -> Entry]
        /\ \A j \in DOMAIN buckets' :
              buckets'[j] = IF j = k THEN Take(buckets[k]) ELSE buckets[j]
    BY <2>1, <2>3 DEF TypeOK
  <2>5. Stamped'
    BY <2>1, <2>3, <2>4, <1>0 DEF Stamped
  <2>6. verdict' \in Keys \X BOOLEAN
    <3> DEFINE ok == Refilled(buckets[k]) >= Unit
    <3>1. verdict' = <<k, ok>>
      BY <1>4 DEF AllowKnown
    <3>2. ok \in BOOLEAN
      OBVIOUS
    <3> HIDE DEF ok
    <3> QED
      BY <3>1, <3>2
  <2>7. spent' \in [Keys -> Nat]
    <3>1. Spend(k) \/ UNCHANGED spent
      BY <1>4 DEF AllowKnown
    <3> QED
      BY <3>1, <1>2
  <2> QED
    BY <1>4, <2>1, <2>4, <2>5, <2>6, <2>7 DEF AllowKnown, TypeOK
<1>5. CASE Cleanup
  <2>1. buckets' = Without(buckets, Expired(buckets)) /\ now' = now
    BY <1>5 DEF Cleanup
  <2>2. /\ DOMAIN buckets' = DOMAIN buckets \ Expired(buckets)
        /\ \A j \in DOMAIN buckets' : buckets'[j] = buckets[j]
        /\ buckets' \in [DOMAIN buckets' -> Entry]
    BY <2>1 DEF Without, TypeOK
  <2>3. Stamped'
    BY <2>1, <2>2 DEF Stamped
  <2> QED
    BY <1>1, <1>5, <2>2, <2>3 DEF Cleanup, TypeOK
<1>6. CASE Tick
  <2>1. now' \in Time /\ now' = now + 1 /\ buckets' = buckets
    BY <1>6, <1>0, ConstantsAssumption DEF Tick, Time
  <2>2. \A j \in DOMAIN buckets : buckets[j].lastRefill \in Nat /\ buckets[j].lastSeen \in Nat
    BY ConstantsAssumption DEF TypeOK, Entry, Time
  <2> QED
    BY <1>6, <1>0, <2>1, <2>2 DEF Tick, TypeOK, Stamped
<1>7. CASE UNCHANGED vars
  BY <1>7 DEF vars, TypeOK, Stamped
<1> QED
  BY <1>3, <1>4, <1>5, <1>6, <1>7 DEF Next, Allow

(* Every reachable state is well typed: in particular no bucket ever holds     *)
(* more tokens than its capacity, or owes more than the one request that a     *)
(* burst of 0 lets through.                                                    *)
THEOREM TypeCorrect == Spec => []TypeOK
<1>1. Spec => [](TypeOK /\ Stamped)
  BY InitTyped, StepTyped, PTL DEF Spec
<1> QED
  BY <1>1, PTL

-----------------------------------------------------------------------------
(* The bound on tracked keys.  It depends on no client having the key "",      *)
(* which evictOldestLocked never deletes.                                      *)

(* After making room there is space for one more key, or nothing at all.       *)
LEMMA MakeRoomSpace ==
    ASSUME TypeOK, TrackedBound, EmptyKey \notin Keys, NEW b \in MakeRoom
    PROVE  /\ IsFiniteSet(DOMAIN b)
           /\ Cardinality(DOMAIN b) \in Nat
           /\ Cardinality(DOMAIN b) < MaxEntries \/ Cardinality(DOMAIN b) = 0
<1> DEFINE full(c) == Cardinality(DOMAIN c) >= MaxEntries
           swept   == IF full(buckets) THEN Without(buckets, Expired(buckets)) ELSE buckets
<1>1. IsFiniteSet(DOMAIN buckets) /\ Cardinality(DOMAIN buckets) \in Nat
  BY ConstantsAssumption, FS_Subset, FS_CardinalityType DEF TypeOK
<1>2. Part(buckets)
  BY DEF Part
<1>3. Part(swept)
  BY <1>2, WithoutPart
<1>4. /\ IsFiniteSet(DOMAIN swept)
      /\ Cardinality(DOMAIN swept) \in Nat
      /\ Cardinality(DOMAIN swept) <= Cardinality(DOMAIN buckets)
  BY <1>1, <1>3, FS_Subset, FS_CardinalityType DEF Part
<1>5. MakeRoom = IF full(swept) /\ DOMAIN swept # {} THEN EvictOldest(swept) ELSE {swept}
  BY DEF MakeRoom
<1> HIDE DEF swept
<1>6. CASE ~full(swept)
  <2>1. b = swept
    BY <1>5, <1>6
  <2> QED
    BY <1>4, <1>6, <2>1, ConstantsAssumption
<1>7. CASE DOMAIN swept = {}
  <2>1. b = swept
    BY <1>5, <1>7
  <2> QED
    BY <1>4, <1>7, <2>1, FS_EmptySet
<1>8. CASE full(swept) /\ DOMAIN swept # {}
  <2>1. PICK k \in Oldest(swept) : b = Without(swept, {k} \ {EmptyKey})
    BY <1>5, <1>8 DEF EvictOldest
  <2>2. k \in DOMAIN swept /\ k # EmptyKey
    BY <1>3, <2>1 DEF Oldest, Part, TypeOK
  <2>3. DOMAIN b = DOMAIN swept \ {k}
    BY <2>1, <2>2 DEF Without
  <2>4. /\ IsFiniteSet(DOMAIN b)
        /\ Cardinality(DOMAIN b) = Cardinality(DOMAIN swept) - 1
    BY <1>4, <2>2, <2>3, FS_RemoveElement
  <2>5. Cardinality(DOMAIN b) \in Nat
    BY <2>4, FS_CardinalityType
  <2>6. Cardinality(DOMAIN buckets) <= (IF MaxEntries = 0 THEN 1 ELSE MaxEntries)
    BY DEF TrackedBound
  <2> QED
    BY <1>1, <1>4, <2>4, <2>5, <2>6, ConstantsAssumption
<1> QED
  BY <1>6, <1>7, <1>8

(* The map never tracks more keys than MaxTrackedIPs allows (one, if it allows *)
(* none), whatever clients come and however entries expire, as long as every   *)
(* client has a non-empty key.                                                 *)
THEOREM TrackedBounded == EmptyKey \notin Keys => (Spec => []TrackedBound)
<1> SUFFICES ASSUME EmptyKey \notin Keys PROVE Spec => []TrackedBound
  OBVIOUS
<1>1. Init => TrackedBound
  <2> SUFFICES ASSUME Init PROVE TrackedBound
    OBVIOUS
  <2>1. DOMAIN buckets = {}
    BY DEF Init
  <2> QED
    BY <2>1, FS_EmptySet, ConstantsAssumption DEF TrackedBound
<1>2. TypeOK /\ TrackedBound /\ [Next]_vars => TrackedBound'
  <2> SUFFICES ASSUME TypeOK, TrackedBound, [Next]_vars PROVE TrackedBound'
    OBVIOUS
  <2>1. IsFiniteSet(DOMAIN buckets) /\ Cardinality(DOMAIN buckets) \in Nat
    BY ConstantsAssumption, FS_Subset, FS_CardinalityType DEF TypeOK
  <2>2. ASSUME NEW k \in Keys, AllowNew(k) PROVE TrackedBound'
    <3>1. PICK b \in MakeRoom : buckets' = Insert(b, k)
      BY <2>2 DEF AllowNew
    <3>2. /\ IsFiniteSet(DOMAIN b)
          /\ Cardinality(DOMAIN b) \in Nat
          /\ Cardinality(DOMAIN b) < MaxEntries \/ Cardinality(DOMAIN b) = 0
      BY MakeRoomSpace
    <3>3. DOMAIN buckets' = DOMAIN b \cup {k}
      BY <3>1 DEF Insert
    <3>4. k \notin DOMAIN b
      BY <2>2, MakeRoomPart DEF AllowNew, Part
    <3>5. Cardinality(DOMAIN buckets') = Cardinality(DOMAIN b) + 1
      BY <3>2, <3>3, <3>4, FS_AddElement
    <3> QED
      BY <3>2, <3>5, ConstantsAssumption DEF TrackedBound
  <2>3. ASSUME NEW k \in Keys, AllowKnown(k) PROVE TrackedBound'
    <3>1. DOMAIN buckets' = DOMAIN buckets
      BY <2>3 DEF AllowKnown
    <3> QED
      BY <3>1 DEF TrackedBound
  <2>4. CASE Cleanup
    <3>1. DOMAIN buckets' \subseteq DOMAIN buckets
      BY <2>4 DEF Cleanup, Without
    <3>2. /\ Cardinality(DOMAIN buckets') \in Nat
          /\ Cardinality(DOMAIN buckets') <= Cardinality(DOMAIN buckets)
      BY <2>1, <3>1, FS_Subset, FS_CardinalityType
    <3> QED
      BY <2>1, <3>2, ConstantsAssumption DEF TrackedBound
  <2>5. CASE Tick \/ UNCHANGED vars
    <3>1. buckets' = buckets
      BY <2>5 DEF Tick, vars
    <3> QED
      BY <3>1 DEF TrackedBound
  <2> QED
    BY <2>2, <2>3, <2>4, <2>5 DEF Next, Allow
<1> QED
  BY <1>1, <1>2, TypeCorrect, PTL DEF Spec

-----------------------------------------------------------------------------
(* The bound on what a window admits.  It is not inductive: a state in which a *)
(* client has spent all it may and still holds tokens satisfies it.  What is   *)
(* inductive counts the tokens a client could still spend with those it has    *)
(* spent, and says that nothing is counted before the window opens.            *)

Spendable(k) == IF Credit(k) > 0 THEN Credit(k) ELSE 0

Account ==
    /\ now >= from =>
          \A k \in Keys :
              spent[k] + Spendable(k) <= Grant + (now - from) * Refill + forgiven[k]
    /\ now < from => \A k \in Keys : spent[k] = 0 /\ forgiven[k] = 0

(* What a client can spend is a natural number of units.                       *)
LEMMA SpendableType ==
    ASSUME TypeOK, Stamped, NEW k \in Keys
    PROVE  Spendable(k) \in Nat /\ Spendable(k) <= Grant /\ Credit(k) <= Spendable(k)
  BY CreditType, Amounts DEF Spendable

(* A tick lets a client spend at most Refill more, and never beyond the grant. *)
LEMMA SpendableTick ==
    ASSUME TypeOK, Stamped, Tick, NEW k \in Keys
    PROVE  /\ Spendable(k)' \in Nat
           /\ Spendable(k)' <= Grant
           /\ Spendable(k)' <= Spendable(k) + Refill
<1>1. /\ now \in Nat /\ now' = now + 1 /\ buckets' = buckets
  BY ConstantsAssumption DEF TypeOK, Time, Tick
<1>2. CASE k \notin DOMAIN buckets
  <2>1. Credit(k)' = Grant /\ Credit(k) = Grant
    BY <1>1, <1>2 DEF Credit, Grant, Cap
  <2> QED
    BY <2>1, Amounts DEF Spendable
<1>3. CASE k \in DOMAIN buckets
  <2> DEFINE e == buckets[k]
             more == (now - e.lastRefill) * Refill
  <2>1. /\ e.tokens \in Int /\ e.tokens <= Cap
        /\ e.lastRefill \in Nat /\ e.lastRefill <= now
    BY <1>3, Amounts, ConstantsAssumption DEF TypeOK, Stamped, Entry, Time
  <2>2. more \in Nat
    BY <1>1, <2>1, Amounts, ProductNat
  <2>3. (now' - e.lastRefill) * Refill = more + Refill
    <3>1. now' - e.lastRefill = (now - e.lastRefill) + 1
      BY <1>1, <2>1
    <3>2. now - e.lastRefill \in Int
      BY <1>1, <2>1
    <3> QED
      BY <3>1, <3>2, ProductStep, Amounts
  <2>4. Credit(k) = IF e.tokens + more > Cap THEN Cap ELSE e.tokens + more
    BY <1>3 DEF Credit, Refilled, Capped
  <2>5. Credit(k)' = IF e.tokens + (more + Refill) > Cap THEN Cap
                     ELSE e.tokens + (more + Refill)
    BY <1>1, <1>3, <2>3 DEF Credit, Refilled, Capped, Cap
  <2> HIDE DEF more, e
  <2> QED
    BY <2>1, <2>2, <2>4, <2>5, Amounts DEF Spendable
<1> QED
  BY <1>2, <1>3

(* The window opens, or stays open, with every client within its account.      *)
LEMMA AccountTick ==
    ASSUME TypeOK, Stamped, Account, Tick
    PROVE  Account'
<1>1. /\ now \in Nat /\ from \in Nat /\ now' = now + 1
      /\ from' = from /\ spent' = spent /\ forgiven' = forgiven /\ buckets' = buckets
  BY ConstantsAssumption DEF TypeOK, Time, Tick
<1>2. (now' >= from')
         => \A k \in Keys : spent'[k] + Spendable(k)'
                                <= Grant' + (now' - from') * Refill + forgiven'[k]
  <2> SUFFICES ASSUME now + 1 >= from, NEW k \in Keys
               PROVE  spent[k] + Spendable(k)'
                          <= Grant + (now + 1 - from) * Refill + forgiven[k]
    BY <1>1 DEF Grant, Cap
  <2>1. Spendable(k)' \in Nat /\ Spendable(k)' <= Grant
    BY SpendableTick
  <2>2. spent[k] \in Nat /\ forgiven[k] \in Nat /\ Spendable(k) \in Nat
    BY SpendableType DEF TypeOK
  <2>3. CASE now >= from
    <3>1. (now + 1 - from) * Refill = (now - from) * Refill + Refill
      <4>1. now - from \in Int /\ now + 1 - from = (now - from) + 1
        BY <1>1
      <4> QED
        BY <4>1, ProductStep, Amounts
    <3>2. (now - from) * Refill \in Nat
      BY <1>1, <2>3, Amounts, ProductNat
    <3>3. spent[k] + Spendable(k) <= Grant + (now - from) * Refill + forgiven[k]
      BY <2>3 DEF Account
    <3>4. Spendable(k)' <= Spendable(k) + Refill
      BY SpendableTick
    <3> QED
      BY <2>1, <2>2, <3>1, <3>2, <3>3, <3>4, Amounts
  <2>4. CASE now < from
    <3>1. spent[k] = 0 /\ forgiven[k] = 0
      BY <2>4 DEF Account
    <3>2. (now + 1 - from) * Refill \in Nat
      BY <1>1, Amounts, ProductNat
    <3> QED
      BY <2>1, <3>1, <3>2, Amounts
  <2> QED
    BY <1>1, <2>3, <2>4
<1>3. (now' < from') => \A k \in Keys : spent'[k] = 0 /\ forgiven'[k] = 0
  BY <1>1 DEF Account
<1> QED
  BY <1>2, <1>3 DEF Account

(* The other steps take no time.  They keep the account of a client if what it *)
(* has spent and can spend grows by no more than what is forgiven.             *)
Settled(j) ==
    /\ Spendable(j)' \in Nat
    /\ now >= from => spent'[j] + Spendable(j)' + forgiven[j]
                          <= spent[j] + Spendable(j) + forgiven'[j]
    /\ now < from => spent'[j] = spent[j] /\ forgiven'[j] = forgiven[j]

(* A step that settles every client keeps the account.                         *)
LEMMA AccountKept ==
    ASSUME TypeOK, Stamped, Account, TypeOK', UNCHANGED <<now, from>>,
           \A j \in Keys : Settled(j)
    PROVE  Account'
<1>1. now \in Nat /\ from \in Nat
  BY ConstantsAssumption DEF TypeOK, Time
<1>2. ASSUME NEW j \in Keys, now >= from
      PROVE  spent'[j] + Spendable(j)' <= Grant + (now - from) * Refill + forgiven'[j]
  <2>1. (now - from) * Refill \in Nat
    BY <1>1, <1>2, Amounts, ProductNat
  <2>2. /\ spent[j] \in Nat /\ forgiven[j] \in Nat /\ Spendable(j) \in Nat
        /\ spent'[j] \in Nat /\ forgiven'[j] \in Nat
    BY SpendableType DEF TypeOK
  <2>3. spent[j] + Spendable(j) <= Grant + (now - from) * Refill + forgiven[j]
    BY <1>2 DEF Account
  <2>4. /\ Spendable(j)' \in Nat
        /\ spent'[j] + Spendable(j)' + forgiven[j] <= spent[j] + Spendable(j) + forgiven'[j]
    BY <1>2 DEF Settled
  <2> QED
    BY <2>1, <2>2, <2>3, <2>4, Amounts
<1>3. ASSUME NEW j \in Keys, now < from
      PROVE  spent'[j] = 0 /\ forgiven'[j] = 0
  BY <1>3 DEF Account, Settled
<1>4. Grant' = Grant
  BY DEF Grant, Cap
<1> QED
  BY <1>2, <1>3, <1>4 DEF Account

(* A client whose entry is unchanged can spend what it could.                  *)
LEMMA CreditSame ==
    ASSUME NEW j \in Keys, UNCHANGED now,
           (j \in DOMAIN buckets') <=> (j \in DOMAIN buckets),
           j \in DOMAIN buckets => buckets'[j] = buckets[j]
    PROVE  Credit(j)' = Credit(j) /\ Spendable(j)' = Spendable(j)
  BY DEF Credit, Spendable, Refilled, Capped, Grant, Cap

(* A client whose entry is dropped can spend the grant.                        *)
LEMMA CreditDropped ==
    ASSUME NEW j \in Keys, j \notin DOMAIN buckets'
    PROVE  Credit(j)' = Grant /\ Spendable(j)' = Grant
<1>1. Credit(j)' = Grant
  BY DEF Credit, Grant, Cap
<1> QED
  BY <1>1, Amounts DEF Spendable

(* An entry stamped now holds what its tokens say.                             *)
LEMMA CreditStamped ==
    ASSUME NEW j \in Keys, now \in Nat, UNCHANGED now, j \in DOMAIN buckets',
           buckets'[j].lastRefill = now, buckets'[j].tokens \in Int,
           buckets'[j].tokens <= Cap
    PROVE  Credit(j)' = buckets'[j].tokens
<1>1. (now - buckets'[j].lastRefill) * Refill = 0
  BY Amounts
<1>2. Credit(j)' = IF buckets'[j].tokens + (now - buckets'[j].lastRefill) * Refill > Cap
                   THEN Cap
                   ELSE buckets'[j].tokens + (now - buckets'[j].lastRefill) * Refill
  BY DEF Credit, Refilled, Capped, Cap
<1> QED
  BY <1>1, <1>2, Amounts

(* An eviction forgives what it gives back.                                    *)
LEMMA SettledDropped ==
    ASSUME TypeOK, Stamped, TypeOK', NEW j \in Keys, NEW gone, Forgive(gone), j \in gone,
           j \notin DOMAIN buckets', spent'[j] = spent[j]
    PROVE  Settled(j)
<1>1. Spendable(j)' = Grant
  BY CreditDropped
<1>2. /\ Spendable(j) \in Nat /\ Credit(j) \in Int /\ Credit(j) <= Spendable(j)
      /\ spent[j] \in Nat /\ forgiven[j] \in Nat
  BY SpendableType, CreditType DEF TypeOK
<1>3. now >= from => forgiven'[j] = forgiven[j] + (Grant - Credit(j))
  BY DEF Forgive
<1>4. now < from => forgiven'[j] = forgiven[j]
  <2>1. now \in Nat /\ from \in Nat
    BY ConstantsAssumption DEF TypeOK, Time
  <2> QED
    BY <2>1 DEF Forgive
<1> QED
  BY <1>1, <1>2, <1>3, <1>4, Amounts DEF Settled

(* And a client that neither acts nor is evicted is left alone.                *)
LEMMA SettledSame ==
    ASSUME TypeOK, Stamped, NEW j \in Keys, UNCHANGED now,
           (j \in DOMAIN buckets') <=> (j \in DOMAIN buckets),
           j \in DOMAIN buckets => buckets'[j] = buckets[j],
           spent'[j] = spent[j], forgiven'[j] = forgiven[j]
    PROVE  Settled(j)
<1>1. Spendable(j)' = Spendable(j)
  BY CreditSame
<1>2. Spendable(j) \in Nat /\ spent[j] \in Nat /\ forgiven[j] \in Nat
  BY SpendableType DEF TypeOK
<1> QED
  BY <1>1, <1>2 DEF Settled

(* allow for a new key: the client spends one request of its grant, and those  *)
(* who lose their entry are forgiven.                                          *)
LEMMA AccountAllowNew ==
    ASSUME TypeOK, Stamped, Account, TypeOK', NEW k \in Keys, AllowNew(k)
    PROVE  Account'
<1>1. PICK b \in MakeRoom : buckets' = Insert(b, k) /\ Forgive(DOMAIN buckets \ DOMAIN b)
  BY DEF AllowNew
<1>2. Part(b)
  BY MakeRoomPart
<1>3. k \notin DOMAIN buckets /\ UNCHANGED <<now, from>> /\ Spend(k)
  BY DEF AllowNew
<1>4. now \in Nat /\ from \in Nat
  BY ConstantsAssumption DEF TypeOK, Time
<1>5. /\ DOMAIN buckets' = DOMAIN b \cup {k}
      /\ \A j \in DOMAIN buckets' : buckets'[j] = IF j = k THEN NewEntry ELSE buckets[j]
  BY <1>1, <1>2 DEF Insert, Part
<1>6. ASSUME NEW j \in Keys PROVE Settled(j)
  <2>0. /\ j # k => spent'[j] = spent[j]
        /\ j \notin DOMAIN buckets \ DOMAIN b => forgiven'[j] = forgiven[j]
    BY <1>1, <1>3 DEF Spend, Forgive, TypeOK
  <2>1. CASE j = k
    <3>1. Credit(k) = Grant /\ Spendable(k) = Grant
      BY <1>3, Amounts DEF Credit, Spendable
    <3>2. Credit(k)' = Cap - Unit
      <4>1. /\ k \in DOMAIN buckets' /\ buckets'[k].lastRefill = now
            /\ buckets'[k].tokens = Cap - Unit
        BY <1>5 DEF NewEntry
      <4>2. buckets'[k].tokens \in Int /\ buckets'[k].tokens <= Cap
        BY <4>1, Amounts
      <4> QED
        BY <1>3, <1>4, <4>1, <4>2, CreditStamped
    <3>3. Spendable(k)' = IF Cap - Unit > 0 THEN Cap - Unit ELSE 0
      BY <3>2 DEF Spendable
    <3>4. Spendable(k)' \in Nat /\ Spendable(k)' + Unit <= Grant
      BY <3>3, Amounts DEF Grant
    <3>5. /\ now >= from => spent'[k] = spent[k] + Unit
          /\ now < from => spent'[k] = spent[k]
          /\ forgiven'[k] = forgiven[k]
      BY <1>3, <1>4, <2>0, <2>1 DEF Spend, TypeOK
    <3>6. spent[k] \in Nat /\ forgiven[k] \in Nat
      BY DEF TypeOK
    <3> QED
      BY <2>1, <3>1, <3>4, <3>5, <3>6, Amounts DEF Settled
  <2>2. CASE j # k /\ j \in DOMAIN buckets \ DOMAIN b
    BY <1>1, <1>5, <2>0, <2>2, SettledDropped
  <2>3. CASE j # k /\ j \notin DOMAIN buckets \ DOMAIN b
    <3>1. (j \in DOMAIN buckets') <=> (j \in DOMAIN buckets)
      BY <1>2, <1>5, <2>3 DEF Part
    <3>2. j \in DOMAIN buckets => buckets'[j] = buckets[j]
      BY <1>5, <2>3, <3>1
    <3> QED
      BY <1>3, <2>0, <2>3, <3>1, <3>2, SettledSame
  <2> QED
    BY <2>1, <2>2, <2>3
<1> QED
  BY <1>3, <1>6, AccountKept

(* allow for a known key: an admitted request costs a token, a denied one      *)
(* nothing.                                                                    *)
LEMMA AccountAllowKnown ==
    ASSUME TypeOK, Stamped, Account, TypeOK', NEW k \in Keys, AllowKnown(k)
    PROVE  Account'
<1> DEFINE t == Refilled(buckets[k])
<1>1. /\ k \in DOMAIN buckets /\ UNCHANGED <<now, from, forgiven>>
      /\ buckets' = [buckets EXCEPT ![k] = Take(@)]
      /\ t >= Unit => Spend(k)
      /\ ~(t >= Unit) => UNCHANGED spent
  BY DEF AllowKnown
<1>2. now \in Nat /\ from \in Nat
  BY ConstantsAssumption DEF TypeOK, Time
<1>3. t \in Int /\ t <= Cap
  <2>1. buckets[k] \in Entry /\ buckets[k].lastRefill <= now
    BY <1>1 DEF TypeOK, Stamped
  <2> QED
    BY <1>2, <2>1, RefilledType, Amounts
<1>4. /\ DOMAIN buckets' = DOMAIN buckets
      /\ \A j \in DOMAIN buckets : j # k => buckets'[j] = buckets[j]
      /\ buckets'[k] = Take(buckets[k])
  BY <1>1 DEF TypeOK
<1>5. ASSUME NEW j \in Keys PROVE Settled(j)
  <2>1. CASE j = k
    <3>1. /\ buckets'[k].tokens = IF t < Unit THEN t ELSE t - Unit
          /\ buckets'[k].lastRefill = now
      BY <1>4 DEF Take
    <3>2. buckets'[k].tokens \in Int /\ buckets'[k].tokens <= Cap
      BY <1>3, <3>1, Amounts
    <3>3. Credit(k) = t
      BY <1>1 DEF Credit
    <3>4. Credit(k)' = IF t < Unit THEN t ELSE t - Unit
      BY <1>1, <1>2, <1>4, <3>1, <3>2, CreditStamped
    <3>5. spent[k] \in Nat /\ forgiven[k] \in Nat
      BY DEF TypeOK
    <3>6. CASE t < Unit
      <4>1. spent'[k] = spent[k] /\ Spendable(k)' = Spendable(k)
        BY <1>1, <1>3, <3>3, <3>4, <3>6, Amounts DEF Spendable
      <4>2. Spendable(k) \in Nat
        BY SpendableType
      <4> QED
        BY <1>1, <2>1, <3>5, <4>1, <4>2 DEF Settled
    <3>7. CASE ~(t < Unit)
      <4>1. Spend(k)
        BY <1>1, <1>3, <3>7, Amounts
      <4>2. /\ now >= from => spent'[k] = spent[k] + Unit
            /\ now < from => spent'[k] = spent[k]
        BY <1>2, <4>1 DEF Spend, TypeOK
      <4>3. Credit(k)' = t - Unit /\ t >= Unit
        BY <1>3, <3>4, <3>7, Amounts
      <4> HIDE DEF t
      <4>4. Spendable(k) \in Nat /\ Spendable(k)' \in Nat /\ Spendable(k)' + Unit = Spendable(k)
        BY <1>3, <3>3, <4>3, Amounts, ConstantsAssumption DEF Spendable
      <4> QED
        BY <1>1, <2>1, <3>5, <4>2, <4>4, Amounts DEF Settled
    <3> QED
      BY <3>6, <3>7
  <2>2. CASE j # k
    <3>1. spent'[j] = spent[j]
      BY <1>1, <2>2 DEF Spend, TypeOK
    <3> QED
      BY <1>1, <1>4, <2>2, <3>1, SettledSame
  <2> QED
    BY <2>1, <2>2
<1> QED
  BY <1>1, <1>5, AccountKept

(* The cleanup goroutine forgives the debt of the entries it drops.            *)
LEMMA AccountCleanup ==
    ASSUME TypeOK, Stamped, Account, TypeOK', Cleanup
    PROVE  Account'
<1>1. /\ buckets' = Without(buckets, Expired(buckets))
      /\ Forgive(Expired(buckets)) /\ UNCHANGED <<now, from, spent>>
  BY DEF Cleanup
<1>2. /\ DOMAIN buckets' = DOMAIN buckets \ Expired(buckets)
      /\ \A j \in DOMAIN buckets' : buckets'[j] = buckets[j]
      /\ Expired(buckets) \subseteq DOMAIN buckets
  BY <1>1 DEF Without, Expired
<1>3. ASSUME NEW j \in Keys PROVE Settled(j)
  <2>1. CASE j \in Expired(buckets)
    BY <1>1, <1>2, <2>1, SettledDropped
  <2>2. CASE j \notin Expired(buckets)
    <3>1. forgiven'[j] = forgiven[j]
      BY <1>1, <2>2 DEF Forgive
    <3>2. (j \in DOMAIN buckets') <=> (j \in DOMAIN buckets)
      BY <1>2, <2>2
    <3>3. j \in DOMAIN buckets => buckets'[j] = buckets[j]
      BY <1>2, <3>2
    <3> QED
      BY <1>1, <3>1, <3>2, <3>3, SettledSame
  <2> QED
    BY <2>1, <2>2
<1> QED
  BY <1>1, <1>3, AccountKept

(* However long the server runs and however its map overflows, expires and is  *)
(* cleaned, over every window of time a client is admitted for at most its     *)
(* grant, what the rate refills in the window, and the debt evictions forgave. *)
THEOREM WindowBounded == Spec => []WindowBound
<1>1. Init => Account
  <2> SUFFICES ASSUME Init PROVE Account
    OBVIOUS
  <2>1. now = 0 /\ from \in Nat
    BY ConstantsAssumption DEF Init, Time
  <2>2. TypeOK /\ Stamped
    BY InitTyped
  <2>3. ASSUME NEW k \in Keys, now >= from
        PROVE  spent[k] + Spendable(k) <= Grant + (now - from) * Refill + forgiven[k]
    <3>1. Spendable(k) \in Nat /\ Spendable(k) <= Grant
      BY <2>2, SpendableType
    <3>2. (now - from) * Refill \in Nat
      BY <2>1, <2>3, Amounts, ProductNat
    <3>3. spent[k] = 0 /\ forgiven[k] = 0
      BY DEF Init
    <3> QED
      BY <3>1, <3>2, <3>3, Amounts
  <2>4. \A k \in Keys : spent[k] = 0 /\ forgiven[k] = 0
    BY DEF Init
  <2> QED
    BY <2>3, <2>4 DEF Account
<1>2. TypeOK /\ Stamped /\ Account /\ [Next]_vars => Account'
  <2> SUFFICES ASSUME TypeOK, Stamped, Account, [Next]_vars PROVE Account'
    OBVIOUS
  <2>1. TypeOK'
    BY StepTyped
  <2>2. CASE UNCHANGED vars
    <3>1. \A k \in Keys : Spendable(k)' = Spendable(k)
      BY <2>2 DEF vars, Spendable, Credit, Refilled, Capped, Grant, Cap
    <3>2. Grant' = Grant
      BY DEF Grant, Cap
    <3> QED
      BY <2>2, <3>1, <3>2 DEF Account, vars
  <2> QED
    BY <2>1, <2>2, AccountAllowNew, AccountAllowKnown, AccountCleanup, AccountTick
    DEF Next, Allow
<1>3. TypeOK /\ Stamped /\ Account => WindowBound
  <2> SUFFICES ASSUME TypeOK, Stamped, Account, now >= from, NEW k \in Keys
               PROVE  spent[k] <= Grant + (now - from) * Refill + forgiven[k]
    BY DEF WindowBound
  <2>1. spent[k] + Spendable(k) <= Grant + (now - from) * Refill + forgiven[k]
    BY DEF Account
  <2>2. now \in Nat /\ from \in Nat
    BY ConstantsAssumption DEF TypeOK, Time
  <2>3. (now - from) * Refill \in Nat
    BY <2>2, Amounts, ProductNat
  <2>4. Spendable(k) \in Nat /\ spent[k] \in Nat /\ forgiven[k] \in Nat
    BY SpendableType DEF TypeOK
  <2> QED
    BY <2>1, <2>3, <2>4, Amounts
<1> QED
  BY <1>1, <1>2, <1>3, InitTyped, StepTyped, PTL DEF Spec

-----------------------------------------------------------------------------
(* A client's entry goes before its time only as the least recently seen one   *)
(* of a full map, in any state and for any limits.                             *)
THEOREM LeastRecentEvicted == Spec => EvictsLeastRecent
<1> DEFINE gone == (DOMAIN buckets \ DOMAIN buckets') \ Expired(buckets)
           Lawful == \A k \in gone :
              /\ gone = {k}
              /\ Cardinality(DOMAIN buckets) >= MaxEntries
              /\ Expired(buckets) \cap DOMAIN buckets' = {}
              /\ \A j \in DOMAIN buckets' \cap DOMAIN buckets :
                     buckets[k].lastSeen <= buckets[j].lastSeen
<1>1. ASSUME NEW k \in Keys, AllowNew(k) PROVE Lawful
  <2> DEFINE full(c) == Cardinality(DOMAIN c) >= MaxEntries
             swept   == IF full(buckets) THEN Without(buckets, Expired(buckets)) ELSE buckets
  <2>1. PICK b \in MakeRoom : buckets' = Insert(b, k)
    BY <1>1 DEF AllowNew
  <2>2. DOMAIN buckets' = DOMAIN b \cup {k} /\ k \notin DOMAIN buckets
    BY <1>1, <2>1 DEF Insert, AllowNew
  <2>3. MakeRoom = IF full(swept) /\ DOMAIN swept # {} THEN EvictOldest(swept) ELSE {swept}
    BY DEF MakeRoom
  <2>4. CASE b = swept
    <3>1. gone = {}
      BY <2>2, <2>4 DEF Without
    <3> QED
      BY <3>1
  <2>5. CASE b # swept
    <3>1. PICK v \in Oldest(swept) : b = Without(swept, {v} \ {EmptyKey})
      BY <2>3, <2>5 DEF EvictOldest
    <3>2. full(swept)
      BY <2>3, <2>5
    <3>3. full(buckets)
      BY <3>2
    <3>4. /\ DOMAIN swept = DOMAIN buckets \ Expired(buckets)
          /\ \A j \in DOMAIN swept : swept[j] = buckets[j]
      BY <3>3 DEF Without
    <3>5. DOMAIN b = DOMAIN swept \ ({v} \ {EmptyKey})
      BY <3>1 DEF Without
    <3>6. v \in DOMAIN swept /\ \A j \in DOMAIN swept : swept[v].lastSeen <= swept[j].lastSeen
      BY <3>1 DEF Oldest
    <3> HIDE DEF swept
    <3>7. gone \subseteq {v}
      BY <2>2, <3>4, <3>5
    <3>8. Expired(buckets) \subseteq DOMAIN buckets
      BY DEF Expired
    <3>9. Expired(buckets) \cap DOMAIN buckets' = {}
      BY <2>2, <3>4, <3>5, <3>8
    <3>10. \A j \in DOMAIN buckets' \cap DOMAIN buckets : buckets[v].lastSeen <= buckets[j].lastSeen
      BY <2>2, <3>4, <3>5, <3>6
    <3> QED
      BY <3>3, <3>7, <3>9, <3>10
  <2> QED
    BY <2>4, <2>5
<1>2. ASSUME NEW k \in Keys, AllowKnown(k) PROVE Lawful
  <2>1. DOMAIN buckets' = DOMAIN buckets
    BY <1>2 DEF AllowKnown
  <2> QED
    BY <2>1
<1>3. ASSUME Cleanup PROVE Lawful
  <2>1. DOMAIN buckets' = DOMAIN buckets \ Expired(buckets)
    BY <1>3 DEF Cleanup, Without
  <2> QED
    BY <2>1
<1>4. ASSUME Tick \/ UNCHANGED vars PROVE Lawful
  <2>1. buckets' = buckets
    BY <1>4 DEF Tick, vars
  <2> QED
    BY <2>1
<1>5. [Next]_vars => Lawful
  <2> HIDE DEF Lawful
  <2> QED
    BY <1>1, <1>2, <1>3, <1>4 DEF Next, Allow
<1>6. [Next]_vars => [Lawful]_vars
  BY <1>5
<1> QED
  BY <1>6, PTL DEF Spec, EvictsLeastRecent

-----------------------------------------------------------------------------
(* When the limiter is the ideal one.                                          *)

(* An operator's choice of limits: entries outlive a refill, the map has room  *)
(* for every client, and the burst is at least one request.                    *)
Generous == LifetimeCoversRefill /\ Cardinality(Keys) <= MaxEntries /\ Burst > 0

(* No bucket is in debt and both time stamps of an entry are set together, so  *)
(* that an entry old enough to be dropped has had time to fill up.             *)
Solvent == \A k \in DOMAIN buckets : /\ buckets[k].tokens >= 0
                                     /\ buckets[k].lastRefill = buckets[k].lastSeen

(* More time refills no less.                                                  *)
LEMMA ProductMonotone == \A a, b, c \in Nat : a <= b => a * c <= b * c
<1> SUFFICES ASSUME NEW a \in Nat, NEW b \in Nat, NEW c \in Nat, a <= b
             PROVE  a * c <= b * c
  OBVIOUS
<1>1. b - a \in Nat /\ (b - a) * c \in Nat
  BY ProductNat
<1>2. b * c = a * c + (b - a) * c
  OBVIOUS
<1>3. a * c \in Nat
  BY ProductNat
<1> QED
  BY <1>1, <1>2, <1>3

(* With a burst the grant is the capacity, and a new bucket is not in debt.    *)
LEMMA GenerousGrant ==
    ASSUME Generous
    PROVE  Grant = Cap /\ Unit <= Cap
<1>1. Burst \in Nat /\ 1 <= Burst /\ Unit \in Nat
  BY ConstantsAssumption DEF Generous
<1>2. 1 * Unit <= Burst * Unit
  BY <1>1, ProductMonotone
<1>3. Unit <= Cap
  BY <1>1, <1>2 DEF Cap
<1> QED
  BY <1>3, Amounts DEF Grant

(* Whoever expires could spend the whole grant already.                        *)
LEMMA ExpiredFull ==
    ASSUME Generous, TypeOK, Stamped, Solvent, NEW k \in Expired(buckets)
    PROVE  Credit(k) = Grant
<1> DEFINE e == buckets[k]
           more == (now - e.lastRefill) * Refill
<1>1. k \in DOMAIN buckets /\ e.lastSeen < now - TTL
  BY DEF Expired
<1>2. /\ now \in Nat /\ TTL \in Nat /\ e.lastRefill \in Nat /\ e.tokens \in Int
      /\ e.tokens >= 0 /\ e.tokens <= Cap /\ e.lastRefill = e.lastSeen
  <2>1. e \in Entry
    BY <1>1 DEF TypeOK
  <2> QED
    BY <1>1, <2>1, ConstantsAssumption, Amounts DEF TypeOK, Solvent, Time, Entry
<1>3. now - e.lastRefill \in Nat /\ TTL <= now - e.lastRefill
  BY <1>1, <1>2
<1>4. TTL * Refill <= more
  BY <1>2, <1>3, Amounts, ProductMonotone
<1>5. more \in Nat /\ TTL * Refill \in Nat
  BY <1>2, <1>3, Amounts, ProductNat
<1>6. Cap <= TTL * Refill
  BY GenerousGrant DEF Generous, LifetimeCoversRefill
<1>7. Credit(k) = IF e.tokens + more > Cap THEN Cap ELSE e.tokens + more
  BY <1>1 DEF Credit, Refilled, Capped
<1> HIDE DEF e, more
<1>8. Credit(k) = Cap
  BY <1>2, <1>4, <1>5, <1>6, <1>7, Amounts
<1> QED
  BY <1>8, GenerousGrant

(* And allow never has to make room.                                           *)
LEMMA RoomForNew ==
    ASSUME Generous, TypeOK, NEW k \in Keys, k \notin DOMAIN buckets
    PROVE  MakeRoom = {buckets}
<1>1. /\ IsFiniteSet(Keys) /\ DOMAIN buckets \subseteq Keys /\ DOMAIN buckets # Keys
  BY ConstantsAssumption DEF TypeOK
<1>2. Cardinality(DOMAIN buckets) < Cardinality(Keys)
  <2>1. DOMAIN buckets \subseteq Keys \ {k}
    BY <1>1
  <2>2. IsFiniteSet(Keys \ {k}) /\ Cardinality(Keys \ {k}) = Cardinality(Keys) - 1
    BY <1>1, FS_RemoveElement
  <2>3. IsFiniteSet(DOMAIN buckets) /\ Cardinality(DOMAIN buckets) <= Cardinality(Keys \ {k})
    BY <2>1, <2>2, FS_Subset
  <2>4. Cardinality(Keys) \in Nat /\ Cardinality(DOMAIN buckets) \in Nat
    BY <1>1, <2>3, FS_CardinalityType
  <2> QED
    BY <2>2, <2>3, <2>4
<1>3. Cardinality(Keys) \in Nat /\ Cardinality(DOMAIN buckets) \in Nat
  <2>1. IsFiniteSet(DOMAIN buckets)
    BY <1>1, FS_Subset
  <2> QED
    BY <1>1, <2>1, FS_CardinalityType
<1>4. ~(Cardinality(DOMAIN buckets) >= MaxEntries)
  BY <1>2, <1>3, ConstantsAssumption DEF Generous
<1> QED
  BY <1>4 DEF MakeRoom

(* Solvent is kept, and nothing is forgiven.                                   *)
LEMMA StepSolvent ==
    ASSUME Generous, TypeOK, Stamped, Solvent, [Next]_vars
    PROVE  Solvent' /\ \A k \in Keys : forgiven'[k] = forgiven[k]
<1> DEFINE Goal == Solvent' /\ \A k \in Keys : forgiven'[k] = forgiven[k]
<1>1. ASSUME NEW k \in Keys, AllowNew(k) PROVE Goal
  <2>1. buckets' = Insert(buckets, k) /\ Forgive({})
    <3>1. k \notin DOMAIN buckets
      BY <1>1 DEF AllowNew
    <3>2. MakeRoom = {buckets}
      BY <3>1, RoomForNew
    <3> QED
      BY <1>1, <3>2 DEF AllowNew
  <2>2. /\ DOMAIN buckets' = DOMAIN buckets \cup {k}
        /\ \A j \in DOMAIN buckets' : buckets'[j] = IF j = k THEN NewEntry ELSE buckets[j]
    BY <2>1 DEF Insert
  <2>3. NewEntry.tokens >= 0 /\ NewEntry.lastRefill = NewEntry.lastSeen
    BY GenerousGrant, Amounts DEF NewEntry
  <2> QED
    BY <2>1, <2>2, <2>3 DEF Solvent, Forgive
<1>2. ASSUME NEW k \in Keys, AllowKnown(k) PROVE Goal
  <2>1. /\ k \in DOMAIN buckets /\ forgiven' = forgiven
        /\ buckets' = [buckets EXCEPT ![k] = Take(@)]
    BY <1>2 DEF AllowKnown
  <2>2. /\ DOMAIN buckets' = DOMAIN buckets
        /\ \A j \in DOMAIN buckets : buckets'[j] = IF j = k THEN Take(buckets[k]) ELSE buckets[j]
    BY <2>1 DEF TypeOK
  <2>3. Take(buckets[k]).tokens >= 0
    <3>1. buckets[k] \in Entry /\ buckets[k].lastRefill <= now /\ buckets[k].tokens >= 0
      BY <2>1 DEF TypeOK, Stamped, Solvent
    <3>2. now \in Nat /\ buckets[k].tokens \in Int
      BY <3>1, ConstantsAssumption, Amounts DEF TypeOK, Time, Entry
    <3>3. Refilled(buckets[k]) \in Int /\ Refilled(buckets[k]) >= buckets[k].tokens
      BY <3>1, <3>2, RefilledType, Amounts
    <3> QED
      BY <3>1, <3>2, <3>3, Amounts DEF Take
  <2>4. Take(buckets[k]).lastRefill = Take(buckets[k]).lastSeen
    BY DEF Take
  <2> QED
    BY <2>1, <2>2, <2>3, <2>4 DEF Solvent
<1>3. ASSUME Cleanup PROVE Goal
  <2>1. buckets' = Without(buckets, Expired(buckets)) /\ Forgive(Expired(buckets))
    BY <1>3 DEF Cleanup
  <2>2. Solvent'
    BY <2>1 DEF Without, Solvent
  <2>3. ASSUME NEW k \in Keys PROVE forgiven'[k] = forgiven[k]
    <3>1. forgiven[k] \in Nat
      BY DEF TypeOK
    <3>2. k \in Expired(buckets) => forgiven[k] + (Grant - Credit(k)) = forgiven[k]
      BY <3>1, ExpiredFull, Amounts
    <3> QED
      BY <2>1, <3>2 DEF Forgive
  <2> QED
    BY <2>2, <2>3
<1>4. ASSUME Tick \/ UNCHANGED vars PROVE Goal
  BY <1>4 DEF Tick, vars, Solvent
<1> QED
  BY <1>1, <1>2, <1>3, <1>4 DEF Next, Allow

(* With generous limits no eviction, by allow or by the cleanup goroutine,     *)
(* ever writes off what a client owes.                                         *)
THEOREM NothingIsForgiven == Spec => []NothingForgiven
<1> DEFINE Inv == Generous => Solvent /\ \A k \in Keys : forgiven[k] = 0
<1>1. Init => Inv
  BY DEF Init, Solvent
<1>2. TypeOK /\ Stamped /\ Inv /\ [Next]_vars => Inv'
  <2> SUFFICES ASSUME TypeOK, Stamped, Inv, [Next]_vars, Generous
               PROVE  Solvent' /\ \A k \in Keys : forgiven'[k] = 0
    BY DEF Generous, LifetimeCoversRefill, Grant, Cap
  <2> QED
    BY StepSolvent
<1>3. Inv => NothingForgiven
  BY DEF Generous, NothingForgiven
<1> HIDE DEF Inv
<1> QED
  BY <1>1, <1>2, <1>3, InitTyped, StepTyped, PTL DEF Spec

-----------------------------------------------------------------------------
(* The refinement.                                                             *)

(* The initial states of the limiter are those of the ideal one.               *)
LEMMA IdealInit == Generous /\ Init => Ideal!Init
<1> SUFFICES ASSUME Generous, Init PROVE Ideal!Init
  OBVIOUS
<1>1. \A k \in Keys : Credit(k) = Cap
  BY GenerousGrant DEF Init, Credit
<1> QED
  BY <1>1 DEF Init, Ideal!Init

(* A tick refills the bucket of every client, tracked or not.                  *)
LEMMA IdealTick ==
    ASSUME Generous, TypeOK, Stamped, Tick
    PROVE  Ideal!Advance
<1>1. now \in Nat /\ now < MaxTime /\ now' = now + 1 /\ buckets' = buckets /\ verdict' = verdict
  BY ConstantsAssumption DEF TypeOK, Time, Tick
<1>2. ASSUME NEW k \in Keys PROVE Credit(k)' = Ideal!Capped(Credit(k) + Refill)
  <2>1. CASE k \in DOMAIN buckets
    <3> DEFINE e == buckets[k]
               more == (now - e.lastRefill) * Refill
    <3>1. e.tokens \in Int /\ e.lastRefill \in Nat /\ e.lastRefill <= now
      <4>1. e \in Entry /\ e.lastRefill <= now
        BY <2>1 DEF TypeOK, Stamped
      <4> QED
        BY <4>1, Amounts, ConstantsAssumption DEF Entry, Time
    <3>2. (now' - e.lastRefill) * Refill = more + Refill
      <4>1. now - e.lastRefill \in Int /\ now' - e.lastRefill = (now - e.lastRefill) + 1
        BY <1>1, <3>1
      <4> QED
        BY <4>1, ProductStep, Amounts
    <3>3. more \in Nat
      BY <1>1, <3>1, Amounts, ProductNat
    <3>4. Credit(k) = IF e.tokens + more > Cap THEN Cap ELSE e.tokens + more
      BY <2>1 DEF Credit, Refilled, Capped
    <3>5. Credit(k)' = IF e.tokens + (now' - e.lastRefill) * Refill > Cap THEN Cap
                       ELSE e.tokens + (now' - e.lastRefill) * Refill
      <4>1. buckets' = buckets
        BY <1>1
      <4> QED
        BY <2>1, <4>1 DEF Credit, Refilled, Capped, Cap
    <3> HIDE DEF e, more
    <3> QED
      BY <3>1, <3>2, <3>3, <3>4, <3>5, Amounts DEF Ideal!Capped
  <2>2. CASE k \notin DOMAIN buckets
    <3>1. Credit(k) = Cap /\ Credit(k)' = Cap
      BY <1>1, <2>2, GenerousGrant DEF Credit, Grant, Cap
    <3> QED
      BY <3>1, Amounts DEF Ideal!Capped
  <2> QED
    BY <2>1, <2>2
<1>3. [k \in Keys |-> Credit(k)]' = [k \in Keys |-> Ideal!Capped([j \in Keys |-> Credit(j)][k] + Refill)]
  BY <1>2
<1> QED
  BY <1>1, <1>3 DEF Ideal!Advance

(* What serving k means for the credits of the ideal limiter.                  *)
LEMMA IdealServe ==
    ASSUME NEW k \in Keys, now' = now,
           NEW ok \in BOOLEAN, verdict' = <<k, ok>>, ok <=> Credit(k) >= Unit,
           Credit(k)' = IF Credit(k) >= Unit THEN Credit(k) - Unit ELSE Credit(k),
           \A j \in Keys \ {k} : Credit(j)' = Credit(j)
    PROVE  Ideal!Serve(k)
<1> DEFINE credit == [j \in Keys |-> Credit(j)]
<1>1. verdict' = <<k, credit[k] >= Unit>>
  BY DEF credit
<1>2. [j \in Keys |-> Credit(j)]' =
          [credit EXCEPT ![k] = IF credit[k] >= Unit THEN credit[k] - Unit ELSE credit[k]]
  BY DEF credit
<1> QED
  BY <1>1, <1>2 DEF Ideal!Serve

(* The first request of a client is served from a full bucket.                 *)
LEMMA IdealAllowNew ==
    ASSUME Generous, TypeOK, Stamped, NEW k \in Keys, AllowNew(k)
    PROVE  Ideal!Serve(k)
<1>1. k \notin DOMAIN buckets /\ now' = now /\ verdict' = <<k, TRUE>>
  BY DEF AllowNew
<1>2. buckets' = Insert(buckets, k)
  BY <1>1, RoomForNew DEF AllowNew
<1>3. /\ DOMAIN buckets' = DOMAIN buckets \cup {k}
      /\ buckets'[k] = NewEntry
      /\ \A j \in DOMAIN buckets : buckets'[j] = buckets[j]
  BY <1>1, <1>2 DEF Insert
<1>4. Credit(k) = Cap /\ Credit(k) >= Unit
  BY <1>1, GenerousGrant, Amounts DEF Credit
<1>5. Credit(k)' = Cap - Unit
  <2>1. /\ buckets'[k].lastRefill = now /\ buckets'[k].tokens = Cap - Unit
        /\ Cap - Unit \in Int /\ Cap - Unit <= Cap /\ now \in Nat
    BY <1>3, Amounts, ConstantsAssumption DEF NewEntry, TypeOK, Time
  <2> QED
    BY <1>1, <1>3, <2>1, CreditStamped
<1>6. ASSUME NEW j \in Keys \ {k} PROVE Credit(j)' = Credit(j)
  BY <1>1, <1>3, CreditSame
<1> QED
  BY <1>1, <1>4, <1>5, <1>6, IdealServe

(* A later one from what the bucket holds now.                                 *)
LEMMA IdealAllowKnown ==
    ASSUME TypeOK, Stamped, NEW k \in Keys, AllowKnown(k)
    PROVE  Ideal!Serve(k)
<1> DEFINE t == Refilled(buckets[k])
<1>1. /\ k \in DOMAIN buckets /\ now' = now /\ verdict' = <<k, t >= Unit>>
      /\ buckets' = [buckets EXCEPT ![k] = Take(@)]
  BY DEF AllowKnown
<1>2. /\ DOMAIN buckets' = DOMAIN buckets
      /\ \A j \in DOMAIN buckets : j # k => buckets'[j] = buckets[j]
      /\ buckets'[k] = Take(buckets[k])
  BY <1>1 DEF TypeOK
<1>3. now \in Nat /\ t \in Int /\ t <= Cap
  <2>1. buckets[k] \in Entry /\ buckets[k].lastRefill <= now /\ now \in Nat
    BY <1>1, ConstantsAssumption DEF TypeOK, Stamped, Time
  <2> QED
    BY <2>1, RefilledType, Amounts
<1>4. /\ buckets'[k].tokens = IF t < Unit THEN t ELSE t - Unit
      /\ buckets'[k].lastRefill = now
  BY <1>2 DEF Take
<1>5. Credit(k) = t
  BY <1>1 DEF Credit
<1> HIDE DEF t
<1>6. Credit(k)' = IF t >= Unit THEN t - Unit ELSE t
  <2>1. buckets'[k].tokens \in Int /\ buckets'[k].tokens <= Cap
    BY <1>3, <1>4, Amounts
  <2>2. Credit(k)' = buckets'[k].tokens
    BY <1>1, <1>2, <1>3, <1>4, <2>1, CreditStamped
  <2> QED
    BY <1>3, <1>4, <2>2, Amounts
<1>7. ASSUME NEW j \in Keys \ {k} PROVE Credit(j)' = Credit(j)
  BY <1>1, <1>2, CreditSame
<1>8. (t >= Unit) \in BOOLEAN
  OBVIOUS
<1> QED
  BY <1>1, <1>5, <1>6, <1>7, <1>8, IdealServe

(* No client notices what the cleanup goroutine drops.                         *)
LEMMA IdealCleanup ==
    ASSUME Generous, TypeOK, Stamped, Solvent, Cleanup
    PROVE  UNCHANGED Ideal!vars
<1>1. /\ UNCHANGED <<now, verdict>>
      /\ DOMAIN buckets' = DOMAIN buckets \ Expired(buckets)
      /\ \A j \in DOMAIN buckets' : buckets'[j] = buckets[j]
  BY DEF Cleanup, Without
<1>2. ASSUME NEW k \in Keys PROVE Credit(k)' = Credit(k)
  <2>1. CASE k \in Expired(buckets)
    BY <1>1, <2>1, ExpiredFull, CreditDropped
  <2>2. CASE k \notin Expired(buckets)
    BY <1>1, <2>2, CreditSame
  <2> QED
    BY <2>1, <2>2
<1>3. [k \in Keys |-> Credit(k)]' = [k \in Keys |-> Credit(k)]
  BY <1>2
<1> QED
  BY <1>1, <1>3 DEF Ideal!vars

(* With generous limits the bounded, expiring map of buckets implements the    *)
(* limiter that gives every client one bucket and never forgets it.            *)
THEOREM RefinesIdeal == Generous => (Spec => ImplementsIdeal)
<1>1. Generous /\ TypeOK /\ Stamped /\ Solvent /\ [Next]_vars => [Ideal!Next]_(Ideal!vars)
  <2> SUFFICES ASSUME Generous, TypeOK, Stamped, Solvent, [Next]_vars
               PROVE  Ideal!Next \/ UNCHANGED Ideal!vars
    OBVIOUS
  <2>1. CASE Tick
    BY <2>1, IdealTick DEF Ideal!Next
  <2>2. CASE Cleanup
    BY <2>2, IdealCleanup
  <2>3. ASSUME NEW k \in Keys, Allow(k) PROVE Ideal!Next
    BY <2>3, IdealAllowNew, IdealAllowKnown DEF Allow, Ideal!Next
  <2>4. CASE UNCHANGED vars
    BY <2>4 DEF vars, Ideal!vars, Credit, Refilled, Capped, Grant, Cap
  <2> QED
    BY <2>1, <2>2, <2>3, <2>4 DEF Next
<1>2. Generous => (Init => Solvent)
  BY DEF Init, Solvent
<1>3. Generous /\ TypeOK /\ Stamped /\ Solvent /\ [Next]_vars => Solvent'
  BY StepSolvent
<1>4. Generous => []Generous
  <2>1. Generous => Generous'
    BY DEF Generous, LifetimeCoversRefill, Grant, Cap
  <2> QED
    BY <2>1, PTL
<1> QED
  BY <1>1, <1>2, <1>3, <1>4, IdealInit, InitTyped, StepTyped, PTL
  DEF Spec, ImplementsIdeal, Ideal!Spec
=============================================================================
