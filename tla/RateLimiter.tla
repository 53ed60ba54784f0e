----------------------------- MODULE RateLimiter -----------------------------
(* The per-client rate limiter of httpbin/ratelimit.go: a mutex-protected map  *)
(* from key to token bucket, bounded by MaxEntries, whose idle entries expire. *)
(* Every access happens under rl.mu and reads the clock under it, so one call  *)
(* of allow, or one pass of the cleanup goroutine, is one atomic action.       *)
(*                                                                             *)
(* Tokens are float64 in the code; here a token is Unit units and the refill   *)
(* per tick is a whole number of them, so that fractional tokens exist and     *)
(* rounding does not.                                                          *)
EXTENDS Integers, FiniteSets

CONSTANTS Keys,        \* keys a request can be charged to
          EmptyKey,    \* the key "" (an X-Forwarded-For that starts with a comma)
          MaxEntries,  \* RateLimiterConfig.MaxTrackedIPs
          Burst,       \* RateLimiterConfig.Burst, in tokens
          Unit,        \* units per token
          Refill,      \* RateLimiterConfig.Rate, in units per tick
          TTL,         \* RateLimiterConfig.EntryLifetime, in ticks
          Cleaning,    \* CleanupInterval > 0: the cleanup goroutine runs
          MaxTime,     \* bound on the clock
          MaxSpent     \* bound on the units admitted per client in a window

ASSUME ConstantsAssumption ==
    /\ IsFiniteSet(Keys)
    /\ MaxEntries \in Nat
    /\ Burst \in Nat
    /\ Unit \in Nat \ {0}
    /\ Refill \in Nat
    /\ TTL \in Nat
    /\ Cleaning \in BOOLEAN
    /\ MaxTime \in Nat
    /\ MaxSpent \in Nat

Time == 0 .. MaxTime
Cap == Burst * Unit

(* What a client without an entry may spend at once: its burst, and never less *)
(* than one request, since the first request of a new key is always admitted.  *)
Grant == IF Cap > Unit THEN Cap ELSE Unit

VARIABLES now,       \* the clock
          buckets,   \* rl.buckets: key -> [tokens, lastRefill, lastSeen]
          verdict,   \* last result of allow, <<key, admitted>>
          from,      \* history: start of the window that is accounted for
          spent,     \* history: units admitted per key since from
          forgiven   \* history: debt per key dropped by evictions since from

vars == <<now, buckets, verdict, from, spent, forgiven>>

(* A bucket never holds more than its capacity; a burst of 0 leaves a new one  *)
(* a token short.                                                              *)
Entry == [tokens : (0 - Unit) .. Cap, lastRefill : Time, lastSeen : Time]

(* Types: no bucket of the limiter ever holds more than its capacity, and none *)
(* owes more than one request.                                                 *)
TypeOK ==
    /\ now \in Time
    /\ DOMAIN buckets \subseteq Keys
    /\ buckets \in [DOMAIN buckets -> Entry]
    /\ verdict \in {<<>>} \cup (Keys \X BOOLEAN)
    /\ from \in Time
    /\ spent \in [Keys -> Nat]
    /\ forgiven \in [Keys -> Nat]

-----------------------------------------------------------------------------
(* tokenBucket.allow: refill for the elapsed time, cap, then take a token.     *)

UncappedBug(u) == u

Capped(u) == IF u > Cap THEN Cap ELSE u

Refilled(e) == Capped(e.tokens + (now - e.lastRefill) * Refill)

(* Bugs the properties must notice: a known client's lastSeen not refreshed,   *)
(* and a denied request that refills the bucket but not its time stamp.        *)
TakeUnseenBug(e) ==
    LET t == Refilled(e)
    IN  [e EXCEPT !.tokens = IF t < Unit THEN t ELSE t - Unit, !.lastRefill = now]

TakeUnstampedBug(e) ==
    LET t == Refilled(e)
    IN  [tokens     |-> IF t < Unit THEN t ELSE t - Unit,
         lastRefill |-> IF t < Unit THEN e.lastRefill ELSE now,
         lastSeen   |-> now]

Take(e) ==
    LET t == Refilled(e)
    IN  [tokens     |-> IF t < Unit THEN t ELSE t - Unit,
         lastRefill |-> now,
         lastSeen   |-> now]

NewEntryFullBug == [tokens |-> Cap, lastRefill |-> now, lastSeen |-> now]

NewEntry == [tokens |-> Cap - Unit, lastRefill |-> now, lastSeen |-> now]

(* The units key k could spend now.                                            *)
Credit(k) == IF k \in DOMAIN buckets THEN Refilled(buckets[k]) ELSE Grant

-----------------------------------------------------------------------------
(* Eviction.  Without(b, S) is the map b after deleting the keys S.            *)

Without(b, S) == [k \in DOMAIN b \ S |-> b[k]]

Expired(b) == {k \in DOMAIN b : b[k].lastSeen < now - TTL}

OldestReversedBug(b) ==
    {k \in DOMAIN b : \A j \in DOMAIN b : b[k].lastSeen >= b[j].lastSeen}

(* Go ranges over a map in an arbitrary order, so among equally old entries    *)
(* any one may be the victim.                                                  *)
Oldest(b) == {k \in DOMAIN b : \A j \in DOMAIN b : b[k].lastSeen <= b[j].lastSeen}

(* evictOldestLocked uses "" for "nothing found", so it never deletes the      *)
(* entry whose key is "".                                                      *)
EvictOldest(b) == {Without(b, {k} \ {EmptyKey}) : k \in Oldest(b)}

MakeRoomOffByOneBug ==
    IF Cardinality(DOMAIN buckets) > MaxEntries THEN EvictOldest(buckets) ELSE {buckets}

(* The maps a new entry can be added to: expired entries go first, and only    *)
(* when the map is full; the oldest goes if it is still full.  An empty map    *)
(* can be "full" (MaxEntries = 0); there is then nothing to delete.            *)
MakeRoom ==
    LET full(b) == Cardinality(DOMAIN b) >= MaxEntries
        swept   == IF full(buckets) THEN Without(buckets, Expired(buckets))
                                    ELSE buckets
    IN  IF full(swept) /\ DOMAIN swept # {} THEN EvictOldest(swept) ELSE {swept}

Insert(b, k) == [j \in DOMAIN b \cup {k} |-> IF j = k THEN NewEntry ELSE b[j]]

-----------------------------------------------------------------------------
(* History: what was admitted, and what evictions forgave, from time from on.  *)

Spend(k) ==
    IF now >= from
    THEN /\ spent[k] + Unit <= MaxSpent
         /\ spent' = [spent EXCEPT ![k] = @ + Unit]
    ELSE UNCHANGED spent

Forgive(gone) ==
    forgiven' = [k \in Keys |-> IF k \in gone /\ now >= from
                                THEN forgiven[k] + (Grant - Credit(k))
                                ELSE forgiven[k]]

-----------------------------------------------------------------------------
Init ==
    /\ now = 0
    /\ buckets = [k \in {} |-> NewEntry]
    /\ verdict = <<>>
    /\ from \in Time
    /\ spent = [k \in Keys |-> 0]
    /\ forgiven = [k \in Keys |-> 0]

(* allow(key) for a key that has no entry.                                     *)
AllowNew(k) ==
    /\ k \notin DOMAIN buckets
    /\ \E b \in MakeRoom :
          /\ buckets' = Insert(b, k)
          /\ Forgive(DOMAIN buckets \ DOMAIN b)
    /\ verdict' = <<k, TRUE>>
    /\ Spend(k)
    /\ UNCHANGED <<now, from>>

(* allow(key) for a key that has one: a denied request refreshes lastSeen too. *)
AllowKnown(k) ==
    /\ k \in DOMAIN buckets
    /\ LET ok == Refilled(buckets[k]) >= Unit
       IN  /\ buckets' = [buckets EXCEPT ![k] = Take(@)]
           /\ verdict' = <<k, ok>>
           /\ IF ok THEN Spend(k) ELSE UNCHANGED spent
    /\ UNCHANGED <<now, from, forgiven>>

Allow(k) == AllowNew(k) \/ AllowKnown(k)

CleanupOnlyWhenFullBug ==
    /\ Cleaning
    /\ Cardinality(DOMAIN buckets) >= MaxEntries
    /\ buckets' = Without(buckets, Expired(buckets))
    /\ Forgive(Expired(buckets))
    /\ UNCHANGED <<now, verdict, from, spent>>

(* One tick of the cleanup goroutine's ticker.                                 *)
Cleanup ==
    /\ Cleaning
    /\ buckets' = Without(buckets, Expired(buckets))
    /\ Forgive(Expired(buckets))
    /\ UNCHANGED <<now, verdict, from, spent>>

Tick ==
    /\ now < MaxTime
    /\ now' = now + 1
    /\ UNCHANGED <<buckets, verdict, from, spent, forgiven>>

Next == Tick \/ Cleanup \/ \E k \in Keys : Allow(k)

Spec == Init /\ [][Next]_vars

(* The ticker keeps firing: startCleanup's goroutine is never stopped.         *)
FairSpec == Spec /\ WF_vars(Cleanup)

-----------------------------------------------------------------------------
(* Properties.                                                                 *)

(* The map never tracks more keys than MaxTrackedIPs allows (at least one, for *)
(* the request being served): allow evicts before it inserts.                  *)
TrackedBound ==
    Cardinality(DOMAIN buckets) <= (IF MaxEntries = 0 THEN 1 ELSE MaxEntries)

(* Over every window [from, now] a client is admitted for at most its burst plus  *)
(* what the rate refilled in the window, plus the debt that evictions of its   *)
(* entry wrote off in the window: refill, cap, deny and insert never create    *)
(* tokens.                                                                     *)
WindowBound ==
    now >= from =>
        \A k \in Keys : spent[k] <= Grant + (now - from) * Refill + forgiven[k]

(* An entry lives long enough for its bucket to fill up.                       *)
LifetimeCoversRefill == TTL * Refill >= Grant

(* If entries live long enough to refill and the map can hold every client,    *)
(* no eviction, by allow or by the cleanup goroutine, ever writes off debt.    *)
NothingForgiven ==
    (LifetimeCoversRefill /\ Cardinality(Keys) <= MaxEntries /\ Burst > 0)
        => \A k \in Keys : forgiven[k] = 0

(* allow and the cleanup goroutine drop a key that has not expired only to     *)
(* make room in a full map, only one at a time, and only one that has been     *)
(* idle at least as long as every key they keep.                               *)
EvictsLeastRecent ==
    [][LET gone == (DOMAIN buckets \ DOMAIN buckets') \ Expired(buckets)
       IN  \A k \in gone :
              /\ gone = {k}
              /\ Cardinality(DOMAIN buckets) >= MaxEntries
              /\ Expired(buckets) \cap DOMAIN buckets' = {}
              /\ \A j \in DOMAIN buckets' \cap DOMAIN buckets :
                     buckets[k].lastSeen <= buckets[j].lastSeen
      ]_vars

(* With the goroutine running, an entry does not stay expired forever.         *)
IdleForgotten ==
    Cleaning => \A k \in Keys : []<>(k \notin Expired(buckets))

(* With room for every client, a lifetime that covers a refill and a burst of  *)
(* at least one token, the limiter is the ideal one: no client ever notices    *)
(* that entries are dropped.                                                   *)
Ideal == INSTANCE IdealLimiter WITH credit <- [k \in Keys |-> Credit(k)]

ImplementsIdeal == Ideal!Spec
=============================================================================
