---------------------------- MODULE IdealLimiter ----------------------------
(* What per-client rate limiting promises: every client owns one token bucket  *)
(* that is never forgotten.  The bucket starts full, refills with time up to   *)
(* its capacity, and a request is admitted exactly when a whole token is there.*)
(* httpbin/ratelimit.go keeps only a bounded, expiring map of buckets; module  *)
(* RateLimiter says when that map cannot be told apart from this one.          *)
EXTENDS Integers

CONSTANTS Keys,       \* rate-limiting keys of the clients
          Cap,        \* bucket capacity, in units
          Unit,       \* units that make one token
          Refill,     \* units gained per tick of the clock
          MaxTime     \* bound on the clock

VARIABLES now,        \* the clock
          credit,     \* credit[k]: units client k could spend now
          verdict     \* last answer given, <<key, admitted>>

vars == <<now, credit, verdict>>

Capped(u) == IF u > Cap THEN Cap ELSE u

Init == /\ now = 0
        /\ credit = [k \in Keys |-> Cap]
        /\ verdict = <<>>

Serve(k) ==
    /\ verdict' = <<k, credit[k] >= Unit>>
    /\ credit' = [credit EXCEPT ![k] = IF @ >= Unit THEN @ - Unit ELSE @]
    /\ UNCHANGED now

Advance ==
    /\ now < MaxTime
    /\ now' = now + 1
    /\ credit' = [k \in Keys |-> Capped(credit[k] + Refill)]
    /\ UNCHANGED verdict

Next == Advance \/ \E k \in Keys : Serve(k)

Spec == Init /\ [][Next]_vars
=============================================================================
