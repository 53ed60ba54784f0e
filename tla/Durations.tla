------------------------------ MODULE Durations ------------------------------
(* How a client's text becomes a delay (httpbin/helpers.go: parseDuration,     *)
(* parseBoundedDuration, parseDelayRange) and who waits for it: /delay and the *)
(* pipeline's modifiers, which take ranges, and the ?response_delay=           *)
(* middleware.                                                                 *)
(*                                                                             *)
(* A time.Duration is a signed integer in two's complement, from -Half to      *)
(* Half - 1, counting nanoseconds.                                             *)
(* A duration with a unit ("90s") is exact, and turned down if it does not fit.*)
(* A plain number counts seconds: it is cut to whole milliseconds as a         *)
(* float64, converted, and multiplied by the nanoseconds in one.               *)
EXTENDS Integers

CONSTANTS Half,         \* half the range of a time.Duration (2^63)
          Milli,        \* nanoseconds in a millisecond (10^6)
          Limits,       \* the values HTTPBin.MaxDuration may have
          MaxNumber     \* bound on the numbers clients send, in half milliseconds

ASSUME DurationsAssumption ==
    /\ Half \in Nat \ {0}
    /\ Milli \in Nat \ {0}
    /\ MaxNumber \in Nat
    /\ Limits \subseteq -Half .. Half - 1

Fits(n) == n \in -Half .. Half - 1
Wrap(n) == ((n + Half) % (2 * Half)) - Half

(* Rounding towards zero, as a conversion to an integer does.                  *)
Truncated(halves) == IF halves >= 0 THEN halves \div 2 ELSE -((-halves) \div 2)

(* Texts: a number in half milliseconds, a number that is not finite, an exact *)
(* duration, or neither.                                                       *)
Word == [form : {"number"}, value : -MaxNumber .. MaxNumber]
        \cup [form : {"exact"}, value : -MaxNumber .. MaxNumber]
        \cup [form : {"infinite", "garbage"}, value : {0}]
NoWord == [form |-> "none", value |-> 0]

Wrong == [ok |-> FALSE, min |-> 0, max |-> 0]
Right(min, max) == [ok |-> TRUE, min |-> min, max |-> max]

(* Bug: milliseconds are taken for nanoseconds.                                *)
parseDurationNoUnitBug(w) ==
    CASE w.form = "exact" /\ Fits(w.value) -> {Right(w.value, w.value)}
      [] w.form = "number" -> {Right(Wrap(Truncated(w.value)), Wrap(Truncated(w.value)))}
      [] w.form = "infinite" -> {Right(0, 0)}
      [] OTHER -> {Wrong}

(* The results parseDuration can have.  What converting a number that does not *)
(* fit gives is up to the processor: its smallest integer, or saturation, or 0 *)
(* for one that is not a number at all.                                        *)
parseDuration(w) ==
    LET times(ms) == Right(Wrap(ms * Milli), Wrap(ms * Milli))
        ms        == Truncated(w.value)
    IN  CASE w.form = "exact" /\ Fits(w.value) -> {Right(w.value, w.value)}
          [] w.form = "number" /\ Fits(ms) -> {times(ms)}
          [] w.form = "number" /\ ~Fits(ms) ->
                 {times(-Half), times(IF ms > 0 THEN Half - 1 ELSE -Half)}
          [] w.form = "infinite" -> {times(-Half), times(0), times(Half - 1)}
          [] OTHER -> {Wrong}

(* Bug: no lower bound, though a number that overflows can turn negative.      *)
BoundedNoMinBug(d, min, max) == IF d.ok /\ d.max <= max THEN d ELSE Wrong

Bounded(d, min, max) == IF d.ok /\ d.max <= max /\ d.min >= min THEN d ELSE Wrong

parseBoundedDuration(w, min, max) == {Bounded(d, min, max) : d \in parseDuration(w)}

RangeOf(lo, hi, max) ==
    IF lo.min <= hi.max /\ lo.min >= 0 /\ hi.max <= max THEN Right(lo.min, hi.max)
                                                        ELSE Wrong

(* A text with a dash in it is a range if both sides are durations, and else   *)
(* has to be one duration; the only such texts here are not.                   *)
parseDelayRange(w, to, max) ==
    IF to = NoWord THEN parseBoundedDuration(w, 0, max)
    ELSE {IF lo.ok /\ hi.ok THEN RangeOf(lo, hi, max) ELSE Wrong :
             lo \in parseDuration(w), hi \in parseDuration(to)}

-----------------------------------------------------------------------------
VARIABLES limit,     \* the server's MaxDuration
          user,      \* "delay" (/delay and the pipeline) or "response_delay"
          word, to,  \* the text, and what follows its dash, or NoWord
          parsed,    \* what parsing gave
          waited,    \* the delay drawn, -1 before
          pc         \* "parse", "wait", "served", "refused" or "panicked"

delayVars == <<limit, user, word, to, parsed, waited, pc>>

DelayInit ==
    /\ limit \in Limits
    /\ user \in {"delay", "response_delay"}
    /\ word \in Word
    /\ to \in Word \cup {NoWord}
    /\ parsed = Wrong
    /\ waited = -1
    /\ pc = "parse"

(* Delay and Pipeline parse a range; responseDelay parses one duration, for    *)
(* which a range is no number.                                                 *)
Parse ==
    /\ pc = "parse"
    /\ \E d \in IF user = "delay" THEN parseDelayRange(word, to, limit)
                ELSE IF to = NoWord THEN parseBoundedDuration(word, 0, limit)
                ELSE {Wrong} :
          /\ parsed' = d
          /\ pc' = IF d.ok THEN "wait" ELSE "refused"
    /\ UNCHANGED <<limit, user, word, to, waited>>

(* The number of delays in the range, both ends included, as an int64.         *)
Span == Wrap(parsed.max - parsed.min + 1)

(* One of them: the least, or that plus what rand.Int63n draws below their     *)
(* number.                                                                     *)
Wait ==
    /\ pc = "wait"
    /\ parsed.max > parsed.min => Span > 0
    /\ waited' \in IF parsed.max > parsed.min
                   THEN {Wrap(parsed.min + k) : k \in 0 .. Span - 1}
                   ELSE {parsed.min}
    /\ pc' = "served"
    /\ UNCHANGED <<limit, user, word, to, parsed>>

(* rand.Int63n panics for an argument that is not positive.                    *)
Panic ==
    /\ pc = "wait"
    /\ parsed.max > parsed.min /\ Span <= 0
    /\ pc' = "panicked"
    /\ UNCHANGED <<limit, user, word, to, parsed, waited>>

Done ==
    /\ pc \in {"served", "refused", "panicked"}
    /\ UNCHANGED delayVars

DelayNext == Parse \/ Wait \/ Panic \/ Done

DelaySpec == DelayInit /\ [][DelayNext]_delayVars

-----------------------------------------------------------------------------
(* Properties.                                                                 *)

(* What a text means: its duration as a number, as big as it takes.  (An       *)
(* infinite number is bigger than any other.)                                  *)
Meaning(w) ==
    CASE w.form = "exact" -> w.value
      [] w.form = "number" -> Truncated(w.value) * Milli
      [] OTHER -> 2 * Half * Milli
Last == IF to = NoWord THEN word ELSE to

(* Text, all of it, that means a delay within the limit.                       *)
Within ==
    /\ word.form \in {"number", "exact"} /\ Last.form \in {"number", "exact"}
    /\ 0 <= Meaning(word)
    /\ Meaning(word) <= Meaning(Last)
    /\ Meaning(Last) <= limit

(* No text whatsoever, overflowing ones included, leads to a negative delay or *)
(* one beyond MaxDuration; and rand.Int63n panics for one range only, from 0   *)
(* to the longest of all durations, which no MaxDuration but that one admits.  *)
DelaySafe ==
    /\ pc \in {"wait", "served", "panicked"} =>
           0 <= parsed.min /\ parsed.min <= parsed.max /\ parsed.max <= limit
    /\ pc = "served" => parsed.min <= waited /\ waited <= parsed.max
    /\ pc = "panicked" => parsed.min = 0 /\ parsed.max = Half - 1 /\ limit = Half - 1

(* A delay within the limit is accepted, and served as the text means it.      *)
MeaningKept ==
    (Within /\ (to = NoWord \/ user = "delay")) =>
        /\ pc # "refused"
        /\ pc = "served" => waited \in Meaning(word) .. Meaning(Last)

=============================================================================
