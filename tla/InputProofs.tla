----------------------------- MODULE InputProofs -----------------------------
(* Theorems about what the server makes of what it is told: texts that ask for *)
(* a delay, headers that name a client, flags and variables that configure it. *)
(* The three specifications share no state; each theorem is about one of them. *)
EXTENDS Durations, ClientIP, Config, SequenceTheorems, TLAPS

-----------------------------------------------------------------------------
(* Delays, for any range of a time.Duration, any unit, any limit and     *)
(* numbers of any size.                                                        *)

(* Half the range of a time.Duration is a number, and no limit is outside it.  *)
LEMMA HalfType ==
    /\ Half \in Nat /\ Half >= 1
    /\ \A m \in Limits : m \in Int /\ m <= Half - 1
<1>1. Half \in Nat /\ Half >= 1
  BY DurationsAssumption
<1>2. Limits \subseteq -Half .. Half - 1
  BY DurationsAssumption
<1> QED
  BY <1>1, <1>2

(* What a conversion gives is an integer ...                                   *)
LEMMA TruncatedType ==
    ASSUME NEW n \in Int
    PROVE  Truncated(n) \in Int
  BY DEF Truncated

(* ... wrapped around, it is one ...                                           *)
LEMMA WrapType ==
    ASSUME NEW n \in Int
    PROVE  Wrap(n) \in Int
<1> DEFINE h == Half
<1>1. h \in Nat /\ h >= 1
  BY HalfType
<1>2. Wrap(n) = ((n + h) % (2 * h)) - h
  BY DEF Wrap
<1> HIDE DEF h
<1> QED
  BY <1>1, <1>2

(* ... and itself, if it fits.                                                 *)
LEMMA WrapFits ==
    ASSUME NEW n \in Int, Fits(n)
    PROVE  Wrap(n) = n
<1> DEFINE h == Half
<1>1. h \in Nat /\ h >= 1
  BY HalfType
<1>2. Wrap(n) = ((n + h) % (2 * h)) - h /\ n \in -h .. h - 1
  BY DEF Wrap, Fits
<1> HIDE DEF h
<1>3. n + h \in 0 .. (2 * h) - 1
  BY <1>1, <1>2
<1> DEFINE m == n + h
           b == 2 * h
<1>4. m \in 0 .. b - 1 /\ b \in Nat \ {0}
  BY <1>1, <1>3
<1>5. m % b = m
  <2> HIDE DEF m, b
  <2> QED
    BY <1>4
<1> QED
  BY <1>1, <1>2, <1>5

-----------------------------------------------------------------------------
(* A client's text.                                                            *)

(* A duration parsed from one word: its ends are one integer.                  *)
Single(d) == d.ok \in BOOLEAN /\ d.min \in Int /\ d.max = d.min

(* Milliseconds, whatever they are, come out as one.                           *)
LEMMA TimesSingle ==
    ASSUME NEW ms \in Int
    PROVE  Single(Right(Wrap(ms * Milli), Wrap(ms * Milli)))
<1>1. ms * Milli \in Int
  BY DurationsAssumption
<1>2. Wrap(ms * Milli) \in Int
  BY <1>1, WrapType
<1> QED
  BY <1>2 DEF Single, Right

(* The words are of four forms, with an integer.                               *)
LEMMA WordType ==
    ASSUME NEW w \in Word
    PROVE  w.value \in Int /\ w.form \in {"number", "exact", "infinite", "garbage"}
  BY DurationsAssumption DEF Word

(* No word confuses parseDuration, whatever the processor makes of it.         *)
LEMMA ParseSingle ==
    ASSUME NEW w \in Word, NEW d \in parseDuration(w)
    PROVE  Single(d)
<1> DEFINE ms == Truncated(w.value)
           times(n) == Right(Wrap(n * Milli), Wrap(n * Milli))
<1>1. w.value \in Int /\ ms \in Int
  BY WordType, TruncatedType
<1>2. -Half \in Int /\ Half - 1 \in Int /\ (IF ms > 0 THEN Half - 1 ELSE -Half) \in Int /\ 0 \in Int
  BY HalfType
<1>3. \/ d = Right(w.value, w.value)
      \/ d = times(ms) \/ d = times(-Half) \/ d = times(0) \/ d = times(Half - 1)
      \/ d = times(IF ms > 0 THEN Half - 1 ELSE -Half)
      \/ d = Wrong
  BY WordType DEF parseDuration
<1>4. Single(Wrong) /\ Single(Right(w.value, w.value))
  BY <1>1 DEF Single, Wrong, Right
<1> HIDE DEF ms
<1> QED
  BY <1>1, <1>2, <1>3, <1>4, TimesSingle

(* A delay that may be drawn from.                                             *)
Drawable(d, m) == /\ 0 <= d.min /\ d.min <= d.max /\ d.max <= m
                  /\ d.min \in Int /\ d.max \in Int

(* What parseBoundedDuration accepts can be ...                                *)
LEMMA BoundedDrawable ==
    ASSUME NEW m \in Limits, NEW w \in Word, NEW d \in parseBoundedDuration(w, 0, m), d.ok
    PROVE  Drawable(d, m)
<1>1. PICK e \in parseDuration(w) : d = Bounded(e, 0, m)
  BY DEF parseBoundedDuration
<1>2. Single(e)
  BY ParseSingle
<1>3. d = e /\ e.max <= m /\ e.min >= 0
  BY <1>1 DEF Bounded, Wrong
<1> QED
  BY <1>2, <1>3, HalfType DEF Single, Drawable

(* ... and what parseDelayRange accepts.                                       *)
LEMMA RangeDrawable ==
    ASSUME NEW m \in Limits, NEW w \in Word, NEW v \in Word \cup {NoWord},
           NEW d \in parseDelayRange(w, v, m), d.ok
    PROVE  Drawable(d, m)
<1>1. CASE v = NoWord
  BY <1>1, BoundedDrawable DEF parseDelayRange
<1>2. CASE v # NoWord
  <2>1. PICK lo \in parseDuration(w), hi \in parseDuration(v) :
           d = IF lo.ok /\ hi.ok THEN RangeOf(lo, hi, m) ELSE Wrong
    BY <1>2 DEF parseDelayRange
  <2>2. Single(lo) /\ Single(hi)
    BY <1>2, ParseSingle
  <2>3. /\ d = Right(lo.min, hi.max)
        /\ lo.min <= hi.max /\ lo.min >= 0 /\ hi.max <= m
    BY <2>1 DEF RangeOf, Wrong
  <2> QED
    BY <2>2, <2>3, HalfType DEF Single, Drawable, Right
<1> QED
  BY <1>1, <1>2

-----------------------------------------------------------------------------
(* What is waited for.                                                         *)

(* Nothing is waited for that may not be drawn from, what is drawn is in its   *)
(* range, and only a range that is as wide as can be has no number of choices. *)
Safe ==
    /\ limit \in Limits /\ word \in Word /\ to \in Word \cup {NoWord}
    /\ pc \in {"wait", "served", "panicked"} => Drawable(parsed, limit)
    /\ pc = "served" => parsed.min <= waited /\ waited <= parsed.max
    /\ pc = "panicked" => parsed.min = 0 /\ parsed.max = Half - 1

(* Numbers above the range of a time.Duration by one wrap to its least.        *)
LEMMA WrapHalf == Wrap(Half) = -Half
<1> DEFINE h == Half
<1>1. h \in Nat /\ h >= 1
  BY HalfType
<1>2. Wrap(h) = ((h + h) % (2 * h)) - h
  BY DEF Wrap
<1> DEFINE b == 2 * h
<1>3. b \in Nat \ {0} /\ h + h = b
  BY <1>1
<1>4. b % b = 0
  <2> HIDE DEF b
  <2> QED
    BY <1>3
<1> QED
  BY <1>1, <1>2, <1>3, <1>4

(* What rand.Int63n is asked for is the number of delays, or, for the widest   *)
(* of all ranges, the least integer.                                           *)
LEMMA SpanCount ==
    ASSUME limit \in Limits, Drawable(parsed, limit)
    PROVE  \/ /\ Span = parsed.max - parsed.min + 1
              /\ Span > 0
           \/ /\ parsed.min = 0 /\ parsed.max = Half - 1
              /\ ~(Span > 0)
<1> DEFINE h == Half
           x == parsed.min
           y == parsed.max
<1>1. /\ h \in Nat /\ h >= 1 /\ 0 <= x /\ x <= y /\ y <= h - 1 /\ x \in Int /\ y \in Int
  <2>1. /\ limit \in Int /\ limit <= h - 1 /\ h \in Nat /\ h >= 1
        /\ 0 <= x /\ x <= y /\ y <= limit /\ x \in Int /\ y \in Int
    BY HalfType DEF Drawable
  <2> HIDE DEF h, x, y
  <2> QED
    BY <2>1
<1>2. Span = Wrap(y - x + 1)
  BY DEF Span
<1>3. CASE y - x + 1 <= h - 1
  <2>1. Fits(y - x + 1) /\ y - x + 1 \in Int
    <3> SUFFICES y - x + 1 \in -h .. h - 1
      BY <1>1 DEF Fits
    <3> HIDE DEF h, x, y
    <3> QED
      BY <1>1, <1>3
  <2>2. Wrap(y - x + 1) = y - x + 1
    BY <2>1, WrapFits
  <2>3. y - x + 1 > 0
    <3> HIDE DEF h, x, y
    <3> QED
      BY <1>1
  <2> QED
    BY <1>2, <2>2, <2>3
<1>4. CASE ~(y - x + 1 <= h - 1)
  <2>1. x = 0 /\ y = h - 1 /\ y - x + 1 = h /\ ~(-h > 0)
    <3> HIDE DEF h, x, y
    <3> QED
      BY <1>1, <1>4
  <2> QED
    BY <1>2, <2>1, WrapHalf
<1> QED
  BY <1>3, <1>4

(* What is drawn is within the range.                                          *)
LEMMA DrawnWithin ==
    ASSUME limit \in Limits, Drawable(parsed, limit), Wait
    PROVE  /\ parsed.min <= waited' /\ waited' <= parsed.max
           /\ waited' \in parsed.min .. parsed.max
<1> DEFINE x == parsed.min
           y == parsed.max
<1>1. /\ limit \in Int /\ limit <= Half - 1 /\ Half \in Nat
      /\ 0 <= x /\ x <= y /\ y <= limit /\ x \in Int /\ y \in Int
  BY HalfType DEF Drawable
<1>2. CASE y > x
  <2>1. PICK k \in 0 .. Span - 1 : waited' = Wrap(x + k)
    BY <1>2 DEF Wait
  <2>2. Span = y - x + 1
    BY <1>2, SpanCount DEF Wait
  <2>3. x + k \in Int /\ x <= x + k /\ x + k <= y
    <3> HIDE DEF x, y
    <3> QED
      BY <1>1, <2>1, <2>2
  <2>4. Fits(x + k)
    <3> DEFINE n == x + k
    <3>1. n \in Int /\ 0 <= n /\ n <= Half - 1
      <4> HIDE DEF x, y, n
      <4>1. n \in Int /\ x <= n /\ n <= y
        BY <2>3 DEF n
      <4> QED
        BY <1>1, <4>1
    <3> HIDE DEF n
    <3>2. Fits(n)
      BY <1>1, <3>1 DEF Fits
    <3> QED
      BY <3>2 DEF n
  <2>5. waited' = x + k
    BY <2>1, <2>3, <2>4, WrapFits
  <2> HIDE DEF x, y
  <2>6. waited' \in x .. y
    BY <1>1, <2>3, <2>5
  <2> QED
    BY <2>3, <2>5, <2>6 DEF x, y
<1>3. CASE ~(y > x)
  <2>1. waited' = x
    BY <1>3 DEF Wait
  <2> HIDE DEF x, y
  <2>2. x <= waited' /\ waited' <= y /\ waited' \in x .. y
    BY <1>1, <1>3, <2>1
  <2> QED
    BY <2>2 DEF x, y
<1> QED
  BY <1>2, <1>3

(* That is what was to be shown.                                               *)
LEMMA SafeDrawn == Safe => DelaySafe
<1> SUFFICES ASSUME Safe PROVE DelaySafe
  OBVIOUS
<1>1. /\ pc \in {"wait", "served", "panicked"} =>
             0 <= parsed.min /\ parsed.min <= parsed.max /\ parsed.max <= limit
      /\ pc = "served" => parsed.min <= waited /\ waited <= parsed.max
  BY DEF Safe, Drawable
<1>2. pc = "panicked" => parsed.min = 0 /\ parsed.max = Half - 1 /\ limit = Half - 1
  <2> SUFFICES ASSUME pc = "panicked"
               PROVE  parsed.min = 0 /\ parsed.max = Half - 1 /\ limit = Half - 1
    OBVIOUS
  <2>1. parsed.min = 0 /\ parsed.max = Half - 1 /\ parsed.max <= limit
    BY DEF Safe, Drawable
  <2>2. limit \in Int /\ limit <= Half - 1 /\ Half \in Nat
    BY HalfType DEF Safe
  <2> QED
    BY <2>1, <2>2
<1> QED
  BY <1>1, <1>2 DEF DelaySafe

(* Both handlers keep to that.                                                 *)
LEMMA StepSafe == Safe /\ [DelayNext]_delayVars => Safe'
<1> SUFFICES ASSUME Safe, [DelayNext]_delayVars PROVE Safe'
  OBVIOUS
<1>0. limit \in Limits /\ word \in Word /\ to \in Word \cup {NoWord}
  BY DEF Safe
<1>1. CASE Parse
  <2>1. PICK d \in IF user = "delay" THEN parseDelayRange(word, to, limit)
                   ELSE IF to = NoWord THEN parseBoundedDuration(word, 0, limit)
                   ELSE {Wrong} :
           parsed' = d /\ pc' = IF d.ok THEN "wait" ELSE "refused"
    BY <1>1 DEF Parse
  <2>2. UNCHANGED <<limit, word, to>>
    BY <1>1 DEF Parse
  <2>3. d.ok => Drawable(d, limit)
    BY <1>0, <2>1, RangeDrawable, BoundedDrawable DEF Wrong
  <2> QED
    BY <1>0, <2>1, <2>2, <2>3 DEF Safe, Drawable
<1>2. CASE Wait
  <2>1. pc = "wait" /\ pc' = "served" /\ UNCHANGED <<limit, word, to, parsed>>
    BY <1>2 DEF Wait
  <2>2. Drawable(parsed, limit)
    BY <2>1 DEF Safe
  <2>3. parsed.min <= waited' /\ waited' <= parsed.max
    BY <1>0, <1>2, <2>2, DrawnWithin
  <2> QED
    BY <1>0, <2>1, <2>2, <2>3 DEF Safe, Drawable
<1>3. CASE Panic
  <2>1. /\ pc = "wait" /\ pc' = "panicked" /\ Span <= 0
        /\ UNCHANGED <<limit, word, to, parsed>>
    BY <1>3 DEF Panic
  <2>2. Drawable(parsed, limit)
    BY <2>1 DEF Safe
  <2>3. parsed.min = 0 /\ parsed.max = Half - 1
    <3>1. parsed.max - parsed.min + 1 \in Int
      BY <2>2 DEF Drawable
    <3> QED
      BY <1>0, <2>1, <2>2, <3>1, SpanCount
  <2> QED
    BY <1>0, <2>1, <2>2, <2>3 DEF Safe, Drawable
<1>4. CASE Done \/ UNCHANGED delayVars
  BY <1>4 DEF Done, delayVars, Safe, Drawable
<1> QED
  BY <1>1, <1>2, <1>3, <1>4 DEF DelayNext

(* No text leads to a negative delay or to one beyond MaxDuration, whatever    *)
(* MaxDuration is and whatever overflows on the way; and rand.Int63n panics    *)
(* only for the range of all durations, if MaxDuration is the longest of them. *)
THEOREM DelaysAreSafe == DelaySpec => []DelaySafe
<1>1. DelayInit => Safe
  BY DEF DelayInit, Safe
<1> QED
  BY <1>1, StepSafe, SafeDrawn, PTL DEF DelaySpec

-----------------------------------------------------------------------------
(* What a text means.                                                          *)

(* Milliseconds are not more than the nanoseconds in them, and not fewer than  *)
(* none if those are not.                                                      *)
LEMMA MilliScales ==
    ASSUME NEW ms \in Int, 0 <= ms * Milli
    PROVE  0 <= ms /\ ms <= ms * Milli /\ ms * Milli \in Int
<1>1. Milli \in Nat /\ Milli >= 1
  BY DurationsAssumption
<1>2. 0 <= ms
  <2> SUFFICES ASSUME ms < 0 PROVE FALSE
    OBVIOUS
  <2>1. ms * Milli < 0
    BY <1>1
  <2>2. ms * Milli \in Int
    BY <1>1
  <2> QED
    BY <2>1, <2>2
<1>3. ms <= ms * Milli
  BY <1>1, <1>2
<1> QED
  BY <1>1, <1>2, <1>3

(* A text that means a delay within the limit is parsed to what it means: on   *)
(* that side of the limit nothing overflows.                                   *)
LEMMA ParsedAsMeant ==
    ASSUME NEW m \in Limits, NEW w \in Word, w.form \in {"number", "exact"},
           0 <= Meaning(w), Meaning(w) <= m
    PROVE  Meaning(w) \in Int /\ parseDuration(w) = {Right(Meaning(w), Meaning(w))}
<1>1. w.value \in Int
  BY WordType
<1>2. ASSUME NEW n \in Int, 0 <= n, n <= m
      PROVE  Fits(n)
  BY <1>2, HalfType DEF Fits
<1>3. CASE w.form = "exact"
  <2>1. Meaning(w) = w.value
    BY <1>3 DEF Meaning
  <2>2. Fits(w.value)
    BY <1>1, <1>2, <2>1
  <2> QED
    BY <1>1, <1>3, <2>1, <2>2 DEF parseDuration
<1>4. CASE w.form = "number"
  <2> DEFINE ms == Truncated(w.value)
  <2>1. Meaning(w) = ms * Milli
    BY <1>4 DEF Meaning
  <2>2. ms \in Int
    BY <1>1, TruncatedType
  <2>3. 0 <= ms /\ ms <= ms * Milli /\ ms * Milli \in Int
    <3> HIDE DEF ms
    <3> QED
      BY <2>1, <2>2, MilliScales
  <2>4. Fits(ms) /\ Fits(ms * Milli)
    <3>1. m \in Int
      BY HalfType
    <3>2. ms <= m
      <4> DEFINE n == ms * Milli
      <4>1. n \in Int /\ ms <= n /\ n <= m
        BY <2>1, <2>3
      <4> HIDE DEF n, ms
      <4> QED
        BY <2>2, <3>1, <4>1
    <3> HIDE DEF ms
    <3> QED
      BY <1>2, <2>1, <2>2, <2>3, <3>2
  <2>5. Wrap(ms * Milli) = ms * Milli
    BY <2>3, <2>4, WrapFits
  <2>6. parseDuration(w) = {Right(Wrap(ms * Milli), Wrap(ms * Milli))}
    BY <1>4, <2>4 DEF parseDuration
  <2> QED
    BY <2>1, <2>3, <2>5, <2>6
<1> QED
  BY <1>3, <1>4

(* The texts that MeaningKept is about.                                        *)
Meant == Within /\ (to = NoWord \/ user = "delay")

(* A delay that is meant is parsed, as meant.                                  *)
LEMMA MeantParsed ==
    ASSUME limit \in Limits, word \in Word, to \in Word \cup {NoWord}, Meant, Parse
    PROVE  parsed' = Right(Meaning(word), Meaning(Last)) /\ pc' = "wait"
<1> DEFINE a == Meaning(word)
           b == Meaning(Last)
<1>1. /\ word.form \in {"number", "exact"} /\ Last.form \in {"number", "exact"}
      /\ 0 <= a /\ a <= b /\ b <= limit
  BY DEF Meant, Within
<1>2. Last \in Word
  BY DEF Last
<1>3. \A w \in Word : w.form \in {"number", "exact"} => Meaning(w) \in Int
  <2> SUFFICES ASSUME NEW w \in Word, w.form \in {"number", "exact"} PROVE Meaning(w) \in Int
    OBVIOUS
  <2>1. w.value \in Int /\ Truncated(w.value) \in Int
    BY WordType, TruncatedType
  <2> QED
    BY <2>1, DurationsAssumption DEF Meaning
<1>4. a \in Int /\ b \in Int /\ limit \in Int
  BY <1>1, <1>2, <1>3, HalfType
<1>5. a <= limit /\ 0 <= b
  <2> HIDE DEF a, b
  <2> QED
    BY <1>1, <1>4
<1>6. parseDuration(word) = {Right(a, a)} /\ parseDuration(Last) = {Right(b, b)}
  BY <1>1, <1>2, <1>5, ParsedAsMeant
<1> HIDE DEF a, b
<1>7. CASE to = NoWord
  <2>1. Last = word /\ a = b
    BY <1>7 DEF Last, a, b
  <2>2. Bounded(Right(a, a), 0, limit) = Right(a, a)
    BY <1>1, <1>5 DEF Bounded, Right
  <2>3. parseBoundedDuration(word, 0, limit) = {Right(a, a)}
    BY <1>6, <2>2 DEF parseBoundedDuration
  <2>4. parsed' = Right(a, a) /\ pc' = IF Right(a, a).ok THEN "wait" ELSE "refused"
    BY <1>7, <2>3 DEF Parse, parseDelayRange
  <2> QED
    BY <2>1, <2>4 DEF Right, a, b
<1>8. CASE to # NoWord
  <2>1. Last = to /\ user = "delay"
    BY <1>8 DEF Last, Meant
  <2>2. RangeOf(Right(a, a), Right(b, b), limit) = Right(a, b)
    BY <1>1 DEF RangeOf, Right
  <2>3. Right(a, a).ok /\ Right(b, b).ok
    BY DEF Right
  <2>4. parseDelayRange(word, to, limit) = {Right(a, b)}
    BY <1>6, <1>8, <2>1, <2>2, <2>3 DEF parseDelayRange
  <2>5. parsed' = Right(a, b) /\ pc' = IF Right(a, b).ok THEN "wait" ELSE "refused"
    BY <2>1, <2>4 DEF Parse
  <2> QED
    BY <2>5 DEF Right, a, b
<1> QED
  BY <1>7, <1>8

(* Until it is served a delay that is meant is on its way.                     *)
Kept ==
    /\ limit \in Limits /\ word \in Word /\ to \in Word \cup {NoWord}
    /\ Meant => /\ pc # "refused"
                /\ pc \in {"wait", "served"} => parsed = Right(Meaning(word), Meaning(Last))
                /\ pc = "served" => waited \in Meaning(word) .. Meaning(Last)

(* Every step keeps it so.                                                     *)
LEMMA StepKept == Safe /\ Kept /\ [DelayNext]_delayVars => Kept'
<1> SUFFICES ASSUME Safe, Kept, [DelayNext]_delayVars PROVE Kept'
  OBVIOUS
<1>1. /\ UNCHANGED <<limit, user, word, to>>
      /\ limit \in Limits /\ word \in Word /\ to \in Word \cup {NoWord}
  BY DEF Kept, DelayNext, Parse, Wait, Panic, Done, delayVars
<1>2. /\ Meant' <=> Meant
      /\ Meaning(word)' = Meaning(word) /\ Meaning(Last)' = Meaning(Last)
  BY <1>1 DEF Meant, Within, Meaning, Last
<1> SUFFICES ASSUME Meant
             PROVE  /\ pc' # "refused"
                    /\ pc' \in {"wait", "served"} => parsed' = Right(Meaning(word), Meaning(Last))
                    /\ pc' = "served" => waited' \in Meaning(word) .. Meaning(Last)
  BY <1>1, <1>2 DEF Kept, Right
<1>3. CASE Parse
  BY <1>1, <1>3, MeantParsed
<1>4. CASE Wait
  <2>1. parsed.min = Meaning(word) /\ parsed.max = Meaning(Last)
    BY <1>4 DEF Wait, Kept, Right
  <2>2. waited' \in parsed.min .. parsed.max
    BY <1>1, <1>4, DrawnWithin DEF Wait, Safe
  <2> QED
    BY <1>4, <2>1, <2>2 DEF Wait, Kept
<1>5. CASE Panic
  BY <1>5 DEF Panic
<1>6. CASE Done \/ UNCHANGED delayVars
  BY <1>6 DEF Done, delayVars, Kept
<1> QED
  BY <1>3, <1>4, <1>5, <1>6 DEF DelayNext

(* A text that means a delay within the limit is not refused, and the delay    *)
(* served is one that it means.                                                *)
THEOREM MeaningIsKept == DelaySpec => []MeaningKept
<1>1. DelayInit => Safe /\ Kept
  BY DEF DelayInit, Safe, Kept
<1>2. Kept => MeaningKept
  BY DEF Kept, Meant, MeaningKept
<1> QED
  BY <1>1, <1>2, StepSafe, StepKept, PTL DEF DelaySpec

-----------------------------------------------------------------------------
(* The client's address, for any hosts, any proxies, any headers and a chain   *)
(* of any length.                                                              *)

(* The client is in the header, and only proxies are after it.                 *)
TracedAt(k) ==
    /\ k \in 1 .. Len(xff)
    /\ xff[k] = client
    /\ \A m \in 1 .. Len(xff) : k < m => xff[m] \in Proxies

Journey ==
    /\ client \in Hosts
    /\ useSubnets \in BOOLEAN
    /\ xff \in Seq(Texts)
    /\ \/ peer = client
       \/ peer \in Proxies /\ \E k \in 1 .. Len(xff) : TracedAt(k)
    /\ phase \in {"travelling", "arrived", "served"} =>
          /\ setting = "none" => configured /\ trustedProxies = {}
          /\ setting = "proxies" => configured /\ trustedProxies = Proxies

(* Walking back over the proxies that were added leads to the client.          *)
LEMMA RightmostIsClient ==
    ASSUME Journey, trustedProxies = Proxies, NEW k \in 1 .. Len(xff), TracedAt(k)
    PROVE  Rightmost(xff) = client
<1>1. Len(xff) \in Nat /\ DOMAIN xff = 1 .. Len(xff)
  BY LenProperties DEF Journey
<1>2. client \in Addresses \ Proxies
  BY AddressAssumption DEF Journey, Addresses
<1>3. k \in Outside(xff)
  BY <1>1, <1>2 DEF Outside, TracedAt
<1>4. \A m \in Outside(xff) : m \in 1 .. Len(xff) /\ m <= k
  BY <1>1 DEF Outside, TracedAt
<1>5. Max(Outside(xff)) = k
  <2> DEFINE S == Outside(xff)
  <2>1. \A x \in S : (\A y \in S : x >= y) => x = k
    BY <1>1, <1>3, <1>4
  <2>2. \A y \in S : k >= y
    BY <1>1, <1>4
  <2> HIDE DEF S
  <2>3. Max(S) \in S /\ \A y \in S : Max(S) >= y
    BY <1>3, <2>2 DEF Max, S
  <2> QED
    BY <2>1, <2>3 DEF S
<1> QED
  BY <1>3, <1>5 DEF Rightmost, TracedAt

(* A proxy adds the host it got the request from.                              *)
LEMMA ForwardTraces ==
    ASSUME Journey, NEW p \in Proxies, Forward(p)
    PROVE  Journey'
<1>1. /\ xff' = Append(xff, peer) /\ peer' = p
      /\ UNCHANGED <<setting, useSubnets, configured, trustedProxies, phase, client>>
  BY DEF Forward, settings
<1>2. xff \in Seq(Texts) /\ Len(xff) \in Nat /\ peer \in Texts
  BY LenProperties DEF Journey, Texts, Addresses
<1>3. /\ xff' \in Seq(Texts) /\ Len(xff') = Len(xff) + 1
      /\ xff'[Len(xff) + 1] = peer
      /\ \A m \in 1 .. Len(xff) : xff'[m] = xff[m]
  BY <1>1, <1>2, AppendProperties
<1>4. CASE peer = client
  <2>1. PICK k \in Nat : k = Len(xff) + 1
    BY <1>2
  <2>2. k \in 1 .. Len(xff') /\ TracedAt(k)'
    BY <1>1, <1>2, <1>3, <1>4, <2>1 DEF TracedAt
  <2> QED
    BY <1>1, <1>3, <2>2 DEF Journey
<1>5. CASE peer \in Proxies /\ \E k \in 1 .. Len(xff) : TracedAt(k)
  <2>1. PICK k \in 1 .. Len(xff) : TracedAt(k)
    BY <1>5
  <2>2. k \in 1 .. Len(xff') /\ TracedAt(k)'
    BY <1>1, <1>2, <1>3, <1>5, <2>1 DEF TracedAt
  <2> QED
    BY <1>1, <1>3, <2>2 DEF Journey
<1> QED
  BY <1>4, <1>5 DEF Journey

(* getClientIP finds whom the setting lets it.                                 *)
LEMMA FindsClient ==
    ASSUME Journey, phase = "arrived"
    PROVE  /\ setting = "proxies" => getClientIP = client
           /\ setting = "none" => getClientIP = peer
<1>1. ASSUME setting = "none" PROVE getClientIP = peer
  <2>1. configured /\ peer \notin trustedProxies
    BY <1>1 DEF Journey
  <2> QED
    BY <2>1 DEF getClientIP
<1>2. ASSUME setting = "proxies" PROVE getClientIP = client
  <2>1. configured /\ trustedProxies = Proxies
    BY <1>2 DEF Journey
  <2>2. CASE peer = client
    <3>1. peer \notin trustedProxies
      BY <2>1, <2>2, AddressAssumption DEF Journey
    <3> QED
      BY <2>1, <2>2, <3>1 DEF getClientIP
  <2>3. CASE peer \in Proxies /\ \E k \in 1 .. Len(xff) : TracedAt(k)
    <3>1. Rightmost(xff) = client
      BY <2>1, <2>3, RightmostIsClient
    <3>2. xff # <<>>
      BY <2>3, EmptySeq DEF TracedAt
    <3> QED
      BY <2>1, <2>3, <3>1, <3>2 DEF getClientIP
  <2> QED
    BY <2>2, <2>3 DEF Journey
<1> QED
  BY <1>1, <1>2

(* The request keeps its trace, and is served to the client it leads to.       *)
LEMMA StepJourney == Journey /\ OriginIsClient /\ [IPNext]_ipVars => Journey' /\ OriginIsClient'
<1> SUFFICES ASSUME Journey, OriginIsClient, [IPNext]_ipVars PROVE Journey' /\ OriginIsClient'
  OBVIOUS
<1>1. CASE Start
  <2>1. /\ configured' = Parsed(setting).configured /\ trustedProxies' = Parsed(setting).cidrs
        /\ phase' \in {"travelling", "exited"}
        /\ UNCHANGED <<setting, useSubnets, client, peer, xff>>
    BY <1>1 DEF Start, settings
  <2>2. /\ Parsed("none").configured /\ Parsed("none").cidrs = {}
        /\ Parsed("proxies").configured /\ Parsed("proxies").cidrs = Proxies
    BY DEF Parsed
  <2>3. Journey'
    BY <2>1, <2>2 DEF Journey, TracedAt
  <2> QED
    BY <2>1, <2>3 DEF OriginIsClient
<1>2. ASSUME NEW p \in Proxies, Forward(p) PROVE Journey' /\ OriginIsClient'
  <2>1. Journey'
    BY <1>2, ForwardTraces
  <2> QED
    BY <1>2, <2>1 DEF Forward, OriginIsClient
<1>3. CASE Arrive
  BY <1>3 DEF Arrive, settings, Journey, TracedAt, OriginIsClient
<1>4. CASE Serve
  <2>1. /\ phase = "arrived" /\ phase' = "served" /\ origin' = getClientIP
        /\ charged' = normalizeIPForRateLimit(getClientIP)
        /\ UNCHANGED <<setting, useSubnets, configured, trustedProxies, client, peer, xff>>
    BY <1>4 DEF Serve, settings
  <2>2. Journey'
    BY <2>1 DEF Journey, TracedAt
  <2>3. client \in Addresses /\ peer \in Addresses
    BY DEF Journey, Addresses
  <2>4. \A a \in Addresses : normalizeIPForRateLimit(a) = IF useSubnets THEN Subnet[a] ELSE a
    BY DEF normalizeIPForRateLimit
  <2>5. CASE setting = "proxies"
    <3>1. origin' = client /\ charged' = IF useSubnets THEN Subnet[client] ELSE client
      BY <2>1, <2>3, <2>4, <2>5, FindsClient
    <3> QED
      BY <2>1, <2>2, <2>5, <3>1 DEF OriginIsClient
  <2>6. CASE setting = "none"
    <3>1. origin' = peer /\ charged' = IF useSubnets THEN Subnet[peer] ELSE peer
      BY <2>1, <2>3, <2>4, <2>6, FindsClient
    <3> QED
      BY <2>1, <2>2, <2>6, <3>1 DEF OriginIsClient
  <2>7. CASE setting \notin {"proxies", "none"}
    BY <2>1, <2>2, <2>7 DEF OriginIsClient
  <2> QED
    BY <2>5, <2>6, <2>7
<1>5. CASE Finished \/ UNCHANGED ipVars
  BY <1>5 DEF Finished, ipVars, settings, Journey, TracedAt, OriginIsClient
<1> QED
  BY <1>1, <1>2, <1>3, <1>4, <1>5 DEF IPNext

(* With the proxies configured getClientIP finds the client through any chain  *)
(* of them, whatever headers it sends, and the limiter charges it or its       *)
(* subnet; with "none" both are the host the request came from.                *)
THEOREM ClientIsFound == IPSpec => []OriginIsClient
<1>1. IPInit => Journey /\ OriginIsClient
  <2> SUFFICES ASSUME IPInit PROVE Journey /\ OriginIsClient
    OBVIOUS
  <2>1. PICK n \in 0 .. MaxOwn : xff \in [1 .. n -> Texts]
    BY DEF IPInit
  <2>2. n \in Nat
    OBVIOUS
  <2>3. xff \in Seq(Texts)
    BY <2>1, <2>2, SeqDef
  <2> QED
    BY <2>3 DEF IPInit, Journey, OriginIsClient
<1> QED
  BY <1>1, StepJourney, PTL DEF IPSpec

-----------------------------------------------------------------------------
(* How the command starts, for any flags and any environment.                  *)

(* The settings, in the order in which loadConfig resolves them.               *)
LEMMA OrderFacts ==
    /\ Len(Order) = 6
    /\ \A k \in 1 .. 6 : Order[k] \in Settings
    /\ \A s \in Settings : \E k \in 1 .. 6 : s = Order[k]
    /\ Order[1] = Duration /\ Order[2] = Prefix /\ Order[3] = Cert
    /\ Order[4] = Key /\ Order[5] = Hostname /\ Order[6] = RawProxies
  BY DEF Order, Settings

(* No two settings are one.                                                    *)
LEMMA OrderDistinct == \A m, n \in 1 .. 6 : Order[m] = Order[n] => m = n
<1>1. DOMAIN Order = 1 .. 6
  BY DEF Order
<1> QED
  BY <1>1, DistinctAssumption

(* In particular ...                                                           *)
LEMMA SettingsDiffer ==
    /\ Duration # Cert /\ Duration # Key /\ Duration # Hostname /\ Duration # RawProxies
    /\ Prefix # Cert /\ Prefix # Key /\ Prefix # Hostname /\ Prefix # RawProxies
    /\ Cert # Key /\ Cert # Hostname /\ Cert # RawProxies
    /\ Key # Hostname /\ Key # RawProxies /\ Hostname # RawProxies /\ Duration # Prefix
  BY OrderFacts, OrderDistinct

-----------------------------------------------------------------------------
(* The value that a setting ends up with: its flag's, the environment's if     *)
(* that says no more than the default, or if the setting is a switch.          *)
Final(s) ==
    IF (FlagValue(s) = "default" \/ s = Hostname) /\ Says(s) THEN env[s] ELSE FlagValue(s)

(* What the user wrote.                                                        *)
Written ==
    /\ flag \in [Settings -> {"none", "default", "cli", "bad"}]
    /\ env \in [Settings -> {"none", "env", "bad"}]
    /\ \A s \in Settings : flag[s] \in Flags(s) /\ env[s] \in Envs(s)

(* A certificate and its key come together.                                    *)
Paired == (Final(Cert) = "default") <=> (Final(Key) = "default")

(* A reason to exit with status 2.                                             *)
Misused ==
    \/ \E s \in {Duration, Prefix} : flag[s] = "bad" \/ (flag[s] # "cli" /\ env[s] = "bad")
    \/ (flag[Cert] = "cli" \/ env[Cert] # "none") # (flag[Key] = "cli" \/ env[Key] # "none")

(* The settings before next are resolved and found good; those from it on are  *)
(* as the flags left them.                                                     *)
Resolving ==
    /\ next \in 1 .. 7
    /\ cfg \in [Settings -> {"default", "cli", "env", "bad"}]
    /\ \A k \in 1 .. 6 :
          cfg[Order[k]] = IF k < next THEN Final(Order[k]) ELSE FlagValue(Order[k])
    /\ next > 1 => Final(Duration) # "bad"
    /\ next > 2 => Final(Prefix) # "bad"
    /\ next > 4 => Paired

(* A configuration that is resolved; the raw proxies have been forgotten.      *)
Complete(c) ==
    /\ c[RawProxies] = "default"
    /\ \A s \in Settings \ {RawProxies} : c[s] = Final(s)
    /\ Final(Duration) # "bad" /\ Final(Prefix) # "bad"
    /\ Paired

ConfigInv ==
    /\ Written
    /\ stage = "flags" => next = 1
    /\ stage = "env" => Resolving
    /\ stage = "build" => Complete(cfg)
    /\ stage = "serving" => Complete(server)
    /\ exit = 2 => Misused

-----------------------------------------------------------------------------
(* What a certificate or a key ends up as tells whether anybody named it.      *)
LEMMA NamedOrNot ==
    ASSUME Written, NEW s \in {Cert, Key}
    PROVE  /\ Final(s) = "default" <=> flag[s] = "none" /\ env[s] = "none"
           /\ flag[s] \in {"none", "cli"} /\ env[s] \in {"none", "env"}
<1>1. s \in Settings /\ s \notin {Duration, Prefix, RawProxies, Hostname}
  BY SettingsDiffer DEF Settings
<1>2. Flags(s) = {"none", "cli"} /\ Envs(s) = {"none", "env"}
  BY <1>1 DEF Flags, Envs
<1>3. flag[s] \in {"none", "cli"} /\ env[s] \in {"none", "env"}
  BY <1>1, <1>2 DEF Written
<1> QED
  BY <1>1, <1>3 DEF Final, Says, FlagValue

(* The value of a setting is of those that Config knows.                       *)
LEMMA FinalValues ==
    ASSUME Written, NEW s \in Settings
    PROVE  /\ FlagValue(s) \in {"default", "cli", "bad"}
           /\ Final(s) \in {"default", "cli", "env", "bad"}
<1>1. flag[s] \in {"none", "default", "cli", "bad"} /\ env[s] \in {"none", "env", "bad"}
  BY DEF Written
<1> QED
  BY <1>1 DEF Final, Says, FlagValue

(* Only what is checked can be bad at all, but for the proxies.                *)
LEMMA FinalGood ==
    ASSUME Written, NEW s \in Settings, s \notin {Duration, Prefix, RawProxies}
    PROVE  Final(s) # "bad"
<1>1. Flags(s) = {"none", "cli"} /\ (s # Hostname => Envs(s) = {"none", "env"})
  BY DEF Flags, Envs
<1>2. flag[s] \in {"none", "cli"} /\ (s # Hostname => env[s] \in {"none", "env"})
  BY <1>1 DEF Written
<1> QED
  BY <1>2 DEF Final, Says, FlagValue

(* A setting that is turned down has been misused.                             *)
LEMMA BadIsMisused ==
    ASSUME Written, NEW s \in {Duration, Prefix}, Final(s) = "bad"
    PROVE  Misused
<1>1. s \in Settings /\ s # Hostname
  BY SettingsDiffer DEF Settings
<1>2. flag[s] \in {"none", "default", "cli", "bad"} /\ env[s] \in {"none", "env", "bad"}
  BY <1>1 DEF Written
<1>3. flag[s] = "bad" \/ (flag[s] # "cli" /\ env[s] = "bad")
  BY <1>1, <1>2 DEF Final, Says, FlagValue
<1> QED
  BY <1>3 DEF Misused

(* So has half a certificate.                                                  *)
LEMMA HalfIsMisused ==
    ASSUME Written, ~Paired
    PROVE  Misused
<1>1. /\ Final(Cert) = "default" <=> flag[Cert] = "none" /\ env[Cert] = "none"
      /\ flag[Cert] \in {"none", "cli"} /\ env[Cert] \in {"none", "env"}
  BY NamedOrNot
<1>2. /\ Final(Key) = "default" <=> flag[Key] = "none" /\ env[Key] = "none"
      /\ flag[Key] \in {"none", "cli"} /\ env[Key] \in {"none", "env"}
  BY NamedOrNot
<1>3. (flag[Cert] = "cli" \/ env[Cert] # "none") <=> ~(flag[Key] = "cli" \/ env[Key] # "none")
  BY <1>1, <1>2 DEF Paired
<1> QED
  BY <1>3 DEF Misused

-----------------------------------------------------------------------------
(* One setting is resolved or turned down.                                     *)
LEMMA ResolveKeeps ==
    ASSUME Written, Resolving, Resolve
    PROVE  \/ stage' = "exited" /\ exit' = 2 /\ Misused
           \/ stage' = stage /\ exit' = exit /\ Resolving'
<1> DEFINE s == Order[next]
<1>1. /\ next \in 1 .. 6 /\ s \in Settings
      /\ UNCHANGED <<flag, env>>
      /\ IF Refused(s) THEN stage' = "exited" /\ exit' = 2
         ELSE /\ cfg' = [cfg EXCEPT ![s] = Resolved(s)] /\ next' = next + 1
              /\ UNCHANGED <<stage, exit>>
  <2>1. next \in 1 .. 7 /\ Len(Order) = 6
    BY OrderFacts DEF Resolving
  <2>2. next \in 1 .. 6
    BY <2>1 DEF Resolve
  <2> QED
    BY <2>2, OrderFacts DEF Resolve, Exit
<1>2. Resolved(s) = Final(s)
  BY <1>1 DEF Resolving, Resolved, Final, Says
<1>3. next = 4 => cfg[Cert] = Final(Cert)
  BY OrderFacts DEF Resolving
<1>4. CASE Refused(s)
  <2>1. CASE s \in {Duration, Prefix} /\ Resolved(s) = "bad"
    BY <1>1, <1>2, <1>4, <2>1, BadIsMisused
  <2>2. CASE s = Key /\ (cfg[Cert] = "default") # (Resolved(Key) = "default")
    <3>1. next = 4
      BY <1>1, <2>2, OrderFacts, OrderDistinct
    <3>2. ~Paired
      BY <1>2, <1>3, <2>2, <3>1 DEF Paired
    <3> QED
      BY <1>1, <1>4, <3>2, HalfIsMisused
  <2> QED
    BY <1>4, <2>1, <2>2 DEF Refused
<1>5. CASE ~Refused(s)
  <2>1. \A t \in Settings : Final(t)' = Final(t) /\ FlagValue(t)' = FlagValue(t)
    BY <1>1 DEF Final, Says, FlagValue
  <2>2. cfg' \in [Settings -> {"default", "cli", "env", "bad"}]
    BY <1>1, <1>2, <1>5, FinalValues DEF Resolving
  <2>3. ASSUME NEW k \in 1 .. 6
        PROVE  cfg'[Order[k]] = IF k < next + 1 THEN Final(Order[k]) ELSE FlagValue(Order[k])
    <3>1. Order[k] \in Settings /\ (Order[k] = s => k = next)
      BY <1>1, OrderFacts, OrderDistinct
    <3>2. cfg \in [Settings -> {"default", "cli", "env", "bad"}]
          /\ cfg[Order[k]] = IF k < next THEN Final(Order[k]) ELSE FlagValue(Order[k])
      BY DEF Resolving
    <3>3. cfg'[Order[k]] = IF k = next THEN Final(s) ELSE cfg[Order[k]]
      BY <1>1, <1>2, <1>5, <3>1, <3>2
    <3> HIDE DEF s
    <3> QED
      BY <1>1, <3>2, <3>3 DEF s
  <2>4. next = 1 => Final(Duration) # "bad"
    BY <1>2, <1>5, OrderFacts DEF Refused
  <2>5. next = 2 => Final(Prefix) # "bad"
    BY <1>2, <1>5, OrderFacts DEF Refused
  <2>6. next = 4 => Paired
    BY <1>2, <1>3, <1>5, OrderFacts DEF Refused, Paired
  <2>7. /\ next' \in 1 .. 7
        /\ next' > 1 => Final(Duration) # "bad"
        /\ next' > 2 => Final(Prefix) # "bad"
        /\ next' > 4 => Paired
    BY <1>1, <1>5, <2>4, <2>5, <2>6 DEF Resolving
  <2>8. Paired' <=> Paired
    BY <2>1 DEF Paired, Settings
  <2>9. Final(Duration)' = Final(Duration) /\ Final(Prefix)' = Final(Prefix)
    BY <2>1 DEF Settings
  <2>10. \A k \in 1 .. 6 :
            cfg'[Order[k]] = IF k < next' THEN Final(Order[k])' ELSE FlagValue(Order[k])'
    BY <1>1, <1>5, <2>1, <2>3, OrderFacts
  <2>11. Resolving'
    BY <2>2, <2>7, <2>8, <2>9, <2>10 DEF Resolving
  <2> QED
    BY <1>1, <1>5, <2>11
<1> QED
  BY <1>4, <1>5

(* After the last setting the configuration is complete.                       *)
LEMMA ResetCompletes ==
    ASSUME Written, Resolving, Reset
    PROVE  Complete(cfg)'
<1>1. /\ next = 7 /\ UNCHANGED <<flag, env>>
      /\ cfg' = [cfg EXCEPT ![RawProxies] = "default"]
      /\ cfg \in [Settings -> {"default", "cli", "env", "bad"}]
  <2>1. next \in 1 .. 7 /\ Len(Order) = 6
    BY OrderFacts DEF Resolving
  <2>2. next = 7
    BY <2>1 DEF Reset
  <2> QED
    BY <2>2 DEF Reset, Resolving
<1>2. \A t \in Settings : Final(t)' = Final(t)
  BY <1>1 DEF Final, Says, FlagValue
<1>3. \A t \in Settings \ {RawProxies} : cfg'[t] = Final(t)
  <2> SUFFICES ASSUME NEW t \in Settings \ {RawProxies} PROVE cfg[t] = Final(t)
    BY <1>1
  <2>1. PICK k \in 1 .. 6 : t = Order[k]
    BY OrderFacts
  <2> QED
    BY <1>1, <2>1 DEF Resolving
<1>4. cfg'[RawProxies] = "default"
  BY <1>1 DEF Settings
<1>5. Final(Duration) # "bad" /\ Final(Prefix) # "bad" /\ Paired
  BY <1>1 DEF Resolving
<1>6. (Paired' <=> Paired) /\ Final(Duration)' = Final(Duration) /\ Final(Prefix)' = Final(Prefix)
  BY <1>2 DEF Paired, Settings
<1> QED
  BY <1>2, <1>3, <1>4, <1>5, <1>6 DEF Complete

(* Every step of the start-up keeps the invariant.                             *)
LEMMA StepConfig == ConfigInv /\ [CmdNext]_cmdVars => ConfigInv'
<1> SUFFICES ASSUME ConfigInv, [CmdNext]_cmdVars PROVE ConfigInv'
  OBVIOUS
<1>1. UNCHANGED <<flag, env>>
  BY DEF CmdNext, Help, ParseFlags, Resolve, HostnameFails, Reset, Build, Over, cmdVars
<1>2. Written /\ Written' /\ (Misused' <=> Misused)
  BY <1>1 DEF ConfigInv, Written, Flags, Envs, Misused
<1>3. \A t : Final(t)' = Final(t) /\ FlagValue(t)' = FlagValue(t)
  BY <1>1 DEF Final, Says, FlagValue
<1>4. Paired' <=> Paired
  BY <1>3 DEF Paired
<1>5. CASE Help
  BY <1>2, <1>5 DEF Help, Exit, ConfigInv
<1>6. CASE ParseFlags
  <2>1. CASE flag[Duration] = "bad"
    <3>1. Misused
      BY <2>1 DEF Misused
    <3> QED
      BY <1>2, <1>6, <2>1, <3>1 DEF ParseFlags, Exit, ConfigInv
  <2>2. CASE flag[Duration] # "bad"
    <3>1. /\ cfg' = [s \in Settings |-> FlagValue(s)] /\ stage' = "env"
          /\ next' = 1 /\ UNCHANGED <<exit, server>>
      BY <1>6, <2>2 DEF ParseFlags, ConfigInv
    <3>2. cfg' \in [Settings -> {"default", "cli", "env", "bad"}]
      BY <1>2, <3>1, FinalValues
    <3>3. \A k \in 1 .. 6 : cfg'[Order[k]] = FlagValue(Order[k]) /\ ~(k < 1)
      BY <3>1, OrderFacts
    <3>4. Resolving'
      BY <1>3, <3>1, <3>2, <3>3 DEF Resolving
    <3> QED
      BY <1>2, <3>1, <3>4 DEF ConfigInv
  <2> QED
    BY <2>1, <2>2
<1>7. CASE Resolve
  <2>1. stage = "env" /\ Resolving
    BY <1>7 DEF Resolve, ConfigInv
  <2> QED
    BY <1>2, <1>7, <2>1, ResolveKeeps DEF ConfigInv
<1>8. CASE HostnameFails
  BY <1>2, <1>8 DEF HostnameFails, Exit, ConfigInv
<1>9. CASE Reset
  <2>1. Complete(cfg)' /\ stage' = "build" /\ exit' = exit
    BY <1>2, <1>9, ResetCompletes DEF ConfigInv, Reset
  <2> QED
    BY <1>2, <2>1 DEF ConfigInv
<1>10. CASE Build
  <2>1. Complete(cfg) /\ cfg[RawProxies] # "bad"
    BY <1>10 DEF Build, ConfigInv, Complete
  <2>2. server' = cfg /\ stage' = "serving" /\ exit' = exit
    BY <1>10, <2>1 DEF Build
  <2>3. Complete(server)'
    BY <1>3, <1>4, <2>1, <2>2 DEF Complete
  <2> QED
    BY <1>2, <2>2, <2>3 DEF ConfigInv
<1>11. CASE Over \/ UNCHANGED cmdVars
  <2>1. UNCHANGED <<flag, env, cfg, next, stage, exit, server>>
    BY <1>11 DEF Over, cmdVars
  <2>2. (Resolving' <=> Resolving) /\ (Complete(cfg)' <=> Complete(cfg))
        /\ (Complete(server)' <=> Complete(server))
    BY <1>3, <1>4, <2>1 DEF Resolving, Complete
  <2> QED
    BY <1>2, <2>1, <2>2 DEF ConfigInv
<1> QED
  BY <1>5, <1>6, <1>7, <1>8, <1>9, <1>10, <1>11 DEF CmdNext

(* The command has the invariant when it starts, and so always.                *)
LEMMA ConfigAlways == CmdSpec => []ConfigInv
<1>1. CmdInit => ConfigInv
  BY DEF CmdInit, ConfigInv, Written
<1> QED
  BY <1>1, StepConfig, PTL DEF CmdSpec

(* A flag of the user's own is what the server runs with, and a variable is    *)
(* used where there is no flag.                                                *)
THEOREM FlagsWin == CmdSpec => []OwnFlagWins
<1>1. ConfigInv => OwnFlagWins
  <2> SUFFICES ASSUME ConfigInv, stage = "serving", NEW s \in {Duration, Prefix, Cert, Key}
               PROVE  server[s] = CASE flag[s] = "cli" -> "cli"
                                    [] flag[s] = "none" /\ env[s] # "none" -> env[s]
                                    [] flag[s] = "none" /\ env[s] = "none" -> "default"
                                    [] OTHER -> server[s]
    BY DEF OwnFlagWins
  <2>1. s \in Settings \ {RawProxies} /\ s # Hostname
    BY SettingsDiffer DEF Settings
  <2>2. server[s] = Final(s)
    BY <2>1 DEF ConfigInv, Complete
  <2> QED
    BY <2>1, <2>2 DEF Final, Says, FlagValue
<1> QED
  BY <1>1, ConfigAlways, PTL

(* The server never runs with a value that does not parse, and the command     *)
(* exits with status 2 only for a reason.                                      *)
THEOREM MalformedStops == CmdSpec => []MalformedStopped
<1>1. ConfigInv => MalformedStopped
  <2> SUFFICES ASSUME ConfigInv PROVE MalformedStopped
    OBVIOUS
  <2>1. ASSUME stage = "serving", NEW s \in Settings PROVE server[s] # "bad"
    <3>1. Complete(server) /\ Written
      BY <2>1 DEF ConfigInv
    <3>2. CASE s \in {Duration, Prefix}
      BY <3>1, <3>2, SettingsDiffer DEF Complete
    <3>3. CASE s = RawProxies
      BY <3>1, <3>3 DEF Complete
    <3>4. CASE s \notin {Duration, Prefix, RawProxies}
      BY <3>1, <3>4, FinalGood DEF Complete
    <3> QED
      BY <3>2, <3>3, <3>4
  <2> QED
    BY <2>1 DEF ConfigInv, Misused, MalformedStopped
<1> QED
  BY <1>1, ConfigAlways, PTL

(* Whoever names a certificate or a key never gets a server of plain HTTP.     *)
THEOREM TLSOrNothing == CmdSpec => []NeverSilentlyPlain
<1>1. ConfigInv => NeverSilentlyPlain
  <2> SUFFICES ASSUME ConfigInv, stage = "serving"
               PROVE  \/ server[Cert] # "default" /\ server[Key] # "default"
                      \/ \A s \in {Cert, Key} : flag[s] = "none" /\ env[s] = "none"
    BY DEF NeverSilentlyPlain
  <2>1. Complete(server) /\ Written
    BY DEF ConfigInv
  <2>2. server[Cert] = Final(Cert) /\ server[Key] = Final(Key)
    BY <2>1, SettingsDiffer DEF Complete, Settings
  <2>3. Final(Cert) = "default" <=> Final(Key) = "default"
    BY <2>1 DEF Complete, Paired
  <2> QED
    BY <2>1, <2>2, <2>3, NamedOrNot
<1> QED
  BY <1>1, ConfigAlways, PTL
=============================================================================
