--------------------------- MODULE PipelineProofs ----------------------------
(* Theorems about composable URLs, for paths of any segments and any length,   *)
(* any prefix, limits and redirect counts.                                     *)
EXTENDS Pipeline, SequenceFacts, FiniteSetTheorems

(* Segments a client may send, and those the server writes itself.             *)
Names == Redirects \cup {"get", "cookies", "image", "jpeg", "0", "1"}
Segment == STRING \cup Names \cup {Numeral(n) : n \in Nat}
Text == Seq(Segment)

-----------------------------------------------------------------------------
(* The parser reads a path from its end.                                       *)

(* The tables, by name.                                                        *)
LEMMA ModifierFacts ==
    /\ Modifiers = {"delay", "status", "header", "nocache"}
    /\ ModifierArgs["delay"] = 1 /\ ModifierArgs["status"] = 1
    /\ ModifierArgs["header"] = 1 /\ ModifierArgs["nocache"] = 0
    /\ \A m \in Modifiers : ModifierArgs[m] \in {0, 1}
<1>1. Modifiers = {"delay", "status", "header", "nocache"}
  BY DEF Modifiers, ModifierArgs
<1>2. /\ ModifierArgs["delay"] = 1 /\ ModifierArgs["status"] = 1
      /\ ModifierArgs["header"] = 1 /\ ModifierArgs["nocache"] = 0
  BY DEF ModifierArgs
<1> QED
  BY <1>1, <1>2

LEMMA TerminalFacts ==
    /\ DOMAIN TerminalArgs = {"get", "cookies", "redirect-to", "status", "body", "redirect",
                              "relative-redirect", "absolute-redirect", "links", "cache",
                              "base64", "digest-auth", "image"}
    /\ \A t \in DOMAIN TerminalArgs : TerminalArgs[t] \in {-1, 0, 1}
    /\ \A t \in DOMAIN TerminalArgs : t \in Modifiers => t = "status"
    /\ TerminalArgs["status"] = 1
    /\ \A t \in Redirects : t \in DOMAIN TerminalArgs /\ TerminalArgs[t] = -1
<1>1. DOMAIN TerminalArgs = NoArguments \cup OneArgument \cup AnyArguments
  BY DEF TerminalArgs
<1>2. DOMAIN TerminalArgs = {"get", "cookies", "redirect-to", "status", "body", "redirect",
                              "relative-redirect", "absolute-redirect", "links", "cache",
                              "base64", "digest-auth", "image"}
  BY <1>1 DEF NoArguments, OneArgument, AnyArguments, Redirects
<1>3. \A t \in DOMAIN TerminalArgs :
         TerminalArgs[t] = IF t \in AnyArguments THEN -1 ELSE IF t \in OneArgument THEN 1 ELSE 0
  BY DEF TerminalArgs
<1>4. TerminalArgs["status"] = 1
  BY <1>2, <1>3 DEF OneArgument, AnyArguments, Redirects
<1>5. \A t \in Redirects : t \in DOMAIN TerminalArgs /\ TerminalArgs[t] = -1
  BY <1>2, <1>3 DEF AnyArguments, Redirects
<1>6. \A t \in DOMAIN TerminalArgs : TerminalArgs[t] \in {-1, 0, 1}
  BY <1>3
<1>7. \A t \in DOMAIN TerminalArgs : t \in Modifiers => t = "status"
  BY <1>2, ModifierFacts
<1> QED
  BY <1>2, <1>4, <1>5, <1>6, <1>7

(* What parsePipeline makes of the segments from i on, given what it makes of  *)
(* those after them.                                                           *)
ReadStep(p, f, i) ==
    IF i > Len(p) THEN Rejected
    ELSE IF ~IsModifier(p, i) THEN ParseTerminal(SubSeq(p, i, Len(p)))
    ELSE LET last == i + ModifierArgs[p[i]]
         IN  IF last > Len(p) THEN Rejected
             ELSE LET r == f[last + 1]
                  IN  IF r.ok THEN Following(SubSeq(p, i, last), r) ELSE Rejected

IsRead(p, f) == f = [i \in 1 .. Len(p) + 1 |-> ReadStep(p, f, i)]
Read(p) == CHOOSE f : IsRead(p, f)

(* parsePipeline is the reading of all segments.                               *)
LEMMA PipelineRead ==
    ASSUME NEW p, p # <<>>, ~(Len(p) > MaxSegments)
    PROVE  parsePipeline(p) = Read(p)[1]
  BY DEF parsePipeline, Read, IsRead, ReadStep

(* Only what comes after matters.                                              *)
LEMMA ReadAgree ==
    ASSUME NEW p, NEW n \in Nat, Len(p) = n, NEW i \in 1 .. n + 1, NEW f, NEW g,
           \A j \in i + 1 .. n + 1 : f[j] = g[j]
    PROVE  ReadStep(p, f, i) = ReadStep(p, g, i)
<1>1. CASE i > n \/ ~IsModifier(p, i)
  BY <1>1 DEF ReadStep
<1>2. CASE ~(i > n) /\ IsModifier(p, i)
  <2>1. p[i] \in Modifiers
    BY <1>2 DEF IsModifier
  <2>2. PICK a \in {0, 1} : ModifierArgs[p[i]] = a
    BY <2>1, ModifierFacts
  <2>3. CASE i + a > n
    BY <1>2, <2>2, <2>3 DEF ReadStep
  <2>4. CASE ~(i + a > n)
    <3>1. (i + a) + 1 \in i + 1 .. n + 1
      BY <2>4
    <3>2. f[(i + a) + 1] = g[(i + a) + 1]
      BY <3>1
    <3> QED
      BY <1>2, <2>2, <2>4, <3>2 DEF ReadStep
  <2> QED
    BY <2>3, <2>4
<1> QED
  BY <1>1, <1>2

(* A path has a reading ...                                                    *)
LEMMA ReadExists ==
    ASSUME NEW p \in Text
    PROVE  \E f : IsRead(p, f)
<1>1. PICK n \in Nat : Len(p) = n
  BY LenProperties DEF Text
<1> DEFINE From(f, m) == /\ f = [i \in 1 .. n + 1 |-> f[i]]
                         /\ \A i \in (n + 1) - m .. n + 1 : f[i] = ReadStep(p, f, i)
           G == {m \in 0 .. n : \E f : From(f, m)}
<1>2. 0 \in G
  <2> DEFINE f == [i \in 1 .. n + 1 |-> Rejected]
  <2>1. ReadStep(p, f, n + 1) = Rejected
    BY <1>1 DEF ReadStep
  <2>2. f = [i \in 1 .. n + 1 |-> f[i]] /\ f[n + 1] = Rejected
    OBVIOUS
  <2> HIDE DEF f
  <2>3. \A i \in (n + 1) - 0 .. n + 1 : f[i] = ReadStep(p, f, i)
    BY <2>1, <2>2
  <2>4. From(f, 0)
    BY <2>2, <2>3
  <2> HIDE DEF From
  <2> QED
    BY <2>4
<1>3. ASSUME NEW m \in 0 .. n - 1, m \in G PROVE m + 1 \in G
  <2>1. PICK f : From(f, m)
    BY <1>3
  <2>2. PICK k \in 1 .. n : k = n - m
    OBVIOUS
  <2> DEFINE g == [i \in 1 .. n + 1 |-> IF i = k THEN ReadStep(p, f, k) ELSE f[i]]
  <2>3. /\ g = [i \in 1 .. n + 1 |-> g[i]] /\ g[k] = ReadStep(p, f, k)
        /\ \A i \in 1 .. n + 1 : i # k => g[i] = f[i]
    OBVIOUS
  <2> HIDE DEF g
  <2>4. ASSUME NEW i \in k .. n + 1 PROVE g[i] = ReadStep(p, g, i)
    <3>1. \A j \in i + 1 .. n + 1 : f[j] = g[j]
      BY <2>3
    <3>2. ReadStep(p, f, i) = ReadStep(p, g, i)
      <4>1. i \in 1 .. n + 1
        OBVIOUS
      <4> QED
        BY <1>1, <3>1, <4>1, ReadAgree
    <3>3. CASE i = k
      BY <2>3, <3>2, <3>3
    <3>4. CASE i # k
      <4>1. i \in (n + 1) - m .. n + 1 /\ i \in 1 .. n + 1
        BY <2>2, <3>4
      <4>2. f[i] = ReadStep(p, f, i)
        BY <2>1, <4>1
      <4> QED
        BY <2>3, <3>2, <3>4, <4>1, <4>2
    <3> QED
      BY <3>3, <3>4
  <2>5. (n + 1) - (m + 1) = k
    BY <2>2
  <2>6. From(g, m + 1)
    BY <2>3, <2>4, <2>5
  <2>7. m + 1 \in 0 .. n
    OBVIOUS
  <2> HIDE DEF From
  <2> QED
    BY <2>6, <2>7
<1>4. n \in G
  <2> HIDE DEF G
  <2> QED
    BY <1>2, <1>3, Ascend
<1>5. PICK f : From(f, n)
  BY <1>4
<1>6. \A i \in 1 .. n + 1 : f[i] = ReadStep(p, f, i)
  BY <1>5
<1>7. f = [i \in 1 .. n + 1 |-> ReadStep(p, f, i)]
  BY <1>5, <1>6
<1> QED
  BY <1>1, <1>7 DEF IsRead

(* ... which Read is.                                                          *)
LEMMA ReadIs ==
    ASSUME NEW p \in Text
    PROVE  \A i \in 1 .. Len(p) + 1 : Read(p)[i] = ReadStep(p, Read(p), i)
<1>1. IsRead(p, Read(p))
  BY ReadExists DEF Read
<1> QED
  BY <1>1 DEF IsRead

(* The segments after the first d are read as they would be on their own.      *)
Suffix(p, d, q) == d \in 0 .. Len(p) /\ q = SubSeq(p, d + 1, Len(p))
Agree(f, g, d, i, k) == \A j \in i + 1 .. k + 1 : f[d + j] = g[j]

LEMMA StepSuffix ==
    ASSUME NEW p \in Text, NEW d, NEW q, Suffix(p, d, q), NEW k \in Nat, Len(q) = k,
           NEW i \in 1 .. k + 1, NEW f, NEW g,
           Agree(f, g, d, i, k)
    PROVE  ReadStep(p, f, d + i) = ReadStep(q, g, i)
<1> d \in 0 .. Len(p) /\ q = SubSeq(p, d + 1, Len(p))
  BY DEF Suffix
<1>1. PICK n \in Nat : Len(p) = n
  BY LenProperties DEF Text
<1>2. n - d = k /\ \A j \in 1 .. k : q[j] = p[d + j]
  BY <1>1, SuffixProperties DEF Text
<1>3. CASE i > k
  <2>1. d + i > n
    BY <1>1, <1>2, <1>3
  <2> QED
    BY <1>1, <1>3, <2>1 DEF ReadStep
<1>4. CASE ~(i > k)
  <2>1. ~(d + i > n) /\ q[i] = p[d + i] /\ d + k = n /\ i \in 1 .. k
    BY <1>1, <1>2, <1>4
  <2>2. IsModifier(p, d + i) <=> IsModifier(q, i)
    <3>1. CASE q[i] \notin Modifiers
      BY <2>1, <3>1 DEF IsModifier
    <3>2. CASE q[i] \in Modifiers
      <4>1. PICK a \in {0, 1} : ModifierArgs[q[i]] = a
        BY <3>2, ModifierFacts
      <4>2. ((d + i) + a < n) <=> (i + a < k)
        BY <2>1
      <4> QED
        BY <1>1, <2>1, <3>2, <4>1, <4>2 DEF IsModifier
    <3> QED
      BY <3>1, <3>2
  <2>3. CASE ~IsModifier(q, i)
    <3>1. SubSeq(p, d + i, d + k) = SubSeq(q, i, k)
      BY <2>1, SuffixSubSeq DEF Text
    <3> QED
      BY <1>1, <1>4, <2>1, <2>2, <2>3, <3>1 DEF ReadStep
  <2>4. CASE IsModifier(q, i)
    <3>1. PICK a \in {0, 1} : ModifierArgs[q[i]] = a
      BY <2>4, ModifierFacts DEF IsModifier
    <3>2. CASE i + a > k
      <4>1. (d + i) + a > n
        BY <2>1, <3>2
      <4> QED
        BY <1>1, <1>4, <2>1, <2>2, <2>4, <3>1, <3>2, <4>1 DEF ReadStep
    <3>3. CASE ~(i + a > k)
      <4>1. ~((d + i) + a > n) /\ i + a \in i - 1 .. k /\ (i + a) + 1 \in i + 1 .. k + 1
        BY <2>1, <3>3
      <4>2. SubSeq(p, d + i, d + (i + a)) = SubSeq(q, i, i + a)
        <5>1. i \in 1 .. Len(q) + 1 /\ i + a \in i - 1 .. Len(q)
          BY <4>1
        <5>2. p \in Seq(Segment)
          BY DEF Text
        <5> QED
          BY ONLY <5>1, <5>2, q = SubSeq(p, d + 1, Len(p)), d \in 0 .. Len(p), SuffixSubSeq
      <4>3. f[d + ((i + a) + 1)] = g[(i + a) + 1]
        BY <4>1 DEF Agree
      <4>4. d + (i + a) = (d + i) + a /\ d + ((i + a) + 1) = ((d + i) + a) + 1
        OBVIOUS
      <4> QED
        BY <1>1, <1>4, <2>1, <2>2, <2>4, <3>1, <3>3, <4>1, <4>2, <4>3, <4>4 DEF ReadStep
    <3> QED
      BY <3>2, <3>3
  <2> QED
    BY <2>3, <2>4
<1> QED
  BY <1>3, <1>4

LEMMA ReadSuffix ==
    ASSUME NEW p \in Text, NEW d \in 0 .. Len(p), NEW q, q = SubSeq(p, d + 1, Len(p))
    PROVE  \A i \in 1 .. Len(q) + 1 : Read(p)[d + i] = Read(q)[i]
<1>0. Suffix(p, d, q)
  BY DEF Suffix
<1>1. PICK n \in Nat : Len(p) = n
  BY LenProperties DEF Text
<1>2. q \in Text
  BY SuffixProperties DEF Text
<1>3. PICK k \in Nat : Len(q) = k
  BY <1>2, LenProperties DEF Text
<1>4. k = n - d
  BY <1>1, <1>3, SuffixProperties DEF Text
<1> DEFINE G == {m \in 0 .. k : \A i \in (k + 1) - m .. k + 1 : Read(p)[d + i] = Read(q)[i]}
<1>5. ASSUME NEW i \in 1 .. k + 1, \A j \in i + 1 .. k + 1 : Read(p)[d + j] = Read(q)[j]
      PROVE  Read(p)[d + i] = Read(q)[i]
  <2>1. ReadStep(p, Read(p), d + i) = ReadStep(q, Read(q), i)
    <3>1. Agree(Read(p), Read(q), d, i, k)
      BY <1>5 DEF Agree
    <3> QED
      BY ONLY <1>0, <1>3, <3>1, StepSuffix, p \in Text, i \in 1 .. k + 1, k \in Nat
  <2>2. d + i \in 1 .. n + 1
    BY <1>4
  <2>3. Read(p)[d + i] = ReadStep(p, Read(p), d + i)
    BY <1>1, <2>2, ReadIs
  <2>4. Read(q)[i] = ReadStep(q, Read(q), i)
    BY <1>2, <1>3, ReadIs
  <2> QED
    BY <2>1, <2>3, <2>4
<1>6. 0 \in G
  <2>1. \A j \in (k + 1) + 1 .. k + 1 : Read(p)[d + j] = Read(q)[j]
    OBVIOUS
  <2>2. Read(p)[d + (k + 1)] = Read(q)[k + 1]
    BY <1>5, <2>1
  <2> QED
    BY <2>2
<1>7. ASSUME NEW m \in 0 .. k - 1, m \in G PROVE m + 1 \in G
  <2>1. PICK i \in 1 .. k : i = k - m
    OBVIOUS
  <2>2. \A j \in i + 1 .. k + 1 : Read(p)[d + j] = Read(q)[j]
    BY <1>7, <2>1
  <2>3. Read(p)[d + i] = Read(q)[i]
    <3>1. i \in 1 .. k + 1
      OBVIOUS
    <3> QED
      BY <1>5, <2>2, <3>1
  <2> QED
    BY <2>1, <2>2, <2>3
<1>8. k \in G
  <2> HIDE DEF G
  <2>1. 0 .. k \subseteq G
    BY ONLY <1>6, <1>7, Ascend, k \in Nat
  <2> QED
    BY <2>1
<1> QED
  BY <1>3, <1>8

Reading(t) == Read(t)[1]

(* A modifier with its arguments.                                              *)
Word(m) == /\ m \in Text
           /\ m # <<>>
           /\ m[1] \in Modifiers
           /\ Len(m) = 1 + ModifierArgs[m[1]]

LEMMA ReadingIs ==
    ASSUME NEW t \in Text
    PROVE  Reading(t) = ReadStep(t, Read(t), 1)
<1>1. 1 \in 1 .. Len(t) + 1
  BY LenProperties DEF Text
<1> QED
  BY <1>1, ReadIs DEF Reading

LEMMA ReadingEmpty == Reading(<<>>) = Rejected
<1>1. <<>> \in Text /\ Len(<<>>) = 0
  BY EmptySeq DEF Text
<1> QED
  BY <1>1, ReadingIs DEF ReadStep

LEMMA ReadingTerminal ==
    ASSUME NEW t \in Text, t # <<>>, ~IsModifier(t, 1)
    PROVE  Reading(t) = ParseTerminal(t)
<1>1. PICK n \in Nat : Len(t) = n
  BY LenProperties DEF Text
<1>2. ~(1 > n)
  BY <1>1, EmptySeq DEF Text
<1>3. SubSeq(t, 1, n) = t
  BY <1>1, SubSeqFull DEF Text
<1> QED
  BY <1>1, <1>2, <1>3, ReadingIs DEF ReadStep

(* A modifier, with all its arguments and something after them.                *)
LEMMA ReadingModifier ==
    ASSUME NEW t \in Text, t # <<>>, IsModifier(t, 1), NEW a \in {0, 1}, ModifierArgs[t[1]] = a
    PROVE  /\ 1 + a > Len(t) => Reading(t) = Rejected
           /\ 1 + a <= Len(t) =>
                LET r == Reading(SubSeq(t, 2 + a, Len(t)))
                IN  Reading(t) = IF r.ok THEN Following(SubSeq(t, 1, 1 + a), r) ELSE Rejected
<1>1. PICK n \in Nat : Len(t) = n
  BY LenProperties DEF Text
<1>2. ~(1 > n)
  BY <1>1, EmptySeq DEF Text
<1>3. CASE 1 + a > n
  BY <1>1, <1>2, <1>3, ReadingIs DEF ReadStep
<1>4. CASE ~(1 + a > n)
  <2>1. PICK q : q = SubSeq(t, 2 + a, n)
    OBVIOUS
  <2>2. 1 + a \in 0 .. n /\ (1 + a) + 1 = 2 + a /\ 1 + a <= n
    BY <1>4
  <2>3. q = SubSeq(t, (1 + a) + 1, Len(t)) /\ 1 + a \in 0 .. Len(t)
    BY <1>1, <2>1, <2>2
  <2>4. q \in Text
    BY <2>3, SuffixProperties DEF Text
  <2>5. 1 \in 1 .. Len(q) + 1
    BY <2>4, LenProperties DEF Text
  <2>6. Read(t)[(1 + a) + 1] = Reading(q)
    <3> HIDE DEF Text
    <3> QED
      BY <2>3, <2>5, ReadSuffix DEF Reading
  <2>7. Reading(t) = IF Reading(q).ok THEN Following(SubSeq(t, 1, 1 + a), Reading(q)) ELSE Rejected
    BY <1>1, <1>2, <1>4, <2>2, <2>6, ReadingIs DEF ReadStep
  <2> QED
    BY <1>1, <1>4, <2>1, <2>7
<1> QED
  BY <1>1, <1>3, <1>4

(* A modifier in front of a path is read first ...                             *)
LEMMA ReadingWord ==
    ASSUME NEW m, Word(m), NEW q \in Text, q # <<>>
    PROVE  /\ m \o q \in Text /\ IsModifier(m \o q, 1)
           /\ Reading(m \o q) =
                 IF Reading(q).ok THEN Following(m, Reading(q)) ELSE Rejected
<1>1. m \in Text /\ m # <<>> /\ m[1] \in Modifiers /\ Len(m) = 1 + ModifierArgs[m[1]]
  BY DEF Word
<1>2. PICK a \in {0, 1} : ModifierArgs[m[1]] = a
  BY <1>1, ModifierFacts
<1>3. PICK k \in Nat : Len(q) = k
  BY LenProperties DEF Text
<1>4. k # 0
  BY <1>3, EmptySeq DEF Text
<1>5. PICK t : t = m \o q
  OBVIOUS
<1>6. t \in Text /\ Len(t) = (1 + a) + k /\ t[1] = m[1]
  BY <1>1, <1>2, <1>3, <1>5, ConcatProperties DEF Text
<1>7. SubSeq(t, 1, 1 + a) = m /\ SubSeq(t, 2 + a, Len(t)) = q
  <2>1. (1 + a) + 1 = 2 + a
    OBVIOUS
  <2> QED
    BY <1>1, <1>2, <1>3, <1>5, <1>6, <2>1, Halves DEF Text
<1>8. 1 + a < Len(t) /\ t # <<>>
  BY <1>3, <1>4, <1>6, EmptySeq
<1>9. IsModifier(t, 1)
  BY <1>1, <1>2, <1>6, <1>8 DEF IsModifier
<1>10. 1 + a <= Len(t)
  BY <1>6, <1>8
<1>11. Reading(t) = IF Reading(q).ok THEN Following(m, Reading(q)) ELSE Rejected
  BY <1>2, <1>6, <1>7, <1>8, <1>9, <1>10, ReadingModifier
<1> QED
  BY <1>5, <1>6, <1>9, <1>11

(* ... and a path that begins with one is read that way, if it is read.        *)
Cut(t) == 1 + ModifierArgs[t[1]]
First(t) == SubSeq(t, 1, Cut(t))
After(t) == SubSeq(t, Cut(t) + 1, Len(t))

LEMMA ReadingSplit ==
    ASSUME NEW t \in Text, t # <<>>, IsModifier(t, 1), Reading(t).ok
    PROVE  /\ Word(First(t)) /\ After(t) \in Text /\ t = First(t) \o After(t)
           /\ Len(After(t)) < Len(t)
           /\ Reading(After(t)).ok /\ Reading(t) = Following(First(t), Reading(After(t)))
<1>1. PICK n \in Nat : Len(t) = n
  BY LenProperties DEF Text
<1>2. t[1] \in Modifiers
  BY DEF IsModifier
<1>3. PICK a \in {0, 1} : ModifierArgs[t[1]] = a
  BY <1>2, ModifierFacts
<1>4. ~Rejected.ok
  BY DEF Rejected
<1>5. 1 + a <= n
  <2>1. CASE 1 + a > n
    BY <1>1, <1>3, <1>4, <2>1, ReadingModifier
  <2> QED
    BY <2>1
<1>6. Cut(t) = 1 + a /\ 1 + a \in 0 .. Len(t)
  BY <1>1, <1>3, <1>5 DEF Cut
<1>7. PICK q : q = After(t)
  OBVIOUS
<1>8. q = SubSeq(t, 2 + a, Len(t)) /\ q = SubSeq(t, (1 + a) + 1, Len(t))
  <2>1. (1 + a) + 1 = 2 + a
    OBVIOUS
  <2> QED
    BY <1>6, <1>7, <2>1 DEF After
<1>9. q \in Text /\ Len(q) = n - (1 + a)
  BY <1>1, <1>6, <1>8, SuffixProperties DEF Text
<1>10. PICK m : m = First(t)
  OBVIOUS
<1>11. m = SubSeq(t, 1, 1 + a)
  BY <1>6, <1>10 DEF First
<1>12. m \in Text /\ Len(m) = 1 + a /\ m[1] = t[1]
  <2>1. 1 \in 1 .. 1 + a
    OBVIOUS
  <2> QED
    BY <1>6, <1>11, <2>1, PrefixProperties DEF Text
<1>13. Word(m)
  <2>1. m # <<>>
    BY <1>12, EmptySeq
  <2> QED
    BY <1>2, <1>3, <1>12, <2>1 DEF Word
<1>14. t = m \o q
  BY <1>6, <1>8, <1>11, SplitAt DEF Text
<1>15. Reading(t) = IF Reading(q).ok THEN Following(m, Reading(q)) ELSE Rejected
  BY <1>1, <1>3, <1>5, <1>8, <1>11, ReadingModifier
<1>16. Reading(q).ok /\ Reading(t) = Following(m, Reading(q))
  BY <1>4, <1>15
<1>17. Len(q) < Len(t)
  BY <1>1, <1>9
<1> QED
  BY <1>7, <1>9, <1>10, <1>13, <1>14, <1>16, <1>17

-----------------------------------------------------------------------------
(* What is read is modifiers and a terminal, and the other way round.          *)

Words(mods) == mods \in Seq(Text) /\ \A i \in 1 .. Len(mods) : Word(mods[i])

Terminal(rest) == /\ rest \in Text
                  /\ rest # <<>>
                  /\ ~IsModifier(rest, 1)
                  /\ ParseTerminal(rest).ok

Of(mods, rest) == [ok |-> TRUE, mods |-> mods, name |-> ParseTerminal(rest).name,
                   args |-> ParseTerminal(rest).args]

LEMMA WordsEmpty == Words(<<>>)
<1>1. <<>> \in Seq(Text) /\ Len(<<>>) = 0
  BY EmptySeq
<1> QED
  BY <1>1 DEF Words

LEMMA WordsCons ==
    ASSUME NEW m, Word(m), NEW mods, Words(mods)
    PROVE  /\ Words(<<m>> \o mods)
           /\ FlattenSeq(<<m>> \o mods) = m \o FlattenSeq(mods)
           /\ FlattenSeq(mods) \in Text
           /\ Len(<<m>> \o mods) = Len(mods) + 1
<1>1. m \in Text /\ mods \in Seq(Text) /\ \A i \in 1 .. Len(mods) : Word(mods[i])
  BY DEF Word, Words
<1>2. FlattenSeq(<<m>> \o mods) = m \o FlattenSeq(mods) /\ FlattenSeq(mods) \in Text
  <2>1. m \in Seq(Segment) /\ mods \in Seq(Seq(Segment))
    BY <1>1 DEF Text
  <2>2. FlattenSeq(mods) \in Seq(Segment)
    BY ONLY <2>1, FlattenType
  <2>3. FlattenSeq(<<m>> \o mods) = m \o FlattenSeq(mods)
    BY ONLY <2>1, FlattenCons
  <2> QED
    BY <2>2, <2>3 DEF Text
<1>3. PICK n \in Nat : Len(mods) = n
  BY <1>1, LenProperties
<1>4. PICK s : s = <<m>> \o mods
  OBVIOUS
<1>5. s \in Seq(Text) /\ Len(s) = n + 1 /\ s[1] = m /\ \A i \in 1 .. n : s[i + 1] = mods[i]
  BY ONLY <1>1, <1>3, <1>4, ConsProperties
<1>6. ASSUME NEW i \in 1 .. n + 1 PROVE Word(s[i])
  <2>1. CASE i = 1
    BY <1>5, <2>1
  <2>2. CASE i # 1
    <3>1. i - 1 \in 1 .. n /\ (i - 1) + 1 = i
      BY <2>2
    <3>2. s[i] = mods[i - 1] /\ Word(mods[i - 1])
      BY <1>1, <1>3, <1>5, <3>1
    <3> QED
      BY <3>2
  <2> QED
    BY <2>1, <2>2
<1>7. Words(s)
  BY <1>5, <1>6 DEF Words
<1> QED
  BY <1>2, <1>3, <1>4, <1>5, <1>7

LEMMA WordsType ==
    ASSUME NEW mods, Words(mods)
    PROVE  FlattenSeq(mods) \in Text
<1>1. mods \in Seq(Seq(Segment))
  BY DEF Words, Text
<1>2. FlattenSeq(mods) \in Seq(Segment)
  BY ONLY <1>1, FlattenType
<1> QED
  BY <1>2 DEF Text

LEMMA TerminalRead ==
    ASSUME NEW rest, Terminal(rest)
    PROVE  Reading(rest) = Of(<<>>, rest)
<1>1. rest \in Text /\ rest # <<>> /\ ~IsModifier(rest, 1) /\ ParseTerminal(rest).ok
  BY DEF Terminal
<1>2. Reading(rest) = ParseTerminal(rest)
  BY <1>1, ReadingTerminal
<1>3. PICK r : r = ParseTerminal(rest)
  OBVIOUS
<1>4. r = [ok |-> TRUE, mods |-> <<>>, name |-> r.name, args |-> r.args]
  BY <1>1, <1>3 DEF ParseTerminal, Rejected
<1> QED
  BY <1>2, <1>3, <1>4 DEF Of

(* A path that is accepted is modifiers, then a terminal.                      *)
Structured(t) ==
    \E mods, rest : /\ Words(mods) /\ Terminal(rest)
                    /\ t = FlattenSeq(mods) \o rest
                    /\ Reading(t) = Of(mods, rest)

LEMMA Structure ==
    ASSUME NEW t \in Text, Reading(t).ok
    PROVE  Structured(t)
<1> DEFINE G == {n \in Nat : \A u \in Text : Len(u) = n /\ Reading(u).ok => Structured(u)}
<1>1. ASSUME NEW n \in Nat, \A k \in 0 .. n - 1 : k \in G PROVE n \in G
  <2> SUFFICES ASSUME NEW u \in Text, Len(u) = n, Reading(u).ok PROVE Structured(u)
    OBVIOUS
  <2>1. u # <<>>
    BY ReadingEmpty DEF Rejected
  <2>2. CASE ~IsModifier(u, 1)
    <3>1. Terminal(u)
      BY <2>1, <2>2, ReadingTerminal DEF Terminal
    <3>2. Reading(u) = Of(<<>>, u)
      BY <3>1, TerminalRead
    <3>3. u = FlattenSeq(<<>>) \o u
      BY FlattenEmpty, ConcatEmptySeq DEF Text
    <3> QED
      BY <3>1, <3>2, <3>3, WordsEmpty DEF Structured
  <2>3. CASE IsModifier(u, 1)
    <3>1. PICK m, q : /\ Word(m) /\ q \in Text /\ u = m \o q /\ Len(q) < Len(u)
                      /\ Reading(q).ok /\ Reading(u) = Following(m, Reading(q))
      <4>1. /\ Word(First(u)) /\ After(u) \in Text /\ u = First(u) \o After(u)
            /\ Len(After(u)) < Len(u)
            /\ Reading(After(u)).ok /\ Reading(u) = Following(First(u), Reading(After(u)))
        BY ONLY <2>1, <2>3, u \in Text, Reading(u).ok, ReadingSplit
      <4> QED
        BY ONLY <4>1
    <3>2. PICK k \in 0 .. n - 1 : Len(q) = k
      BY <3>1, LenProperties DEF Text
    <3>3. Structured(q)
      BY <1>1, <3>1, <3>2
    <3>4. PICK mods, rest : /\ Words(mods) /\ Terminal(rest)
                            /\ q = FlattenSeq(mods) \o rest
                            /\ Reading(q) = Of(mods, rest)
      BY <3>3 DEF Structured
    <3>5. Reading(u) = Of(<<m>> \o mods, rest)
      BY <3>1, <3>4 DEF Following, Of
    <3>6. Words(<<m>> \o mods) /\ FlattenSeq(<<m>> \o mods) = m \o FlattenSeq(mods)
      BY <3>1, <3>4, WordsCons
    <3>7. m \in Seq(Segment) /\ FlattenSeq(mods) \in Seq(Segment) /\ rest \in Seq(Segment)
      BY <3>1, <3>4, WordsType DEF Word, Terminal, Text
    <3>8. (m \o FlattenSeq(mods)) \o rest = m \o (FlattenSeq(mods) \o rest)
      BY ONLY <3>7, ConcatAssociative
    <3>9. u = FlattenSeq(<<m>> \o mods) \o rest
      BY <3>1, <3>4, <3>6, <3>8
    <3> QED
      BY <3>4, <3>5, <3>6, <3>9 DEF Structured
  <2> QED
    BY <2>2, <2>3
<1>2. Nat \subseteq G
  <2> HIDE DEF G
  <2> QED
    BY ONLY <1>1, Induct
<1>3. Len(t) \in G
  BY <1>2, LenProperties DEF Text
<1> QED
  BY <1>3

(* Modifiers, then a terminal, are accepted and read as that.                  *)
LEMMA Unread ==
    ASSUME NEW mods, Words(mods), NEW rest, Terminal(rest)
    PROVE  /\ FlattenSeq(mods) \o rest \in Text
           /\ FlattenSeq(mods) \o rest # <<>>
           /\ Reading(FlattenSeq(mods) \o rest) = Of(mods, rest)
<1> DEFINE Good(w) == LET t == FlattenSeq(w) \o rest
                      IN  t \in Text /\ t # <<>> /\ Reading(t) = Of(w, rest)
           G == {n \in Nat : \A w : Words(w) /\ Len(w) = n => Good(w)}
<1>1. rest \in Text /\ rest # <<>>
  BY DEF Terminal
<1>2. Good(<<>>)
  <2>1. FlattenSeq(<<>>) \o rest = rest
    BY <1>1, FlattenEmpty, ConcatEmptySeq DEF Text
  <2> QED
    BY <1>1, <2>1, TerminalRead
<1>3. ASSUME NEW m, Word(m), NEW w, Words(w), Good(w) PROVE Good(<<m>> \o w)
  <2>1. PICK q : q = FlattenSeq(w) \o rest
    OBVIOUS
  <2>2. q \in Text /\ q # <<>> /\ Reading(q) = Of(w, rest)
    BY <1>3, <2>1
  <2>3. FlattenSeq(<<m>> \o w) = m \o FlattenSeq(w)
    BY <1>3, WordsCons
  <2>4. m \in Seq(Segment) /\ FlattenSeq(w) \in Seq(Segment) /\ rest \in Seq(Segment)
    BY <1>1, <1>3, WordsType DEF Word, Text
  <2>5. (m \o FlattenSeq(w)) \o rest = m \o (FlattenSeq(w) \o rest)
    BY ONLY <2>4, ConcatAssociative
  <2>6. FlattenSeq(<<m>> \o w) \o rest = m \o q
    BY <2>1, <2>3, <2>5
  <2>7. m \o q \in Text /\ Reading(m \o q) = Following(m, Reading(q))
    <3>1. Reading(q).ok
      BY <2>2 DEF Of
    <3> QED
      BY <1>3, <2>2, <3>1, ReadingWord
  <2>8. Reading(m \o q) = Of(<<m>> \o w, rest)
    BY <2>2, <2>7 DEF Following, Of
  <2>9. m \o q # <<>>
    <3>1. m # <<>>
      BY <1>3 DEF Word
    <3>2. q \in Seq(Segment)
      BY <2>2 DEF Text
    <3> QED
      BY ONLY <2>4, <3>1, <3>2, ConcatSimplifications
  <2> QED
    BY <2>6, <2>7, <2>8, <2>9
<1>4. ASSUME NEW n \in Nat, \A k \in 0 .. n - 1 : k \in G PROVE n \in G
  <2> SUFFICES ASSUME NEW w, Words(w), Len(w) = n PROVE Good(w)
    OBVIOUS
  <2>1. w \in Seq(Text) /\ \A i \in 1 .. n : Word(w[i])
    BY DEF Words
  <2>2. CASE n = 0
    <3>1. w = <<>>
      BY <2>1, <2>2, EmptySeq
    <3> QED
      BY <1>2, <3>1
  <2>3. CASE n # 0
    <3>1. PICK v : v = SubSeq(w, 2, n)
      OBVIOUS
    <3>2. 1 \in 0 .. Len(w) /\ 1 + 1 = 2
      BY <2>3
    <3>3. v = SubSeq(w, 1 + 1, Len(w))
      BY <3>1, <3>2
    <3>4. v \in Seq(Text) /\ Len(v) = Len(w) - 1 /\ \A i \in 1 .. Len(w) - 1 : v[i] = w[1 + i]
      BY ONLY <2>1, <3>2, <3>3, SuffixProperties
    <3>5. n - 1 \in 0 .. n - 1 /\ Len(v) = n - 1
      BY <2>3, <3>4
    <3>6. Words(v)
      <4>1. \A i \in 1 .. n - 1 : 1 + i \in 1 .. n
        OBVIOUS
      <4>2. \A i \in 1 .. n - 1 : Word(v[i])
        BY <2>1, <3>4, <4>1
      <4> QED
        BY <3>4, <3>5, <4>2 DEF Words
    <3>7. Good(v)
      BY <1>4, <3>5, <3>6
    <3>8. w = <<w[1]>> \o v
      <4>1. w # <<>>
        BY <2>3, EmptySeq
      <4>2. w = SubSeq(w, 1, n)
        BY ONLY <2>1, Len(w) = n, SubSeqFull
      <4>3. 1 \in 1 .. n /\ n \in 1 .. n
        BY <2>3
      <4>4. SubSeq(w, 1, n) = <<w[1]>> \o SubSeq(w, 1 + 1, n)
        BY ONLY <2>1, Len(w) = n, <4>3, SubSeqRecursiveFirst
      <4> QED
        BY <3>1, <3>2, <4>2, <4>4
    <3>9. Word(w[1])
      BY <2>1, <2>3
    <3> HIDE DEF Good
    <3> QED
      BY <1>3, <3>6, <3>7, <3>8, <3>9
  <2> QED
    BY <2>2, <2>3
<1>5. Nat \subseteq G
  <2> HIDE DEF G
  <2> QED
    BY ONLY <1>4, Induct
<1>6. Len(mods) \in Nat
  BY LenProperties DEF Words
<1>7. Len(mods) \in G
  BY <1>5, <1>6
<1>8. Good(mods)
  <2> HIDE DEF Good
  <2> QED
    BY <1>7
<1> QED
  BY <1>8

-----------------------------------------------------------------------------
(* The terminal with its arguments: what follows them is not looked at.        *)

Whole(rest) == ParseTerminal(rest).name \o ParseTerminal(rest).args

(* What ParseTerminal makes of a terminal with n arguments, or any number.     *)
LEMMA OneSegment ==
    ASSUME NEW rest \in Text, NEW r, r = ParseTerminal(rest), r.ok,
           ~(Len(rest) >= 2 /\ SubSeq(rest, 1, 2) \in TwoSegment)
    PROVE  /\ rest[1] \in DOMAIN TerminalArgs
           /\ ~(Len(Tail(rest)) < TerminalArgs[rest[1]])
           /\ r.name = <<rest[1]>>
           /\ r.args = IF TerminalArgs[rest[1]] = -1 THEN Tail(rest)
                       ELSE SubSeq(Tail(rest), 1, TerminalArgs[rest[1]])
  BY DEF ParseTerminal, Rejected

LEMMA TerminalWhole ==
    ASSUME NEW rest, Terminal(rest)
    PROVE  /\ Terminal(Whole(rest))
           /\ ParseTerminal(Whole(rest)) = ParseTerminal(rest)
           /\ \E x \in Text : rest = Whole(rest) \o x
<1>1. rest \in Text /\ rest # <<>> /\ ~IsModifier(rest, 1) /\ ParseTerminal(rest).ok
  BY DEF Terminal
<1>2. <<>> \in Text /\ rest = rest \o <<>>
  BY <1>1, EmptySeq, ConcatEmptySeq DEF Text
<1>3. PICK r : r = ParseTerminal(rest)
  OBVIOUS
<1>4. PICK n \in Nat \ {0} : n = Len(rest)
  BY <1>1, HeadTail DEF Text
<1>5. CASE n >= 2 /\ SubSeq(rest, 1, 2) \in TwoSegment
  <2>1. r.name = SubSeq(rest, 1, 2) /\ r.args = SubSeq(rest, 2 + 1, Len(rest))
    BY <1>3, <1>4, <1>5 DEF ParseTerminal
  <2>2. 2 \in 0 .. Len(rest)
    BY <1>4, <1>5
  <2>3. Whole(rest) = rest
    BY <1>1, <1>3, <2>1, <2>2, SplitAt DEF Whole, Text
  <2> QED
    BY <1>2, <2>3
<1>6. CASE ~(n >= 2 /\ SubSeq(rest, 1, 2) \in TwoSegment)
  <2>1. PICK one, k : one = rest[1] /\ k = TerminalArgs[rest[1]]
    OBVIOUS
  <2>2. /\ one \in DOMAIN TerminalArgs /\ r.name = <<one>> /\ ~(Len(Tail(rest)) < k)
        /\ r.args = IF k = -1 THEN Tail(rest) ELSE SubSeq(Tail(rest), 1, k)
    BY <1>1, <1>3, <1>4, <1>6, <2>1, OneSegment
  <2>3. k \in {-1, 0, 1}
    BY <2>1, <2>2, TerminalFacts
  <2>4. /\ one \in Segment /\ Tail(rest) \in Text /\ Len(Tail(rest)) = n - 1
        /\ rest = <<one>> \o Tail(rest)
    BY <1>1, <1>4, <2>1, HeadTail DEF Text
  <2>5. CASE k = -1
    <3>1. Whole(rest) = rest
      BY <1>3, <2>2, <2>4, <2>5 DEF Whole
    <3> QED
      BY <1>2, <3>1
  <2>6. CASE k # -1
    <3>1. PICK a : a = r.args
      OBVIOUS
    <3>2. k \in 0 .. Len(Tail(rest)) /\ k \in {0, 1} /\ a = SubSeq(Tail(rest), 1, k)
      BY <1>4, <2>2, <2>3, <2>4, <2>6, <3>1
    <3>3. a \in Text /\ Len(a) = k
      BY <2>4, <3>2, PrefixProperties DEF Text
    <3>4. PICK x : x = SubSeq(Tail(rest), k + 1, Len(Tail(rest)))
      OBVIOUS
    <3>5. x \in Text /\ Tail(rest) = a \o x
      BY <2>4, <3>2, <3>4, SuffixProperties, SplitAt DEF Text
    <3>6. PICK w : w = Whole(rest)
      OBVIOUS
    <3>7. w = <<one>> \o a
      BY <1>3, <2>2, <3>1, <3>6 DEF Whole
    <3>8. w \in Text /\ Len(w) = k + 1 /\ w[1] = one /\ Tail(w) = a
      BY <2>4, <3>3, <3>7, ConsProperties, ConsTail DEF Text
    <3>9. rest = w \o x
      <4>1. <<one>> \in Seq(Segment) /\ a \in Seq(Segment) /\ x \in Seq(Segment)
        BY <2>4, <3>3, <3>5 DEF Text
      <4>2. (<<one>> \o a) \o x = <<one>> \o (a \o x)
        BY ONLY <4>1, ConcatAssociative
      <4> QED
        BY <2>4, <3>5, <3>7, <4>2
    <3>10. w # <<>>
      BY <3>2, <3>8, EmptySeq
    <3>11. ~IsModifier(w, 1)
      <4>1. CASE one \in Modifiers
        <5>1. one = "status" /\ k = 1
          BY <2>1, <2>2, <4>1, TerminalFacts
        <5>2. ~(1 + ModifierArgs[one] < Len(w))
          BY <3>8, <5>1, ModifierFacts
        <5> QED
          BY <2>2, <3>8, <5>2 DEF IsModifier
      <4>2. CASE one \notin Modifiers
        BY <3>8, <4>2 DEF IsModifier
      <4> QED
        BY <4>1, <4>2
    <3>12. ~(Len(w) >= 2 /\ SubSeq(w, 1, 2) \in TwoSegment)
      <4>1. SUFFICES ASSUME Len(w) >= 2, SubSeq(w, 1, 2) \in TwoSegment PROVE FALSE
        OBVIOUS
      <4>2. k = 1 /\ Len(w) = 2
        BY <3>2, <3>8, <4>1
      <4>3. SubSeq(w, 1, 2) = w
        BY <3>8, <4>2, SubSeqFull DEF Text
      <4>4. w[1] = "cookies"
        <5>1. w = <<"cookies", "set">> \/ w = <<"cookies", "delete">>
          BY <4>1, <4>3 DEF TwoSegment
        <5> QED
          BY <5>1
      <4>5. TerminalArgs["cookies"] = 0
        BY DEF TerminalArgs, NoArguments, OneArgument, AnyArguments, Redirects
      <4> QED
        <5>1. TerminalArgs[w[1]] = k
          BY <2>1, <3>8
        <5> QED
          BY <4>2, <4>4, <4>5, <5>1
    <3>13. SubSeq(a, 1, k) = a
      BY <3>3, SubSeqFull DEF Text
    <3>14. ParseTerminal(w) = [ok |-> TRUE, mods |-> <<>>, name |-> <<one>>, args |-> a]
      <4>1. TerminalArgs[w[1]] = k /\ w[1] \in DOMAIN TerminalArgs /\ w[1] = one
        BY <2>1, <2>2, <3>8
      <4>2. ~(Len(Tail(w)) < k) /\ SubSeq(Tail(w), 1, k) = a
        BY <3>2, <3>3, <3>8, <3>13
      <4> QED
        BY <2>6, <3>12, <4>1, <4>2 DEF ParseTerminal
    <3>15. r = [ok |-> TRUE, mods |-> <<>>, name |-> <<one>>, args |-> a]
      <4>1. r = [ok |-> TRUE, mods |-> <<>>, name |-> r.name, args |-> r.args]
        BY <1>1, <1>3 DEF ParseTerminal, Rejected
      <4> QED
        BY <2>2, <3>1, <4>1
    <3>16. Terminal(w)
      BY <3>8, <3>10, <3>11, <3>14 DEF Terminal
    <3> QED
      BY <1>3, <3>5, <3>6, <3>9, <3>14, <3>15, <3>16
  <2> QED
    BY <2>5, <2>6
<1> QED
  BY <1>4, <1>5, <1>6

(* Name and arguments are segments.                                            *)
LEMMA TerminalParts ==
    ASSUME NEW rest, Terminal(rest)
    PROVE  /\ ParseTerminal(rest).name \in Seq(Segment)
           /\ ParseTerminal(rest).args \in Seq(Segment)
           /\ ParseTerminal(rest).name # <<>>
           /\ rest[1] = ParseTerminal(rest).name[1]
<1>1. rest \in Text /\ rest # <<>> /\ ParseTerminal(rest).ok
  BY DEF Terminal
<1>2. PICK r : r = ParseTerminal(rest)
  OBVIOUS
<1>3. PICK n \in Nat \ {0} : n = Len(rest)
  BY <1>1, HeadTail DEF Text
<1>4. CASE n >= 2 /\ SubSeq(rest, 1, 2) \in TwoSegment
  <2>1. r.name = SubSeq(rest, 1, 2) /\ r.args = SubSeq(rest, 2 + 1, Len(rest))
    BY <1>2, <1>3, <1>4 DEF ParseTerminal
  <2>2. 2 \in 0 .. Len(rest) /\ 1 \in 1 .. 2
    BY <1>3, <1>4
  <2>3. r.args \in Seq(Segment)
    BY <1>1, <2>1, <2>2, SuffixProperties DEF Text
  <2>4. r.name \in Seq(Segment) /\ Len(r.name) = 2 /\ r.name[1] = rest[1]
    BY <1>1, <2>1, <2>2, PrefixProperties DEF Text
  <2>5. r.name # <<>>
    BY <2>4, EmptySeq
  <2> QED
    BY <1>2, <2>3, <2>4, <2>5
<1>5. CASE ~(n >= 2 /\ SubSeq(rest, 1, 2) \in TwoSegment)
  <2>1. PICK one, k : one = rest[1] /\ k = TerminalArgs[rest[1]]
    OBVIOUS
  <2>2. /\ one \in DOMAIN TerminalArgs /\ r.name = <<one>> /\ ~(Len(Tail(rest)) < k)
        /\ r.args = IF k = -1 THEN Tail(rest) ELSE SubSeq(Tail(rest), 1, k)
    BY <1>1, <1>2, <1>3, <1>5, <2>1, OneSegment
  <2>3. k \in {-1, 0, 1}
    BY <2>1, <2>2, TerminalFacts
  <2>4. one \in Segment /\ Tail(rest) \in Seq(Segment) /\ Len(Tail(rest)) = n - 1
    BY <1>1, <1>3, <2>1, HeadTail DEF Text
  <2>5. k # -1 => k \in 0 .. Len(Tail(rest))
    BY <1>3, <2>2, <2>3, <2>4
  <2>6. r.args \in Seq(Segment)
    BY <2>2, <2>4, <2>5, PrefixProperties
  <2>7. r.name \in Seq(Segment) /\ r.name # <<>> /\ r.name[1] = one
    BY <2>2, <2>4
  <2> QED
    BY <1>2, <2>1, <2>6, <2>7
<1> QED
  BY <1>3, <1>4, <1>5

(* parsePipeline accepts what can be read and is not too long.                 *)
LEMMA Accepts ==
    ASSUME NEW p \in Text
    PROVE  /\ p # <<>> /\ Len(p) <= MaxSegments => parsePipeline(p) = Reading(p)
           /\ p = <<>> \/ Len(p) > MaxSegments => parsePipeline(p) = Rejected
<1>1. PICK n \in Nat : n = Len(p)
  BY LenProperties DEF Text
<1>2. MaxSegments \in Nat
  BY ParserAssumption
<1>3. (Len(p) <= MaxSegments) <=> ~(Len(p) > MaxSegments)
  BY <1>1, <1>2
<1>4. p # <<>> /\ Len(p) <= MaxSegments => parsePipeline(p) = Reading(p)
  BY <1>3, PipelineRead DEF Reading
<1>5. p = <<>> \/ Len(p) > MaxSegments => parsePipeline(p) = Rejected
  BY DEF parsePipeline
<1> QED
  BY <1>4, <1>5

Shape(p, mods, rest) ==
    /\ Words(mods) /\ Terminal(rest)
    /\ p = FlattenSeq(mods) \o rest
    /\ p # <<>> /\ Len(p) <= MaxSegments
    /\ parsePipeline(p) = Of(mods, rest)

LEMMA Accepted ==
    ASSUME NEW p \in Text, parsePipeline(p).ok
    PROVE  \E mods, rest : Shape(p, mods, rest)
<1>1. ~Rejected.ok
  BY DEF Rejected
<1>2. p # <<>> /\ ~(Len(p) > MaxSegments)
  BY <1>1, Accepts
<1>3. Len(p) <= MaxSegments
  BY <1>2, LenProperties, ParserAssumption DEF Text
<1>4. parsePipeline(p) = Reading(p)
  BY <1>2, <1>3, Accepts
<1>5. Structured(p)
  <2>1. Reading(p).ok
    BY <1>4
  <2> QED
    BY <2>1, Structure
<1> QED
  BY <1>2, <1>3, <1>4, <1>5 DEF Structured, Shape

LEMMA RejectedOrNot ==
    ASSUME NEW p \in Text
    PROVE  parsePipeline(p) = Rejected \/ parsePipeline(p).ok
<1>1. CASE p = <<>> \/ Len(p) > MaxSegments
  BY <1>1, Accepts
<1>2. CASE ~(p = <<>> \/ Len(p) > MaxSegments)
  <2>1. Len(p) <= MaxSegments
    BY <1>2, LenProperties, ParserAssumption DEF Text
  <2>2. parsePipeline(p) = Reading(p)
    BY <1>2, <2>1, Accepts
  <2>3. Reading(p) = ReadStep(p, Read(p), 1)
    BY ReadingIs
  <2>4. \A q : ParseTerminal(q) = Rejected \/ ParseTerminal(q).ok
    BY DEF ParseTerminal
  <2>5. \A m, r : Following(m, r).ok
    BY DEF Following
  <2> QED
    BY <2>2, <2>3, <2>4, <2>5 DEF ReadStep
<1> QED
  BY <1>1, <1>2

(* Rebuilt, the modifiers and the terminal are what the path begins with, and  *)
(* are read the same way.                                                      *)
LEMMA RoundTrip ==
    ASSUME NEW p \in Text, NEW r, r = parsePipeline(p), r.ok
    PROVE  /\ IsPrefix(buildModifierPrefix(r.mods) \o r.name \o r.args, p)
           /\ parsePipeline(buildModifierPrefix(r.mods) \o r.name \o r.args) = r
<1>1. PICK mods, rest : Shape(p, mods, rest)
  BY Accepted
<1>2. /\ Words(mods) /\ Terminal(rest) /\ p = FlattenSeq(mods) \o rest
      /\ Len(p) <= MaxSegments /\ r = Of(mods, rest)
  BY <1>1 DEF Shape
<1>3. PICK w : w = Whole(rest)
  OBVIOUS
<1>4. Terminal(w) /\ ParseTerminal(w) = ParseTerminal(rest)
  BY <1>2, <1>3, TerminalWhole
<1>5. PICK x \in Text : rest = w \o x
  BY <1>2, <1>3, TerminalWhole
<1>6. PICK f : f = FlattenSeq(mods)
  OBVIOUS
<1>7. f \in Seq(Segment) /\ w \in Seq(Segment) /\ x \in Seq(Segment)
  BY <1>2, <1>4, <1>6, WordsType DEF Terminal, Text
<1>8. PICK name, args : name = ParseTerminal(rest).name /\ args = ParseTerminal(rest).args
  OBVIOUS
<1>9. name \in Seq(Segment) /\ args \in Seq(Segment)
  BY <1>2, <1>8, TerminalParts
<1>10. PICK rebuilt : rebuilt = buildModifierPrefix(r.mods) \o r.name \o r.args
  OBVIOUS
<1>11. rebuilt = f \o w
  <2>1. r.mods = mods /\ r.name = name /\ r.args = args
    BY <1>2, <1>8 DEF Of
  <2>2. rebuilt = (f \o name) \o args
    BY <1>6, <1>10, <2>1 DEF buildModifierPrefix
  <2>3. (f \o name) \o args = f \o (name \o args)
    BY ONLY <1>9, <1>7, ConcatAssociative
  <2> QED
    BY <1>3, <1>8, <2>2, <2>3 DEF Whole
<1>12. p = rebuilt \o x
  <2>1. (f \o w) \o x = f \o (w \o x)
    BY ONLY <1>7, ConcatAssociative
  <2> QED
    BY <1>2, <1>5, <1>6, <1>11, <2>1
<1>13. rebuilt \in Text /\ rebuilt # <<>> /\ Reading(rebuilt) = Of(mods, w)
  BY <1>2, <1>4, <1>6, <1>11, Unread
<1>14. IsPrefix(rebuilt, p)
  BY <1>7, <1>12, <1>13, PrefixOfConcat DEF Text
<1>15. Len(rebuilt) <= MaxSegments
  <2>1. Len(rebuilt) \in Nat /\ Len(x) \in Nat /\ Len(p) = Len(rebuilt) + Len(x)
    <3>1. rebuilt \in Seq(Segment)
      BY <1>13 DEF Text
    <3> QED
      BY ONLY <1>7, <1>12, <3>1, LenProperties, ConcatProperties
  <2>2. MaxSegments \in Nat /\ Len(p) <= MaxSegments
    BY <1>2, ParserAssumption
  <2> QED
    BY ONLY <2>1, <2>2
<1>16. parsePipeline(rebuilt) = Of(mods, w)
  BY <1>13, <1>15, Accepts
<1>17. Of(mods, w) = r
  BY <1>2, <1>4 DEF Of
<1> QED
  BY <1>10, <1>14, <1>16, <1>17

-----------------------------------------------------------------------------
(* Every path that is requested is a sequence of segments.                     *)

Written == url.path \in Text

(* A location that keeps it so.                                                *)
Leads(loc) == loc # Nowhere => loc.path \in Text

LEMMA NameSegment ==
    /\ \A t \in Redirects : t \in Segment
    /\ "get" \in Segment /\ "cookies" \in Segment /\ "image" \in Segment
    /\ "jpeg" \in Segment /\ "redirect" \in Segment
    /\ "relative-redirect" \in Segment /\ "absolute-redirect" \in Segment
    /\ "0" \in Segment /\ "1" \in Segment
<1>1. \A t \in Redirects \cup {"get", "cookies", "image", "jpeg", "0", "1"} : t \in Segment
  BY DEF Segment, Names
<1> QED
  BY <1>1 DEF Redirects

LEMMA StringText ==
    ASSUME NEW p \in Seq(STRING)
    PROVE  p \in Text
<1>1. STRING \subseteq Segment
  BY DEF Segment
<1> QED
  BY <1>1, SeqMonotonic DEF Text

LEMMA PrefixText == Prefix \in Text
  BY PipelineAssumption, StringText

LEMMA ConcatText ==
    ASSUME NEW s \in Text, NEW t \in Text
    PROVE  s \o t \in Text
  BY ConcatProperties DEF Text

LEMMA ConcatNotEmpty ==
    ASSUME NEW s \in Text, NEW t \in Text, s # <<>> \/ t # <<>>
    PROVE  s \o t # <<>>
  BY ConcatSimplifications DEF Text

LEMMA NumeralSegment ==
    ASSUME NEW n \in Nat
    PROVE  Numeral(n) \in Segment
  BY DEF Segment

LEMMA PathText ==
    ASSUME Written
    PROVE  path \in Text
<1>1. PICK p \in Text : p = url.path
  BY DEF Written
<1>2. PICK k \in Nat : k = Len(Prefix)
  BY PrefixText, LenProperties DEF Text
<1>3. PICK n \in Nat : n = Len(p)
  BY LenProperties DEF Text
<1>4. CASE k <= n
  <2>1. k \in 0 .. Len(p)
    BY <1>3, <1>4
  <2> QED
    BY <1>1, <1>2, <2>1, SuffixProperties DEF path, Text
<1>5. CASE ~(k <= n)
  <2>1. SubSeq(p, k + 1, n) = <<>>
    BY <1>5, SubSeqEmpty
  <2>2. <<>> \in Text
    BY EmptySeq DEF Text
  <2> QED
    BY <1>1, <1>2, <1>3, <2>1, <2>2 DEF path
<1> QED
  BY <1>4, <1>5

(* An answer leaves the client where it is or sends it to the location.        *)
LEMMA AnswerMoves ==
    ASSUME NEW code, NEW loc, Answer(code, loc), Written, Leads(loc)
    PROVE  Written'
<1>1. CASE code \in Followed /\ loc # Nowhere
  <2>1. url' = loc /\ (pc' = "request" => loc.host \in Own)
    BY <1>1 DEF Answer
  <2> QED
    BY <1>1, <2>1 DEF Leads, Written
<1>2. CASE ~(code \in Followed /\ loc # Nowhere)
  <2>1. url' = url /\ pc' = "done"
    BY <1>2 DEF Answer
  <2> QED
    BY <2>1 DEF Written
<1> QED
  BY <1>1, <1>2

LEMMA RespondStays ==
    ASSUME NEW code, Respond(code)
    PROVE  url' = url /\ pc' = "done" /\ promise' = NoChain
  BY DEF Respond, Answer

LEMMA HereText ==
    ASSUME NEW p, NEW h
    PROVE  Here(p).path = p /\ There(h, p).path = p
  BY DEF Here, There

LEMMA ThereHost ==
    ASSUME NEW p, NEW h
    PROVE  There(h, p).host = h
  BY DEF There

LEMMA doRedirectLeads ==
    ASSUME NEW loc, loc.path \in Text
    PROVE  Leads(doRedirect(loc))
<1>1. Prefix \o loc.path \in Text
  BY PrefixText, ConcatText
<1>2. doRedirect(loc) = loc \/ doRedirect(loc).path = Prefix \o loc.path
  BY DEF doRedirect, Here
<1> QED
  BY <1>1, <1>2 DEF Leads

LEMMA HereLeads ==
    ASSUME NEW p \in Text
    PROVE  Leads(doRedirect(Here(p)))
<1>1. doRedirect(Here(p)).path = Prefix \o p
  BY DEF doRedirect, Here
<1> QED
  BY <1>1, PrefixText, ConcatText DEF Leads

LEMMA ShortText ==
    /\ \A a \in Segment : <<a>> \in Text /\ <<a>> # <<>>
    /\ \A a, b \in Segment : <<a, b>> \in Text /\ <<a, b>> # <<>>
  BY DEF Text

LEMMA LocationLeads ==
    ASSUME NEW code
    PROVE  Leads(LocationOf(code))
<1>1. PICK a \in Text : a = <<"redirect", "1">> /\ a # <<>>
  BY ShortText, NameSegment
<1>2. PICK b \in Text : b = <<"image", "jpeg">> /\ b # <<>>
  BY ShortText, NameSegment
<1>3. \/ LocationOf(code) = Here(Prefix \o a)
      \/ LocationOf(code) = Here(Prefix \o b)
      \/ LocationOf(code) = Nowhere
  BY <1>1, <1>2 DEF LocationOf
<1>4. \A c : c = a \/ c = b => Here(Prefix \o c).path \in Text
  BY <1>1, <1>2, PrefixText, ConcatText, HereText
<1> QED
  BY <1>3, <1>4 DEF Leads

(* Part of a sequence, whatever the bounds.                                    *)
LEMMA PartText ==
    ASSUME NEW p \in Text, NEW m \in Nat \ {0}, NEW n \in Int, n <= Len(p)
    PROVE  /\ SubSeq(p, m, n) \in Text
           /\ Len(SubSeq(p, m, n)) = IF m <= n THEN n - m + 1 ELSE 0
           /\ \A i \in 1 .. n - m + 1 : SubSeq(p, m, n)[i] = p[m + i - 1]
<1>1. Len(p) \in Nat /\ \A i \in 1 .. Len(p) : p[i] \in Segment
  BY LenProperties, ElementOfSeq DEF Text
<1>2. \A i \in m .. n : p[i] \in Segment
  BY <1>1
<1> QED
  BY <1>2, SubSeqProperties DEF Text

LEMMA LeastMember ==
    ASSUME NEW S, S \subseteq Nat, S # {}
    PROVE  Min(S) \in S /\ \A y \in S : Min(S) <= y
<1>1. PICK x \in S : \A y \in S : x <= y
  BY Least
<1> QED
  BY <1>1 DEF Min

(* A path that has climbed is a part of its beginning, and a part of its end   *)
(* that is moved to the front.                                                 *)
Moved(p, q) == \E m \in Int, n \in Nat \ {0} :
                  /\ m < n /\ m <= Len(p)
                  /\ q = SubSeq(p, 1, m) \o SubSeq(p, n, Len(p))

LEMMA ClimbMoves ==
    ASSUME NEW p \in Text
    PROVE  Climb(p) = p \/ Moved(p, Climb(p))
<1>1. PICK dots : dots = {i \in DOMAIN p : p[i] = ".."}
  OBVIOUS
<1>2. CASE dots = {}
  BY <1>1, <1>2 DEF Climb
<1>3. CASE dots # {}
  <2>1. PICK k \in Nat : k = Len(p) /\ DOMAIN p = 1 .. k
    BY LenProperties DEF Text
  <2>2. dots \subseteq 1 .. k /\ dots \subseteq Nat
    BY <1>1, <2>1
  <2>3. PICK ups \in Nat : ups = Cardinality(dots)
    <3>1. IsFiniteSet(1 .. k)
      BY FS_Interval
    <3> QED
      BY <2>2, <3>1, FS_Subset, FS_CardinalityType
  <2>4. PICK a \in 1 .. k : a = Min(dots)
    BY <1>3, <2>2, LeastMember
  <2>5. Climb(p) = SubSeq(p, 1, a - 1 - ups) \o SubSeq(p, a + ups, Len(p))
    BY <1>1, <1>3, <2>3, <2>4 DEF Climb
  <2>6. /\ a - 1 - ups \in Int /\ a + ups \in Nat \ {0}
        /\ a - 1 - ups < a + ups /\ a - 1 - ups <= k
    BY ONLY <2>3, <2>4, k \in Nat
  <2> QED
    BY <2>1, <2>5, <2>6 DEF Moved
<1> QED
  BY <1>2, <1>3

LEMMA ClimbText ==
    ASSUME NEW p \in Text
    PROVE  Climb(p) \in Text
<1>1. ASSUME Moved(p, Climb(p)) PROVE Climb(p) \in Text
  <2>1. PICK m \in Int, n \in Nat \ {0} :
                /\ m <= Len(p)
                /\ Climb(p) = SubSeq(p, 1, m) \o SubSeq(p, n, Len(p))
    BY <1>1 DEF Moved
  <2>2. Len(p) \in Int /\ Len(p) <= Len(p)
    BY LenProperties DEF Text
  <2>3. SubSeq(p, 1, m) \in Text /\ SubSeq(p, n, Len(p)) \in Text
    BY <2>1, <2>2, PartText
  <2> QED
    BY <2>1, <2>3, ConcatText
<1> QED
  BY <1>1, ClimbMoves

(* Where a relative path starts from.                                          *)
Base == SubSeq(url.path, 1, Len(url.path) - 1)

LEMMA BaseText ==
    ASSUME Written
    PROVE  Base \in Text
<1>1. PICK p \in Text : p = url.path
  BY DEF Written
<1>2. PICK k \in Nat : k = Len(p)
  BY LenProperties DEF Text
<1>3. k - 1 \in Int /\ k - 1 <= k
  OBVIOUS
<1> QED
  BY <1>1, <1>2, <1>3, PartText DEF Base

LEMMA ResolvedIs ==
    ASSUME NEW loc, loc.path \in Text
    PROVE  \/ Resolved(loc) = loc /\ loc.host \notin {"local", "relative"}
           \/ Resolved(loc) = Here(Climb(loc.path)) /\ loc.host = "local"
           \/ Resolved(loc) = Here(Climb(Base \o loc.path)) /\ loc.host = "relative"
<1>1. <<>> \o loc.path = loc.path
  BY ConcatEmptySeq DEF Text
<1> QED
  BY <1>1 DEF Resolved, Base

LEMMA ResolvedLeads ==
    ASSUME Written, NEW loc, loc.path \in Text
    PROVE  Resolved(loc).path \in Text
<1>1. Base \o loc.path \in Text
  BY BaseText, ConcatText
<1>2. Climb(loc.path) \in Text /\ Climb(Base \o loc.path) \in Text
  BY <1>1, ClimbText
<1> QED
  BY <1>2, ResolvedIs, HereText

LEMMA RedirectToLeads ==
    ASSUME Written, NEW to \in Targets, NEW a \in RedirectToAnswers(to)
    PROVE  Leads(a[2])
<1>1. CASE a[2] = Nowhere
  BY <1>1 DEF Leads
<1>2. CASE a[2] # Nowhere
  <2>1. a[2] = Resolved(doRedirect(to))
    <3>1. \/ a = <<403, Nowhere>> \/ a = <<400, Nowhere>>
          \/ a \in {302, 307} \X {Resolved(doRedirect(to))}
      BY DEF RedirectToAnswers
    <3> QED
      BY <1>2, <3>1
  <2>2. to.path \in Text
    BY PipelineAssumption, StringText
  <2>3. doRedirect(to).path \in Text
    <3>1. doRedirect(to) = to \/ doRedirect(to).path = Prefix \o to.path
      BY DEF doRedirect, Here
    <3> QED
      BY <2>2, <3>1, PrefixText, ConcatText
  <2> QED
    BY <2>1, <2>3, ResolvedLeads DEF Leads
<1> QED
  BY <1>1, <1>2

(* What is read for a path is as much of it as is read, segment by segment:    *)
(* at least what is plain in front.                                            *)
AsRead(p, q) == \E last \in 0 .. Len(p) :
                   /\ q = [i \in 1 .. last |-> ReadAs(p[i])]
                   /\ \A k \in 0 .. Len(p) :
                         (\A i \in 1 .. k : p[i] \notin DOMAIN Reads) => k <= last

LEMMA UnescapedIs ==
    ASSUME NEW p \in Text, Unescaped(p) # Nowhere
    PROVE  Unescaped(p).host \in Own /\ AsRead(p, Unescaped(p).path)
<1>1. PICK n \in Nat : n = Len(p) /\ DOMAIN p = 1 .. n
  BY LenProperties DEF Text
<1>2. PICK ends : ends = {i \in 1 .. n : KindOf(p[i]) \in {"cut", "dropped"}}
  OBVIOUS
<1>3. PICK last : last = IF ends = {} THEN n
                         ELSE IF KindOf(p[Min(ends)]) = "cut" THEN Min(ends) ELSE Min(ends) - 1
  OBVIOUS
<1>4. ends # {} => Min(ends) \in 1 .. n /\ KindOf(p[Min(ends)]) \in {"cut", "dropped"}
  <2>1. ends \subseteq Nat
    BY <1>2
  <2> QED
    BY <1>2, <2>1, LeastMember
<1>5. last \in 0 .. n
  BY <1>3, <1>4
<1>6. PICK h \in {"local", "query"} :
            Unescaped(p) = There(h, [i \in 1 .. last |-> ReadAs(p[i])])
  BY <1>1, <1>2, <1>3 DEF Unescaped
<1>7. ASSUME NEW k \in 0 .. n, \A i \in 1 .. k : p[i] \notin DOMAIN Reads
      PROVE  k <= last
  <2>1. CASE ends = {}
    BY <1>3, <2>1
  <2>2. CASE ends # {}
    <3>1. PICK m \in 1 .. n : m = Min(ends) /\ KindOf(p[m]) # "plain"
      BY <1>4, <2>2
    <3>2. p[m] \in DOMAIN Reads
      BY <3>1 DEF KindOf
    <3>3. k < m
      BY <1>7, <3>1, <3>2
    <3>4. last = m \/ last = m - 1
      BY <1>3, <2>2, <3>1
    <3> QED
      BY <3>3, <3>4
  <2> QED
    BY <2>1, <2>2
<1>8. h \in Own
  BY <1>6 DEF Own
<1>9. /\ Unescaped(p).host = h
      /\ Unescaped(p).path = [i \in 1 .. last |-> ReadAs(p[i])]
  BY ONLY <1>6, HereText, ThereHost
<1>10. last \in 0 .. Len(p)
  BY <1>1, <1>5
<1>11. \A k \in 0 .. Len(p) : (\A i \in 1 .. k : p[i] \notin DOMAIN Reads) => k <= last
  BY <1>1, <1>7
<1>12. AsRead(p, Unescaped(p).path)
  BY ONLY <1>9, <1>10, <1>11 DEF AsRead
<1> QED
  BY <1>8, <1>9, <1>12

LEMMA ReadAsSegment ==
    ASSUME NEW s \in Segment
    PROVE  ReadAs(s) \in Segment
<1>1. STRING \subseteq Segment
  BY DEF Segment
<1> QED
  BY <1>1, PipelineAssumption DEF ReadAs

LEMMA UnescapedLeads ==
    ASSUME NEW p \in Text
    PROVE  Leads(Unescaped(p))
<1>1. CASE Unescaped(p) = Nowhere
  BY <1>1 DEF Leads
<1>2. CASE Unescaped(p) # Nowhere
  <2>1. PICK last \in 0 .. Len(p) : Unescaped(p).path = [i \in 1 .. last |-> ReadAs(p[i])]
    BY <1>2, UnescapedIs DEF AsRead
  <2>2. Len(p) \in Nat /\ \A i \in 1 .. Len(p) : p[i] \in Segment
    BY LenProperties, ElementOfSeq DEF Text
  <2>3. last \in Nat /\ \A i \in 1 .. last : ReadAs(p[i]) \in Segment
    BY <2>2, ReadAsSegment
  <2>4. [i \in 1 .. last |-> ReadAs(p[i])] \in [1 .. last -> Segment]
    BY <2>3
  <2>5. [i \in 1 .. last |-> ReadAs(p[i])] \in Seq(Segment)
    BY <2>3, <2>4, SeqDef
  <2> QED
    BY <2>1, <2>5 DEF Leads, Text
<1> QED
  BY <1>1, <1>2

(* What a redirect terminal answers with.                                      *)
LEMMA NextLeads ==
    ASSUME Written, NEW t \in Redirects, parsed.name = <<t>>, parsed.args # <<>>,
           NumberOf(parsed.args[1]) \in 1 .. MaxRedirects
    PROVE  Leads(NextLocation(t, NextPath(parsed.mods, t, parsed.args)))
<1>1. path \in Text
  BY PathText
<1>2. parsed.ok
  <2>1. parsed # Rejected
    BY DEF Rejected
  <2> QED
    BY <1>1, <2>1, RejectedOrNot DEF parsed
<1>3. PICK mods, rest : Shape(path, mods, rest)
  BY <1>1, <1>2, Accepted DEF parsed
<1>4. Words(mods) /\ Terminal(rest) /\ parsed = Of(mods, rest)
  BY <1>3 DEF Shape, parsed
<1>5. PICK f : f = FlattenSeq(mods)
  OBVIOUS
<1>6. f \in Text /\ parsed.mods = mods
  BY <1>4, <1>5, WordsType DEF Of
<1>7. PICK args : args = parsed.args
  OBVIOUS
<1>8. args \in Text
  BY <1>4, <1>7, TerminalParts DEF Of, Text
<1>9. Tail(args) \in Text
  BY <1>7, <1>8, HeadTail DEF Text
<1>10. PICK n \in Nat : n = Number[args[1]] /\ n >= 1
  <2>1. NumberOf(args[1]) \in 1 .. MaxRedirects /\ MaxRedirects \in Nat
    BY <1>7, PipelineAssumption
  <2>2. args[1] \in DOMAIN Number
    BY <2>1 DEF NumberOf
  <2>3. Number[args[1]] \in Nat
    BY <2>2, PipelineAssumption
  <2> QED
    BY <2>1, <2>2, <2>3 DEF NumberOf
<1>11. <<"get">> \in Text
  BY ShortText, NameSegment
<1>12. n > 1 => <<t, Numeral(n - 1)>> \o Tail(args) \in Text
  <2>1. t \in Segment
    BY NameSegment
  <2>2. n > 1 => n - 1 \in Nat
    BY <1>10
  <2>3. ASSUME n > 1
        PROVE  <<t, Numeral(n - 1)>> \o Tail(args) \in Text
    <3>1. <<t, Numeral(n - 1)>> \in Text
      BY <2>1, <2>2, <2>3, NumeralSegment, ShortText
    <3> QED
      BY <1>9, <3>1, ConcatText
  <2> QED
    BY <2>3
<1>13. PICK g \in Text : g = IF n > 1 THEN <<t, Numeral(n - 1)>> \o Tail(args)
                             ELSE IF Tail(args) # <<>> THEN Tail(args) ELSE <<"get">>
  BY <1>9, <1>11, <1>12
<1>14. NextPath(mods, t, args) = f \o g
  BY <1>5, <1>10, <1>13 DEF NextPath, buildModifierPrefix
<1>15. PICK p \in Text : p = NextPath(mods, t, args)
  BY <1>6, <1>13, <1>14, ConcatText
<1>16. Leads(NextLocation(t, p))
  <2>1. Prefix \o p \in Text
    BY PrefixText, ConcatText
  <2>2. Leads(doRedirect(There("self", Prefix \o p)))
    BY <2>1, HereText, doRedirectLeads
  <2>3. doRedirect(Here(p)).path = Prefix \o p
    BY DEF doRedirect, Here
  <2>4. Leads(Unescaped(doRedirect(Here(p)).path))
    BY <2>1, <2>3, UnescapedLeads
  <2> QED
    BY <2>2, <2>4 DEF NextLocation
<1> QED
  BY <1>6, <1>7, <1>15, <1>16

LEMMA InitWritten == Init => Written
<1> SUFFICES ASSUME Init PROVE Written
  OBVIOUS
<1>1. PICK p \in Paths : url = Here(Prefix \o p)
  BY DEF Init
<1>2. p \in Text
  BY PipelineAssumption, StringText
<1> QED
  BY <1>1, <1>2, PrefixText, ConcatText, HereText DEF Written

LEMMA StepWritten == Written /\ [Next]_vars => Written'
<1> SUFFICES ASSUME Written, [Next]_vars PROVE Written'
  OBVIOUS
<1>1. ASSUME url' = url, pc' # "request" \/ pc' = pc PROVE Written'
  BY <1>1 DEF Written
<1>2. ASSUME NEW code, Respond(code) PROVE Written'
  BY <1>1, <1>2, RespondStays
<1>3. path \in Text
  BY PathText
<1>4. CASE OutsidePrefix \/ Direct
  BY <1>2, <1>4 DEF OutsidePrefix, Direct
<1>5. CASE handleRedirect
  <2>1. PICK n, relative : \/ Respond(400)
                           \/ n \in Nat /\ n >= 1
                              /\ Answer(302, doRedirect(redirectLocation(relative, n - 1)))
    <3>1. PICK n : n = NumberOf(path[2])
      OBVIOUS
    <3>2. n \in Nat \/ n = -1
      BY <3>1, PipelineAssumption DEF NumberOf
    <3>3. ~(n < 1) => n \in Nat /\ n >= 1
      BY <3>2
    <3> QED
      BY <1>5, <3>1, <3>3 DEF handleRedirect
  <2>2. CASE Respond(400)
    BY <1>2, <2>2
  <2>3. CASE n \in Nat /\ n >= 1 /\ Answer(302, doRedirect(redirectLocation(relative, n - 1)))
    <3>1. n - 1 \in Nat
      BY <2>3
    <3>2. <<"get">> \in Text
      BY ShortText, NameSegment
    <3>3. /\ <<"relative-redirect", Numeral(n - 1)>> \in Text
          /\ <<"absolute-redirect", Numeral(n - 1)>> \in Text
      BY <3>1, NumeralSegment, ShortText, NameSegment
    <3>4. PICK p, q \in Text : redirectLocation(relative, n - 1) = IF relative THEN Here(p)
                                                                 ELSE There("self", q)
      BY <3>2, <3>3 DEF redirectLocation
    <3>7. Leads(doRedirect(There("self", q)))
      BY HereText, doRedirectLeads
    <3>8. Leads(doRedirect(Here(p)))
      BY HereLeads
    <3>9. Leads(doRedirect(redirectLocation(relative, n - 1)))
      BY <3>4, <3>7, <3>8
    <3> QED
      BY <2>3, <3>9, AnswerMoves
  <2> QED
    BY <2>1, <2>2, <2>3
<1>6. ASSUME NEW code, Answer(code, doRedirect(Here(<<"cookies">>))) PROVE Written'
  <2>1. <<"cookies">> \in Text
    BY ShortText, NameSegment
  <2>2. Leads(doRedirect(Here(<<"cookies">>)))
    BY <2>1, HereLeads
  <2> QED
    BY <1>6, <2>2, AnswerMoves
<1>7. CASE Cookies \/ DispatchCookies
  BY <1>6, <1>7 DEF Cookies, DispatchCookies
<1>8. ASSUME NEW code, Answer(code, Nowhere) PROVE Written'
  BY <1>8, AnswerMoves DEF Leads
<1>9. CASE Links
  <2>1. CASE Answer(302, doRedirect(Here(Append(path, "0"))))
    <3>1. Append(path, "0") \in Text
      BY <1>3, NameSegment, AppendProperties DEF Text
    <3>2. Leads(doRedirect(Here(Append(path, "0"))))
      BY <3>1, HereLeads
    <3> QED
      BY <2>1, <3>2, AnswerMoves
  <2> QED
    BY <1>8, <1>9, <2>1 DEF Links
<1>10. CASE RedirectTo \/ DispatchRedirectTo
  <2>1. ASSUME NEW code, query \in Targets, NEW a \in RedirectToAnswers(query), Answer(code, a[2])
        PROVE  Written'
    BY <2>1, RedirectToLeads, AnswerMoves
  <2> QED
    BY <1>8, <1>10, <2>1 DEF RedirectTo, DispatchRedirectTo
<1>11. CASE Status \/ DispatchStatus
  <2>1. ASSUME NEW code, NEW sent, Answer(sent, LocationOf(code)) PROVE Written'
    BY <2>1, LocationLeads, AnswerMoves
  <2> QED
    BY <1>11, <2>1 DEF Status, DispatchStatus
<1>12. CASE Mix \/ Validate
  BY <1>1, <1>2, <1>12 DEF Mix, Validate
<1>13. CASE MixAnswer \/ CheckMethod \/ DispatchOther
  BY <1>1, <1>2, <1>13 DEF MixAnswer, CheckMethod, DispatchOther
<1>14. CASE Delay \/ Cancelled \/ Done \/ UNCHANGED vars
  BY <1>1, <1>14 DEF Delay, Cancelled, Done, vars
<1>15. CASE dispatchRedirectTerminal
  <2>1. PICK t \in Redirects : parsed.name = <<t>>
    BY <1>15 DEF dispatchRedirectTerminal, Dispatch
  <2>2. parsed.name[1] = t
    BY <2>1
  <2>3. PICK n : n = IF parsed.args = <<>> THEN 0 ELSE NumberOf(parsed.args[1])
    OBVIOUS
  <2>4. CASE n \notin 1 .. MaxRedirects
    BY <1>2, <1>15, <2>3, <2>4 DEF dispatchRedirectTerminal
  <2>5. CASE n \in 1 .. MaxRedirects
    <3>1. parsed.args # <<>> /\ NumberOf(parsed.args[1]) \in 1 .. MaxRedirects
      BY <2>3, <2>5
    <3>2. Leads(NextLocation(t, NextPath(parsed.mods, t, parsed.args)))
      BY <2>1, <3>1, NextLeads
    <3>3. Answer(Overridden(302), NextLocation(t, NextPath(parsed.mods, t, parsed.args)))
      BY <1>15, <2>2, <2>3, <2>5 DEF dispatchRedirectTerminal
    <3> QED
      BY <3>2, <3>3, AnswerMoves
  <2> QED
    BY <2>4, <2>5
<1> QED
  BY <1>4, <1>5, <1>7, <1>9, <1>10, <1>11, <1>12, <1>13, <1>14, <1>15 DEF Next

(* No handler sends a client to a location that is no path.                    *)
LEMMA AlwaysWritten == Spec => []Written
  BY InitWritten, StepWritten, PTL DEF Spec

(* Parsing loses nothing but surplus arguments, whatever the path: a redirect  *)
(* that writes the modifiers back asks for the same ones again.                *)
THEOREM RoundTripHolds == Spec => []ParseRoundTrip
<1>1. Written => ParseRoundTrip
  <2> SUFFICES ASSUME Written, parsed.ok
               PROVE  LET rebuilt == buildModifierPrefix(parsed.mods) \o parsed.name \o parsed.args
                      IN  IsPrefix(rebuilt, path) /\ parsePipeline(rebuilt) = parsed
    BY DEF ParseRoundTrip
  <2>1. path \in Text
    BY PathText
  <2> QED
    BY <2>1, RoundTrip DEF parsed
<1> QED
  BY <1>1, AlwaysWritten, PTL

-----------------------------------------------------------------------------
(* A path with a reading is read that way.                                     *)

(* The last segment of the modifier at s.                                      *)
LastOf(p, s) == s + ModifierArgs[p[s]]
Tiles(p, i, S) ==
    /\ S \subseteq 1 .. i
    /\ \A s \in S : p[s] \in Modifiers /\ LastOf(p, s) <= i
    /\ \A j \in 1 .. i : \E s \in S : {t \in S : j \in t .. LastOf(p, t)} = {s}

LEMMA LastOfSize ==
    ASSUME NEW p, NEW i \in Nat, NEW S, Tiles(p, i, S), NEW s \in S
    PROVE  \E a \in {0, 1} : /\ ModifierArgs[p[s]] = a /\ LastOf(p, s) = s + a
                             /\ s + a <= i /\ s \in 1 .. i
<1>1. p[s] \in Modifiers /\ LastOf(p, s) <= i /\ s \in 1 .. i
  BY DEF Tiles
<1>2. PICK a \in {0, 1} : ModifierArgs[p[s]] = a
  BY <1>1, ModifierFacts
<1> QED
  BY <1>1, <1>2 DEF LastOf

(* Where one modifier ends, another begins or the terminal does.               *)
LEMMA TileNext ==
    ASSUME NEW p, NEW i \in Nat, NEW S, Tiles(p, i, S), NEW s \in S, LastOf(p, s) # i
    PROVE  LastOf(p, s) + 1 \in S
<1>1. PICK a \in {0, 1} : LastOf(p, s) = s + a /\ s + a <= i /\ s \in 1 .. i
  BY LastOfSize
<1>2. PICK l \in 1 .. i - 1 : l = s + a
  BY <1>1
<1>3. PICK t \in S : {u \in S : l + 1 \in u .. LastOf(p, u)} = {t}
  <2>1. l + 1 \in 1 .. i
    OBVIOUS
  <2> QED
    BY <2>1 DEF Tiles
<1>4. l + 1 \in t .. LastOf(p, t)
  BY <1>3
<1>5. PICK b \in {0, 1} : LastOf(p, t) = t + b /\ t \in 1 .. i
  BY LastOfSize
<1>6. CASE t = l + 1
  BY <1>1, <1>2, <1>6
<1>7. CASE t # l + 1
  <2>1. t = l /\ LastOf(p, t) = l + 1
    BY <1>4, <1>5, <1>7
  <2>2. PICK v \in S : {u \in S : l \in u .. LastOf(p, u)} = {v}
    <3>1. l \in 1 .. i
      OBVIOUS
    <3> QED
      BY <3>1 DEF Tiles
  <2>3. l \in t .. LastOf(p, t) /\ l \in s .. LastOf(p, s)
    BY <1>1, <1>2, <2>1
  <2>4. t = v /\ s = v
    BY <2>2, <2>3
  <2> QED
    BY <1>1, <1>2, <2>1, <2>4
<1> QED
  BY <1>6, <1>7

LEMMA TileFirst ==
    ASSUME NEW p, NEW i \in Nat \ {0}, NEW S, Tiles(p, i, S)
    PROVE  1 \in S
<1>1. PICK t \in S : {u \in S : 1 \in u .. LastOf(p, u)} = {t}
  <2>1. 1 \in 1 .. i
    OBVIOUS
  <2> QED
    BY <2>1 DEF Tiles
<1>2. 1 \in t .. LastOf(p, t)
  BY <1>1
<1>3. PICK b \in {0, 1} : LastOf(p, t) = t + b /\ t \in 1 .. i
  BY LastOfSize
<1>4. t = 1
  BY <1>2, <1>3
<1> QED
  BY <1>4

(* From each such place on, the segments up to i are modifiers.                *)
Made(p, j, i) == \E mods : Words(mods) /\ SubSeq(p, j + 1, i) = FlattenSeq(mods)

LEMMA TileMade ==
    ASSUME NEW p \in Text, NEW i \in 0 .. Len(p), NEW S, Tiles(p, i, S), NEW s \in S,
           Made(p, LastOf(p, s), i)
    PROVE  Made(p, s - 1, i)
<1>1. PICK n \in Nat : n = Len(p)
  BY LenProperties DEF Text
<1>2. i \in Nat /\ i <= n
  BY <1>1
<1>3. PICK a \in {0, 1} : /\ ModifierArgs[p[s]] = a /\ LastOf(p, s) = s + a
                          /\ s + a <= i /\ s \in 1 .. i
  BY <1>2, LastOfSize
<1>4. p[s] \in Modifiers
  BY DEF Tiles
<1>5. PICK mods : Words(mods) /\ SubSeq(p, (s + a) + 1, i) = FlattenSeq(mods)
  BY <1>3 DEF Made
<1>6. PICK w : w = SubSeq(p, s, s + a)
  OBVIOUS
<1>7. \A k \in s .. s + a : p[k] \in Segment
  <2>1. \A k \in s .. s + a : k \in 1 .. Len(p)
    BY <1>1, <1>2, <1>3
  <2> QED
    BY <2>1, ElementOfSeq DEF Text
<1>8. w \in Text /\ Len(w) = 1 + a /\ w[1] = p[s]
  <2>1. /\ w \in Seq(Segment) /\ Len(w) = IF s <= s + a THEN (s + a) - s + 1 ELSE 0
        /\ \A k \in 1 .. (s + a) - s + 1 : w[k] = p[s + k - 1]
    <3>1. s \in Int /\ s + a \in Int
      BY <1>3
    <3> QED
      BY ONLY <1>6, <1>7, <3>1, SubSeqProperties
  <2>2. 1 \in 1 .. (s + a) - s + 1 /\ s + 1 - 1 = s /\ s <= s + a /\ (s + a) - s + 1 = 1 + a
    BY <1>3
  <2> QED
    BY <2>1, <2>2 DEF Text
<1>9. Word(w)
  <2>1. w # <<>>
    BY <1>8, EmptySeq
  <2> QED
    BY <1>3, <1>4, <1>8, <2>1 DEF Word
<1>10. SubSeq(p, s, i) = w \o FlattenSeq(mods)
  <2>1. s \in 1 .. Len(p) + 1 /\ s + a \in s - 1 .. Len(p) /\ i \in s + a .. Len(p)
    BY <1>1, <1>2, <1>3
  <2>2. p \in Seq(Segment)
    BY DEF Text
  <2>3. SubSeq(p, s, s + a) \o SubSeq(p, (s + a) + 1, i) = SubSeq(p, s, i)
    BY ONLY <2>1, <2>2, ConcatAdjacentSubSeq
  <2> QED
    BY <1>5, <1>6, <2>3
<1>11. Words(<<w>> \o mods) /\ FlattenSeq(<<w>> \o mods) = w \o FlattenSeq(mods)
  BY <1>5, <1>9, WordsCons
<1>12. (s - 1) + 1 = s
  BY <1>3
<1> QED
  BY <1>10, <1>11, <1>12 DEF Made

LEMMA TilesMade ==
    ASSUME NEW p \in Text, NEW i \in 0 .. Len(p), NEW S, Tiles(p, i, S)
    PROVE  Made(p, 0, i)
<1>1. PICK n \in Nat : n = Len(p)
  BY LenProperties DEF Text
<1>2. i \in Nat
  BY <1>1
<1> DEFINE G == {m \in Nat : \A j \in 0 .. i : j = i - m /\ (j = i \/ j + 1 \in S) => Made(p, j, i)}
<1>3. ASSUME NEW m \in Nat, \A k \in 0 .. m - 1 : k \in G PROVE m \in G
  <2> SUFFICES ASSUME NEW j \in 0 .. i, j = i - m, j = i \/ j + 1 \in S PROVE Made(p, j, i)
    OBVIOUS
  <2>1. CASE j = i
    <3>1. SubSeq(p, i + 1, i) = <<>>
      BY <1>2, SubSeqEmpty
    <3> QED
      BY <2>1, <3>1, WordsEmpty, FlattenEmpty DEF Made
  <2>2. CASE j # i
    <3>1. PICK s \in S : s = j + 1
      BY <2>2
    <3>2. PICK a \in {0, 1} : LastOf(p, s) = s + a /\ s + a <= i /\ s \in 1 .. i
      BY <1>2, LastOfSize
    <3>3. PICK l \in 0 .. i : l = LastOf(p, s)
      BY <3>2
    <3>4. l = i \/ l + 1 \in S
      BY <1>2, <3>3, TileNext
    <3>5. PICK k \in 0 .. m - 1 : l = i - k
      BY <3>1, <3>2, <3>3
    <3>6. Made(p, l, i)
      BY <1>3, <3>4, <3>5
    <3>7. Made(p, s - 1, i)
      BY <3>3, <3>6, TileMade
    <3>8. s - 1 = j
      BY <3>1
    <3> QED
      BY <3>7, <3>8
  <2> QED
    BY <2>1, <2>2
<1>4. Nat \subseteq G
  <2> HIDE DEF G
  <2> QED
    BY ONLY <1>3, Induct
<1>5. i \in G
  BY <1>2, <1>4
<1>6. 0 = i \/ 0 + 1 \in S
  BY <1>2, TileFirst
<1>7. 0 \in 0 .. i /\ 0 = i - i
  BY <1>2
<1> QED
  BY <1>5, <1>6, <1>7

(* A terminal with exactly its arguments is one that is read as such.          *)
LEMMA ExactTerminal ==
    ASSUME NEW rest \in Text, rest # <<>>,
           \/ Len(rest) >= 2 /\ SubSeq(rest, 1, 2) \in TwoSegment
           \/ /\ rest[1] \in DOMAIN TerminalArgs
              /\ TerminalArgs[rest[1]] \in {-1, Len(rest) - 1}
    PROVE  Terminal(rest)
<1>1. PICK n \in Nat \ {0} : n = Len(rest)
  BY HeadTail DEF Text
<1>2. Len(Tail(rest)) = n - 1
  BY <1>1, HeadTail DEF Text
<1>3. CASE n >= 2 /\ SubSeq(rest, 1, 2) \in TwoSegment
  <2>1. 2 \in 0 .. Len(rest) /\ 1 \in 1 .. 2
    BY <1>1, <1>3
  <2>2. rest[1] = SubSeq(rest, 1, 2)[1]
    BY <2>1, PrefixProperties DEF Text
  <2>3. SubSeq(rest, 1, 2) = <<"cookies", "set">> \/ SubSeq(rest, 1, 2) = <<"cookies", "delete">>
    BY <1>3 DEF TwoSegment
  <2>4. rest[1] = "cookies"
    <3>1. PICK two : two = SubSeq(rest, 1, 2)
      OBVIOUS
    <3>2. two = <<"cookies", "set">> \/ two = <<"cookies", "delete">>
      BY ONLY <2>3, <3>1
    <3>3. two[1] = "cookies"
      <4>1. <<"cookies", "set">>[1] = "cookies" /\ <<"cookies", "delete">>[1] = "cookies"
        OBVIOUS
      <4> QED
        BY ONLY <3>2, <4>1
    <3> QED
      BY ONLY <2>2, <3>1, <3>3
  <2>5. rest[1] \notin Modifiers
    BY <2>4, ModifierFacts
  <2>6. ParseTerminal(rest).ok
    BY <1>1, <1>3 DEF ParseTerminal
  <2> QED
    BY <2>5, <2>6 DEF Terminal, IsModifier
<1>4. CASE /\ ~(n >= 2 /\ SubSeq(rest, 1, 2) \in TwoSegment)
           /\ rest[1] \in DOMAIN TerminalArgs /\ TerminalArgs[rest[1]] \in {-1, n - 1}
  <2>1. PICK k \in {-1, n - 1} : k = TerminalArgs[rest[1]]
    BY <1>4
  <2>2. ~(Len(Tail(rest)) < k)
    BY <1>2, <2>1
  <2>3. ParseTerminal(rest).ok
    BY <1>1, <1>4, <2>1, <2>2 DEF ParseTerminal
  <2>4. ~IsModifier(rest, 1)
    <3>1. CASE rest[1] \in Modifiers
      <4>1. rest[1] = "status"
        BY <1>4, <3>1, TerminalFacts
      <4>2. k = 1 /\ n = 2 /\ ModifierArgs[rest[1]] = 1
        BY <1>1, <2>1, <4>1, TerminalFacts, ModifierFacts
      <4> QED
        BY <1>1, <1>4, <4>2 DEF IsModifier
    <3>2. CASE rest[1] \notin Modifiers
      BY <3>2 DEF IsModifier
    <3> QED
      BY <3>1, <3>2
  <2> QED
    BY <2>3, <2>4 DEF Terminal
<1> QED
  BY <1>1, <1>3, <1>4

LEMMA Complete ==
    ASSUME NEW p \in Text, Len(p) <= MaxSegments, NEW i \in 0 .. Len(p) - 1,
           NEW S \in SUBSET (1 .. i), ReadsAs(p, i, S)
    PROVE  parsePipeline(p).ok /\ Len(buildModifierPrefix(parsePipeline(p).mods)) = i
<1>1. PICK n \in Nat : n = Len(p)
  BY LenProperties DEF Text
<1>2. i \in 0 .. Len(p) /\ i < n
  BY <1>1
<1>3. Tiles(p, i, S)
  BY DEF ReadsAs, Tiles, LastOf
<1>4. Made(p, 0, i)
  BY <1>2, <1>3, TilesMade
<1>5. PICK mods : Words(mods) /\ SubSeq(p, 0 + 1, i) = FlattenSeq(mods)
  BY <1>4 DEF Made
<1>6. PICK rest : rest = SubSeq(p, i + 1, Len(p))
  OBVIOUS
<1>7. rest \in Text /\ Len(rest) = n - i
  BY <1>1, <1>2, <1>6, SuffixProperties DEF Text
<1>8. rest # <<>>
  BY <1>2, <1>7, EmptySeq
<1>9. \/ Len(rest) >= 2 /\ SubSeq(rest, 1, 2) \in TwoSegment
      \/ /\ rest[1] \in DOMAIN TerminalArgs
         /\ TerminalArgs[rest[1]] \in {-1, Len(rest) - 1}
  BY <1>6 DEF ReadsAs
<1>10. Terminal(rest)
  BY <1>7, <1>8, <1>9, ExactTerminal
<1>11. FlattenSeq(mods) = SubSeq(p, 1, i)
  BY <1>5
<1>12. p = FlattenSeq(mods) \o rest /\ Len(FlattenSeq(mods)) = i
  BY <1>2, <1>6, <1>11, SplitAt, PrefixProperties DEF Text
<1>13. Reading(p) = Of(mods, rest) /\ p # <<>>
  BY <1>5, <1>10, <1>12, Unread
<1>14. parsePipeline(p) = Of(mods, rest)
  BY <1>13, Accepts
<1> QED
  BY <1>12, <1>14 DEF Of, buildModifierPrefix

(* Looking ahead by one modifier is enough for every path: if it can be read   *)
(* as modifiers and a terminal at all, it is accepted and read that way.       *)
THEOREM CompleteHolds == Spec => []ParseComplete
<1>1. Written => ParseComplete
  <2> SUFFICES ASSUME Written, Len(path) <= MaxSegments, NEW i \in 0 .. Len(path) - 1,
                      NEW S \in SUBSET (1 .. i), ReadsAs(path, i, S)
               PROVE  parsed.ok /\ Len(buildModifierPrefix(parsed.mods)) = i
    BY DEF ParseComplete
  <2>1. path \in Text
    BY PathText
  <2> QED
    BY <2>1, Complete DEF parsed
<1> QED
  BY <1>1, AlwaysWritten, PTL

-----------------------------------------------------------------------------
(* Delays.                                                                     *)

(* Running totals, for numbers of any length.                                  *)
IsUpTo(s, n, f) == f = [i \in 0 .. n |-> IF i = 0 THEN 0 ELSE f[i - 1] + s[i]]

LEMMA UpToExists ==
    ASSUME NEW n \in Nat, NEW s, \A i \in 1 .. n : s[i] \in Nat
    PROVE  \E f \in [0 .. n -> Nat] : IsUpTo(s, n, f)
<1> DEFINE F == [z \in (1 .. n) \X Nat |-> z[2] + s[z[1]]]
<1>1. \A i \in 1 .. n, x \in Nat :
         <<i, x>> \in (1 .. n) \X Nat /\ <<i, x>>[1] = i /\ <<i, x>>[2] = x
  OBVIOUS
<1>2. \A i \in 1 .. n, x \in Nat : F[<<i, x>>] = x + s[i]
  BY <1>1
<1> HIDE DEF F
<1>3. ASSUME NEW i \in 1 .. n, NEW x \in Nat PROVE F[<<i, x>>] \in Nat
  <2>1. F[<<i, x>>] = x + s[i] /\ s[i] \in Nat
    BY <1>2
  <2> QED
    BY <2>1
<1>4. Closed(F, n, Nat)
  BY <1>3 DEF Closed
<1>5. PICK f \in [0 .. n -> Nat] : Iterates(f, n, 0, F)
  BY <1>4, Recursion
<1>6. f[0] = 0 /\ \A i \in 1 .. n : f[i] = F[<<i, f[i - 1]>>]
  BY <1>5 DEF Iterates
<1>7. ASSUME NEW i \in 1 .. n PROVE f[i] = f[i - 1] + s[i]
  <2>1. i - 1 \in 0 .. n
    OBVIOUS
  <2>2. f[i - 1] \in Nat
    BY <2>1
  <2> QED
    BY <1>2, <1>6, <2>2
<1>8. \A i \in 0 .. n : f[i] = IF i = 0 THEN 0 ELSE f[i - 1] + s[i]
  BY <1>6, <1>7
<1>9. f = [i \in 0 .. n |-> IF i = 0 THEN 0 ELSE f[i - 1] + s[i]]
  BY <1>8
<1> QED
  BY <1>9 DEF IsUpTo

LEMMA UpToIs ==
    ASSUME NEW n \in Nat, NEW s, Len(s) = n, \A i \in 1 .. n : s[i] \in Nat
    PROVE  /\ UpTo(s)[0] = 0
           /\ \A i \in 1 .. n : UpTo(s)[i] = UpTo(s)[i - 1] + s[i]
           /\ \A i \in 0 .. n : UpTo(s)[i] \in Nat
<1>1. PICK g \in [0 .. n -> Nat] : IsUpTo(s, n, g)
  BY UpToExists
<1>2. PICK f : f = UpTo(s)
  OBVIOUS
<1>3. f = CHOOSE h : IsUpTo(s, n, h)
  BY <1>2 DEF UpTo, IsUpTo
<1>4. IsUpTo(s, n, f)
  BY <1>1, <1>3
<1>5. f[0] = 0 /\ \A i \in 1 .. n : f[i] = f[i - 1] + s[i]
  BY <1>4 DEF IsUpTo
<1> DEFINE G == {i \in 0 .. n : f[i] \in Nat}
<1>6. 0 \in G
  BY <1>5
<1>7. \A k \in 0 .. n - 1 : k \in G => k + 1 \in G
  <2> SUFFICES ASSUME NEW k \in 0 .. n - 1, f[k] \in Nat PROVE f[k + 1] \in Nat
    OBVIOUS
  <2>1. k + 1 \in 1 .. n /\ (k + 1) - 1 = k
    OBVIOUS
  <2>2. f[k + 1] = f[k] + s[k + 1] /\ s[k + 1] \in Nat
    BY <1>5, <2>1
  <2> QED
    BY <2>2
<1>8. 0 .. n \subseteq G
  <2> HIDE DEF G
  <2> QED
    BY ONLY n \in Nat, <1>6, <1>7, Ascend
<1>9. \A i \in 0 .. n : f[i] \in Nat
  BY <1>8
<1> QED
  BY <1>2, <1>5, <1>9

(* A total is its first number and the total of the others.                    *)
LEMMA TotalTail ==
    ASSUME NEW n \in Nat, NEW s, Len(s) = n + 1, \A i \in 1 .. n + 1 : s[i] \in Nat,
           NEW t, Len(t) = n, \A i \in 1 .. n : t[i] = s[i + 1]
    PROVE  Total(s) = s[1] + Total(t)
<1>1. \A i \in 1 .. n : t[i] \in Nat
  <2>1. \A i \in 1 .. n : i + 1 \in 1 .. n + 1
    OBVIOUS
  <2> QED
    BY <2>1
<1>2. PICK f : f = UpTo(s)
  OBVIOUS
<1>3. PICK g : g = UpTo(t)
  OBVIOUS
<1>4. n + 1 \in Nat
  OBVIOUS
<1>5. /\ f[0] = 0 /\ \A i \in 1 .. n + 1 : f[i] = f[i - 1] + s[i]
      /\ \A i \in 0 .. n + 1 : f[i] \in Nat
  BY <1>2, <1>4, UpToIs
<1>6. /\ g[0] = 0 /\ \A i \in 1 .. n : g[i] = g[i - 1] + t[i]
      /\ \A i \in 0 .. n : g[i] \in Nat
  BY <1>1, <1>3, UpToIs
<1> DEFINE G == {i \in 0 .. n : f[i + 1] = s[1] + g[i]}
<1>7. 0 \in G
  <2>1. 1 \in 1 .. n + 1 /\ 1 - 1 = 0
    OBVIOUS
  <2>2. f[1] = f[0] + s[1] /\ s[1] \in Nat
    BY <1>5, <2>1
  <2>3. 0 + 1 = 1 /\ 0 \in 0 .. n
    OBVIOUS
  <2>4. f[0 + 1] = s[1] + g[0]
    BY <1>5, <1>6, <2>2
  <2> QED
    BY <2>3, <2>4
<1>8. \A k \in 0 .. n - 1 : k \in G => k + 1 \in G
  <2> SUFFICES ASSUME NEW k \in 0 .. n - 1, f[k + 1] = s[1] + g[k]
               PROVE  f[(k + 1) + 1] = s[1] + g[k + 1]
    OBVIOUS
  <2>1. /\ (k + 1) + 1 \in 1 .. n + 1 /\ ((k + 1) + 1) - 1 = k + 1
        /\ k + 1 \in 1 .. n /\ (k + 1) - 1 = k /\ k \in 0 .. n /\ 1 \in 1 .. n + 1
    OBVIOUS
  <2>2. f[(k + 1) + 1] = f[k + 1] + s[(k + 1) + 1] /\ t[k + 1] = s[(k + 1) + 1]
    BY <1>5, <2>1
  <2>3. g[k + 1] = g[k] + t[k + 1] /\ g[k] \in Nat /\ t[k + 1] \in Nat /\ s[1] \in Nat
    BY <1>1, <1>6, <2>1
  <2> QED
    BY <2>2, <2>3
<1>9. 0 .. n \subseteq G
  <2> HIDE DEF G
  <2> QED
    BY ONLY n \in Nat, <1>7, <1>8, Ascend
<1>10. f[n + 1] = s[1] + g[n]
  <2>1. n \in 0 .. n
    OBVIOUS
  <2> QED
    BY <1>9, <2>1
<1> QED
  BY <1>2, <1>3, <1>10 DEF Total

LEMMA TotalNat ==
    ASSUME NEW n \in Nat, NEW s, Len(s) = n, \A i \in 1 .. n : s[i] \in Nat
    PROVE  Total(s) \in Nat
<1>1. n \in 0 .. n
  OBVIOUS
<1> QED
  BY <1>1, UpToIs DEF Total

LEMMA TotalEmpty ==
    ASSUME NEW s, Len(s) = 0
    PROVE  Total(s) = 0
<1>1. UpTo(s)[0] = 0
  <2>1. 0 \in Nat /\ \A i \in 1 .. 0 : s[i] \in Nat
    OBVIOUS
  <2> QED
    BY ONLY <2>1, Len(s) = 0, UpToIs
<1> QED
  BY <1>1 DEF Total

Ranges == Seq(Nat \X Nat)

LEMMA Maxima ==
    ASSUME NEW r \in Ranges, NEW m, m = [i \in DOMAIN r |-> r[i][2]]
    PROVE  /\ Len(m) = Len(r)
           /\ \A i \in 1 .. Len(r) : m[i] = r[i][2] /\ m[i] \in Nat
<1>1. PICK n \in Nat : n = Len(r)
  BY LenProperties DEF Ranges
<1>2. DOMAIN r = 1 .. n
  BY <1>1, LenProperties DEF Ranges
<1>3. \A i \in 1 .. n : r[i] \in Nat \X Nat
  BY <1>1, ElementOfSeq DEF Ranges
<1>4. \A i \in 1 .. n : r[i][2] \in Nat
  BY <1>3
<1>5. m \in [1 .. n -> Nat] /\ \A i \in 1 .. n : m[i] = r[i][2] /\ m[i] \in Nat
  BY <1>2, <1>4
<1>6. m \in Seq(Nat) /\ DOMAIN m = 1 .. n
  BY <1>5
<1>7. Len(m) = n
  BY <1>6, LenProperties
<1> QED
  BY <1>1, <1>5, <1>7

LEMMA totalDelayNat ==
    ASSUME NEW r \in Ranges
    PROVE  totalDelay(r) \in Nat
<1>1. PICK n \in Nat : n = Len(r)
  BY LenProperties DEF Ranges
<1>2. PICK m : m = [i \in DOMAIN r |-> r[i][2]]
  OBVIOUS
<1>3. Len(m) = n /\ \A i \in 1 .. n : m[i] \in Nat
  BY <1>1, <1>2, Maxima
<1>4. Total(m) \in Nat
  BY <1>3, TotalNat
<1> QED
  BY <1>2, <1>4 DEF totalDelay

LEMMA totalDelayEmpty == totalDelay(<<>>) = 0
<1>1. <<>> \in Ranges /\ Len(<<>>) = 0
  BY EmptySeq DEF Ranges
<1>2. PICK m : m = [i \in DOMAIN <<>> |-> <<>>[i][2]]
  OBVIOUS
<1>3. Len(m) = 0
  BY <1>1, <1>2, Maxima
<1> QED
  BY <1>2, <1>3, TotalEmpty DEF totalDelay

LEMMA totalDelayTail ==
    ASSUME NEW r \in Ranges, r # <<>>
    PROVE  /\ Tail(r) \in Ranges
           /\ r[1] \in Nat \X Nat
           /\ totalDelay(r) = r[1][2] + totalDelay(Tail(r))
<1>1. PICK k \in Nat : Len(r) = k + 1
  <2>1. Len(r) \in Nat \ {0}
    BY HeadTail DEF Ranges
  <2>2. Len(r) - 1 \in Nat /\ Len(r) = (Len(r) - 1) + 1
    BY <2>1
  <2> QED
    BY <2>2
<1>2. PICK q : q = Tail(r)
  OBVIOUS
<1>3. q \in Ranges /\ r[1] \in Nat \X Nat /\ Len(q) = k /\ \A i \in 1 .. k : q[i] = r[i + 1]
  BY <1>1, <1>2, HeadTail DEF Ranges
<1>4. PICK s : s = [i \in DOMAIN r |-> r[i][2]]
  OBVIOUS
<1>5. PICK t : t = [i \in DOMAIN q |-> q[i][2]]
  OBVIOUS
<1>6. Len(s) = k + 1 /\ \A i \in 1 .. k + 1 : s[i] = r[i][2] /\ s[i] \in Nat
  BY <1>1, <1>4, Maxima
<1>7. Len(t) = k /\ \A i \in 1 .. k : t[i] = q[i][2]
  BY <1>3, <1>5, Maxima
<1>8. \A i \in 1 .. k : i + 1 \in 1 .. k + 1
  OBVIOUS
<1>9. \A i \in 1 .. k : t[i] = s[i + 1]
  BY <1>3, <1>6, <1>7, <1>8
<1>10. Total(s) = s[1] + Total(t)
  BY <1>6, <1>7, <1>9, TotalTail
<1>11. s[1] = r[1][2]
  BY <1>6
<1> QED
  BY <1>2, <1>3, <1>4, <1>5, <1>10, <1>11 DEF totalDelay

(* What the modifiers, and the directives of /mix, ask for.                    *)
LEMMA DelayOfRange ==
    ASSUME NEW s
    PROVE  DelayOf(s) \in Nat \X Nat
  BY PipelineAssumption DEF DelayOf

LEMMA DelayRangesType ==
    ASSUME NEW mods, Words(mods)
    PROVE  DelayRanges(mods) \in Ranges
<1>1. PICK n \in Nat : n = Len(mods) /\ DOMAIN mods = 1 .. n
  BY LenProperties DEF Words
<1>2. PICK r : r = DelayRanges(mods)
  OBVIOUS
<1>3. r \in [1 .. n -> Nat \X Nat]
  BY <1>1, <1>2, DelayOfRange DEF DelayRanges
<1>4. r \in Seq(Nat \X Nat)
  BY <1>3
<1> QED
  BY <1>2, <1>4 DEF Ranges

LEMMA MixDelaysType ==
    ASSUME path \in Text, path # <<>>
    PROVE  MixDelays \in Ranges
<1>1. PICK d \in Text : d = directives
  BY HeadTail DEF directives, Text
<1>2. PICK n \in Nat : n = Len(d) /\ DOMAIN d = 1 .. n
  BY LenProperties DEF Text
<1>3. PICK r : r = MixDelays
  OBVIOUS
<1>4. r \in [1 .. n -> Nat \X Nat]
  BY <1>1, <1>2, <1>3, DelayOfRange DEF MixDelays
<1>5. r \in Seq(Nat \X Nat)
  BY <1>4
<1> QED
  BY <1>3, <1>5 DEF Ranges

(* Time spent and the most that may still be spent are within the limit.       *)
Budget == /\ waited \in Nat
          /\ waited <= MaxDuration
          /\ todo \in Ranges
          /\ pc = "delaying" => waited + totalDelay(todo) <= MaxDuration

LEMMA InitBudget == Init => Budget
<1>1. <<>> \in Ranges
  BY EmptySeq DEF Ranges
<1>2. MaxDuration \in Nat
  BY PipelineAssumption
<1> QED
  BY <1>1, <1>2 DEF Init, Budget

LEMMA AnswerPc ==
    ASSUME NEW code, NEW loc, Answer(code, loc)
    PROVE  pc' \in {"request", "done"}
  BY DEF Answer

LEMMA StepBudget == Written /\ Budget /\ [Next]_vars => Budget'
<1> SUFFICES ASSUME Written, Budget, [Next]_vars PROVE Budget'
  OBVIOUS
<1>1. MaxDuration \in Nat
  BY PipelineAssumption
<1>2. path \in Text
  BY PathText
<1>3. ASSUME UNCHANGED <<todo, waited>>, pc' # "delaying" PROVE Budget'
  BY <1>3 DEF Budget
<1>4. ASSUME NEW code, Respond(code) PROVE pc' # "delaying"
  BY <1>4, RespondStays
<1>5. ASSUME NEW code, NEW loc, Answer(code, loc) PROVE pc' # "delaying"
  BY <1>5, AnswerPc
<1>6. CASE OutsidePrefix \/ Direct \/ DispatchOther \/ MixAnswer
  BY <1>3, <1>4, <1>6 DEF OutsidePrefix, Direct, DispatchOther, MixAnswer
<1>7. CASE handleRedirect \/ dispatchRedirectTerminal
  BY <1>3, <1>4, <1>5, <1>7 DEF handleRedirect, dispatchRedirectTerminal
<1>8. CASE Cookies \/ Links \/ Status \/ DispatchStatus \/ DispatchCookies
  BY <1>3, <1>5, <1>8 DEF Cookies, Links, Status, DispatchStatus, DispatchCookies
<1>9. CASE RedirectTo \/ DispatchRedirectTo
  BY <1>3, <1>5, <1>9 DEF RedirectTo, DispatchRedirectTo
<1>10. CASE CheckMethod
  BY <1>3, <1>4, <1>10 DEF CheckMethod
<1>11. CASE Cancelled
  BY <1>3, <1>11 DEF Cancelled
<1>12. CASE Done \/ UNCHANGED vars
  <2>1. UNCHANGED <<todo, waited, pc>>
    BY <1>12 DEF Done, vars
  <2> QED
    BY <2>1 DEF Budget
<1>13. CASE Validate
  <2>1. waited' = 0
    BY <1>13 DEF Validate
  <2>2. CASE parsed.ok /\ ValidModifiers(parsed.mods)
    <3>1. todo' = DelayRanges(parsed.mods)
      BY <1>13, <2>2 DEF Validate
    <3>2. PICK mods, rest : Shape(path, mods, rest)
      BY <1>2, <2>2, Accepted DEF parsed
    <3>3. Words(mods) /\ parsed.mods = mods
      BY <3>2 DEF Shape, Of, parsed
    <3>4. DelayRanges(parsed.mods) \in Ranges
      BY <3>3, DelayRangesType
    <3>5. totalDelay(DelayRanges(parsed.mods)) \in Nat
      BY <3>4, totalDelayNat
    <3>6. totalDelay(DelayRanges(parsed.mods)) <= MaxDuration
      BY <2>2 DEF ValidModifiers
    <3>7. totalDelay(todo') \in Nat /\ totalDelay(todo') <= MaxDuration /\ todo' \in Ranges
      BY <3>1, <3>4, <3>5, <3>6
    <3>8. waited' + totalDelay(todo') <= MaxDuration
      BY <2>1, <3>7
    <3> QED
      BY <1>1, <2>1, <3>7, <3>8 DEF Budget
  <2>3. CASE ~(parsed.ok /\ ValidModifiers(parsed.mods))
    <3>1. Respond(400) /\ UNCHANGED todo
      BY <1>13, <2>3 DEF Validate
    <3> QED
      BY <1>1, <1>4, <2>1, <3>1 DEF Budget
  <2> QED
    BY <2>2, <2>3
<1>14. CASE Mix
  <2>1. waited' = 0 /\ Requested
    BY <1>14 DEF Mix
  <2>2. CASE pc' = "delaying"
    <3>1. PICK sum : sum = totalDelay(MixDelays)
      OBVIOUS
    <3>2. sum <= MaxDuration /\ todo' = IF sum > 0 THEN <<<<sum, sum>>>> ELSE <<>>
      BY <1>4, <1>14, <2>2, <3>1 DEF Mix
    <3>3. sum \in Nat
      BY <1>2, <1>14, <3>1, MixDelaysType, totalDelayNat DEF Mix, IsMix
    <3>4. <<<<sum, sum>>>> \in Ranges /\ <<>> \in Ranges
      BY <3>3, EmptySeq DEF Ranges
    <3>5. totalDelay(<<<<sum, sum>>>>) = sum
      <4>1. PICK r \in Ranges : r = <<<<sum, sum>>>>
        BY <3>4
      <4>2. r # <<>> /\ r[1][2] = sum /\ Tail(r) = <<>>
        BY ONLY <3>3, <4>1
      <4>3. totalDelay(r) = sum + 0
        BY <4>2, totalDelayTail, totalDelayEmpty
      <4> QED
        BY <3>3, <4>1, <4>3
    <3>6. todo' \in Ranges /\ totalDelay(todo') = sum
      <4>1. CASE sum > 0
        BY <3>2, <3>4, <3>5, <4>1
      <4>2. CASE ~(sum > 0)
        BY <3>2, <3>3, <3>4, <4>2, totalDelayEmpty
      <4> QED
        BY <4>1, <4>2
    <3>7. waited' + totalDelay(todo') <= MaxDuration
      BY <2>1, <3>2, <3>3, <3>6
    <3> QED
      BY <1>1, <2>1, <3>6, <3>7 DEF Budget
  <2>3. CASE pc' # "delaying"
    <3>1. UNCHANGED todo
      BY <1>14, <2>3 DEF Mix
    <3> QED
      BY <1>1, <2>1, <2>3, <3>1 DEF Budget
  <2> QED
    BY <2>2, <2>3
<1>15. CASE Delay
  <2>1. PICK r \in Ranges : r = todo /\ r # <<>> /\ pc = "delaying"
    BY <1>15 DEF Delay, Budget
  <2>2. Tail(r) \in Ranges /\ r[1] \in Nat \X Nat /\ totalDelay(r) = r[1][2] + totalDelay(Tail(r))
    BY <2>1, totalDelayTail
  <2>3. PICK a, b \in Nat : a = r[1][1] /\ b = r[1][2]
    BY <2>2
  <2>4. PICK k \in Nat : k = totalDelay(Tail(r))
    BY <2>2, totalDelayNat
  <2>5. PICK d \in a .. b : waited' = waited + d
    <3>1. Head(r) = r[1]
      BY <2>1, HeadTailProperties DEF Ranges
    <3> QED
      BY <1>15, <2>1, <2>3, <3>1 DEF Delay
  <2>6. waited \in Nat /\ waited + (b + k) <= MaxDuration
    BY <2>1, <2>2, <2>3, <2>4 DEF Budget
  <2>7. waited' \in Nat /\ waited' <= MaxDuration /\ waited' + k <= MaxDuration
    BY <1>1, <2>5, <2>6
  <2>8. todo' = Tail(r)
    BY <1>15, <2>1 DEF Delay
  <2>9. todo' \in Ranges /\ totalDelay(todo') = k
    BY <2>2, <2>4, <2>8
  <2> QED
    BY <2>7, <2>9 DEF Budget
<1> QED
  BY <1>6, <1>7, <1>8, <1>9, <1>10, <1>11, <1>12, <1>13, <1>14, <1>15 DEF Next

(* However many delays a URL asks for and whatever is drawn from their ranges, *)
(* one request never waits longer than the limit.                              *)
THEOREM DelaysHold == Spec => []DelaysWithinLimit
<1>1. Budget => DelaysWithinLimit
  BY DEF Budget, DelaysWithinLimit
<1> QED
  BY <1>1, AlwaysWritten, InitBudget, StepBudget, PTL DEF Spec

-----------------------------------------------------------------------------
(* A request is dispatched as it was validated.                                *)

OnPipeline == pc = "dispatch" \/ (pc = "delaying" /\ ~IsMix(path))

Checked == OnPipeline => /\ IsPrefix(Prefix, url.path)
                         /\ ToPipeline(path)
                         /\ parsed.ok
                         /\ ValidModifiers(parsed.mods)

LEMMA SameUrl ==
    ASSUME url' = url
    PROVE  path' = path /\ parsed' = parsed
  BY DEF path, parsed

LEMMA AnswerEnds ==
    ASSUME NEW code, NEW loc, Answer(code, loc)
    PROVE  pc' # "delaying" /\ pc' # "dispatch"
  BY DEF Answer

LEMMA RespondEnds ==
    ASSUME NEW code, Respond(code)
    PROVE  pc' # "delaying" /\ pc' # "dispatch"
  BY RespondStays

LEMMA StepChecked == Checked /\ [Next]_vars => Checked'
<1> SUFFICES ASSUME Checked, [Next]_vars PROVE Checked'
  OBVIOUS
<1>1. ASSUME pc' # "delaying", pc' # "dispatch" PROVE Checked'
  BY <1>1 DEF Checked, OnPipeline
<1>2. ASSUME NEW code, Respond(code) PROVE Checked'
  BY <1>1, <1>2, RespondEnds
<1>3. ASSUME NEW code, NEW loc, Answer(code, loc) PROVE Checked'
  BY <1>1, <1>3, AnswerEnds
<1>4. CASE OutsidePrefix \/ Direct \/ DispatchOther \/ MixAnswer
  BY <1>2, <1>4 DEF OutsidePrefix, Direct, DispatchOther, MixAnswer
<1>5. CASE handleRedirect \/ dispatchRedirectTerminal
  BY <1>2, <1>3, <1>5 DEF handleRedirect, dispatchRedirectTerminal
<1>6. CASE Cookies \/ Links \/ Status \/ DispatchStatus \/ DispatchCookies
  BY <1>3, <1>6 DEF Cookies, Links, Status, DispatchStatus, DispatchCookies
<1>7. CASE RedirectTo \/ DispatchRedirectTo
  BY <1>3, <1>7 DEF RedirectTo, DispatchRedirectTo
<1>8. CASE Cancelled
  BY <1>1, <1>8 DEF Cancelled
<1>9. ASSUME url' = url, OnPipeline PROVE Checked'
  <2>1. /\ IsPrefix(Prefix, url'.path) /\ ToPipeline(path')
        /\ parsed'.ok /\ ValidModifiers(parsed'.mods)
    BY <1>9, SameUrl DEF Checked
  <2> QED
    BY <2>1 DEF Checked, ToPipeline
<1>10. CASE Delay
  <2>1. CASE IsMix(path)
    <3>1. pc' = "delaying" /\ path' = path
      BY <1>10, SameUrl DEF Delay
    <3>2. IsMix(path)'
      BY <2>1, <3>1 DEF IsMix
    <3> QED
      BY <3>1, <3>2 DEF Checked, OnPipeline
  <2>2. CASE ~IsMix(path)
    BY <1>9, <1>10, <2>2 DEF Delay, OnPipeline
  <2> QED
    BY <2>1, <2>2
<1>11. CASE CheckMethod
  BY <1>2, <1>9, <1>11 DEF CheckMethod, OnPipeline
<1>12. CASE Mix
  <2>1. CASE pc' = "delaying" /\ url' = url
    <3>1. IsMix(path) /\ path' = path
      BY <1>12, <2>1, SameUrl DEF Mix
    <3>2. IsMix(path)'
      BY <3>1 DEF IsMix
    <3> QED
      BY <2>1, <3>2 DEF Checked, OnPipeline
  <2> QED
    BY <1>2, <1>12, <2>1 DEF Mix
<1>13. CASE Validate
  <2>1. CASE parsed.ok /\ ValidModifiers(parsed.mods)
    <3>1. url' = url /\ IsPrefix(Prefix, url.path) /\ ToPipeline(path)
      BY <1>13, <2>1 DEF Validate, Requested
    <3>2. /\ IsPrefix(Prefix, url'.path) /\ ToPipeline(path')
          /\ parsed'.ok /\ ValidModifiers(parsed'.mods)
      BY <2>1, <3>1, SameUrl
    <3> QED
      BY <3>2 DEF Checked
  <2>2. CASE ~(parsed.ok /\ ValidModifiers(parsed.mods))
    BY <1>2, <1>13, <2>2 DEF Validate
  <2> QED
    BY <2>1, <2>2
<1>14. CASE Done \/ UNCHANGED vars
  <2>1. url' = url /\ pc' = pc
    BY <1>14 DEF Done, vars
  <2>2. path' = path
    BY <2>1, SameUrl
  <2>3. OnPipeline' => OnPipeline
    BY <2>1, <2>2 DEF OnPipeline, IsMix
  <2>4. CASE OnPipeline
    BY <1>9, <2>1, <2>4
  <2>5. CASE ~OnPipeline
    BY <2>3, <2>5 DEF Checked
  <2> QED
    BY <2>4, <2>5
<1> QED
  BY <1>4, <1>5, <1>6, <1>7, <1>8, <1>10, <1>11, <1>12, <1>13, <1>14 DEF Next

(* What is dispatched to a terminal has passed Pipeline's checks.              *)
LEMMA AlwaysChecked == Spec => []Checked
<1>1. Init => Checked
  BY DEF Init, Checked, OnPipeline
<1> QED
  BY <1>1, StepChecked, PTL DEF Spec

-----------------------------------------------------------------------------
(* Chains of redirects.                                                        *)

Spelled(k) == \E s \in DOMAIN Number : Number[s] = k

(* Where a request counts down from a number, those below it can be spelled:   *)
(* the server uses strconv.Itoa, which spells them all.                        *)
Below(s) == \A k \in 1 .. NumberOf(s) : Spelled(k)

Countable ==
    /\ Requested /\ IsRedirect(path) => Below(path[2])
    /\ pc = "dispatch" /\ parsed.name[1] \in Redirects /\ parsed.args # <<>>
          /\ NumberOf(parsed.args[1]) \in 1 .. MaxRedirects => Below(parsed.args[1])

LEMMA NumeralOf ==
    ASSUME NEW k, Spelled(k)
    PROVE  Numeral(k) \in DOMAIN Number /\ Number[Numeral(k)] = k /\ NumberOf(Numeral(k)) = k
  BY DEF Spelled, Numeral, NumberOf

LEMMA WordsSplit ==
    ASSUME NEW w, Words(w), w # <<>>
    PROVE  Word(w[1]) /\ Words(Tail(w)) /\ w = <<w[1]>> \o Tail(w)
<1>1. w \in Seq(Text) /\ \A i \in 1 .. Len(w) : Word(w[i])
  BY DEF Words
<1>2. /\ Tail(w) \in Seq(Text) /\ Len(w) \in Nat \ {0} /\ Len(Tail(w)) = Len(w) - 1
      /\ w = <<w[1]>> \o Tail(w) /\ \A i \in 1 .. Len(w) - 1 : Tail(w)[i] = w[i + 1]
  BY ONLY <1>1, w # <<>>, HeadTail
<1>3. PICK n \in Nat \ {0} : n = Len(w)
  BY <1>2
<1>4. \A i \in 1 .. n - 1 : i + 1 \in 1 .. n
  OBVIOUS
<1>5. \A i \in 1 .. n - 1 : Word(Tail(w)[i])
  BY <1>1, <1>2, <1>3, <1>4
<1>6. Words(Tail(w))
  BY <1>2, <1>3, <1>5 DEF Words
<1>7. Word(w[1])
  BY <1>1, <1>3
<1> QED
  BY <1>2, <1>6, <1>7

LEMMA FlattenFirst ==
    ASSUME NEW w, Words(w), w # <<>>
    PROVE  FlattenSeq(w) \in Text /\ FlattenSeq(w) # <<>> /\ FlattenSeq(w)[1] \in Modifiers
<1>1. PICK m, v : Word(m) /\ Words(v) /\ w = <<m>> \o v
  BY WordsSplit
<1>2. FlattenSeq(w) = m \o FlattenSeq(v) /\ FlattenSeq(v) \in Text
  BY <1>1, WordsCons
<1>3. m \in Text /\ m # <<>> /\ m[1] \in Modifiers
  BY <1>1 DEF Word
<1>4. PICK k, n \in Nat : k = Len(m) /\ k >= 1 /\ n = Len(FlattenSeq(v))
  BY <1>2, <1>3, HeadTail, LenProperties DEF Text
<1>5. (m \o FlattenSeq(v))[1] = m[1]
  BY <1>2, <1>3, <1>4, ConcatProperties DEF Text
<1>6. m \o FlattenSeq(v) # <<>>
  BY <1>2, <1>3, ConcatNotEmpty
<1> QED
  BY <1>2, <1>3, <1>5, <1>6, ConcatText

(* A redirect terminal with its count and destination.                         *)
Counted(t, s, dest) == <<t, s>> \o dest

LEMMA ChainTerminal ==
    ASSUME NEW t \in Redirects, NEW s \in Segment, NEW dest \in Text,
           NEW rest, rest = Counted(t, s, dest)
    PROVE  /\ Terminal(rest) /\ rest[1] = t /\ Len(rest) = 2 + Len(dest)
           /\ ParseTerminal(rest).name = <<t>> /\ ParseTerminal(rest).args = <<s>> \o dest
<1>1. t \in Segment /\ t \in DOMAIN TerminalArgs /\ TerminalArgs[t] = -1
  BY NameSegment, TerminalFacts
<1>2. PICK k \in Nat : k = Len(dest)
  BY LenProperties DEF Text
<1>3. PICK args : args = <<s>> \o dest
  OBVIOUS
<1>4. args \in Text /\ Len(args) = k + 1
  BY <1>2, <1>3, ConsProperties DEF Text
<1>5. rest = <<t>> \o args
  <2>1. <<t>> \in Seq(Segment) /\ <<s>> \in Seq(Segment) /\ dest \in Seq(Segment)
    BY <1>1 DEF Text
  <2>2. (<<t>> \o <<s>>) \o dest = <<t>> \o (<<s>> \o dest)
    BY ONLY <2>1, ConcatAssociative
  <2>3. <<t>> \o <<s>> = <<t, s>>
    BY ONLY <1>1, s \in Segment, Pair
  <2> QED
    BY <1>3, <2>2, <2>3 DEF Counted
<1>6. rest \in Text /\ Len(rest) = k + 2 /\ rest[1] = t /\ Tail(rest) = args
  <2>1. rest \in Text /\ Len(rest) = (k + 1) + 1 /\ rest[1] = t
    BY <1>1, <1>4, <1>5, ConsProperties DEF Text
  <2>2. Tail(rest) = args
    BY <1>1, <1>4, <1>5, ConsTail DEF Text
  <2> QED
    BY <2>1, <2>2
<1>7. rest # <<>>
  BY <1>6, EmptySeq
<1>8. t \notin Modifiers /\ t # "cookies"
  BY ModifierFacts DEF Redirects
<1>9. ~IsModifier(rest, 1)
  BY <1>6, <1>8 DEF IsModifier
<1>10. ~(Len(rest) >= 2 /\ SubSeq(rest, 1, 2) \in TwoSegment)
  <2>1. 2 \in 0 .. Len(rest) /\ 1 \in 1 .. 2
    BY <1>6
  <2>2. SubSeq(rest, 1, 2)[1] = t
    BY <1>6, <2>1, PrefixProperties DEF Text
  <2>3. PICK two : two = SubSeq(rest, 1, 2)
    OBVIOUS
  <2>4. two \notin TwoSegment
    <3>1. two[1] = t
      BY ONLY <2>2, <2>3
    <3>2. \A w \in TwoSegment : w[1] = "cookies"
      BY DEF TwoSegment
    <3> QED
      BY ONLY <1>8, <3>1, <3>2
  <2> QED
    BY <2>3, <2>4
<1>11. ~(Len(Tail(rest)) < -1)
  BY <1>4, <1>6
<1>12. ParseTerminal(rest) = [ok |-> TRUE, mods |-> <<>>, name |-> <<t>>, args |-> args]
  BY <1>1, <1>6, <1>10, <1>11 DEF ParseTerminal
<1> QED
  <2>1. Terminal(rest)
    BY <1>6, <1>7, <1>9, <1>12 DEF Terminal
  <2>2. Len(rest) = 2 + Len(dest)
    BY <1>2, <1>6
  <2>3. ParseTerminal(rest).name = <<t>> /\ ParseTerminal(rest).args = args
    BY ONLY <1>12
  <2> QED
    BY ONLY <1>3, <1>6, <2>1, <2>2, <2>3

(* The mux sends such a path to the pipeline, unless it is a redirect alone.   *)
LEMMA ToPipelineOnly ==
    ASSUME NEW p \in Text, p # <<>>, p[1] \in Modifiers \cup Redirects, Len(p) >= 3
    PROVE  /\ ToPipeline(p)
           /\ ~(IsRedirect(p) \/ IsStatus(p) \/ IsLinks(p) \/ IsCookies(p)
                \/ IsRedirectTo(p) \/ IsMix(p))
<1>1. Len(p) # 2
  <2>1. PICK n \in Nat : n = Len(p)
    BY LenProperties DEF Text
  <2> QED
    BY <2>1
<1>2. p[1] # "links" /\ p[1] # "mix" /\ p[1] # "redirect-to" /\ p[1] # "cookies"
  BY ModifierFacts DEF Redirects
<1>3. p # <<"redirect-to">> /\ p # <<"cookies", "set">> /\ p # <<"cookies", "delete">>
  BY <1>2
<1>4. ToPipeline(p)
  BY <1>1 DEF ToPipeline
<1> QED
  BY <1>1, <1>2, <1>3, <1>4
     DEF IsRedirect, IsStatus, IsLinks, IsCookies, IsRedirectTo, IsMix, TwoSegment

LEMMA ChainParse ==
    ASSUME NEW mods, Words(mods), NEW t \in Redirects, NEW s \in Segment, NEW dest \in Text,
           mods # <<>> \/ dest # <<>>,
           Len(FlattenSeq(mods)) + 2 + Len(dest) <= MaxSegments,
           NEW p, p = FlattenSeq(mods) \o Counted(t, s, dest)
    PROVE  /\ p \in Text /\ p # <<>> /\ Len(p) >= 3 /\ p[1] \in Modifiers \cup Redirects
           /\ parsePipeline(p) =
                  [ok |-> TRUE, mods |-> mods, name |-> <<t>>, args |-> <<s>> \o dest]
<1>1. PICK rest : rest = Counted(t, s, dest)
  OBVIOUS
<1>2. /\ Terminal(rest) /\ rest[1] = t /\ Len(rest) = 2 + Len(dest)
      /\ ParseTerminal(rest).name = <<t>> /\ ParseTerminal(rest).args = <<s>> \o dest
  BY <1>1, ChainTerminal
<1>3. rest \in Text
  BY <1>2 DEF Terminal
<1>4. PICK f \in Text : f = FlattenSeq(mods)
  BY WordsType
<1>5. PICK k \in Nat : k = Len(f)
  BY LenProperties DEF Text
<1>6. PICK n \in Nat : n = Len(dest)
  BY LenProperties DEF Text
<1>7. p = f \o rest
  BY <1>1, <1>4
<1>8. p \in Text /\ p # <<>> /\ Reading(p) = Of(mods, rest)
  BY <1>2, <1>4, <1>7, Unread
<1>9. Len(p) = k + (2 + n)
  <2>1. f \in Seq(Segment) /\ rest \in Seq(Segment) /\ Len(rest) = 2 + n
    BY <1>2, <1>3, <1>6 DEF Text
  <2>2. Len(f \o rest) = Len(f) + Len(rest)
    BY ONLY <2>1, Halves
  <2> QED
    BY ONLY <1>5, <1>7, <2>1, <2>2
<1>10. Len(p) <= MaxSegments
  BY <1>4, <1>5, <1>6, <1>9
<1>11. parsePipeline(p) = Of(mods, rest)
  BY <1>8, <1>10, Accepts
<1>12. CASE mods = <<>>
  <2>1. k = 0 /\ n # 0
    <3>1. f = <<>> /\ dest # <<>>
      BY <1>4, <1>12, FlattenEmpty
    <3> QED
      BY <1>5, <1>6, <3>1, EmptySeq DEF Text
  <2>2. Len(p) >= 3
    BY <1>9, <2>1
  <2>3. p = rest
    <3>1. f = <<>>
      BY <1>4, <1>12, FlattenEmpty
    <3> QED
      BY <1>3, <1>7, <3>1, ConcatEmptySeq DEF Text
  <2>4. p[1] = t
    BY <1>2, <2>3
  <2> QED
    BY <1>2, <1>8, <1>11, <2>2, <2>4 DEF Of
<1>13. CASE mods # <<>>
  <2>1. f # <<>> /\ f[1] \in Modifiers
    BY <1>4, <1>13, FlattenFirst
  <2>2. k >= 1
    BY <1>5, <2>1, EmptySeq DEF Text
  <2>3. Len(p) >= 3
    BY <1>9, <2>2
  <2>4. p[1] = f[1]
    BY <1>3, <1>7, <2>1, ConcatFirst DEF Text
  <2> QED
    BY <1>2, <1>8, <1>11, <2>1, <2>3, <2>4 DEF Of
<1> QED
  BY <1>12, <1>13

(* Where a chain leads next.                                                   *)
Ahead(c) == IF c.left > 0 THEN Counted(c.type, Numeral(c.left), c.dest)
            ELSE IF c.dest # <<>> THEN c.dest ELSE <<"get">>

LEMMA ChainFields ==
    ASSUME NEW b, NEW m, NEW t, NEW d, NEW k
    PROVE  /\ Chain(b, m, t, d, k).base = b /\ Chain(b, m, t, d, k).mods = m
           /\ Chain(b, m, t, d, k).type = t /\ Chain(b, m, t, d, k).dest = d
           /\ Chain(b, m, t, d, k).left = k
  BY DEF Chain

LEMMA CountedText ==
    ASSUME NEW t \in Segment, NEW s \in Segment, NEW d \in Text
    PROVE  Counted(t, s, d) \in Text
  BY ShortText, ConcatText DEF Counted

-----------------------------------------------------------------------------
(* Chains that survive being written into a location.                          *)

LEMMA PlainConcat ==
    ASSUME NEW s \in Text, NEW t \in Text, Plain(s), Plain(t)
    PROVE  Plain(s \o t)
<1>1. PICK u \in Text : u = s \o t
  BY ConcatText
<1>2. /\ Len(s) \in Nat /\ Len(t) \in Nat /\ Len(u) = Len(s) + Len(t)
      /\ \A x \in 1 .. Len(s) : u[x] = s[x]
      /\ \A x \in 1 .. Len(t) : u[Len(s) + x] = t[x]
  BY <1>1, ConcatPlaces DEF Text
<1>3. DOMAIN u = 1 .. Len(u) /\ DOMAIN s = 1 .. Len(s) /\ DOMAIN t = 1 .. Len(t)
  BY LenProperties DEF Text
<1>4. ASSUME NEW i \in DOMAIN u PROVE u[i] \notin DOMAIN Reads
  <2>1. CASE i <= Len(s)
    <3>1. i \in DOMAIN s /\ u[i] = s[i]
      BY <1>2, <1>3, <2>1
    <3> QED
      BY <3>1 DEF Plain
  <2>2. CASE ~(i <= Len(s))
    <3>1. PICK x \in 1 .. Len(t) : i = Len(s) + x
      <4>1. i - Len(s) \in 1 .. Len(t) /\ i = Len(s) + (i - Len(s))
        BY <1>2, <1>3, <2>2
      <4> QED
        BY <4>1
    <3>2. u[i] = t[x] /\ x \in DOMAIN t
      BY <1>2, <1>3, <3>1
    <3> QED
      BY <3>2 DEF Plain
  <2> QED
    BY <2>1, <2>2
<1> QED
  BY <1>1, <1>4 DEF Plain

LEMMA PlainWords ==
    /\ \A t \in Redirects, s \in DOMAIN Number : Plain(<<t, s>>)
    /\ Plain(<<"get">>)
<1>1. \A s \in DOMAIN Reads : s \notin Redirects \cup {"get"} \cup DOMAIN Number
  BY PipelineAssumption
<1>2. "get" \notin DOMAIN Reads
  BY <1>1
<1>3. Plain(<<"get">>)
  BY <1>2 DEF Plain
<1>4. ASSUME NEW t \in Redirects, NEW s \in DOMAIN Number PROVE Plain(<<t, s>>)
  <2>1. t \notin DOMAIN Reads /\ s \notin DOMAIN Reads
    BY <1>1
  <2> QED
    BY <2>1 DEF Plain
<1> QED
  BY <1>3, <1>4

LEMMA PlainPrefix == Plain(Prefix)
  BY PipelineAssumption DEF Plain

(* A plain path is read as it is written.                                      *)
LEMMA PlainRead ==
    ASSUME NEW p \in Text, Plain(p)
    PROVE  Unescaped(p).path = p /\ Unescaped(p).host \in Own
<1>1. PICK n \in Nat : n = Len(p) /\ DOMAIN p = 1 .. n
  BY LenProperties DEF Text
<1>2. \A i \in 1 .. n : KindOf(p[i]) = "plain" /\ ReadAs(p[i]) = p[i]
  BY <1>1 DEF Plain, KindOf, ReadAs
<1>3. {i \in 1 .. n : KindOf(p[i]) \in {"cut", "dropped"}} = {}
  BY <1>2
<1>4. ~\E i \in 1 .. n : KindOf(p[i]) = "malformed"
  BY <1>2
<1>5. PICK h \in {"local", "query"} : Unescaped(p) = There(h, [i \in 1 .. n |-> ReadAs(p[i])])
  BY <1>1, <1>3, <1>4 DEF Unescaped
<1>6. [i \in 1 .. n |-> ReadAs(p[i])] = [i \in 1 .. n |-> p[i]]
  BY <1>2
<1>7. p = [i \in 1 .. n |-> p[i]]
  BY <1>1 DEF Text
<1>8. h \in Own
  BY DEF Own
<1>9. [i \in 1 .. n |-> ReadAs(p[i])] = p
  BY ONLY <1>6, <1>7
<1> QED
  BY ONLY <1>5, <1>8, <1>9, HereText, ThereHost

LEMMA AheadPlain ==
    ASSUME NEW c, c.type \in Redirects, c.dest \in Text, Plain(c.dest),
           c.left \in Nat, c.left > 0 => Spelled(c.left)
    PROVE  Plain(Ahead(c))
<1>1. CASE c.left > 0
  <2>1. PICK s : s = Numeral(c.left) /\ s \in DOMAIN Number
    BY <1>1, NumeralOf
  <2>2. PICK q : q = <<c.type, s>> /\ Plain(q)
    BY <2>1, PlainWords
  <2>3. q \in Text
    <3>1. c.type \in Segment
      BY NameSegment
    <3>2. s \in Segment
      BY <2>1, NumeralSegment
    <3> QED
      BY <2>2, <3>1, <3>2, ShortText
  <2>4. Ahead(c) = q \o c.dest
    BY <1>1, <2>1, <2>2 DEF Ahead, Counted
  <2> QED
    BY <2>2, <2>3, <2>4, PlainConcat
<1>2. CASE ~(c.left > 0)
  BY <1>2, PlainWords DEF Ahead
<1> QED
  BY <1>1, <1>2

(* Whether a chain survives is settled when it starts.                         *)
LEMMA SurvivesAlike ==
    ASSUME NEW c, NEW d, c.base = d.base, c.mods = d.mods, c.type = d.type, c.dest = d.dest
    PROVE  Survives(c) <=> Survives(d)
  BY DEF Survives

(* A location that goes on with chain c, after the modifiers.                  *)
GoesOn(loc, mods, c) ==
    loc.host \in Own /\ loc.path = Prefix \o FlattenSeq(mods) \o Ahead(c)

LEMMA NextIs ==
    ASSUME NEW mods, Words(mods), NEW t \in Redirects, NEW s \in Segment, NEW dest \in Text,
           NEW n \in Nat \ {0}, Number[s] = n, NEW args, args[1] = s, Tail(args) = dest,
           NEW c, c.type = t, c.dest = dest, c.left = n - 1, c.mods = mods,
           n > 1 => Spelled(n - 1), Survives(c)
    PROVE  GoesOn(NextLocation(t, NextPath(mods, t, args)), mods, c)
<1>1. (n - 1 > 0) <=> (n > 1)
  OBVIOUS
<1>2. PICK f \in Text : f = FlattenSeq(mods)
  BY WordsType
<1>3. NextPath(mods, t, args) = f \o Ahead(c)
  BY <1>1, <1>2 DEF NextPath, buildModifierPrefix, Ahead, Counted
<1>4. Ahead(c) \in Text
  <2>1. <<"get">> \in Text
    BY ShortText, NameSegment
  <2>2. n - 1 \in Nat
    OBVIOUS
  <2>3. Counted(t, Numeral(n - 1), dest) \in Text
    BY <2>2, NameSegment, NumeralSegment, CountedText
  <2> QED
    BY <2>1, <2>3 DEF Ahead
<1>5. (Prefix \o f) \o Ahead(c) = Prefix \o (f \o Ahead(c))
  <2>1. Prefix \in Seq(Segment) /\ f \in Seq(Segment) /\ Ahead(c) \in Seq(Segment)
    BY <1>4, PrefixText DEF Text
  <2> QED
    BY ONLY <2>1, ConcatAssociative
<1>6. PICK p : p = NextPath(mods, t, args)
  OBVIOUS
<1>7. Prefix \o p = (Prefix \o f) \o Ahead(c)
  BY ONLY <1>3, <1>5, <1>6
<1>8. CASE t = "absolute-redirect"
  <2>1. NextLocation(t, p) = There("self", Prefix \o p)
    BY <1>8 DEF NextLocation, doRedirect, There
  <2>2. There("self", Prefix \o p).host \in Own
    BY DEF There, Own
  <2>3. There("self", Prefix \o p).path = Prefix \o p
    BY HereText
  <2> QED
    BY ONLY <1>2, <1>6, <1>7, <2>1, <2>2, <2>3 DEF GoesOn
<1>9. CASE t # "absolute-redirect"
  <2>1. doRedirect(Here(p)).path = Prefix \o p
    BY DEF doRedirect, Here
  <2>2. NextLocation(t, p) = Unescaped(Prefix \o p)
    BY <1>9, <2>1 DEF NextLocation
  <2>3. Plain(f) /\ Plain(dest)
    BY <1>2, <1>9 DEF Survives
  <2>4. Plain(Ahead(c))
    BY <1>1, <2>3, AheadPlain
  <2>5. p \in Text /\ Plain(p)
    BY <1>2, <1>3, <1>4, <1>6, <2>3, <2>4, ConcatText, PlainConcat
  <2>6. Prefix \o p \in Text /\ Plain(Prefix \o p)
    BY <2>5, PrefixText, PlainPrefix, ConcatText, PlainConcat
  <2>7. Unescaped(Prefix \o p).path = Prefix \o p /\ Unescaped(Prefix \o p).host \in Own
    BY <2>6, PlainRead
  <2> QED
    BY ONLY <1>2, <1>6, <1>7, <2>2, <2>7 DEF GoesOn
<1> QED
  BY <1>8, <1>9

(* A redirect that the client follows.                                         *)
LEMMA AnswerFollowed ==
    ASSUME NEW code, NEW loc, Answer(code, loc), code \in Followed, loc.host \in Own
    PROVE  status' = code /\ url' = loc /\ pc' = "request"
<1>1. loc # Nowhere
  <2>1. Nowhere.host = "none"
    BY DEF Nowhere, There
  <2>2. "none" \notin Own
    BY DEF Own
  <2> QED
    BY <2>1, <2>2
<1>2. Sent(code) = code
  BY DEF Sent, Followed
<1> QED
  BY <1>1, <1>2 DEF Answer

LEMMA Stripped ==
    ASSUME NEW p \in Text, url.path = Prefix \o p
    PROVE  IsPrefix(Prefix, url.path) /\ path = p
<1>1. Prefix \in Seq(Segment) /\ p \in Seq(Segment)
  BY PrefixText DEF Text
<1>2. IsPrefix(Prefix, Prefix \o p)
  BY ONLY <1>1, PrefixOfConcat
<1>3. /\ Len(Prefix \o p) = Len(Prefix) + Len(p)
      /\ SubSeq(Prefix \o p, Len(Prefix) + 1, Len(Prefix) + Len(p)) = p
  BY ONLY <1>1, Halves
<1> QED
  BY <1>2, <1>3 DEF path

(* With redirects left, a chain is of one of two kinds: one outside the        *)
(* pipeline, with a count and nothing else, or one of the pipeline, accepted   *)
(* once and for all.                                                           *)
Outside(c) ==
    /\ c.mods = <<>>
    /\ c.dest = <<>>
    /\ \/ c.type = "relative-redirect" /\ c.base = Prefix
       \/ c.type = "absolute-redirect" /\ c.base = <<>>

Within(c) ==
    /\ c.base = Prefix
    /\ Words(c.mods)
    /\ c.type \in Redirects
    /\ c.dest \in Text
    /\ c.mods # <<>> \/ c.dest # <<>>
    /\ ValidModifiers(c.mods)
    /\ Override(c.mods, 302) \in Followed
    /\ Len(FlattenSeq(c.mods)) + 2 + Len(c.dest) <= MaxSegments
    /\ c.left <= MaxRedirects

Typed == promise.left \in Int /\ method \in {"GET", "POST"}

OnPath == promise.left >= 0 /\ pc # "done" /\ Survives(promise) =>
             url.path = promise.base \o FlattenSeq(promise.mods) \o Ahead(promise)

Underway == promise.left > 0 /\ pc # "done" /\ Survives(promise) =>
    /\ status \in Followed
    /\ Spelled(promise.left)
    /\ (Outside(promise) /\ pc = "request") \/ Within(promise)

Chained == Typed /\ OnPath /\ Underway

(* The chain the client is in says what the request is.                        *)
LEMMA ChainPath ==
    ASSUME Typed, OnPath, promise.left > 0, pc # "done", Survives(promise)
    PROVE  url.path = promise.base \o FlattenSeq(promise.mods) \o Ahead(promise)
<1>1. promise.left >= 0
  BY DEF Typed
<1> QED
  BY <1>1 DEF OnPath

LEMMA OutsidePath ==
    ASSUME Typed, OnPath, promise.left > 0, pc # "done", Survives(promise), Outside(promise),
           promise.base = Prefix
    PROVE  /\ IsPrefix(Prefix, url.path)
           /\ path = <<promise.type, Numeral(promise.left)>>
           /\ promise.type \in Redirects
<1>1. PICK t, s, k : t = promise.type /\ k = promise.left /\ s = Numeral(k)
  OBVIOUS
<1>2. t \in Redirects /\ k \in Nat
  BY <1>1 DEF Outside, Redirects, Typed
<1>3. t \in Segment /\ s \in Segment
  BY <1>1, <1>2, NameSegment, NumeralSegment
<1>4. PICK p \in Text : p = <<t, s>>
  BY <1>3, ShortText
<1>5. Ahead(promise) = p \o <<>>
  BY <1>1, <1>4 DEF Ahead, Outside, Counted
<1>6. p \o <<>> = p
  BY ConcatEmptySeq DEF Text
<1>7. promise.base \o FlattenSeq(promise.mods) = Prefix
  <2>1. FlattenSeq(promise.mods) = <<>>
    BY FlattenEmpty DEF Outside
  <2> QED
    BY <2>1, PrefixText, ConcatEmptySeq DEF Text
<1>8. url.path = Prefix \o p
  <2>1. url.path = promise.base \o FlattenSeq(promise.mods) \o Ahead(promise)
    BY DEF OnPath, Typed
  <2> QED
    BY ONLY <1>5, <1>6, <1>7, <2>1
<1> QED
  BY <1>1, <1>2, <1>4, <1>8, Stripped

LEMMA WithinPath ==
    ASSUME Typed, OnPath, promise.left > 0, pc # "done", Survives(promise), Within(promise)
    PROVE  /\ IsPrefix(Prefix, url.path)
           /\ path \in Text /\ path # <<>> /\ Len(path) >= 3 /\ path[1] \in Modifiers \cup Redirects
           /\ parsed = [ok |-> TRUE, mods |-> promise.mods, name |-> <<promise.type>>,
                        args |-> <<Numeral(promise.left)>> \o promise.dest]
<1>1. PICK mods, t, dest, k : /\ mods = promise.mods /\ t = promise.type
                              /\ dest = promise.dest /\ k = promise.left
  OBVIOUS
<1>2. /\ Words(mods) /\ t \in Redirects /\ dest \in Text /\ k \in Nat
      /\ mods # <<>> \/ dest # <<>>
      /\ Len(FlattenSeq(mods)) + 2 + Len(dest) <= MaxSegments
      /\ promise.base = Prefix
  <2>1. k \in Nat
    BY <1>1 DEF Typed
  <2>2. /\ Words(promise.mods) /\ promise.type \in Redirects /\ promise.dest \in Text
        /\ promise.mods # <<>> \/ promise.dest # <<>>
        /\ Len(FlattenSeq(promise.mods)) + 2 + Len(promise.dest) <= MaxSegments
        /\ promise.base = Prefix
    BY DEF Within
  <2> QED
    BY ONLY <1>1, <2>1, <2>2
<1>3. PICK s \in Segment : s = Numeral(k)
  BY <1>2, NumeralSegment
<1>4. PICK f \in Text : f = FlattenSeq(mods)
  BY <1>2, WordsType
<1>5. PICK rest \in Text : rest = Counted(t, s, dest)
  BY <1>2, NameSegment, CountedText
<1>6. PICK p : p = f \o rest
  OBVIOUS
<1>7. /\ p \in Text /\ p # <<>> /\ Len(p) >= 3 /\ p[1] \in Modifiers \cup Redirects
      /\ parsePipeline(p) = [ok |-> TRUE, mods |-> mods, name |-> <<t>>, args |-> <<s>> \o dest]
  <2>1. p = FlattenSeq(mods) \o Counted(t, s, dest)
    BY <1>4, <1>5, <1>6
  <2> QED
    BY ONLY <1>2, s \in Segment, <2>1, ChainParse
<1>8. Ahead(promise) = rest
  BY <1>1, <1>3, <1>5 DEF Ahead
<1>9. url.path = (Prefix \o f) \o rest
  BY <1>1, <1>2, <1>4, <1>8 DEF OnPath, Typed
<1>10. (Prefix \o f) \o rest = Prefix \o p
  <2>1. Prefix \in Seq(Segment) /\ f \in Seq(Segment) /\ rest \in Seq(Segment)
    BY PrefixText DEF Text
  <2>2. (Prefix \o f) \o rest = Prefix \o (f \o rest)
    BY ONLY <2>1, ConcatAssociative
  <2> QED
    BY <1>6, <2>2
<1>11. IsPrefix(Prefix, url.path) /\ path = p
  BY <1>7, <1>9, <1>10, Stripped
<1> QED
  BY <1>1, <1>3, <1>7, <1>11 DEF parsed

LEMMA ChainLost ==
    ASSUME promise' = NoChain, method' \in {"GET", "POST"}
    PROVE  Chained'
<1>1. NoChain.left = -1
  BY DEF NoChain, Chain
<1>2. promise'.left = -1
  BY ONLY <1>1, promise' = NoChain
<1>3. ~(promise'.left >= 0) /\ ~(promise'.left > 0) /\ promise'.left \in Int
  BY ONLY <1>2
<1> QED
  BY <1>3 DEF Chained, Typed, OnPath, Underway

(* Nothing is said of a chain that does not survive.                           *)
LEMMA ChainBroken ==
    ASSUME NEW c, promise' = c, ~Survives(c), c.left \in Int, method' \in {"GET", "POST"}
    PROVE  Chained'
<1>1. Survives(promise)' = Survives(c)
  BY DEF Survives, Plain
<1>2. promise'.left \in Int
  BY ONLY promise' = c, c.left \in Int
<1> QED
  BY <1>1, <1>2 DEF Chained, Typed, OnPath, Underway

(* A broken chain goes on as one.                                              *)
LEMMA StaysBroken ==
    ASSUME Typed, ~Survives(promise), method' \in {"GET", "POST"},
           promise' = Chain(promise.base, promise.mods, promise.type, promise.dest,
                            promise.left - 1)
    PROVE  Chained'
<1>1. PICK c : c = Chain(promise.base, promise.mods, promise.type, promise.dest,
                         promise.left - 1)
  OBVIOUS
<1>2. /\ c.base = promise.base /\ c.mods = promise.mods /\ c.type = promise.type
      /\ c.dest = promise.dest /\ c.left = promise.left - 1
  BY <1>1, ChainFields
<1>3. ~Survives(c)
  BY <1>2, SurvivesAlike
<1>4. c.left \in Int
  BY <1>2 DEF Typed
<1>5. promise' = c
  BY ONLY <1>1, promise' = Chain(promise.base, promise.mods, promise.type, promise.dest,
                                 promise.left - 1)
<1> QED
  BY <1>3, <1>4, <1>5, ChainBroken

LEMMA AnswerMethod ==
    ASSUME Typed, NEW code, NEW loc, Answer(code, loc)
    PROVE  method' \in {"GET", "POST"}
  BY DEF Typed, Answer

LEMMA RespondLoses ==
    ASSUME Typed, NEW code, Respond(code)
    PROVE  Chained'
<1>1. promise' = NoChain /\ Answer(code, Nowhere)
  BY DEF Respond
<1> QED
  BY <1>1, AnswerMethod, ChainLost

(* The request of a chain that is outside the pipeline and under the prefix.   *)
LEMMA OutsideBase ==
    ASSUME Typed, OnPath, promise.left > 0, pc # "done", Survives(promise), Outside(promise),
           Requested
    PROVE  promise.base = Prefix
<1>1. CASE promise.base = Prefix
  BY <1>1
<1>2. CASE promise.base # Prefix
  <2>1. promise.type = "absolute-redirect" /\ promise.base = <<>>
    BY <1>2 DEF Outside
  <2>2. PICK k \in Nat : k = promise.left
    BY DEF Typed
  <2>3. PICK p \in Text : p = <<"absolute-redirect", Numeral(k)>> /\ p # <<>>
    BY NameSegment, NumeralSegment, ShortText
  <2>4. p[1] = "absolute-redirect"
    BY <2>3
  <2>5. Ahead(promise) = p \o <<>>
    BY <2>1, <2>2, <2>3 DEF Ahead, Outside, Counted
  <2>6. p \o <<>> = p /\ <<>> \o p = p
    BY ConcatEmptySeq DEF Text
  <2>7. promise.base \o FlattenSeq(promise.mods) = <<>>
    <3>1. FlattenSeq(promise.mods) = <<>>
      BY FlattenEmpty DEF Outside
    <3>2. <<>> \in Text
      BY EmptySeq DEF Text
    <3> QED
      BY <2>1, <3>1, <3>2, ConcatEmptySeq DEF Text
  <2>8. url.path = p
    <3>1. url.path = promise.base \o FlattenSeq(promise.mods) \o Ahead(promise)
      BY ChainPath
    <3> QED
      BY ONLY <2>5, <2>6, <2>7, <3>1
  <2>9. IsPrefix(Prefix, p)
    BY <2>8 DEF Requested
  <2>10. PICK x : p = Prefix \o x /\ x \in Text
    <3>1. Len(Prefix) \in 0 .. Len(p) /\ p = Prefix \o SubSeq(p, Len(Prefix) + 1, Len(p))
      BY <2>9, PrefixText, PrefixSplits DEF Text
    <3>2. SubSeq(p, Len(Prefix) + 1, Len(p)) \in Text
      BY <3>1, SuffixProperties DEF Text
    <3> QED
      BY <3>1, <3>2
  <2>11. Prefix # <<>>
    BY <1>2, <2>1
  <2>12. p[1] = Prefix[1]
    BY <2>10, <2>11, PrefixText, ConcatFirst DEF Text
  <2>13. Prefix[1] # "absolute-redirect"
    BY <2>11, PipelineAssumption
  <2> QED
    BY <2>4, <2>12, <2>13
<1> QED
  BY <1>1, <1>2

(* Where the handlers outside the pipeline lead.                               *)
OutsideChain(relative, m) ==
    IF relative THEN Chain(Prefix, <<>>, "relative-redirect", <<>>, m)
    ELSE Chain(<<>>, <<>>, "absolute-redirect", <<>>, m)

LEMMA OutsideNext ==
    ASSUME NEW relative \in BOOLEAN, NEW m \in Nat, NEW c, c = OutsideChain(relative, m),
           NEW loc, loc = doRedirect(redirectLocation(relative, m))
    PROVE  /\ loc.host \in Own
           /\ loc.path = c.base \o FlattenSeq(c.mods) \o Ahead(c)
           /\ Outside(c) /\ c.left = m
<1>1. PICK t, b : /\ c = Chain(b, <<>>, t, <<>>, m)
                  /\ relative => t = "relative-redirect" /\ b = Prefix
                  /\ ~relative => t = "absolute-redirect" /\ b = <<>>
  BY DEF OutsideChain
<1>2. c.base = b /\ c.mods = <<>> /\ c.type = t /\ c.dest = <<>> /\ c.left = m
  BY <1>1, ChainFields
<1>3. Outside(c)
  BY <1>1, <1>2 DEF Outside
<1>4. PICK s \in Segment : s = Numeral(m)
  BY NumeralSegment
<1>5. <<t, s>> \in Text /\ <<"get">> \in Text
  BY <1>1, NameSegment, ShortText
<1>6. PICK p \in Text : p = IF m < 1 THEN <<"get">> ELSE <<t, s>>
  BY <1>5
<1>7. Ahead(c) = p
  <2>1. CASE m < 1
    BY <1>2, <1>6, <2>1 DEF Ahead
  <2>2. CASE ~(m < 1)
    <3>1. Ahead(c) = p \o <<>>
      BY <1>2, <1>4, <1>6, <2>2 DEF Ahead, Counted
    <3>2. p \o <<>> = p
      BY ConcatEmptySeq DEF Text
    <3> QED
      BY ONLY <3>1, <3>2
  <2> QED
    BY <2>1, <2>2
<1>8. b \in Text
  BY <1>1, PrefixText, EmptySeq DEF Text
<1>9. c.base \o FlattenSeq(c.mods) = b
  <2>1. FlattenSeq(c.mods) = <<>>
    BY <1>2, FlattenEmpty
  <2> QED
    BY <1>2, <1>8, <2>1, ConcatEmptySeq DEF Text
<1>10. c.base \o FlattenSeq(c.mods) \o Ahead(c) = b \o p
  BY ONLY <1>7, <1>9
<1>11. CASE relative
  <2>1. redirectLocation(relative, m) = Here(p)
    BY <1>1, <1>4, <1>6, <1>11 DEF redirectLocation
  <2>2. loc = Here(Prefix \o p)
    <3>1. doRedirect(Here(p)) = Here(Prefix \o p)
      BY DEF doRedirect, Here
    <3> QED
      BY ONLY <2>1, <3>1, loc = doRedirect(redirectLocation(relative, m))
  <2>3. Here(Prefix \o p).host \in Own /\ Here(Prefix \o p).path = Prefix \o p
    BY DEF Here, Own
  <2>4. b = Prefix
    BY <1>1, <1>11
  <2> QED
    BY ONLY <1>2, <1>3, <1>10, <2>2, <2>3, <2>4
<1>12. CASE ~relative
  <2>1. redirectLocation(relative, m) = There("self", p)
    BY <1>1, <1>4, <1>6, <1>12 DEF redirectLocation
  <2>2. loc = There("self", p)
    BY <2>1 DEF doRedirect, There
  <2>3. There("self", p).host \in Own /\ There("self", p).path = p
    BY DEF There, Own
  <2>4. b \o p = p
    BY <1>1, <1>12, ConcatEmptySeq DEF Text
  <2> QED
    BY ONLY <1>2, <1>3, <1>10, <2>2, <2>3, <2>4
<1> QED
  BY <1>11, <1>12

(* A redirect that is followed keeps the chain, if it leads where it says.     *)
LEMMA Advance ==
    ASSUME Typed, NEW code \in Followed, NEW loc, Answer(code, loc), loc.host \in Own,
           NEW c, promise' = c, NEW m \in Nat, c.left = m,
           loc.path = c.base \o FlattenSeq(c.mods) \o Ahead(c),
           m > 0 => Spelled(m) /\ (Outside(c) \/ Within(c))
    PROVE  Chained'
<1>1. status' = code /\ url' = loc /\ pc' = "request"
  BY AnswerFollowed
<1>2. method' \in {"GET", "POST"}
  BY AnswerMethod
<1>3. Typed'
  <2>1. promise'.left \in Int
    BY ONLY promise' = c, c.left = m, m \in Nat
  <2> QED
    BY <1>2, <2>1 DEF Typed
<1>4. OnPath'
  <2>1. Ahead(promise)' = Ahead(promise')
    BY DEF Ahead, Counted
  <2>2. url'.path = promise'.base \o FlattenSeq(promise'.mods) \o Ahead(promise')
    BY <1>1
  <2> QED
    BY <2>1, <2>2 DEF OnPath
<1>5. Underway'
  <2>1. CASE m > 0
    <3>1. Spelled(m) /\ (Outside(c) \/ Within(c))
      BY <2>1
    <3>2. Spelled(promise.left)'
      BY <3>1 DEF Spelled
    <3>3. Outside(promise)' \/ Within(promise)'
      <4>1. Outside(promise)' = Outside(c)
        BY DEF Outside
      <4>2. Within(promise)' = Within(c)
        BY DEF Within
      <4> QED
        BY <3>1, <4>1, <4>2
    <3> QED
      BY <1>1, <3>2, <3>3 DEF Underway
  <2>2. CASE ~(m > 0)
    <3>1. ~(promise'.left > 0)
      BY <2>2
    <3> QED
      BY <3>1 DEF Underway
  <2> QED
    BY <2>1, <2>2
<1> QED
  BY <1>3, <1>4, <1>5 DEF Chained

(* The count that a chain is at.                                               *)
LEMMA CountDown ==
    ASSUME NEW s \in DOMAIN Number, Below(s), Number[s] >= 1
    PROVE  /\ Number[s] - 1 \in Nat
           /\ Number[s] - 1 > 0 => Spelled(Number[s] - 1)
<1>1. PICK n \in Nat : n = Number[s]
  BY PipelineAssumption
<1>2. \A k \in 1 .. n : Spelled(k)
  BY <1>1 DEF Below, NumberOf
<1>3. n - 1 \in Nat /\ (n - 1 > 0 => n - 1 \in 1 .. n)
  BY <1>1
<1> QED
  BY <1>1, <1>2, <1>3

(* With a count outside the pipeline, the chain goes on as it began.           *)
LEMMA OutsidePromised ==
    ASSUME Chained, Requested, IsRedirect(path), promise.left > 0, Survives(promise),
           NEW relative, relative \in BOOLEAN,
           relative <=> \/ path[1] = "relative-redirect"
                        \/ path[1] = "redirect" /\ query # Absolute
    PROVE  /\ Chain(promise.base, promise.mods, promise.type, promise.dest, promise.left - 1)
                 = OutsideChain(relative, promise.left - 1)
           /\ NumberOf(path[2]) = promise.left
<1>1. Typed /\ OnPath /\ Underway /\ pc = "request"
  BY DEF Chained, Requested
<1>2. ~Within(promise)
  <2>1. SUFFICES ASSUME Within(promise) PROVE FALSE
    OBVIOUS
  <2>2. path \in Text /\ path # <<>> /\ Len(path) >= 3 /\ path[1] \in Modifiers \cup Redirects
    BY <1>1, <2>1, WithinPath
  <2>3. ~IsRedirect(path)
    BY <2>2, ToPipelineOnly
  <2> QED
    BY <2>3
<1>3. Outside(promise) /\ Spelled(promise.left)
  BY <1>1, <1>2 DEF Underway
<1>4. promise.base = Prefix
  BY <1>1, <1>3, OutsideBase
<1>5. path = <<promise.type, Numeral(promise.left)>>
  BY <1>1, <1>3, <1>4, OutsidePath
<1>6. path[1] = promise.type /\ path[2] = Numeral(promise.left)
  BY <1>5
<1>7. NumberOf(path[2]) = promise.left
  BY <1>3, <1>6, NumeralOf
<1>8. CASE promise.type = "relative-redirect"
  <2>1. relative
    BY <1>6, <1>8
  <2> QED
    BY <1>3, <1>4, <1>7, <1>8, <2>1 DEF OutsideChain, Outside
<1>9. CASE promise.type = "absolute-redirect"
  <2>1. ~relative
    BY <1>6, <1>9
  <2>2. promise.base = <<>>
    BY <1>3, <1>9 DEF Outside
  <2> QED
    BY <1>3, <1>7, <1>9, <2>1, <2>2 DEF OutsideChain, Outside
<1> QED
  BY <1>3, <1>8, <1>9 DEF Outside

LEMMA StepOutside == Countable /\ Chained /\ handleRedirect => Chained'
<1> SUFFICES ASSUME Countable, Chained, handleRedirect PROVE Chained'
  OBVIOUS
<1>1. Typed /\ Requested /\ IsRedirect(path)
  BY DEF Chained, handleRedirect
<1>2. PICK relative : /\ relative \in BOOLEAN
                      /\ relative <=> \/ path[1] = "relative-redirect"
                                      \/ path[1] = "redirect" /\ query # Absolute
  OBVIOUS
<1>3. PICK n : n = NumberOf(path[2])
  OBVIOUS
<1>4. CASE n < 1
  BY <1>1, <1>3, <1>4, RespondLoses DEF handleRedirect
<1>5. CASE ~(n < 1)
  <2>1. /\ Answer(302, doRedirect(redirectLocation(relative, n - 1)))
        /\ promise' = IF relative
                      THEN Promised(Prefix, <<>>, "relative-redirect", <<>>, n)
                      ELSE Promised(<<>>, <<>>, "absolute-redirect", <<>>, n)
    BY <1>2, <1>3, <1>5 DEF handleRedirect
  <2>2. path[2] \in DOMAIN Number /\ n = Number[path[2]]
    BY <1>3, <1>5 DEF NumberOf
  <2>3. n >= 1
    <3>1. n \in Nat
      BY <2>2, PipelineAssumption
    <3> QED
      BY ONLY <1>5, <3>1
  <2>4. PICK m \in Nat : m = n - 1 /\ (m > 0 => Spelled(m))
    BY <1>1, <2>2, <2>3, CountDown DEF Countable
  <2>10. ASSUME promise.left > 0, ~Survives(promise) PROVE Chained'
    BY <1>1, <2>1, <2>10, AnswerMethod, StaysBroken DEF Promised
  <2> SUFFICES ASSUME promise.left > 0 => Survives(promise) PROVE Chained'
    BY <2>10
  <2>5. promise' = OutsideChain(relative, m)
    <3>1. CASE promise.left > 0
      <4>1. promise' = Chain(promise.base, promise.mods, promise.type, promise.dest,
                             promise.left - 1)
        BY <2>1, <3>1 DEF Promised
      <4>2. /\ Chain(promise.base, promise.mods, promise.type, promise.dest, promise.left - 1)
                 = OutsideChain(relative, promise.left - 1)
            /\ n = promise.left
        BY <1>1, <1>2, <1>3, <3>1, OutsidePromised
      <4> QED
        BY ONLY <2>4, <4>1, <4>2
    <3>2. CASE ~(promise.left > 0)
      BY <2>1, <2>4, <3>2 DEF Promised, OutsideChain
    <3> QED
      BY <3>1, <3>2
  <2>6. PICK c : c = OutsideChain(relative, m)
    OBVIOUS
  <2>7. PICK loc : loc = doRedirect(redirectLocation(relative, m))
    OBVIOUS
  <2>8. /\ loc.host \in Own
        /\ loc.path = c.base \o FlattenSeq(c.mods) \o Ahead(c)
        /\ Outside(c) /\ c.left = m
    <3>1. relative \in BOOLEAN
      BY <1>2
    <3> QED
      BY ONLY <3>1, m \in Nat, <2>6, <2>7, OutsideNext
  <2>9. Answer(302, loc) /\ 302 \in Followed /\ promise' = c
    BY <2>1, <2>4, <2>5, <2>6, <2>7 DEF Followed
  <2> QED
    BY <1>1, <2>4, <2>8, <2>9, Advance
<1> QED
  BY <1>4, <1>5

(* A redirect terminal is its name and all the segments that remain.           *)
LEMMA RedirectTerminal ==
    ASSUME NEW rest, Terminal(rest), NEW t \in Redirects, ParseTerminal(rest).name = <<t>>
    PROVE  rest[1] = t /\ ParseTerminal(rest).args = Tail(rest)
<1>1. rest \in Text /\ ParseTerminal(rest).ok
  BY DEF Terminal
<1>2. ~(Len(rest) >= 2 /\ SubSeq(rest, 1, 2) \in TwoSegment)
  <2>1. SUFFICES ASSUME Len(rest) >= 2, SubSeq(rest, 1, 2) \in TwoSegment PROVE FALSE
    OBVIOUS
  <2>2. ParseTerminal(rest).name = SubSeq(rest, 1, 2)
    BY <2>1 DEF ParseTerminal
  <2>3. PICK n : n = <<t>> /\ n \in TwoSegment
    BY <2>1, <2>2
  <2>4. n[1] = t
    BY <2>3
  <2>5. n[1] = "cookies"
    BY <2>3 DEF TwoSegment
  <2> QED
    BY <2>4, <2>5 DEF Redirects
<1>3. /\ ParseTerminal(rest).name = <<rest[1]>>
      /\ ParseTerminal(rest).args = IF TerminalArgs[rest[1]] = -1 THEN Tail(rest)
                                    ELSE SubSeq(Tail(rest), 1, TerminalArgs[rest[1]])
  BY <1>1, <1>2, OneSegment
<1>4. rest[1] = t
  <2>1. <<rest[1]>> = <<t>>
    BY <1>3
  <2> QED
    BY <2>1
<1>5. TerminalArgs[t] = -1
  BY TerminalFacts
<1> QED
  BY <1>3, <1>4, <1>5

(* A path of modifiers, a redirect and its arguments.                          *)
Redirecting(p, mods, t, args) == p = FlattenSeq(mods) \o (<<t>> \o args)

(* A redirect that the pipeline dispatches can be asked for again with any     *)
(* other count.                                                                *)
LEMMA Dispatched ==
    ASSUME Written, Checked, pc = "dispatch", NEW t \in Redirects, parsed.name = <<t>>,
           NEW mods, mods = parsed.mods, NEW args, args = parsed.args, args # <<>>
    PROVE  /\ Words(mods) /\ ValidModifiers(mods)
           /\ args[1] \in Segment /\ Tail(args) \in Text
           /\ args = <<args[1]>> \o Tail(args)
           /\ mods # <<>> \/ Tail(args) # <<>>
           /\ Len(FlattenSeq(mods)) + 2 + Len(Tail(args)) <= MaxSegments
           /\ Redirecting(path, mods, t, args)
<1>1. ToPipeline(path) /\ parsed.ok /\ ValidModifiers(mods)
  BY DEF Checked, OnPipeline
<1>2. PICK p \in Text : p = path
  BY PathText
<1>3. PICK ms, rest : Shape(p, ms, rest)
  BY <1>1, <1>2, Accepted DEF parsed
<1>4. parsed = Of(ms, rest)
  BY <1>2, <1>3 DEF parsed, Shape
<1>5. mods = ms /\ ParseTerminal(rest).name = <<t>> /\ ParseTerminal(rest).args = args
  BY <1>4 DEF Of
<1>6. Words(mods) /\ Terminal(rest) /\ rest \in Text /\ rest # <<>> /\ Len(p) <= MaxSegments
  BY <1>3, <1>5 DEF Shape, Terminal
<1>7. rest[1] = t /\ args = Tail(rest)
  BY <1>5, <1>6, RedirectTerminal
<1>8. PICK k \in Nat : k = Len(rest) /\ Len(args) = k - 1 /\ args \in Text
  BY <1>6, <1>7, HeadTail DEF Text
<1>9. PICK n \in Nat : n = Len(Tail(args)) /\ Len(args) = n + 1
  <2>1. Tail(args) \in Text /\ Len(args) \in Nat \ {0} /\ Len(Tail(args)) = Len(args) - 1
    BY <1>8, HeadTail DEF Text
  <2>2. Len(args) - 1 \in Nat /\ Len(args) = (Len(args) - 1) + 1
    BY ONLY <2>1
  <2> QED
    BY ONLY <2>1, <2>2
<1>10. args[1] \in Segment /\ Tail(args) \in Text /\ args = <<args[1]>> \o Tail(args)
  <2>1. args \in Seq(Segment)
    BY <1>8 DEF Text
  <2> QED
    BY ONLY <2>1, args # <<>>, HeadTail DEF Text
<1>11. PICK f \in Text : f = FlattenSeq(mods)
  BY <1>6, WordsType
<1>12. PICK j \in Nat : j = Len(f)
  BY LenProperties DEF Text
<1>13. p = f \o rest
  BY <1>3, <1>5, <1>11 DEF Shape
<1>14. Len(p) = j + (n + 2)
  <2>1. Len(p) = Len(f) + Len(rest)
    BY <1>6, <1>11, <1>13, Halves DEF Text
  <2>2. Len(rest) = n + 2
    BY <1>8, <1>9
  <2> QED
    BY ONLY n \in Nat, <1>12, <2>1, <2>2
<1>15. Len(FlattenSeq(mods)) + 2 + Len(Tail(args)) <= MaxSegments
  <2>1. j + (n + 2) <= MaxSegments
    BY <1>6, <1>14
  <2>2. j + 2 + n <= MaxSegments
    BY <2>1, ParserAssumption
  <2> QED
    BY ONLY <1>9, <1>11, <1>12, <2>2
<1>16. mods # <<>> \/ Tail(args) # <<>>
  <2>1. SUFFICES ASSUME mods = <<>>, Tail(args) = <<>> PROVE FALSE
    OBVIOUS
  <2>2. f = <<>> /\ j = 0
    BY <1>11, <1>12, <2>1, FlattenEmpty, EmptySeq
  <2>3. n = 0
    BY <1>9, <2>1, EmptySeq
  <2>4. p = rest
    BY <1>6, <1>13, <2>2, ConcatEmptySeq DEF Text
  <2>5. p[1] = t /\ Len(p) = 2
    BY <1>7, <1>14, <2>2, <2>3, <2>4
  <2>6. ToPipeline(p)
    BY <1>1, <1>2
  <2> QED
    BY <2>5, <2>6 DEF ToPipeline
<1>17. Redirecting(path, mods, t, args)
  <2>1. rest = <<rest[1]>> \o Tail(rest)
    BY <1>6, HeadTail DEF Text
  <2>2. rest = <<t>> \o args
    BY ONLY <1>7, <2>1
  <2> QED
    BY ONLY <1>2, <1>11, <1>13, <2>2 DEF Redirecting
<1> QED
  BY <1>1, <1>6, <1>10, <1>15, <1>16, <1>17

(* In the pipeline, too, the chain goes on as it began.                        *)
LEMMA WithinPromised ==
    ASSUME Chained, promise.left > 0, Survives(promise), pc = "dispatch",
           NEW t, parsed.name = <<t>>,
           NEW mods, mods = parsed.mods, NEW args, args = parsed.args, NEW n, n = NumberOf(args[1])
    PROVE  Chain(promise.base, promise.mods, promise.type, promise.dest, promise.left - 1)
             = Chain(Prefix, mods, t, Tail(args), n - 1)
<1>1. Typed /\ OnPath /\ Within(promise) /\ Spelled(promise.left)
  BY DEF Chained, Underway
<1>2. PICK s : s = Numeral(promise.left)
  OBVIOUS
<1>3. parsed = [ok |-> TRUE, mods |-> promise.mods, name |-> <<promise.type>>,
                args |-> <<s>> \o promise.dest]
  BY <1>1, <1>2, WithinPath
<1>4. /\ mods = promise.mods /\ args = <<s>> \o promise.dest
      /\ <<t>> = <<promise.type>>
  BY <1>3
<1>5. t = promise.type
  BY <1>4
<1>6. promise.base = Prefix /\ promise.dest \in Text
  BY <1>1 DEF Within
<1>7. s \in Segment
  BY <1>1, <1>2, NumeralSegment DEF Typed
<1>8. args[1] = s /\ Tail(args) = promise.dest
  BY <1>4, <1>6, <1>7, ConsProperties, ConsTail DEF Text
<1>9. n = promise.left
  BY <1>1, <1>2, <1>8, NumeralOf
<1> QED
  BY <1>4, <1>5, <1>6, <1>8, <1>9

LEMMA StepTerminal ==
    Countable /\ Written /\ Checked /\ Chained /\ dispatchRedirectTerminal => Chained'
<1> SUFFICES ASSUME Countable, Written, Checked, Chained, dispatchRedirectTerminal PROVE Chained'
  OBVIOUS
<1>1. Typed
  BY DEF Chained
<1>2. PICK t \in Redirects : pc = "dispatch" /\ parsed.name = <<t>>
  BY DEF dispatchRedirectTerminal, Dispatch
<1>3. PICK mods, args : mods = parsed.mods /\ args = parsed.args
  OBVIOUS
<1>4. PICK n : n = IF args = <<>> THEN 0 ELSE NumberOf(args[1])
  OBVIOUS
<1>5. parsed.name[1] = t
  BY <1>2
<1>6. CASE n \notin 1 .. MaxRedirects
  <2>1. Respond(Overridden(400))
    BY <1>3, <1>4, <1>6 DEF dispatchRedirectTerminal
  <2> QED
    BY <1>1, <2>1, RespondLoses
<1>7. CASE n \in 1 .. MaxRedirects
  <2>1. /\ Answer(Overridden(302), NextLocation(t, NextPath(mods, t, args)))
        /\ promise' = IF Overridden(302) \in Followed
                      THEN Promised(Prefix, mods, t, Tail(args), n) ELSE NoChain
    BY <1>3, <1>4, <1>5, <1>7 DEF dispatchRedirectTerminal
  <2>2. MaxRedirects \in Nat
    BY PipelineAssumption
  <2>3. CASE Overridden(302) \notin Followed
    BY <1>1, <2>1, <2>3, AnswerMethod, ChainLost
  <2>4. CASE Overridden(302) \in Followed
    <3>1. n \in Nat \ {0} /\ n <= MaxRedirects
      BY ONLY <1>7, <2>2
    <3>2. args # <<>> /\ n = NumberOf(args[1])
      BY <1>4, <3>1
    <3>3. args[1] \in DOMAIN Number /\ n = Number[args[1]]
      BY <3>1, <3>2 DEF NumberOf
    <3>4. PICK m \in Nat : m = n - 1 /\ (m > 0 => Spelled(m))
      <4>1. Below(args[1])
        BY <1>2, <1>3, <1>5, <1>7, <3>2 DEF Countable
      <4> QED
        BY <3>1, <3>3, <4>1, CountDown
    <3>5. PICK s, dest : s = args[1] /\ dest = Tail(args)
      OBVIOUS
    <3>6. PICK c : c = Chain(Prefix, mods, t, dest, m)
      OBVIOUS
    <3>16. ASSUME promise.left > 0, ~Survives(promise) PROVE Chained'
      BY <1>1, <2>1, <2>4, <3>16, AnswerMethod, StaysBroken DEF Promised
    <3> SUFFICES ASSUME promise.left > 0 => Survives(promise) PROVE Chained'
      BY <3>16
    <3>7. promise' = c
      <4>1. CASE promise.left > 0
        <5>1. promise' = Chain(promise.base, promise.mods, promise.type, promise.dest,
                               promise.left - 1)
          BY <2>1, <2>4, <4>1 DEF Promised
        <5>2. Chain(promise.base, promise.mods, promise.type, promise.dest, promise.left - 1)
                = Chain(Prefix, mods, t, Tail(args), n - 1)
          BY <1>2, <1>3, <3>2, <4>1, WithinPromised
        <5> QED
          BY ONLY <3>4, <3>5, <3>6, <5>1, <5>2
      <4>2. CASE ~(promise.left > 0)
        BY <2>1, <2>4, <3>4, <3>5, <3>6, <4>2 DEF Promised
      <4> QED
        BY <4>1, <4>2
    <3>8. /\ Words(mods) /\ ValidModifiers(mods)
          /\ s \in Segment /\ dest \in Text
          /\ args = <<s>> \o dest
          /\ mods # <<>> \/ dest # <<>>
          /\ Len(FlattenSeq(mods)) + 2 + Len(dest) <= MaxSegments
      BY <1>2, <1>3, <3>2, <3>5, Dispatched
    <3>9. c.base = Prefix /\ c.mods = mods /\ c.type = t /\ c.dest = dest /\ c.left = m
      BY <3>6, ChainFields
    <3>17. ASSUME ~Survives(c) PROVE Chained'
      <4>1. c.left \in Int /\ method' \in {"GET", "POST"}
        BY <1>1, <2>1, <3>4, <3>9, AnswerMethod
      <4> QED
        BY <3>7, <3>17, <4>1, ChainBroken
    <3> SUFFICES ASSUME Survives(c) PROVE Chained'
      BY <3>17
    <3>10. Within(c)
      <4>1. Override(mods, 302) \in Followed
        BY <1>3, <2>4 DEF Overridden
      <4>2. m <= MaxRedirects
        BY ONLY <3>1, <3>4, <2>2
      <4> QED
        BY <1>2, <3>8, <3>9, <4>1, <4>2 DEF Within
    <3>11. PICK loc : loc = NextLocation(t, NextPath(mods, t, args))
      OBVIOUS
    <3>12. loc.host \in Own /\ loc.path = Prefix \o FlattenSeq(mods) \o Ahead(c)
      <4>1. Number[s] = n /\ c.left = n - 1
        BY <3>3, <3>4, <3>5, <3>9
      <4> QED
        <5>1. Words(mods) /\ s \in Segment /\ dest \in Text /\ n \in Nat \ {0}
          BY <3>1, <3>8
        <5>2. args[1] = s /\ Tail(args) = dest /\ c.type = t /\ c.dest = dest /\ c.mods = mods
          BY <3>5, <3>9
        <5>4. n > 1 => Spelled(n - 1)
          BY <3>1, <3>4
        <5>3. GoesOn(NextLocation(t, NextPath(mods, t, args)), mods, c)
          BY ONLY t \in Redirects, <5>1, <5>2, <4>1, <5>4, Survives(c), NextIs
        <5> QED
          BY ONLY <3>11, <5>3 DEF GoesOn
    <3>13. loc.path = c.base \o FlattenSeq(c.mods) \o Ahead(c)
      BY <3>9, <3>12
    <3>14. PICK code \in Followed : code = Overridden(302)
      BY <2>4
    <3>15. Answer(code, loc)
      BY <2>1, <3>11, <3>14
    <3> QED
      BY <1>1, <3>4, <3>7, <3>9, <3>10, <3>12, <3>13, <3>15, Advance
  <2> QED
    BY <2>3, <2>4
<1> QED
  BY <1>6, <1>7

(* A step within a request leaves the chain alone.                             *)
LEMMA SameChain ==
    ASSUME Chained, UNCHANGED <<url, method, status, promise>>,
           pc # "done" \/ pc' = "done",
           pc' = "done" \/ pc' = pc \/ (promise.left > 0 /\ Survives(promise) => Within(promise))
    PROVE  Chained'
<1>1. url' = url /\ method' = method /\ status' = status /\ promise' = promise
  OBVIOUS
<1>2. Typed'
  BY <1>1 DEF Chained, Typed
<1>3. CASE pc' = "done"
  BY <1>2, <1>3 DEF Chained, OnPath, Underway
<1>4. CASE pc' # "done"
  <2>1. pc # "done" /\ Survives(promise)' = Survives(promise)
    BY <1>1, <1>4 DEF Survives, Plain
  <2>2. OnPath'
    <3>1. Ahead(promise)' = Ahead(promise)
      BY <1>1 DEF Ahead, Counted
    <3> QED
      BY <1>1, <2>1, <3>1 DEF Chained, OnPath
  <2>3. Underway'
    <3>1. Spelled(promise.left)' = Spelled(promise.left)
      BY <1>1 DEF Spelled
    <3>2. Outside(promise)' = Outside(promise)
      BY <1>1 DEF Outside
    <3>3. Within(promise)' = Within(promise)
      BY <1>1 DEF Within
    <3> QED
      BY <1>1, <1>4, <2>1, <3>1, <3>2, <3>3 DEF Chained, Underway
  <2> QED
    BY <1>2, <2>2, <2>3 DEF Chained
<1> QED
  BY <1>3, <1>4

(* The pipeline takes no chain that is outside it.                             *)
LEMMA TakesWithin ==
    ASSUME Chained, Requested, ToPipeline(path) \/ IsMix(path), promise.left > 0,
           Survives(promise)
    PROVE  Within(promise)
<1>1. Typed /\ OnPath /\ pc # "done" /\ pc = "request"
  BY DEF Chained, Requested
<1>2. SUFFICES ASSUME Outside(promise) PROVE FALSE
  BY <1>1 DEF Chained, Underway
<1>3. promise.base = Prefix
  BY <1>1, <1>2, OutsideBase
<1>4. path = <<promise.type, Numeral(promise.left)>> /\ promise.type \in Redirects
  BY <1>1, <1>2, <1>3, OutsidePath
<1>5. path[1] \in Redirects /\ Len(path) = 2
  BY <1>4
<1> QED
  BY <1>5 DEF ToPipeline, IsMix, Redirects

LEMMA StepChained ==
    Countable /\ Written /\ Checked /\ Chained /\ [Next]_vars => Chained'
<1> SUFFICES ASSUME Countable, Written, Checked, Chained, [Next]_vars PROVE Chained'
  OBVIOUS
<1>1. Typed
  BY DEF Chained
<1>2. ASSUME NEW code, Respond(code) PROVE Chained'
  BY <1>1, <1>2, RespondLoses
<1>3. ASSUME NEW code, NEW loc, Answer(code, loc), promise' = NoChain PROVE Chained'
  BY <1>1, <1>3, AnswerMethod, ChainLost
<1>4. CASE OutsidePrefix \/ Direct \/ DispatchOther \/ MixAnswer
  BY <1>2, <1>4 DEF OutsidePrefix, Direct, DispatchOther, MixAnswer
<1>5. CASE Cookies \/ Links \/ Status \/ DispatchStatus \/ DispatchCookies
  BY <1>3, <1>5 DEF Cookies, Links, Status, DispatchStatus, DispatchCookies
<1>6. CASE RedirectTo \/ DispatchRedirectTo
  BY <1>3, <1>6 DEF RedirectTo, DispatchRedirectTo
<1>7. CASE handleRedirect
  BY <1>7, StepOutside
<1>8. CASE dispatchRedirectTerminal
  BY <1>8, StepTerminal
<1>9. CASE Validate
  <2>1. CASE parsed.ok /\ ValidModifiers(parsed.mods)
    <3>1. Requested /\ ToPipeline(path) /\ UNCHANGED <<url, method, status, promise>>
      BY <1>9, <2>1 DEF Validate
    <3>2. pc # "done" /\ (promise.left > 0 /\ Survives(promise) => Within(promise))
      BY <3>1, TakesWithin DEF Requested
    <3> QED
      BY <3>1, <3>2, SameChain
  <2>2. CASE ~(parsed.ok /\ ValidModifiers(parsed.mods))
    BY <1>2, <1>9, <2>2 DEF Validate
  <2> QED
    BY <2>1, <2>2
<1>10. CASE Mix
  <2>1. CASE UNCHANGED <<url, method, status, promise>>
    <3>1. Requested /\ IsMix(path)
      BY <1>10 DEF Mix
    <3>2. pc # "done" /\ (promise.left > 0 /\ Survives(promise) => Within(promise))
      BY <3>1, TakesWithin DEF Requested
    <3> QED
      BY <2>1, <3>2, SameChain
  <2>2. CASE ~UNCHANGED <<url, method, status, promise>>
    <3>1. Respond(400)
      BY <1>10, <2>2 DEF Mix
    <3> QED
      BY <1>2, <3>1
  <2> QED
    BY <2>1, <2>2
<1>11. CASE Delay \/ Cancelled
  BY <1>11, SameChain DEF Delay, Cancelled
<1>12. CASE CheckMethod
  <2>1. CASE method \in Methods(parsed.name[1])
    <3>1. pc = "delaying" /\ UNCHANGED <<url, method, status, promise>>
      BY <1>12, <2>1 DEF CheckMethod
    <3>2. promise.left > 0 /\ Survives(promise) => Within(promise)
      BY <3>1 DEF Chained, Underway
    <3> QED
      BY <3>1, <3>2, SameChain
  <2>2. CASE method \notin Methods(parsed.name[1])
    BY <1>2, <1>12, <2>2 DEF CheckMethod
  <2> QED
    BY <2>1, <2>2
<1>13. CASE Done \/ UNCHANGED vars
  <2>1. UNCHANGED <<url, method, status, promise>> /\ pc' = pc
    BY <1>13 DEF Done, vars
  <2> QED
    BY <2>1, SameChain
<1> QED
  BY <1>4, <1>5, <1>6, <1>7, <1>8, <1>9, <1>10, <1>11, <1>12, <1>13 DEF Next

LEMMA InitChained == Init => Chained
<1> SUFFICES ASSUME Init PROVE Chained
  OBVIOUS
<1>1. promise = NoChain /\ method \in {"GET", "POST"}
  BY DEF Init
<1>2. NoChain.left = -1
  BY DEF NoChain, Chain
<1>3. promise.left = -1
  BY ONLY <1>1, <1>2
<1>4. ~(promise.left >= 0) /\ ~(promise.left > 0) /\ promise.left \in Int
  BY ONLY <1>3
<1> QED
  BY <1>1, <1>4 DEF Chained, Typed, OnPath, Underway

(* The chain a client is in says where it is, and that it will get on.         *)
LEMMA AlwaysChained == Spec /\ []Countable => []Chained
<1>1. Countable /\ Written /\ Checked /\ Chained /\ [Next]_vars => Chained'
  BY StepChained
<1> QED
  BY <1>1, AlwaysWritten, AlwaysChecked, InitChained, PTL DEF Spec

(* With any modifiers, destination and count, a chain of redirects that        *)
(* survives in its locations keeps its promise: each redirect asks for the     *)
(* same again with one less, and the last one for the destination under the    *)
(* same modifiers.                                                             *)
THEOREM PromiseHolds == Spec /\ []Countable => []ChainKeepsPromise
<1>1. Chained => ChainKeepsPromise
  BY DEF Chained, OnPath, ChainKeepsPromise, Ahead, Counted
<1> QED
  BY <1>1, AlwaysChained, PTL

(* A request of a chain outside the pipeline is one more redirect.             *)
LEMMA OutsideGoesOn ==
    ASSUME Chained, promise.left > 0, Survives(promise), promise.base = Prefix, Outside(promise),
           pc = "request", Next
    PROVE  pc' # "done"
<1>1. Typed /\ OnPath /\ pc # "done" /\ Spelled(promise.left)
  BY DEF Chained, Underway
<1>2. /\ IsPrefix(Prefix, url.path)
      /\ path = <<promise.type, Numeral(promise.left)>>
      /\ promise.type \in Redirects
  BY <1>1, OutsidePath
<1>3. path[1] \in Redirects /\ Len(path) = 2 /\ path[2] = Numeral(promise.left)
  BY <1>2
<1>4. /\ path[1] # "status" /\ path[1] # "links" /\ path[1] # "mix"
      /\ path[1] # "cookies" /\ path[1] # "redirect-to"
  BY <1>3 DEF Redirects
<1>5. path # <<"redirect-to">> /\ path # <<"cookies", "set">> /\ path # <<"cookies", "delete">>
  BY <1>4
<1>6. /\ IsRedirect(path) /\ ~ToPipeline(path)
      /\ ~(IsStatus(path) \/ IsLinks(path) \/ IsCookies(path) \/ IsRedirectTo(path) \/ IsMix(path))
  BY <1>3, <1>4, <1>5 DEF IsRedirect, ToPipeline, IsStatus, IsLinks, IsCookies, TwoSegment,
                          IsRedirectTo, IsMix
<1>7. ~(OutsidePrefix \/ Direct \/ Cookies \/ Links \/ RedirectTo \/ Status \/ Mix \/ Validate)
  BY <1>2, <1>6 DEF OutsidePrefix, Direct, Cookies, Links, RedirectTo, Status, Mix, Validate
<1>8. ~(MixAnswer \/ Delay \/ Cancelled \/ CheckMethod \/ DispatchOther \/ DispatchStatus
        \/ DispatchCookies \/ DispatchRedirectTo \/ dispatchRedirectTerminal \/ Done)
  BY DEF MixAnswer, Delay, Cancelled, CheckMethod, DispatchOther, DispatchStatus, DispatchCookies,
         DispatchRedirectTo, dispatchRedirectTerminal, Dispatch, Done
<1>9. handleRedirect
  BY <1>7, <1>8 DEF Next
<1>10. PICK n : n = NumberOf(path[2])
  OBVIOUS
<1>11. n = promise.left
  BY <1>1, <1>3, <1>10, NumeralOf
<1>12. ~(n < 1)
  BY <1>1, <1>11 DEF Typed
<1>13. PICK relative : Answer(302, doRedirect(redirectLocation(relative, n - 1)))
  BY <1>9, <1>10, <1>12 DEF handleRedirect
<1>14. PICK l : l = redirectLocation(relative, n - 1)
  OBVIOUS
<1>15. l.host \in Own
  BY <1>14 DEF redirectLocation, Here, There, Own
<1>16. doRedirect(l).host \in Own
  BY <1>15 DEF doRedirect, Here, Own
<1>17. PICK loc : loc = doRedirect(l)
  OBVIOUS
<1>18. Answer(302, loc) /\ loc.host \in Own /\ 302 \in Followed
  BY <1>13, <1>14, <1>16, <1>17 DEF Followed
<1>19. pc' = "request"
  BY ONLY <1>18, AnswerFollowed
<1> QED
  BY <1>19

(* One of the pipeline is valid, has a method that is allowed, and redirects;  *)
(* only the client can end it.                                                 *)
LEMMA WithinGoesOn ==
    ASSUME Countable, Chained, promise.left > 0, Survives(promise), Within(promise),
           pc # "done", Next
    PROVE  pc' # "done" \/ Cancelled
<1>1. Typed /\ OnPath /\ Spelled(promise.left)
  BY DEF Chained, Underway
<1>2. PICK s : s = Numeral(promise.left)
  OBVIOUS
<1>3. /\ IsPrefix(Prefix, url.path)
      /\ path \in Text /\ path # <<>> /\ Len(path) >= 3 /\ path[1] \in Modifiers \cup Redirects
      /\ parsed = [ok |-> TRUE, mods |-> promise.mods, name |-> <<promise.type>>,
                   args |-> <<s>> \o promise.dest]
  BY <1>1, <1>2, WithinPath
<1>4. /\ ToPipeline(path)
      /\ ~(IsRedirect(path) \/ IsStatus(path) \/ IsLinks(path) \/ IsCookies(path)
           \/ IsRedirectTo(path) \/ IsMix(path))
  BY <1>3, ToPipelineOnly
<1>5. ~(OutsidePrefix \/ Direct \/ handleRedirect \/ Cookies \/ Links \/ RedirectTo \/ Status
        \/ Mix \/ MixAnswer \/ Done)
  BY <1>3, <1>4 DEF OutsidePrefix, Direct, handleRedirect, Cookies, Links, RedirectTo, Status,
                    Mix, MixAnswer, Done
<1>6. PICK t \in Redirects : t = promise.type /\ parsed.name = <<t>>
  BY <1>3 DEF Within
<1>7. parsed.ok
  BY ONLY <1>3
<1>8. CASE Validate
  <2>1. ValidModifiers(parsed.mods)
    BY <1>3 DEF Within
  <2> QED
    BY <1>7, <1>8, <2>1 DEF Validate
<1>9. CASE Delay
  BY <1>9 DEF Delay
<1>10. CASE CheckMethod
  <2>1. parsed.name[1] = t
    BY <1>6
  <2>2. t # "get"
    BY DEF Redirects
  <2>3. method \in Methods(parsed.name[1])
    BY <1>1, <2>1, <2>2 DEF Typed, Methods
  <2> QED
    BY <1>10, <2>3 DEF CheckMethod
<1>11. ~(DispatchOther \/ DispatchStatus \/ DispatchCookies \/ DispatchRedirectTo)
  <2>1. PICK n : n = parsed.name /\ n[1] = t
    BY <1>6
  <2>2. n # <<"status">> /\ n # <<"redirect-to">> /\ n # <<"cookies", "set">>
        /\ n # <<"cookies", "delete">>
    BY <2>1 DEF Redirects
  <2>3. ~(DispatchStatus \/ DispatchCookies \/ DispatchRedirectTo)
    BY <2>1, <2>2 DEF DispatchStatus, DispatchCookies, DispatchRedirectTo, Dispatch, TwoSegment
  <2>4. ~DispatchOther
    BY <1>6 DEF DispatchOther, Dispatch
  <2> QED
    BY <2>3, <2>4
<1>12. CASE dispatchRedirectTerminal
  <2>1. PICK mods, args : mods = parsed.mods /\ args = parsed.args
    OBVIOUS
  <2>2. PICK k \in Nat : k = promise.left /\ k >= 1
    BY <1>1 DEF Typed
  <2>3. k \in 1 .. MaxRedirects
    <3>1. k <= MaxRedirects
      BY <2>2 DEF Within
    <3>2. MaxRedirects \in Nat
      BY PipelineAssumption
    <3> QED
      BY ONLY <2>2, <3>1, <3>2
  <2>4. s \in Segment /\ promise.dest \in Text
    BY <1>2, <2>2, NumeralSegment DEF Within
  <2>5. PICK d \in Text : d = promise.dest
    BY <2>4
  <2>6. args = <<s>> \o d
    BY <1>3, <2>1, <2>5
  <2>7. args[1] = s /\ Len(args) = Len(d) + 1 /\ Len(d) \in Nat
    BY <2>4, <2>5, <2>6, ConsProperties, LenProperties DEF Text
  <2>8. args # <<>>
    <3>1. Len(args) # 0
      BY ONLY <2>7
    <3> QED
      BY <3>1, EmptySeq
  <2>9. NumberOf(args[1]) = k
    BY <1>1, <1>2, <2>2, <2>7, NumeralOf
  <2>10. Overridden(302) \in Followed
    BY <1>3 DEF Within, Overridden
  <2>14. parsed.name[1] = t
    BY <1>6
  <2>11. Answer(Overridden(302), NextLocation(t, NextPath(mods, t, args)))
    BY <1>12, <2>1, <2>3, <2>8, <2>9, <2>14 DEF dispatchRedirectTerminal
  <2>15. PICK c : c = Chain(Prefix, mods, t, d, k - 1)
    OBVIOUS
  <2>16. /\ c.base = Prefix /\ c.mods = mods /\ c.type = t /\ c.dest = d
         /\ c.left = k - 1
    BY <2>15, ChainFields
  <2>17. Survives(c)
    <3>1. promise.base = Prefix /\ promise.mods = mods
      BY <1>3, <2>1 DEF Within
    <3> QED
      BY <1>6, <2>5, <2>16, <3>1, SurvivesAlike
  <2>18. k > 1 => Spelled(k - 1)
    <3>1. Below(args[1])
      BY <1>12, <2>1, <2>3, <2>8, <2>9, <2>14 DEF Countable, dispatchRedirectTerminal, Dispatch
    <3>2. \A i \in 1 .. k : Spelled(i)
      BY <2>9, <3>1 DEF Below
    <3>3. k > 1 => k - 1 \in 1 .. k
      BY <2>2
    <3> QED
      BY <3>2, <3>3
  <2>19. Words(mods) /\ s \in DOMAIN Number /\ Number[s] = k /\ Tail(args) = d
    <3>1. Words(mods)
      BY <1>3, <2>1 DEF Within
    <3>2. s \in DOMAIN Number /\ Number[s] = k
      BY <1>1, <1>2, <2>2, NumeralOf
    <3>3. Tail(args) = d
      BY <2>4, <2>6, ConsTail DEF Text
    <3> QED
      BY <3>1, <3>2, <3>3
  <2>20. k \in Nat \ {0} /\ s \in Segment /\ args[1] = s
    BY <2>2, <2>4, <2>7
  <2>21. GoesOn(NextLocation(t, NextPath(mods, t, args)), mods, c)
    BY ONLY t \in Redirects, d \in Text, <2>16, <2>17, <2>18, <2>19, <2>20, NextIs
  <2>22. PICK loc : loc = NextLocation(t, NextPath(mods, t, args))
    OBVIOUS
  <2>23. loc.host \in Own
    BY ONLY <2>21, <2>22 DEF GoesOn
  <2>12. PICK code : code = Overridden(302) /\ Answer(code, loc)
    BY <2>11, <2>22
  <2>13. pc' = "request"
    BY <2>10, <2>12, <2>23, AnswerFollowed
  <2> QED
    BY <2>13
<1> QED
  BY <1>5, <1>8, <1>9, <1>10, <1>11, <1>12 DEF Next

(* A chain whose first redirect was accepted, and which survives in its        *)
(* locations, is accepted until its last one:                                  *)
(* what dispatchRedirectTerminal or the handlers outside the pipeline write is *)
(* never too long, invalid, or asked for with a method that is not allowed.    *)
THEOREM NotRejectedHolds == Spec /\ []Countable => ChainNotRejected
<1>1. Countable /\ Chained /\ [Next]_vars =>
         [(/\ promise.left > 0 /\ promise.base = Prefix /\ Survives(promise)
           /\ pc # "done" /\ pc' = "done")
              => status' \notin {400, 404, 405}]_vars
  <2> SUFFICES ASSUME Countable, Chained, [Next]_vars, promise.left > 0, promise.base = Prefix,
                      Survives(promise), pc # "done", pc' = "done"
               PROVE  status' \notin {400, 404, 405}
    OBVIOUS
  <2>1. Next
    BY DEF vars
  <2>2. status \in Followed /\ ((Outside(promise) /\ pc = "request") \/ Within(promise))
    BY DEF Chained, Underway
  <2>3. Cancelled
    BY <2>1, <2>2, OutsideGoesOn, WithinGoesOn
  <2>4. status' = status
    BY <2>3 DEF Cancelled
  <2> QED
    BY <2>2, <2>4 DEF Followed
<1> QED
  BY <1>1, AlwaysChained, PTL DEF Spec, ChainNotRejected

-----------------------------------------------------------------------------
(* Weighted choices.                                                           *)

(* Arithmetic that the provers find only when it stands alone.                 *)
LEMMA Cancel ==
    ASSUME NEW a \in Nat, NEW b \in Nat, NEW c \in Nat \ {0}
    PROVE  a * c < b * c <=> a < b
  OBVIOUS

LEMMA Regroup ==
    ASSUME NEW a \in Nat, NEW b \in Nat, NEW c \in Nat
    PROVE  a * (b * c) = (a * b) * c /\ a * b \in Nat /\ a * b = b * a
  OBVIOUS

LEMMA Stretch ==
    ASSUME NEW a \in Nat, NEW b \in Nat, NEW c \in Nat, a <= b
    PROVE  a * c <= b * c /\ a * c \in Nat /\ b * c \in Nat
<1>1. PICK d \in Nat : b = a + d
  BY b - a \in Nat
<1>2. (a + d) * c = a * c + d * c /\ a * c \in Nat /\ d * c \in Nat
  OBVIOUS
<1> QED
  BY <1>1, <1>2

LEMMA Spread ==
    ASSUME NEW a \in Nat, NEW w \in Nat, NEW c \in Nat
    PROVE  (a + w) * c = a * c + w * c /\ a * c \in Nat /\ w * c \in Nat
  OBVIOUS

(* The running totals of weights.                                              *)
Running(f, n) == /\ f[0] = 0
                 /\ \A i \in 0 .. n : f[i] \in Nat
                 /\ \A i, j \in 0 .. n : i <= j => f[i] <= f[j]

LEMMA UpToGrows ==
    ASSUME NEW n \in Nat, NEW s, Len(s) = n, \A i \in 1 .. n : s[i] \in Nat
    PROVE  Running(UpTo(s), n)
<1>1. PICK f : f = UpTo(s)
  OBVIOUS
<1>2. /\ f[0] = 0 /\ \A i \in 1 .. n : f[i] = f[i - 1] + s[i]
      /\ \A i \in 0 .. n : f[i] \in Nat
  BY <1>1, UpToIs
<1>3. ASSUME NEW i \in 0 .. n PROVE \A j \in 0 .. n : i <= j => f[i] <= f[j]
  <2> DEFINE G == {j \in 0 .. n : i <= j => f[i] <= f[j]}
  <2>1. 0 \in G
    <3>1. i <= 0 => i = 0
      OBVIOUS
    <3>2. 0 \in 0 .. n /\ f[0] <= f[0]
      BY <1>2
    <3> QED
      BY <3>1, <3>2
  <2>2. \A k \in 0 .. n - 1 : k \in G => k + 1 \in G
    <3> SUFFICES ASSUME NEW k \in 0 .. n - 1, i <= k => f[i] <= f[k], i <= k + 1
                 PROVE  f[i] <= f[k + 1]
      OBVIOUS
    <3>1. k + 1 \in 1 .. n /\ (k + 1) - 1 = k /\ k \in 0 .. n /\ k + 1 \in 0 .. n
      OBVIOUS
    <3>2. f[k + 1] = f[k] + s[k + 1] /\ s[k + 1] \in Nat /\ f[k] \in Nat /\ f[i] \in Nat
      BY <1>2, <3>1
    <3>3. CASE i = k + 1
      BY <3>2, <3>3
    <3>4. CASE i # k + 1
      <4>1. i <= k
        BY <3>4
      <4> QED
        BY <3>2, <4>1
    <3> QED
      BY <3>3, <3>4
  <2>3. 0 .. n \subseteq G
    <3> HIDE DEF G
    <3> QED
      BY ONLY n \in Nat, <2>1, <2>2, Ascend
  <2> QED
    BY <2>3
<1> QED
  BY <1>1, <1>2, <1>3 DEF Running

(* The first running total above r is that of i where r lies between i's total *)
(* and the one before it.                                                      *)
LEMMA FirstAbove ==
    ASSUME NEW n \in Nat \ {0}, NEW f, Running(f, n), NEW q \in Nat \ {0},
           NEW r \in Nat, r < f[n] * q, NEW i \in 1 .. n,
           NEW H, H = {j \in 1 .. n : r < f[j] * q}
    PROVE  /\ H # {}
           /\ Min(H) = i <=> (f[i - 1] * q <= r /\ r < f[i] * q)
<1>1. n \in H
  BY n \in 1 .. n
<1>2. H \subseteq Nat
  OBVIOUS
<1>3. PICK x \in H : \A y \in H : x <= y
  BY ONLY <1>1, <1>2, Least
<1>4. PICK m \in H : m = Min(H) /\ \A y \in H : m <= y
  BY <1>3 DEF Min
<1>5. m \in 1 .. n /\ r < f[m] * q
  BY <1>4
<1>6. i - 1 \in 0 .. n /\ i \in 0 .. n /\ m \in 0 .. n
  BY <1>5
<1>7. f[i - 1] \in Nat /\ f[i] \in Nat /\ f[m] \in Nat
  BY <1>6 DEF Running
<1>8. f[i - 1] * q \in Nat /\ f[i] * q \in Nat /\ f[m] * q \in Nat
  BY <1>7, Regroup
<1>9. ASSUME m = i PROVE f[i - 1] * q <= r /\ r < f[i] * q
  <2>1. CASE i = 1
    <3>1. f[i - 1] = 0
      BY <2>1 DEF Running
    <3>2. f[i - 1] * q = 0
      BY <3>1
    <3> QED
      BY <1>5, <1>9, <3>2
  <2>2. CASE i # 1
    <3>1. i - 1 \in 1 .. n /\ ~(m <= i - 1)
      BY <1>9, <2>2
    <3>2. i - 1 \notin H
      BY <1>4, <3>1
    <3>3. ~(r < f[i - 1] * q)
      BY <3>1, <3>2
    <3> QED
      BY <1>5, <1>8, <1>9, <3>3
  <2> QED
    BY <2>1, <2>2
<1>10. ASSUME f[i - 1] * q <= r, r < f[i] * q PROVE m = i
  <2>1. i \in H
    BY <1>10
  <2>2. m <= i
    BY <1>4, <2>1
  <2>3. SUFFICES ASSUME m <= i - 1 PROVE FALSE
    BY <1>5, <2>2
  <2>4. f[m] <= f[i - 1]
    BY <1>6, <2>3 DEF Running
  <2>5. f[m] * q <= f[i - 1] * q
    BY <1>7, <2>4, Stretch
  <2> QED
    BY <1>5, <1>8, <1>10, <2>5
<1> QED
  BY <1>1, <1>4, <1>9, <1>10

(* A choice falls on i for as many random numbers as its weight asks for.      *)
LEMMA Falls ==
    ASSUME NEW choices \in Ranges, NEW total, total = Total(Weights(choices)), total > 0,
           NEW q \in Nat, Grain = q * total, NEW i \in DOMAIN choices,
           NEW F, F = {r \in 0 .. Grain - 1 : weightedRandomChoice(choices, r) = i}
    PROVE  Cardinality(F) * total = choices[i][2] * Grain
<1>1. PICK n \in Nat : n = Len(choices) /\ DOMAIN choices = 1 .. n
  BY LenProperties DEF Ranges
<1>2. PICK w : w = Weights(choices)
  OBVIOUS
<1>3. Len(w) = n /\ \A j \in 1 .. n : w[j] = choices[j][2] /\ w[j] \in Nat
  BY <1>1, <1>2, Maxima DEF Weights
<1>4. PICK f : f = UpTo(w)
  OBVIOUS
<1>5. Running(f, n)
  BY <1>3, <1>4, UpToGrows
<1>6. f[i] = f[i - 1] + w[i]
  BY <1>1, <1>3, <1>4, UpToIs
<1>7. i \in 1 .. n /\ n # 0
  BY <1>1
<1>8. /\ i - 1 \in 0 .. n /\ i \in 0 .. n /\ n \in 0 .. n /\ i <= n
      /\ w[i] \in Nat /\ w[i] = choices[i][2]
  BY <1>3, <1>7
<1>9. f[i - 1] \in Nat /\ f[i] \in Nat /\ f[n] \in Nat /\ f[i] <= f[n]
  BY <1>5, <1>8 DEF Running
<1>10. total = f[n]
  BY <1>2, <1>3, <1>4 DEF Total
<1>11. total \in Nat \ {0}
  BY <1>9, <1>10
<1>12. q # 0 /\ Grain \in Nat
  <2>1. Grain \in Nat \ {0}
    BY PipelineAssumption
  <2>2. q = 0 => q * total = 0
    BY <1>11
  <2> QED
    BY ONLY <2>1, <2>2, Grain = q * total
<1>13. Grain = f[n] * q
  BY <1>9, <1>10, Regroup
<1>14. ASSUME NEW r \in 0 .. Grain - 1
       PROVE  weightedRandomChoice(choices, r) = i <=> (f[i - 1] * q <= r /\ r < f[i] * q)
  <2>1. r \in Nat /\ r < f[n] * q
    BY <1>12, <1>13
  <2>2. PICK H : H = {j \in 1 .. n : r < f[j] * q}
    OBVIOUS
  <2>3. {j \in DOMAIN choices : r * f[Len(choices)] < f[j] * Grain} = H
    <3>1. ASSUME NEW j \in 1 .. n PROVE r * f[n] < f[j] * Grain <=> r < f[j] * q
      <4>1. f[j] \in Nat
        BY <1>5 DEF Running
      <4>2. f[j] * Grain = (f[j] * q) * total /\ f[j] * q \in Nat
        BY <1>11, <4>1, Regroup
      <4>3. r * total < (f[j] * q) * total <=> r < f[j] * q
        BY <1>11, <2>1, <4>2, Cancel
      <4> QED
        BY <1>10, <4>2, <4>3
    <3> QED
      BY <1>1, <2>2, <3>1
  <2>4. weightedRandomChoice(choices, r) = IF H = {} THEN 0 ELSE Min(H)
    BY <1>2, <1>4, <2>3 DEF weightedRandomChoice
  <2>5. H # {} /\ (Min(H) = i <=> (f[i - 1] * q <= r /\ r < f[i] * q))
    BY <1>5, <1>7, <1>12, <2>1, <2>2, FirstAbove
  <2> QED
    BY <2>4, <2>5
<1>15. PICK a, b \in Nat : a = f[i - 1] * q /\ b = w[i] * q
  BY <1>8, <1>9, Regroup
<1>16. f[i] * q = a + b
  BY <1>6, <1>8, <1>9, <1>15, Spread
<1>17. a + b <= Grain
  BY <1>9, <1>13, <1>16, Stretch
<1>18. F = a .. (a + b) - 1
  <2>1. \A r \in 0 .. Grain - 1 : r \in F <=> (a <= r /\ r < a + b)
    BY <1>14, <1>15, <1>16
  <2>2. F \subseteq 0 .. Grain - 1
    OBVIOUS
  <2>3. ASSUME NEW r \in F PROVE r \in a .. (a + b) - 1
    <3>1. r \in 0 .. Grain - 1 /\ a <= r /\ r < a + b
      BY ONLY <2>1, <2>2, <2>3
    <3>2. r \in Int
      BY ONLY <3>1, <1>12
    <3> QED
      BY ONLY a \in Nat, b \in Nat, <3>1, <3>2
  <2>4. ASSUME NEW r \in a .. (a + b) - 1 PROVE r \in F
    <3>1. r \in 0 .. Grain - 1 /\ a <= r /\ r < a + b
      BY ONLY a \in Nat, b \in Nat, <1>12, <1>17, <2>4
    <3> QED
      BY ONLY <2>1, <3>1
  <2> QED
    BY ONLY <2>3, <2>4
<1>19. Cardinality(F) = b
  <2>1. a \in Int /\ (a + b) - 1 \in Int
    OBVIOUS
  <2>2. Cardinality(a .. (a + b) - 1) = IF a > (a + b) - 1 THEN 0 ELSE ((a + b) - 1) - a + 1
    BY ONLY <2>1, FS_Interval
  <2>3. (IF a > (a + b) - 1 THEN 0 ELSE ((a + b) - 1) - a + 1) = b
    OBVIOUS
  <2> QED
    BY ONLY <1>18, <2>2, <2>3
<1>20. (w[i] * q) * total = w[i] * Grain
  BY <1>8, <1>11, Regroup
<1> QED
  BY <1>8, <1>15, <1>19, <1>20

(* Where there is any weight, as many random numbers fall on each unit of it.  *)
Evenly == \A s \in DOMAIN Weighted :
             Total(Weights(Weighted[s])) > 0 =>
                 \E q \in Nat : Grain = q * Total(Weights(Weighted[s]))

(* weightedRandomChoice takes every choice of any list in proportion to its    *)
(* weight, and one without weight never.                                       *)
THEOREM WeightsHold == Evenly => (Spec => []ChosenByWeight)
<1> SUFFICES ASSUME Evenly PROVE Spec => []ChosenByWeight
  OBVIOUS
<1>1. ChosenByWeight
  <2> SUFFICES ASSUME path[2] \in DOMAIN Weighted, NEW choices, choices = Weighted[path[2]],
                      NEW total, total = Total(Weights(choices)), total > 0,
                      NEW i \in DOMAIN choices
               PROVE  Cardinality({r \in 0 .. Grain - 1 : weightedRandomChoice(choices, r) = i})
                        * total = choices[i][2] * Grain
    BY DEF ChosenByWeight
  <2>1. choices \in Ranges
    BY PipelineAssumption DEF Ranges
  <2>2. PICK q \in Nat : Grain = q * total
    BY DEF Evenly
  <2> QED
    BY <2>1, <2>2, Falls
<1> QED
  BY <1>1, PTL

-----------------------------------------------------------------------------
(* Redirects stay under the prefix, which is put on once.                      *)

(* No segment is the first one of the prefix.                                  *)
Free(p) == \A i \in 1 .. Len(p) : p[i] # Prefix[1]

(* A location that is under the prefix is so once.                             *)
Once(loc) == IsPrefix(Prefix, loc.path) =>
                 Free(SubSeq(loc.path, Len(Prefix) + 1, Len(loc.path)))

(* The first segment of the prefix is nothing a client asks for, is sent or    *)
(* reads, and the prefix does not climb.                                       *)
Apart ==
    /\ Prefix[1] \notin Names \cup DOMAIN Number
    /\ \A i \in 1 .. Len(Prefix) : Prefix[i] # ".."
    /\ \A p \in Paths : Free(p)
    /\ \A t \in Targets : /\ t.host \in {"local", "relative"} => Free(t.path)
                          /\ t.host \in {"query", "self"} => Once(t)
    /\ \A s \in DOMAIN Reads : Reads[s].as # Prefix[1]

Unmixed == pc # "done" => Once(url)

(* Where a client may be sent.                                                 *)
Proper(loc) == \E p \in Text : loc.path = Prefix \o p /\ Free(p)
Inside(loc) == /\ IsPrefix(Prefix, loc.path)
               /\ IsPrefix(Prefix \o Prefix, loc.path) => Prefix = <<>>

LEMMA FreeConcat ==
    ASSUME NEW a \in Text, NEW b \in Text
    PROVE  Free(a \o b) <=> Free(a) /\ Free(b)
<1>1. PICK n \in Nat : n = Len(a)
  BY LenProperties DEF Text
<1>2. PICK m \in Nat : m = Len(b)
  BY LenProperties DEF Text
<1>3. PICK c : c = a \o b
  OBVIOUS
<1>4. Len(c) = n + m /\ \A i \in 1 .. n + m : c[i] = IF i <= n THEN a[i] ELSE b[i - n]
  BY <1>1, <1>2, <1>3, ConcatProperties DEF Text
<1>5. ASSUME Free(c) PROVE Free(a) /\ Free(b)
  <2>1. ASSUME NEW i \in 1 .. n PROVE a[i] # Prefix[1]
    <3>1. i \in 1 .. n + m /\ i <= n
      OBVIOUS
    <3> QED
      BY <1>4, <1>5, <3>1 DEF Free
  <2>2. ASSUME NEW i \in 1 .. m PROVE b[i] # Prefix[1]
    <3>1. i + n \in 1 .. n + m /\ ~(i + n <= n) /\ (i + n) - n = i
      OBVIOUS
    <3> QED
      BY <1>4, <1>5, <3>1 DEF Free
  <2> QED
    BY <1>1, <1>2, <2>1, <2>2 DEF Free
<1>6. ASSUME Free(a), Free(b) PROVE Free(c)
  <2>1. ASSUME NEW i \in 1 .. n + m PROVE c[i] # Prefix[1]
    <3>1. CASE i <= n
      <4>1. i \in 1 .. n
        BY <3>1
      <4> QED
        BY <1>1, <1>4, <1>6, <3>1, <4>1 DEF Free
    <3>2. CASE ~(i <= n)
      <4>1. i - n \in 1 .. m
        BY <3>2
      <4> QED
        BY <1>2, <1>4, <1>6, <3>2, <4>1 DEF Free
    <3> QED
      BY <3>1, <3>2
  <2> QED
    BY <1>4, <2>1 DEF Free
<1> QED
  BY <1>3, <1>5, <1>6

LEMMA FreeShort ==
    /\ \A a \in Segment : a # Prefix[1] => Free(<<a>>)
    /\ \A a, b \in Segment : a # Prefix[1] /\ b # Prefix[1] => Free(<<a, b>>)
  BY DEF Free

LEMMA FreeNames ==
    ASSUME Apart
    PROVE  /\ \A a \in Names : a \in Segment /\ a # Prefix[1] /\ Free(<<a>>)
           /\ \A a, b \in Names : Free(<<a, b>>)
<1>1. \A a \in Names : a \in Segment /\ a # Prefix[1]
  BY DEF Apart, Segment
<1> QED
  BY <1>1, FreeShort

LEMMA Strips ==
    ASSUME NEW p \in Text, NEW u, u = Prefix \o p
    PROVE  IsPrefix(Prefix, u) /\ SubSeq(u, Len(Prefix) + 1, Len(u)) = p
<1>1. Prefix \in Seq(Segment) /\ p \in Seq(Segment)
  BY PrefixText DEF Text
<1>2. IsPrefix(Prefix, Prefix \o p)
  BY ONLY <1>1, PrefixOfConcat
<1>3. /\ Len(Prefix \o p) = Len(Prefix) + Len(p)
      /\ SubSeq(Prefix \o p, Len(Prefix) + 1, Len(Prefix) + Len(p)) = p
  BY ONLY <1>1, Halves
<1> QED
  BY <1>2, <1>3

LEMMA ProperInside ==
    ASSUME Prefix # <<>>, NEW loc, Proper(loc)
    PROVE  Inside(loc) /\ Once(loc)
<1>1. PICK p \in Text : loc.path = Prefix \o p /\ Free(p)
  BY DEF Proper
<1>2. PICK u : u = loc.path
  OBVIOUS
<1>3. IsPrefix(Prefix, u) /\ SubSeq(u, Len(Prefix) + 1, Len(u)) = p
  BY <1>1, <1>2, Strips
<1>4. Once(loc)
  BY <1>1, <1>2, <1>3 DEF Once
<1>5. ~IsPrefix(Prefix \o Prefix, u)
  <2>1. SUFFICES ASSUME IsPrefix(Prefix \o Prefix, u) PROVE FALSE
    OBVIOUS
  <2>2. PICK t \in Text : t = Prefix \o Prefix
    BY PrefixText, ConcatText
  <2>3. u \in Text
    BY <1>1, <1>2, PrefixText, ConcatText
  <2>4. Len(t) \in 0 .. Len(u) /\ u = t \o SubSeq(u, Len(t) + 1, Len(u))
    BY <2>1, <2>2, <2>3, PrefixSplits DEF Text
  <2>5. PICK y \in Text : y = SubSeq(u, Len(t) + 1, Len(u))
    BY <2>3, <2>4, SuffixProperties DEF Text
  <2>6. u = (Prefix \o Prefix) \o y
    BY ONLY <2>2, <2>4, <2>5
  <2>7. (Prefix \o Prefix) \o y = Prefix \o (Prefix \o y)
    <3>1. Prefix \in Seq(Segment) /\ y \in Seq(Segment)
      BY PrefixText DEF Text
    <3> QED
      BY ONLY <3>1, ConcatAssociative
  <2>8. PICK z \in Text : z = Prefix \o y
    BY PrefixText, ConcatText
  <2>9. u = Prefix \o z
    BY ONLY <2>6, <2>7, <2>8
  <2>10. p = z
    BY <1>3, <2>9, Strips
  <2>11. Free(Prefix)
    BY <1>1, <2>8, <2>10, PrefixText, FreeConcat
  <2>12. Len(Prefix) \in Nat \ {0}
    BY PrefixText, HeadTail DEF Text
  <2>13. 1 \in 1 .. Len(Prefix)
    BY <2>12
  <2> QED
    BY <2>11, <2>13 DEF Free
<1> QED
  BY <1>2, <1>3, <1>4, <1>5 DEF Inside

(* A path that begins with something else is not under the prefix.             *)
LEMMA NotUnder ==
    ASSUME Prefix # <<>>, NEW loc, NEW p \in Text, loc.path = p, p # <<>>, p[1] # Prefix[1]
    PROVE  Once(loc)
<1>1. ~IsPrefix(Prefix, p)
  <2>1. SUFFICES ASSUME IsPrefix(Prefix, p) PROVE FALSE
    OBVIOUS
  <2>2. Len(Prefix) \in 0 .. Len(p) /\ p = Prefix \o SubSeq(p, Len(Prefix) + 1, Len(p))
    BY <2>1, PrefixText, PrefixSplits DEF Text
  <2>3. PICK y \in Text : y = SubSeq(p, Len(Prefix) + 1, Len(p))
    BY <2>2, SuffixProperties DEF Text
  <2>4. p = Prefix \o y
    BY ONLY <2>2, <2>3
  <2>5. p[1] = Prefix[1]
    BY <2>4, PrefixText, ConcatFirst DEF Text
  <2> QED
    BY <2>5
<1> QED
  BY <1>1 DEF Once

Kept == url' # url =>
            \/ Inside(url')
            \/ SentAway
            \/ IsRedirect(path) /\ url'.host = "self"

Suits(loc) == \/ loc = Nowhere
              \/ Proper(loc)
              \/ SentAway /\ (loc.host \in Own => Once(loc))
              \/ IsRedirect(path) /\ loc.host = "self" /\ Once(loc)

LEMMA Settles ==
    ASSUME Prefix # <<>>, NEW code, NEW loc, Answer(code, loc), Suits(loc)
    PROVE  Unmixed' /\ Kept
<1>1. CASE code \in Followed /\ loc # Nowhere
  <2>1. url' = loc /\ (pc' # "done" => loc.host \in Own)
    BY <1>1 DEF Answer
  <2>2. /\ loc.host \in Own => Once(loc)
        /\ \/ Inside(loc)
           \/ SentAway
           \/ IsRedirect(path) /\ loc.host = "self"
    <3>1. CASE Proper(loc)
      BY <3>1, ProperInside
    <3>2. CASE SentAway /\ (loc.host \in Own => Once(loc))
      BY <3>2
    <3>3. CASE IsRedirect(path) /\ loc.host = "self" /\ Once(loc)
      BY <3>3
    <3> QED
      BY <1>1, <3>1, <3>2, <3>3 DEF Suits
  <2>3. Once(url)' <=> Once(loc)
    BY <2>1 DEF Once, Free
  <2>4. Unmixed'
    BY <2>1, <2>2, <2>3 DEF Unmixed
  <2>5. Kept
    BY <2>1, <2>2 DEF Kept
  <2> QED
    BY <2>4, <2>5
<1>2. CASE ~(code \in Followed /\ loc # Nowhere)
  <2>1. url' = url /\ pc' = "done"
    BY <1>2 DEF Answer
  <2> QED
    BY <2>1 DEF Unmixed, Kept
<1> QED
  BY <1>1, <1>2

(* The locations that the server makes.                                        *)
LEMMA HereSuits ==
    ASSUME NEW p \in Text, Free(p)
    PROVE  Suits(doRedirect(Here(p))) /\ Suits(Here(Prefix \o p))
<1>1. doRedirect(Here(p)).path = Prefix \o p
  BY DEF doRedirect, Here
<1>2. Here(Prefix \o p).path = Prefix \o p
  BY HereText
<1> QED
  BY <1>1, <1>2 DEF Suits, Proper

LEMMA NowhereSuits == Suits(Nowhere)
  BY DEF Suits

LEMMA LocationSuits ==
    ASSUME Apart, NEW code
    PROVE  Suits(LocationOf(code))
<1>1. PICK a \in Text : a = <<"redirect", "1">>
  BY ShortText, NameSegment
<1>2. PICK b \in Text : b = <<"image", "jpeg">>
  BY ShortText, NameSegment
<1>3. {"redirect", "1", "image", "jpeg"} \subseteq Names
  BY DEF Names, Redirects
<1>4. Free(a) /\ Free(b)
  BY <1>1, <1>2, <1>3, FreeNames
<1>5. \/ LocationOf(code) = Here(Prefix \o a)
      \/ LocationOf(code) = Here(Prefix \o b)
      \/ LocationOf(code) = Nowhere
  BY <1>1, <1>2 DEF LocationOf
<1>6. Suits(Here(Prefix \o a)) /\ Suits(Here(Prefix \o b))
  BY <1>4, HereSuits
<1> QED
  BY <1>5, <1>6, NowhereSuits

LEMMA CookiesSuits ==
    ASSUME Apart
    PROVE  Suits(doRedirect(Here(<<"cookies">>)))
<1>1. PICK a \in Text : a = <<"cookies">>
  BY ShortText, NameSegment
<1>2. "cookies" \in Names
  BY DEF Names
<1>3. Free(a)
  BY <1>1, <1>2, FreeNames
<1> QED
  BY <1>1, <1>3, HereSuits

(* Behind the length of the prefix, no segment is its first one.               *)
Tidy(p) == \A i \in 1 .. Len(p) : i > Len(Prefix) => p[i] # Prefix[1]

LEMMA TidyOnce ==
    ASSUME NEW loc, NEW p \in Text, loc.path = p, Tidy(p)
    PROVE  Once(loc)
<1> SUFFICES ASSUME IsPrefix(Prefix, p) PROVE Free(SubSeq(p, Len(Prefix) + 1, Len(p)))
  BY DEF Once
<1>1. PICK d \in 0 .. Len(p) : d = Len(Prefix)
  BY PrefixText, PrefixSplits DEF Text
<1>2. PICK n \in Nat : n = Len(p)
  BY LenProperties DEF Text
<1>3. PICK q : q = SubSeq(p, d + 1, n)
  OBVIOUS
<1>4. Len(q) = n - d /\ \A i \in 1 .. n - d : q[i] = p[d + i]
  BY <1>2, <1>3, SuffixProperties DEF Text
<1>5. ASSUME NEW i \in 1 .. n - d PROVE q[i] # Prefix[1]
  <2>1. d + i \in 1 .. n /\ d + i > d
    BY <1>1, <1>2
  <2> QED
    BY <1>1, <1>2, <1>4, <2>1 DEF Tidy
<1> QED
  BY <1>1, <1>2, <1>3, <1>4, <1>5 DEF Free

LEMMA OnceTidy ==
    ASSUME NEW p \in Text, IsPrefix(Prefix, p), Free(SubSeq(p, Len(Prefix) + 1, Len(p)))
    PROVE  Tidy(p)
<1>1. PICK d \in 0 .. Len(p) : d = Len(Prefix)
  BY PrefixText, PrefixSplits DEF Text
<1>2. PICK n \in Nat : n = Len(p)
  BY LenProperties DEF Text
<1>3. PICK q : q = SubSeq(p, d + 1, n)
  OBVIOUS
<1>4. Len(q) = n - d /\ \A i \in 1 .. n - d : q[i] = p[d + i]
  BY <1>2, <1>3, SuffixProperties DEF Text
<1>5. \A i \in 1 .. n - d : q[i] # Prefix[1]
  BY <1>1, <1>2, <1>3, <1>4 DEF Free
<1>6. ASSUME NEW i \in 1 .. n, i > d PROVE p[i] # Prefix[1]
  <2>1. i - d \in 1 .. n - d /\ d + (i - d) = i
    BY <1>1, <1>2, <1>6
  <2> QED
    BY <1>4, <1>5, <2>1
<1> QED
  BY <1>1, <1>2, <1>6 DEF Tidy

LEMMA TidyConcat ==
    ASSUME NEW p \in Text, NEW t \in Text, Tidy(p), Free(t)
    PROVE  Tidy(p \o t)
<1>1. PICK n \in Nat, m \in Nat : n = Len(p) /\ m = Len(t)
  BY LenProperties DEF Text
<1>2. PICK u : u = p \o t
  OBVIOUS
<1>3. Len(u) = n + m /\ \A i \in 1 .. n + m : u[i] = IF i <= n THEN p[i] ELSE t[i - n]
  BY <1>1, <1>2, ConcatProperties DEF Text
<1>4. ASSUME NEW i \in 1 .. n + m, i > Len(Prefix) PROVE u[i] # Prefix[1]
  <2>1. CASE i <= n
    <3>1. i \in 1 .. n
      BY <2>1
    <3> QED
      BY <1>1, <1>3, <1>4, <2>1, <3>1 DEF Tidy
  <2>2. CASE ~(i <= n)
    <3>1. i - n \in 1 .. m
      BY <2>2
    <3> QED
      BY <1>1, <1>3, <2>2, <3>1 DEF Free
  <2> QED
    BY <2>1, <2>2
<1> QED
  BY <1>2, <1>3, <1>4 DEF Tidy

LEMMA TidyStart ==
    ASSUME NEW p \in Text, Tidy(p), NEW m \in Int, m <= Len(p)
    PROVE  Tidy(SubSeq(p, 1, m))
<1>1. PICK n \in Nat : n = Len(p)
  BY LenProperties DEF Text
<1>2. PICK q : q = SubSeq(p, 1, m)
  OBVIOUS
<1>3. /\ Len(q) = IF 1 <= m THEN m - 1 + 1 ELSE 0
      /\ \A i \in 1 .. m - 1 + 1 : q[i] = p[1 + i - 1]
  BY <1>2, PartText
<1>4. ASSUME NEW i \in 1 .. Len(q), i > Len(Prefix) PROVE q[i] # Prefix[1]
  <2>1. i \in 1 .. m - 1 + 1 /\ 1 + i - 1 = i /\ i \in 1 .. n
    BY <1>1, <1>3
  <2> QED
    BY <1>1, <1>3, <1>4, <2>1 DEF Tidy
<1> QED
  BY <1>2, <1>4 DEF Tidy

(* What climbs only moves to the front.                                        *)
LEMMA TidyClimb ==
    ASSUME NEW p \in Text, Tidy(p)
    PROVE  Tidy(Climb(p))
<1>1. ASSUME Moved(p, Climb(p)) PROVE Tidy(Climb(p))
  <2>1. PICK m \in Int, n \in Nat \ {0} :
                /\ m < n /\ m <= Len(p)
                /\ Climb(p) = SubSeq(p, 1, m) \o SubSeq(p, n, Len(p))
    BY <1>1 DEF Moved
  <2>2. PICK k \in Nat : k = Len(p)
    BY LenProperties DEF Text
  <2>3. PICK a \in Text : a = SubSeq(p, 1, m) /\ Tidy(a) /\ Len(a) = IF 1 <= m THEN m ELSE 0
    <3>1. /\ SubSeq(p, 1, m) \in Text
          /\ Len(SubSeq(p, 1, m)) = IF 1 <= m THEN m - 1 + 1 ELSE 0
      BY <2>1, PartText
    <3>2. m - 1 + 1 = m
      OBVIOUS
    <3> QED
      BY <2>1, <3>1, <3>2, TidyStart
  <2>4. PICK b \in Text : /\ b = SubSeq(p, n, k)
                          /\ Len(b) = IF n <= k THEN k - n + 1 ELSE 0
                          /\ \A i \in 1 .. k - n + 1 : b[i] = p[n + i - 1]
    <3>1. k \in Int /\ k <= Len(p)
      BY <2>2
    <3> QED
      BY <3>1, PartText
  <2>5. PICK l \in Nat, r \in Nat : l = Len(a) /\ r = Len(b)
    BY LenProperties DEF Text
  <2>6. PICK u : u = a \o b
    OBVIOUS
  <2>7. Len(u) = l + r /\ \A i \in 1 .. l + r : u[i] = IF i <= l THEN a[i] ELSE b[i - l]
    BY <2>5, <2>6, ConcatProperties DEF Text
  <2>8. ASSUME NEW i \in 1 .. l + r, i > Len(Prefix) PROVE u[i] # Prefix[1]
    <3>1. CASE i <= l
      <4>1. i \in 1 .. l
        BY <3>1
      <4> QED
        BY <2>3, <2>5, <2>7, <2>8, <3>1, <4>1 DEF Tidy
    <3>2. CASE ~(i <= l)
      <4>1. PICK j \in 1 .. r : j = i - l
        BY <3>2
      <4>2. l = (IF 1 <= m THEN m ELSE 0) /\ r = IF n <= k THEN k - n + 1 ELSE 0
        BY <2>3, <2>4, <2>5
      <4>3. /\ j \in 1 .. k - n + 1 /\ n + j - 1 \in 1 .. k
            /\ n + j - 1 >= i
        BY ONLY <2>1, <3>2, <4>1, <4>2, i \in 1 .. l + r, k \in Nat, l \in Nat, r \in Nat,
                m \in Int, n \in Nat \ {0}
      <4>4. u[i] = p[n + j - 1]
        BY <2>4, <2>7, <3>2, <4>1, <4>3
      <4>5. PICK x \in 1 .. k : x = n + j - 1 /\ x > Len(Prefix)
        <5>1. Len(Prefix) \in Nat
          BY PrefixText, LenProperties DEF Text
        <5> QED
          BY <2>8, <4>3, <5>1
      <4> QED
        BY <2>2, <4>4, <4>5 DEF Tidy
    <3> QED
      BY <3>1, <3>2
  <2>9. Climb(p) = u
    BY ONLY <2>1, <2>2, <2>3, <2>4, <2>6
  <2> QED
    BY <2>7, <2>8, <2>9 DEF Tidy
<1> QED
  BY <1>1, ClimbMoves

(* What does not climb is left as it is.                                       *)
LEMMA NoClimb ==
    ASSUME Apart, NEW t \in Text, \A i \in DOMAIN t : t[i] # ".."
    PROVE  Climb(Prefix \o t) = Prefix \o t
<1>1. PICK n \in Nat, m \in Nat : n = Len(Prefix) /\ m = Len(t) /\ DOMAIN t = 1 .. m
  BY PrefixText, LenProperties DEF Text
<1>2. PICK u \in Text : u = Prefix \o t
  BY PrefixText, ConcatText
<1>3. Len(u) = n + m /\ \A i \in 1 .. n + m : u[i] = IF i <= n THEN Prefix[i] ELSE t[i - n]
  BY <1>1, <1>2, PrefixText, ConcatProperties DEF Text
<1>4. DOMAIN u = 1 .. n + m
  BY <1>3, LenProperties DEF Text
<1>5. ASSUME NEW i \in 1 .. n + m PROVE u[i] # ".."
  <2>1. CASE i <= n
    <3>1. i \in 1 .. n
      BY <2>1
    <3> QED
      BY <1>1, <1>3, <2>1, <3>1 DEF Apart
  <2>2. CASE ~(i <= n)
    <3>1. i - n \in 1 .. m
      BY <2>2
    <3> QED
      BY <1>1, <1>3, <2>2, <3>1
  <2> QED
    BY <2>1, <2>2
<1>6. {i \in DOMAIN u : u[i] = ".."} = {}
  BY <1>4, <1>5
<1>7. Climb(u) = u
  BY <1>6 DEF Climb
<1> QED
  BY ONLY <1>2, <1>7

LEMMA RedirectToSuits ==
    ASSUME Apart, Written, IsPrefix(Prefix, url.path), Once(url),
           IsRedirectTo(path) \/ Dispatch(<<"redirect-to">>),
           query \in Targets, NEW a \in RedirectToAnswers(query)
    PROVE  Suits(a[2])
<1>1. CASE a[2] = Nowhere
  BY <1>1, NowhereSuits
<1>2. CASE a[2] # Nowhere
  <2>1. a[2] = Resolved(doRedirect(query))
    <3>1. \/ a = <<403, Nowhere>> \/ a = <<400, Nowhere>>
          \/ a \in {302, 307} \X {Resolved(doRedirect(query))}
      BY DEF RedirectToAnswers
    <3> QED
      BY <1>2, <3>1
  <2>2. PICK p \in Text : p = query.path
    BY PipelineAssumption, StringText
  <2>3. CASE query.host = "local"
    <3>1. PICK u \in Text : u = Prefix \o p
      BY PrefixText, ConcatText
    <3>2. Free(p)
      <4>1. query.host \in {"local", "relative"}
        BY <2>3
      <4>2. Free(query.path)
        BY <4>1 DEF Apart
      <4> QED
        BY ONLY <2>2, <4>2
    <3>3. a[2] = Here(Climb(u))
      <4>1. PICK loc : loc = doRedirect(query)
        OBVIOUS
      <4>2. loc.host = "local" /\ loc.path = u
        BY <2>2, <2>3, <3>1, <4>1 DEF doRedirect, Here
      <4>3. Resolved(loc) = Here(Climb(loc.path))
        BY <4>2, ResolvedIs
      <4> QED
        BY ONLY <2>1, <4>1, <4>2, <4>3
    <3>4. CASE \A i \in DOMAIN p : p[i] # ".."
      <4>1. Climb(u) = Prefix \o p
        BY <3>1, <3>4, NoClimb
      <4>2. Suits(Here(Prefix \o p))
        BY <3>2, HereSuits
      <4> QED
        BY ONLY <3>3, <4>1, <4>2
    <3>5. CASE \E i \in DOMAIN p : p[i] = ".."
      <4>1. SentAway
        BY <2>2, <3>5 DEF SentAway
      <4>2. Tidy(Prefix)
        BY DEF Tidy
      <4>3. PICK v \in Text : v = Climb(u) /\ Tidy(v)
        BY <3>1, <3>2, <4>2, PrefixText, TidyConcat, TidyClimb, ClimbText
      <4>4. Once(a[2])
        BY <3>3, <4>3, HereText, TidyOnce
      <4> QED
        BY <4>1, <4>4 DEF Suits
    <3> QED
      BY <3>4, <3>5
  <2>4. CASE query.host # "local"
    <3>1. SentAway
      BY <2>4 DEF SentAway
    <3>2. doRedirect(query) = query
      BY <2>4 DEF doRedirect
    <3>3. CASE query.host = "relative"
      <4>1. PICK w \in Text : w = url.path /\ Tidy(w)
        <5>1. PICK w \in Text : w = url.path
          BY DEF Written
        <5>2. Tidy(w)
          BY <5>1, OnceTidy DEF Once
        <5> QED
          BY <5>1, <5>2
      <4>2. PICK b \in Text : b = Base /\ Tidy(b)
        <5>1. PICK k \in Nat : k = Len(w)
          BY LenProperties DEF Text
        <5>2. k - 1 \in Int /\ k - 1 <= k
          OBVIOUS
        <5> QED
          BY <4>1, <5>1, <5>2, BaseText, TidyStart DEF Base
      <4>3. Free(p)
        <5>1. query.host \in {"local", "relative"}
          BY <3>3
        <5>2. Free(query.path)
          BY <5>1 DEF Apart
        <5> QED
          BY ONLY <2>2, <5>2
      <4>4. PICK u \in Text : u = b \o p /\ Tidy(u)
        BY <4>2, <4>3, ConcatText, TidyConcat
      <4>5. PICK v \in Text : v = Climb(u) /\ Tidy(v)
        BY <4>4, TidyClimb, ClimbText
      <4>6. Resolved(query) = Here(Climb(Base \o query.path))
        BY <2>2, <3>3, ResolvedIs
      <4>7. a[2] = Here(v)
        BY ONLY <2>1, <2>2, <3>2, <4>2, <4>4, <4>5, <4>6
      <4>8. Once(a[2])
        BY <4>5, <4>7, HereText, TidyOnce
      <4> QED
        BY <3>1, <4>8 DEF Suits
    <3>4. CASE query.host # "relative"
      <4>1. a[2] = query
        BY <2>1, <2>2, <2>4, <3>2, <3>4, ResolvedIs
      <4>2. query.host \in Own => query.host \in {"query", "self"}
        BY <2>4 DEF Own
      <4>3. query.host \in Own => Once(query)
        BY <4>2 DEF Apart
      <4> QED
        BY <3>1, <4>1, <4>3 DEF Suits
    <3> QED
      BY <3>3, <3>4
  <2> QED
    BY <2>3, <2>4
<1> QED
  BY <1>1, <1>2

LEMMA OutsideSuits ==
    ASSUME Prefix # <<>>, Apart, IsRedirect(path), NEW relative \in BOOLEAN,
           NEW m \in Nat, m > 0 => Spelled(m)
    PROVE  Suits(doRedirect(redirectLocation(relative, m)))
<1>1. PICK t : t = IF relative THEN "relative-redirect" ELSE "absolute-redirect"
  OBVIOUS
<1>2. t \in Names /\ "get" \in Names
  BY <1>1 DEF Names, Redirects
<1>3. PICK s \in Segment : s = Numeral(m)
  BY NumeralSegment
<1>4. ASSUME m > 0 PROVE s # Prefix[1]
  <2>1. s \in DOMAIN Number
    BY <1>3, <1>4, NumeralOf
  <2> QED
    BY <2>1 DEF Apart
<1>5. <<t, s>> \in Text /\ <<t, s>> # <<>> /\ <<"get">> \in Text /\ <<"get">> # <<>>
  BY <1>2, FreeNames, ShortText
<1>6. PICK p \in Text : p # <<>> /\ p = IF m < 1 THEN <<"get">> ELSE <<t, s>>
  BY <1>5
<1>7. Free(p)
  <2>1. CASE m < 1
    BY <1>2, <1>6, <2>1, FreeNames
  <2>2. CASE ~(m < 1)
    <3>1. m > 0
      BY <2>2
    <3>2. t \in Segment /\ t # Prefix[1] /\ s # Prefix[1]
      BY <1>2, <1>4, <3>1, FreeNames
    <3> QED
      BY <1>6, <2>2, <3>2, FreeShort
  <2> QED
    BY <2>1, <2>2
<1>8. CASE relative
  <2>1. redirectLocation(relative, m) = Here(p)
    BY <1>1, <1>3, <1>6, <1>8 DEF redirectLocation
  <2>2. Suits(doRedirect(Here(p)))
    BY <1>7, HereSuits
  <2> QED
    BY ONLY <2>1, <2>2
<1>9. CASE ~relative
  <2>1. redirectLocation(relative, m) = There("self", p)
    BY <1>1, <1>3, <1>6, <1>9 DEF redirectLocation
  <2>2. doRedirect(There("self", p)) = There("self", p)
    BY DEF doRedirect, There
  <2>3. There("self", p).host = "self" /\ There("self", p).path = p
    BY DEF There
  <2>4. PICK k \in Nat \ {0} : k = Len(p)
    BY <1>6, HeadTail DEF Text
  <2>5. p[1] # Prefix[1]
    BY <1>7, <2>4 DEF Free
  <2>6. Once(There("self", p))
    BY <1>6, <2>3, <2>5, NotUnder
  <2>7. Suits(There("self", p))
    BY <2>3, <2>6 DEF Suits
  <2> QED
    BY ONLY <2>1, <2>2, <2>7
<1> QED
  BY <1>8, <1>9

(* What is read for a path under the prefix is under it too.                   *)
LEMMA UnescapedSuits ==
    ASSUME Apart, NEW p \in Text, Free(p)
    PROVE  Suits(Unescaped(Prefix \o p))
<1>1. PICK u \in Text : u = Prefix \o p
  BY PrefixText, ConcatText
<1>2. PICK n \in Nat, m \in Nat : n = Len(Prefix) /\ m = Len(p) /\ DOMAIN Prefix = 1 .. n
  BY PrefixText, LenProperties DEF Text
<1>3. Len(u) = n + m /\ \A i \in 1 .. n + m : u[i] = IF i <= n THEN Prefix[i] ELSE p[i - n]
  BY <1>1, <1>2, PrefixText, ConcatProperties DEF Text
<1>4. CASE Unescaped(u) = Nowhere
  BY <1>1, <1>4, NowhereSuits
<1>5. CASE Unescaped(u) # Nowhere
  <2>1. PICK last \in 0 .. n + m :
              /\ Unescaped(u).path = [i \in 1 .. last |-> ReadAs(u[i])]
              /\ \A k \in 0 .. n + m :
                    (\A i \in 1 .. k : u[i] \notin DOMAIN Reads) => k <= last
    BY <1>3, <1>5, UnescapedIs DEF AsRead
  <2>2. \A i \in 1 .. n : Prefix[i] \notin DOMAIN Reads
    BY <1>2, PlainPrefix DEF Plain
  <2>3. \A i \in 1 .. n : u[i] = Prefix[i] /\ u[i] \notin DOMAIN Reads
    BY <1>3, <2>2
  <2>4. n <= last
    BY <2>1, <2>3
  <2>5. PICK v \in Text : v = Unescaped(u).path
    BY <1>5, UnescapedLeads DEF Leads
  <2>6. DOMAIN v = 1 .. last /\ Len(v) = last /\ \A i \in 1 .. last : v[i] = ReadAs(u[i])
    <3>1. DOMAIN v = 1 .. last /\ \A i \in 1 .. last : v[i] = ReadAs(u[i])
      BY <2>1, <2>5
    <3> QED
      BY <3>1, LenProperties DEF Text
  <2>7. \A i \in 1 .. n : v[i] = Prefix[i]
    BY <2>3, <2>4, <2>6 DEF ReadAs
  <2>8. PICK q \in Text : /\ q = SubSeq(v, n + 1, last) /\ Len(q) = last - n
                          /\ \A i \in 1 .. last - n : q[i] = v[n + i]
    <3>1. n \in 0 .. Len(v) /\ v \in Seq(Segment)
      BY <2>4, <2>6 DEF Text
    <3>2. /\ SubSeq(v, n + 1, Len(v)) \in Seq(Segment)
          /\ Len(SubSeq(v, n + 1, Len(v))) = Len(v) - n
          /\ \A i \in 1 .. Len(v) - n : SubSeq(v, n + 1, Len(v))[i] = v[n + i]
      BY ONLY <3>1, SuffixProperties
    <3>3. Len(v) = last
      BY <2>6
    <3> QED
      BY ONLY <3>2, <3>3 DEF Text
  <2>9. SubSeq(v, 1, n) = Prefix
    <3>1. PICK w \in Text : /\ w = SubSeq(v, 1, n) /\ Len(w) = n
                            /\ \A i \in 1 .. n : w[i] = v[i]
      <4>1. n \in 0 .. Len(v)
        BY <2>4, <2>6
      <4> QED
        BY <4>1, PrefixProperties DEF Text
    <3>2. Len(w) = Len(Prefix) /\ \A i \in 1 .. Len(w) : w[i] = Prefix[i]
      BY <1>2, <2>7, <3>1
    <3>3. w = Prefix
      BY <3>2, PrefixText, SeqEqual DEF Text
    <3> QED
      BY ONLY <3>1, <3>3
  <2>10. v = Prefix \o q
    <3>1. n \in 0 .. Len(v) /\ v \in Seq(Segment)
      BY <2>4, <2>6 DEF Text
    <3>2. SubSeq(v, 1, n) \o SubSeq(v, n + 1, Len(v)) = v
      BY ONLY <3>1, SplitAt
    <3> QED
      BY ONLY <2>6, <2>8, <2>9, <3>2
  <2>11. Free(q)
    <3>1. ASSUME NEW i \in 1 .. last - n PROVE q[i] # Prefix[1]
      <4>1. n + i \in 1 .. last /\ n + i \in 1 .. n + m /\ ~(n + i <= n) /\ (n + i) - n = i
            /\ i \in 1 .. m
        BY <2>4
      <4>2. q[i] = ReadAs(p[i])
        BY <1>3, <2>6, <2>8, <4>1
      <4>3. p[i] # Prefix[1]
        BY <1>2, <4>1 DEF Free
      <4> QED
        BY <4>2, <4>3 DEF ReadAs, Apart
    <3> QED
      BY <2>8, <3>1 DEF Free
  <2>12. Proper(Unescaped(u))
    BY <2>5, <2>10, <2>11 DEF Proper
  <2> QED
    BY <1>1, <2>12 DEF Suits
<1> QED
  BY <1>4, <1>5

LEMMA NextSuits ==
    ASSUME Apart, NEW mods, Words(mods), NEW t \in Redirects, NEW args, NEW n \in Nat \ {0},
           Number[args[1]] = n, n > 1 => Spelled(n - 1),
           NEW dest \in Text, dest = Tail(args), Free(FlattenSeq(mods)), Free(dest)
    PROVE  Suits(NextLocation(t, NextPath(mods, t, args)))
<1>1. PICK f \in Text : f = FlattenSeq(mods)
  BY WordsType
<1>2. t \in Names /\ "get" \in Names
  BY DEF Names
<1>3. PICK s \in Segment : s = Numeral(n - 1)
  BY n - 1 \in Nat, NumeralSegment
<1>4. ASSUME n > 1 PROVE s # Prefix[1]
  <2>1. s \in DOMAIN Number
    BY <1>3, <1>4, NumeralOf
  <2> QED
    BY <2>1 DEF Apart
<1>5. <<t, s>> \in Text /\ <<"get">> \in Text
  BY <1>2, FreeNames, ShortText
<1>6. <<t, s>> \o dest \in Text
  BY <1>5, ConcatText
<1>7. PICK g \in Text : g = IF n > 1 THEN <<t, s>> \o dest
                           ELSE IF dest # <<>> THEN dest ELSE <<"get">>
  BY <1>5, <1>6
<1>8. Free(g)
  <2>1. CASE n > 1
    <3>1. PICK a \in Text : a = <<t, s>>
      BY <1>5
    <3>2. t \in Segment /\ t # Prefix[1] /\ s # Prefix[1]
      BY <1>2, <1>4, <2>1, FreeNames
    <3>3. Free(a)
      BY <3>1, <3>2, FreeShort
    <3>4. g = a \o dest
      BY <1>7, <2>1, <3>1
    <3> QED
      BY <3>3, <3>4, FreeConcat
  <2>2. CASE ~(n > 1) /\ dest # <<>>
    BY <1>7, <2>2
  <2>3. CASE ~(n > 1) /\ dest = <<>>
    BY <1>2, <1>7, <2>3, FreeNames
  <2> QED
    BY <2>1, <2>2, <2>3
<1>9. NextPath(mods, t, args) = f \o g
  BY <1>1, <1>3, <1>7 DEF NextPath, buildModifierPrefix
<1>10. PICK p \in Text : p = NextPath(mods, t, args) /\ Free(p)
  <2>1. f \o g \in Text /\ Free(f \o g)
    BY <1>1, <1>8, ConcatText, FreeConcat
  <2> QED
    BY ONLY <1>9, <2>1
<1>11. CASE t = "absolute-redirect"
  <2>1. NextLocation(t, p) = There("self", Prefix \o p)
    BY <1>11 DEF NextLocation, doRedirect, There
  <2>2. There("self", Prefix \o p).path = Prefix \o p
    BY HereText
  <2>3. Suits(There("self", Prefix \o p))
    BY <1>10, <2>2 DEF Suits, Proper
  <2> QED
    BY ONLY <1>10, <2>1, <2>3
<1>12. CASE t # "absolute-redirect"
  <2>1. NextLocation(t, p) = Unescaped(Prefix \o p)
    <3>1. doRedirect(Here(p)).path = Prefix \o p
      BY DEF doRedirect, Here
    <3> QED
      BY <1>12, <3>1 DEF NextLocation
  <2>2. Suits(Unescaped(Prefix \o p))
    BY <1>10, UnescapedSuits
  <2> QED
    BY ONLY <1>10, <2>1, <2>2
<1> QED
  BY <1>11, <1>12

LEMMA LinksSuits ==
    ASSUME Apart, Written, Free(path)
    PROVE  Suits(doRedirect(Here(Append(path, "0"))))
<1>1. PICK q \in Text : q = path
  BY PathText
<1>2. "0" \in Names
  BY DEF Names
<1>3. PICK z \in Text : z = <<"0">> /\ Free(z)
  BY <1>2, FreeNames, ShortText
<1>4. "0" \in Segment
  BY <1>2, FreeNames
<1>5. Append(q, "0") = q \o z
  <2>1. q \in Seq(Segment)
    BY DEF Text
  <2> QED
    BY <1>3, <1>4, <2>1, AppendIsConcat
<1>6. PICK a \in Text : a = q \o z /\ Free(a)
  <2>1. Free(q)
    BY <1>1
  <2> QED
    BY <1>3, <2>1, ConcatText, FreeConcat
<1>7. Suits(doRedirect(Here(a)))
  BY <1>6, HereSuits
<1>8. Append(path, "0") = a
  BY ONLY <1>1, <1>5, <1>6
<1> QED
  BY ONLY <1>7, <1>8

LEMMA StepInside ==
    ASSUME Countable, Apart, Prefix # <<>>, Written, Checked, Unmixed, [Next]_vars
    PROVE  Unmixed' /\ Kept
<1>1. ASSUME NEW code, NEW loc, Answer(code, loc), Suits(loc) PROVE Unmixed' /\ Kept
  BY <1>1, Settles
<1>2. ASSUME NEW code, Respond(code) PROVE Unmixed' /\ Kept
  BY <1>1, <1>2, NowhereSuits DEF Respond
<1>3. ASSUME url' = url, pc # "done" \/ pc' = "done" PROVE Unmixed' /\ Kept
  <2>1. Once(url)' <=> Once(url)
    BY <1>3 DEF Once, Free
  <2> QED
    BY <1>3, <2>1 DEF Unmixed, Kept
<1>4. Requested => Free(path)
  BY DEF Requested, Unmixed, Once, path
<1>5. CASE OutsidePrefix \/ Direct \/ DispatchOther \/ MixAnswer
  BY <1>2, <1>5 DEF OutsidePrefix, Direct, DispatchOther, MixAnswer
<1>6. CASE Cookies \/ DispatchCookies
  BY <1>1, <1>6, CookiesSuits DEF Cookies, DispatchCookies
<1>7. CASE Status \/ DispatchStatus
  BY <1>1, <1>7, LocationSuits DEF Status, DispatchStatus
<1>8. CASE Links
  <2>1. Suits(doRedirect(Here(Append(path, "0"))))
    BY <1>4, <1>8, LinksSuits DEF Links
  <2>2. \E code, loc : /\ Answer(code, loc)
                       /\ loc = Nowhere \/ loc = doRedirect(Here(Append(path, "0")))
    BY <1>8 DEF Links
  <2> QED
    BY <1>1, <2>1, <2>2, NowhereSuits
<1>9. CASE RedirectTo \/ DispatchRedirectTo
  <2>1. CASE query \in Targets
    <3>1. PICK a \in RedirectToAnswers(query) : \E code : Answer(code, a[2])
      BY <1>9, <2>1 DEF RedirectTo, DispatchRedirectTo
    <3>2. IsPrefix(Prefix, url.path) /\ Once(url)
      BY <1>9 DEF RedirectTo, Requested, DispatchRedirectTo, Dispatch, Checked, OnPipeline,
                  Unmixed
    <3>3. IsRedirectTo(path) \/ Dispatch(<<"redirect-to">>)
      BY <1>9 DEF RedirectTo, DispatchRedirectTo
    <3>4. Suits(a[2])
      BY <2>1, <3>2, <3>3, RedirectToSuits
    <3> QED
      BY <1>1, <3>1, <3>4
  <2>2. CASE query \notin Targets
    <3>1. PICK code : Answer(code, Nowhere)
      BY <1>9, <2>2 DEF RedirectTo, DispatchRedirectTo
    <3> QED
      BY <1>1, <3>1, NowhereSuits
  <2> QED
    BY <2>1, <2>2
<1>10. CASE handleRedirect
  <2>1. Requested /\ IsRedirect(path)
    BY <1>10 DEF handleRedirect
  <2>3. PICK n : n = NumberOf(path[2])
    OBVIOUS
  <2>4. CASE n < 1
    BY <1>2, <1>10, <2>3, <2>4 DEF handleRedirect
  <2>5. CASE ~(n < 1)
    <3>1. PICK relative \in BOOLEAN : Answer(302, doRedirect(redirectLocation(relative, n - 1)))
      BY <1>10, <2>3, <2>5 DEF handleRedirect
    <3>2. path[2] \in DOMAIN Number /\ n = Number[path[2]]
      BY <2>3, <2>5 DEF NumberOf
    <3>3. n >= 1
      <4>1. n \in Nat
        BY <3>2, PipelineAssumption
      <4> QED
        BY ONLY <2>5, <4>1
    <3>4. PICK m \in Nat : m = n - 1 /\ (m > 0 => Spelled(m))
      BY <2>1, <3>2, <3>3, CountDown DEF Countable
    <3>5. Suits(doRedirect(redirectLocation(relative, m)))
      BY <2>1, <3>4, OutsideSuits
    <3>6. Answer(302, doRedirect(redirectLocation(relative, m)))
      BY <3>1, <3>4
    <3> QED
      BY <1>1, <3>5, <3>6
  <2> QED
    BY <2>4, <2>5
<1>11. CASE dispatchRedirectTerminal
  <2>1. PICK t \in Redirects : pc = "dispatch" /\ parsed.name = <<t>>
    BY <1>11 DEF dispatchRedirectTerminal, Dispatch
  <2>2. PICK mods, args : mods = parsed.mods /\ args = parsed.args
    OBVIOUS
  <2>3. PICK n : n = IF args = <<>> THEN 0 ELSE NumberOf(args[1])
    OBVIOUS
  <2>4. parsed.name[1] = t
    BY <2>1
  <2>5. CASE n \notin 1 .. MaxRedirects
    <3>1. Respond(Overridden(400))
      BY <1>11, <2>2, <2>3, <2>5 DEF dispatchRedirectTerminal
    <3> QED
      BY <1>2, <3>1
  <2>6. CASE n \in 1 .. MaxRedirects
    <3>1. Answer(Overridden(302), NextLocation(t, NextPath(mods, t, args)))
      BY <1>11, <2>2, <2>3, <2>4, <2>6 DEF dispatchRedirectTerminal
    <3>2. MaxRedirects \in Nat
      BY PipelineAssumption
    <3>3. n \in Nat \ {0}
      BY ONLY <2>6, <3>2
    <3>4. args # <<>> /\ n = NumberOf(args[1])
      BY <2>3, <3>3
    <3>5. args[1] \in DOMAIN Number /\ n = Number[args[1]]
      BY <3>3, <3>4 DEF NumberOf
    <3>6. n > 1 => Spelled(n - 1)
      <4>1. Below(args[1])
        BY <2>1, <2>2, <2>4, <2>6, <3>4 DEF Countable
      <4>2. n - 1 > 0 => Spelled(n - 1)
        BY <3>3, <3>5, <4>1, CountDown
      <4> QED
        BY <3>3, <4>2
    <3>7. /\ Words(mods) /\ args[1] \in Segment /\ Tail(args) \in Text
          /\ args = <<args[1]>> \o Tail(args)
          /\ Redirecting(path, mods, t, args)
      BY <2>1, <2>2, <3>4, Dispatched
    <3>8. PICK dest \in Text : dest = Tail(args)
      BY <3>7
    <3>9. PICK f \in Text : f = FlattenSeq(mods)
      BY <3>7, WordsType
    <3>10. PICK h \in Text : h = <<args[1]>>
      BY <3>7, ShortText
    <3>11. PICK b \in Text : b = args
      BY <3>7, <3>10, ConcatText
    <3>12. PICK c \in Text : c = <<t>>
      BY NameSegment, ShortText
    <3>13. Free(f \o (c \o b)) /\ b = h \o dest
      <4>1. Free(path)
        BY <2>1 DEF Checked, OnPipeline, Unmixed, Once, path
      <4>2. path = f \o (c \o b)
        BY <3>7, <3>9, <3>11, <3>12 DEF Redirecting
      <4>3. b = h \o dest
        BY <3>7, <3>8, <3>10, <3>11
      <4> QED
        BY ONLY <4>1, <4>2, <4>3
    <3>14. Free(f) /\ Free(b)
      BY <3>13, ConcatText, FreeConcat
    <3>15. Free(dest)
      BY <3>13, <3>14, FreeConcat
    <3>16. Suits(NextLocation(t, NextPath(mods, t, args)))
      <4>1. Words(mods) /\ Free(FlattenSeq(mods)) /\ Number[args[1]] = n
        BY <3>5, <3>7, <3>9, <3>14
      <4> QED
        BY <3>3, <3>6, <3>8, <3>15, <4>1, NextSuits
    <3> QED
      BY <1>1, <3>1, <3>16
  <2> QED
    BY <2>5, <2>6
<1>12. CASE Validate
  BY <1>2, <1>3, <1>12 DEF Validate, Requested
<1>13. CASE Mix
  BY <1>2, <1>3, <1>13 DEF Mix, Requested
<1>14. CASE Delay \/ Cancelled
  BY <1>3, <1>14 DEF Delay, Cancelled
<1>15. CASE CheckMethod
  BY <1>2, <1>3, <1>15 DEF CheckMethod
<1>16. CASE Done \/ UNCHANGED vars
  <2>1. url' = url /\ pc' = pc
    BY <1>16 DEF Done, vars
  <2> QED
    BY <1>3, <2>1
<1> QED
  BY <1>5, <1>6, <1>7, <1>8, <1>9, <1>10, <1>11, <1>12, <1>13, <1>14, <1>15, <1>16 DEF Next

LEMMA InitUnmixed == ASSUME Apart, Init PROVE Unmixed
<1>1. PICK p \in Paths : url = Here(Prefix \o p)
  BY DEF Init
<1>2. p \in Text /\ Free(p)
  <2>1. p \in Text
    BY PipelineAssumption, StringText
  <2> QED
    BY <2>1 DEF Apart
<1>3. url.path = Prefix \o p
  BY <1>1, HereText
<1>4. SubSeq(url.path, Len(Prefix) + 1, Len(url.path)) = p
  BY <1>2, <1>3, Strips
<1> QED
  BY <1>2, <1>4 DEF Unmixed, Once

(* Wherever the server sends a client itself, or to a path that it gave with a *)
(* slash in front, is under the prefix, and under it once, whatever clients    *)
(* read for '?', '#' and '%'.  A URL with a host, a relative path or one that  *)
(* climbs may lead out of it, and so do absolute chains outside the pipeline.  *)
THEOREM InsideHolds ==
    (Prefix = <<>> \/ Apart) => (Spec /\ []Countable => RedirectsInside)
<1>1. ASSUME Prefix = <<>> PROVE Spec => RedirectsInside
  <2>1. Written' => [url' # url =>
                        \/ Inside(url')
                        \/ SentAway
                        \/ IsRedirect(path) /\ url'.host = "self"]_vars
    <3> SUFFICES ASSUME Written' PROVE Inside(url')
      OBVIOUS
    <3>1. PICK u \in Text : u = url'.path
      BY DEF Written
    <3>2. <<>> \o u = u /\ <<>> \in Seq(Segment) /\ u \in Seq(Segment)
      BY ConcatEmptySeq, EmptySeq DEF Text
    <3>3. IsPrefix(<<>>, <<>> \o u)
      BY ONLY <3>2, PrefixOfConcat
    <3> QED
      BY <1>1, <3>1, <3>2, <3>3 DEF Inside
  <2> QED
    BY <2>1, AlwaysWritten, PTL DEF Spec, RedirectsInside, Inside
<1>2. ASSUME Apart, Prefix # <<>> PROVE Spec /\ []Countable => RedirectsInside
  <2>1. Init => Unmixed
    BY <1>2, InitUnmixed
  <2>2. Countable /\ Written /\ Checked /\ Unmixed /\ [Next]_vars => Unmixed' /\ Kept
    BY <1>2, StepInside
  <2>3. Kept => [url' # url =>
                    \/ /\ IsPrefix(Prefix, url'.path)
                       /\ IsPrefix(Prefix \o Prefix, url'.path) => Prefix = <<>>
                    \/ SentAway
                    \/ IsRedirect(path) /\ url'.host = "self"]_vars
    BY DEF Kept, Inside
  <2> QED
    BY <2>1, <2>2, <2>3, AlwaysWritten, AlwaysChecked, PTL DEF Spec, RedirectsInside
<1> QED
  BY <1>1, <1>2
=============================================================================
