---------------------------- MODULE SequenceFacts ----------------------------
(* Induction over numbers, without a predicate as a parameter, and what it     *)
(* shows of recursive functions and of FlattenSeq.                             *)
EXTENDS Integers, SequencesExt, SequenceTheorems, WellFoundedInduction, TLAPS

(* A set of numbers that has a member has a least one ...                      *)
LEMMA Least ==
    ASSUME NEW T, T \subseteq Nat, T # {}
    PROVE  \E x \in T : \A y \in T : x <= y
<1> DEFINE R == OpToRel(<, Nat)
<1>1. PICK x \in T : \A y \in T : ~(<<y, x>> \in R)
  <2>1. IsWellFoundedOn(R, Nat)
    BY NatLessThanWellFounded
  <2> HIDE DEF R
  <2> QED
    BY <2>1, WFMin
<1>2. \A y \in T : ~(y < x)
  BY <1>1 DEF OpToRel
<1> QED
  BY <1>2

(* ... so one that has 0, and with every number the next, has all of them ...  *)
LEMMA Ascend ==
    ASSUME NEW n \in Nat, NEW G, 0 \in G, \A k \in 0 .. n - 1 : k \in G => k + 1 \in G
    PROVE  0 .. n \subseteq G
<1> DEFINE T == (0 .. n) \ G
<1> SUFFICES ASSUME T # {} PROVE FALSE
  OBVIOUS
<1>1. T \subseteq Nat
  OBVIOUS
<1>2. PICK x \in T : \A y \in T : x <= y
  <2> HIDE DEF T
  <2> QED
    BY <1>1, Least
<1>3. x # 0 /\ x - 1 \in 0 .. n - 1 /\ x - 1 \notin T
  BY <1>2
<1> QED
  BY <1>3

(* ... and one that has a number once it has all the smaller ones, too.        *)
LEMMA Induct ==
    ASSUME NEW G, \A n \in Nat : (\A k \in 0 .. n - 1 : k \in G) => n \in G
    PROVE  Nat \subseteq G
<1> DEFINE T == Nat \ G
<1> SUFFICES ASSUME T # {} PROVE FALSE
  OBVIOUS
<1>1. T \subseteq Nat
  OBVIOUS
<1>2. PICK x \in T : \A y \in T : x <= y
  <2> HIDE DEF T
  <2> QED
    BY <1>1, Least
<1>3. \A k \in 0 .. x - 1 : k \in G
  BY <1>2
<1> QED
  BY <1>2, <1>3

(* Functions that start with a and go on with F, which stays in S.             *)
Closed(F, n, S) == \A i \in 1 .. n : \A x \in S : F[<<i, x>>] \in S
Iterates(f, n, a, F) == f[0] = a /\ \A i \in 1 .. n : f[i] = F[<<i, f[i - 1]>>]

(* There is one.                                                               *)
LEMMA Recursion ==
    ASSUME NEW n \in Nat, NEW S, NEW a \in S, NEW F, Closed(F, n, S)
    PROVE  \E f \in [0 .. n -> S] : Iterates(f, n, a, F)
<1> USE DEF Closed, Iterates
<1> DEFINE Good(m) == \E f \in [0 .. m -> S] :
                         f[0] = a /\ \A i \in 1 .. m : f[i] = F[<<i, f[i - 1]>>]
           G == {m \in 0 .. n : Good(m)}
<1>1. 0 \in G
  <2> DEFINE g == [i \in 0 .. 0 |-> a]
  <2>1. g \in [0 .. 0 -> S] /\ g[0] = a /\ \A i \in 1 .. 0 : g[i] = F[<<i, g[i - 1]>>]
    OBVIOUS
  <2>2. Good(0)
    <3> HIDE DEF g
    <3> QED
      BY <2>1
  <2> QED
    BY <2>2
<1>2. ASSUME NEW m \in 0 .. n - 1, m \in G PROVE m + 1 \in G
  <2>1. PICK f \in [0 .. m -> S] : f[0] = a /\ \A i \in 1 .. m : f[i] = F[<<i, f[i - 1]>>]
    BY <1>2
  <2> DEFINE g == [i \in 0 .. m + 1 |-> IF i <= m THEN f[i] ELSE F[<<i, f[i - 1]>>]]
  <2>2. g \in [0 .. m + 1 -> S]
    OBVIOUS
  <2>3. g[0] = a /\ \A i \in 1 .. m + 1 : g[i] = F[<<i, g[i - 1]>>]
    BY <2>1
  <2>4. Good(m + 1)
    BY <2>2, <2>3
  <2> QED
    BY <2>4
<1>3. n \in G
  <2> HIDE DEF G
  <2> QED
    BY <1>1, <1>2, Ascend
<1> QED
  BY <1>3

-----------------------------------------------------------------------------
(* FlattenSeq(s) is the last of the sequences that start with the empty one    *)
(* and grow by a member of s each.                                             *)
Flattening(s, n, f) == f[0] = <<>> /\ \A i \in 1 .. n : f[i] = f[i - 1] \o s[i]

(* There is such a growth of sequences ...                                     *)
LEMMA FlattenGrows ==
    ASSUME NEW S, NEW n \in Nat, NEW s, \A i \in 1 .. n : s[i] \in Seq(S)
    PROVE  \E f \in [0 .. n -> Seq(S)] : Flattening(s, n, f)
<1> DEFINE Q == Seq(S)
           F == [z \in (1 .. n) \X Q |-> z[2] \o s[z[1]]]
<1>1. \A i \in 1 .. n : \A x \in Q : x \o s[i] \in Q
  BY ConcatProperties
<1>2. <<>> \in Q
  BY EmptySeq
<1> HIDE DEF Q
<1>3. \A i \in 1 .. n : \A x \in Q : F[<<i, x>>] = x \o s[i]
  OBVIOUS
<1>4. \A i \in 1 .. n : \A x \in Q : F[<<i, x>>] \in Q
  BY <1>1, <1>3
<1> HIDE DEF F
<1>5. PICK f \in [0 .. n -> Q] : Iterates(f, n, <<>>, F)
  BY <1>2, <1>4, Recursion DEF Closed
<1>6. ASSUME NEW i \in 1 .. n PROVE f[i] = f[i - 1] \o s[i]
  <2>1. f[i - 1] \in Q
    BY <1>5
  <2>2. f[i] = F[<<i, f[i - 1]>>]
    BY <1>5 DEF Iterates
  <2> QED
    BY <1>3, <2>1, <2>2
<1>7. f[0] = <<>>
  BY <1>5 DEF Iterates
<1> QED
  BY <1>6, <1>7 DEF Flattening, Q

(* ... and only one.                                                           *)
LEMMA FlattenUnique ==
    ASSUME NEW n \in Nat, NEW s, NEW f, NEW g, Flattening(s, n, f), Flattening(s, n, g)
    PROVE  \A i \in 0 .. n : f[i] = g[i]
<1> DEFINE G == {m \in 0 .. n : f[m] = g[m]}
<1>1. 0 \in G
  BY DEF Flattening
<1>2. ASSUME NEW m \in 0 .. n - 1, m \in G PROVE m + 1 \in G
  <2>1. m + 1 \in 1 .. n /\ (m + 1) - 1 = m /\ f[m] = g[m]
    BY <1>2
  <2>2. f[m + 1] = f[m] \o s[m + 1] /\ g[m + 1] = g[m] \o s[m + 1]
    BY <2>1 DEF Flattening
  <2>3. f[m + 1] = g[m + 1]
    BY <2>1, <2>2
  <2> QED
    BY <2>1, <2>3
<1>3. 0 .. n \subseteq G
  <2> HIDE DEF G
  <2> QED
    BY <1>1, <1>2, Ascend
<1> QED
  BY <1>3

(* FlattenSeq is where it ends.                                                *)
LEMMA FlattenIsGrown ==
    ASSUME NEW S, NEW n \in Nat \ {0}, NEW s, Len(s) = n, \A i \in 1 .. n : s[i] \in Seq(S),
           NEW f, Flattening(s, n, f)
    PROVE  FlattenSeq(s) = f[n]
<1> DEFINE Is(g) == g = [i \in 1 .. n |-> IF i = 1 THEN s[i] ELSE g[i - 1] \o s[i]]
           flatten == CHOOSE g : Is(g)
           h == [i \in 1 .. n |-> f[i]]
<1>1. f[1] = s[1]
  <2>1. 1 \in 1 .. n /\ 1 - 1 = 0
    OBVIOUS
  <2>2. f[1] = <<>> \o s[1]
    BY <2>1 DEF Flattening
  <2> QED
    BY <2>1, <2>2, ConcatEmptySeq
<1>2. Is(h)
  <2> SUFFICES ASSUME NEW i \in 1 .. n
               PROVE  f[i] = IF i = 1 THEN s[i] ELSE h[i - 1] \o s[i]
    OBVIOUS
  <2>1. CASE i # 1
    <3>1. f[i] = f[i - 1] \o s[i]
      BY DEF Flattening
    <3>2. h[i - 1] = f[i - 1]
      BY <2>1
    <3> QED
      BY <2>1, <3>1, <3>2
  <2> QED
    BY <1>1, <2>1
<1>3. Is(flatten)
  <2> HIDE DEF h, Is
  <2> QED
    BY <1>2
<1>4. FlattenSeq(s) = flatten[n]
  BY DEF FlattenSeq
<1> HIDE DEF flatten
<1> DEFINE g == [i \in 0 .. n |-> IF i = 0 THEN <<>> ELSE flatten[i]]
<1>5. ASSUME NEW i \in 1 .. n PROVE g[i] = g[i - 1] \o s[i]
  <2>1. flatten[i] = IF i = 1 THEN s[i] ELSE flatten[i - 1] \o s[i]
    BY <1>3
  <2>2. g[i] = flatten[i] /\ g[i - 1] = IF i = 1 THEN <<>> ELSE flatten[i - 1]
    OBVIOUS
  <2>3. <<>> \o s[i] = s[i]
    BY ConcatEmptySeq
  <2> HIDE DEF g
  <2> QED
    BY <2>1, <2>2, <2>3
<1>6. g[0] = <<>> /\ g[n] = flatten[n]
  OBVIOUS
<1> HIDE DEF g
<1>7. Flattening(s, n, g)
  BY <1>5, <1>6 DEF Flattening
<1> QED
  BY <1>4, <1>6, <1>7, FlattenUnique

(* The sequence that FlattenSeq makes, as it grows.                            *)
LEMMA FlattenDef ==
    ASSUME NEW S, NEW s \in Seq(Seq(S))
    PROVE  \E f \in [0 .. Len(s) -> Seq(S)] :
              Flattening(s, Len(s), f) /\ FlattenSeq(s) = f[Len(s)]
<1>1. PICK n \in Nat : n = Len(s)
  BY LenProperties
<1>2. \A i \in 1 .. n : s[i] \in Seq(S)
  BY <1>1, ElementOfSeq
<1>3. PICK f \in [0 .. n -> Seq(S)] : Flattening(s, n, f)
  BY <1>2, FlattenGrows
<1>4. CASE n = 0
  <2>1. s = <<>>
    BY <1>1, <1>4, EmptySeq
  <2>2. FlattenSeq(s) = s
    BY <1>1, <1>4 DEF FlattenSeq
  <2> QED
    BY <1>1, <1>3, <1>4, <2>1, <2>2 DEF Flattening
<1>5. CASE n # 0
  BY <1>1, <1>2, <1>3, <1>5, FlattenIsGrown
<1> QED
  BY <1>4, <1>5

(* It is a sequence of what its parts are sequences of ...                     *)
LEMMA FlattenType ==
    ASSUME NEW S, NEW s \in Seq(Seq(S))
    PROVE  FlattenSeq(s) \in Seq(S)
<1>1. PICK f \in [0 .. Len(s) -> Seq(S)] : FlattenSeq(s) = f[Len(s)]
  BY FlattenDef
<1>2. Len(s) \in Nat
  BY LenProperties
<1> QED
  BY <1>1, <1>2

(* ... wherever it comes from ...                                              *)
LEMMA FlattenIs ==
    ASSUME NEW S, NEW s \in Seq(Seq(S)), NEW n \in Nat, n = Len(s), NEW f, Flattening(s, n, f)
    PROVE  FlattenSeq(s) = f[n]
<1>1. PICK g \in [0 .. Len(s) -> Seq(S)] : Flattening(s, Len(s), g) /\ FlattenSeq(s) = g[Len(s)]
  BY FlattenDef
<1>2. \A i \in 0 .. n : f[i] = g[i]
  BY <1>1, FlattenUnique
<1> QED
  BY <1>1, <1>2

(* ... empty if there are no parts ...                                         *)
LEMMA FlattenEmpty == FlattenSeq(<<>>) = <<>>
  BY DEF FlattenSeq

(* One more in front.                                                          *)
LEMMA ConsProperties ==
    ASSUME NEW Q, NEW m \in Q, NEW t \in Seq(Q)
    PROVE  /\ <<m>> \o t \in Seq(Q) /\ Len(<<m>> \o t) = Len(t) + 1
           /\ (<<m>> \o t)[1] = m /\ \A i \in 1 .. Len(t) : (<<m>> \o t)[i + 1] = t[i]
<1>1. <<m>> \in Seq(Q) /\ Len(<<m>>) = 1 /\ <<m>>[1] = m
  OBVIOUS
<1>2. Len(t) \in Nat
  BY LenProperties
<1> DEFINE s == <<m>> \o t
<1>3. /\ s \in Seq(Q) /\ Len(s) = Len(t) + 1
      /\ \A i \in 1 .. Len(t) + 1 : s[i] = IF i <= 1 THEN <<m>>[i] ELSE t[i - 1]
  BY <1>1, <1>2, ConcatProperties
<1> HIDE DEF s
<1>4. s[1] = m /\ \A i \in 1 .. Len(t) : s[i + 1] = t[i]
  BY <1>1, <1>2, <1>3
<1> QED
  BY <1>3, <1>4 DEF s

(* The parts are sequences.                                                    *)
Pieces(t, n, S) == \A i \in 1 .. n : t[i] \in Seq(S)

(* s is t with m in front.                                                     *)
Behind(s, m, t, n) == s[1] = m /\ \A i \in 1 .. n : s[i + 1] = t[i]

(* What grows with m in front as f does.                                       *)
Led(m, n, f) == [i \in 0 .. n + 1 |-> IF i = 0 THEN <<>> ELSE m \o f[i - 1]]

(* What grows behind another part has that part in front all the time ...      *)
LEMMA ConsGrows ==
    ASSUME NEW S, NEW n \in Nat, NEW m \in Seq(S), NEW t, Pieces(t, n, S),
           NEW s, Behind(s, m, t, n),
           NEW f \in [0 .. n -> Seq(S)], Flattening(t, n, f)
    PROVE  Flattening(s, n + 1, Led(m, n, f)) /\ Led(m, n, f)[n + 1] = m \o f[n]
<1> DEFINE g == Led(m, n, f)
<1>1. g[0] = <<>> /\ g[n + 1] = m \o f[n] /\ \A i \in 0 .. n : g[i + 1] = m \o f[i]
  BY DEF Led
<1> HIDE DEF g
<1>2. ASSUME NEW i \in 1 .. n + 1 PROVE g[i] = g[i - 1] \o s[i]
  <2>1. CASE i = 1
    <3>1. 0 \in 0 .. n /\ 0 + 1 = 1 /\ f[0] = <<>>
      BY DEF Flattening
    <3>2. g[1] = m \o <<>>
      BY <1>1, <3>1
    <3>3. m \o <<>> = m /\ <<>> \o m = m
      BY ConcatEmptySeq
    <3>4. i - 1 = 0 /\ s[i] = m /\ g[i] = m \o <<>>
      BY <2>1, <3>2 DEF Behind
    <3> QED
      BY <1>1, <3>3, <3>4
  <2>2. CASE i # 1
    <3>1. PICK k \in 1 .. n : i = k + 1
      BY <2>2
    <3>2. k - 1 \in 0 .. n /\ i - 1 = (k - 1) + 1 /\ k \in 0 .. n
      BY <3>1
    <3>3. g[i] = m \o f[k] /\ g[i - 1] = m \o f[k - 1] /\ s[i] = t[k]
      BY <1>1, <3>1, <3>2 DEF Behind
    <3>4. f[k] = f[k - 1] \o t[k]
      BY DEF Flattening
    <3>5. PICK a \in Seq(S), b \in Seq(S) : a = f[k - 1] /\ b = t[k]
      BY <3>2 DEF Pieces
    <3>6. (m \o a) \o b = m \o (a \o b)
      BY ONLY ConcatAssociative, m \in Seq(S), a \in Seq(S), b \in Seq(S)
    <3> QED
      BY <3>3, <3>4, <3>5, <3>6
  <2> QED
    BY <2>1, <2>2
<1>3. Flattening(s, n + 1, g)
  BY <1>1, <1>2 DEF Flattening
<1> QED
  BY <1>1, <1>3 DEF g

(* ... so it is made of the first part and the others.                         *)
LEMMA FlattenCons ==
    ASSUME NEW S, NEW m \in Seq(S), NEW t \in Seq(Seq(S))
    PROVE  FlattenSeq(<<m>> \o t) = m \o FlattenSeq(t)
<1>1. PICK n \in Nat : n = Len(t)
  BY LenProperties
<1>2. PICK f \in [0 .. n -> Seq(S)] : Flattening(t, n, f) /\ FlattenSeq(t) = f[n]
  BY <1>1, FlattenDef
<1> DEFINE s == <<m>> \o t
<1>3. /\ s \in Seq(Seq(S)) /\ Len(s) = n + 1
      /\ Behind(s, m, t, n)
  BY <1>1, ConsProperties DEF Behind
<1> HIDE DEF s
<1>4. Pieces(t, n, S)
  BY <1>1, ElementOfSeq DEF Pieces
<1> DEFINE g == Led(m, n, f)
<1>5. Flattening(s, n + 1, g) /\ g[n + 1] = m \o f[n]
  BY <1>2, <1>3, <1>4, ConsGrows
<1> HIDE DEF g
<1>6. PICK k \in Nat : k = n + 1
  OBVIOUS
<1>7. FlattenSeq(s) = g[k]
  BY <1>3, <1>5, <1>6, FlattenIs
<1> QED
  BY <1>2, <1>5, <1>6, <1>7 DEF s

-----------------------------------------------------------------------------
(* The end of a sequence ...                                                   *)
LEMMA SuffixProperties ==
    ASSUME NEW S, NEW p \in Seq(S), NEW d \in 0 .. Len(p)
    PROVE  /\ SubSeq(p, d + 1, Len(p)) \in Seq(S)
           /\ Len(SubSeq(p, d + 1, Len(p))) = Len(p) - d
           /\ \A i \in 1 .. Len(p) - d : SubSeq(p, d + 1, Len(p))[i] = p[d + i]
<1>1. PICK n \in Nat : n = Len(p)
  BY LenProperties
<1>2. \A i \in d + 1 .. n : p[i] \in S
  BY <1>1, ElementOfSeq
<1> DEFINE q == SubSeq(p, d + 1, n)
<1>3. /\ q \in Seq(S) /\ Len(q) = IF d + 1 <= n THEN n - (d + 1) + 1 ELSE 0
      /\ \A i \in 1 .. n - (d + 1) + 1 : q[i] = p[(d + 1) + i - 1]
  BY <1>1, <1>2, SubSeqProperties
<1> HIDE DEF q
<1>4. q \in Seq(S) /\ Len(q) = n - d /\ \A i \in 1 .. n - d : q[i] = p[d + i]
  BY <1>1, <1>3
<1> QED
  BY <1>1, <1>4 DEF q

(* ... and what is cut from it.                                                *)
LEMMA SuffixSubSeq ==
    ASSUME NEW S, NEW p \in Seq(S), NEW d \in 0 .. Len(p), NEW q, q = SubSeq(p, d + 1, Len(p)),
           NEW i \in 1 .. Len(q) + 1, NEW j \in i - 1 .. Len(q)
    PROVE  SubSeq(p, d + i, d + j) = SubSeq(q, i, j)
<1>1. PICK n \in Nat : n = Len(p)
  BY LenProperties
<1>2. q \in Seq(S) /\ Len(q) = n - d /\ \A k \in 1 .. n - d : q[k] = p[d + k]
  BY <1>1, SuffixProperties
<1>3. i \in Int /\ j \in Int /\ d \in Int /\ i >= 1 /\ j <= n - d /\ j >= i - 1
  BY <1>1, <1>2
<1>4. \A k \in i .. j : q[k] \in S
  BY <1>2, <1>3, ElementOfSeq
<1>5. \A k \in d + i .. d + j : p[k] \in S
  BY <1>1, <1>3, ElementOfSeq
<1> DEFINE a == SubSeq(p, d + i, d + j)
           b == SubSeq(q, i, j)
<1>6. /\ b \in Seq(S) /\ Len(b) = IF i <= j THEN j - i + 1 ELSE 0
      /\ \A k \in 1 .. j - i + 1 : b[k] = q[i + k - 1]
  BY <1>3, <1>4, SubSeqProperties
<1>7. /\ a \in Seq(S) /\ Len(a) = IF d + i <= d + j THEN (d + j) - (d + i) + 1 ELSE 0
      /\ \A k \in 1 .. (d + j) - (d + i) + 1 : a[k] = p[(d + i) + k - 1]
  <2>1. d + i \in Int /\ d + j \in Int
    BY <1>3
  <2> QED
    BY <1>5, <2>1, SubSeqProperties
<1> HIDE DEF a, b
<1>8. Len(a) = Len(b)
  BY <1>3, <1>6, <1>7
<1>9. ASSUME NEW k \in 1 .. Len(a) PROVE a[k] = b[k]
  <2>1. k \in 1 .. j - i + 1 /\ k \in 1 .. (d + j) - (d + i) + 1 /\ i + k - 1 \in 1 .. n - d
        /\ (d + i) + k - 1 = d + (i + k - 1)
    BY <1>1, <1>2, <1>3, <1>6, <1>8
  <2> QED
    BY <1>2, <1>6, <1>7, <2>1
<1> QED
  BY <1>6, <1>7, <1>8, <1>9, SeqEqual DEF a, b

(* The beginning of a sequence ...                                             *)
LEMMA PrefixProperties ==
    ASSUME NEW S, NEW p \in Seq(S), NEW d \in 0 .. Len(p)
    PROVE  /\ SubSeq(p, 1, d) \in Seq(S)
           /\ Len(SubSeq(p, 1, d)) = d
           /\ \A i \in 1 .. d : SubSeq(p, 1, d)[i] = p[i]
<1>1. PICK n \in Nat : n = Len(p)
  BY LenProperties
<1>2. \A i \in 1 .. d : p[i] \in S
  BY <1>1, ElementOfSeq
<1> DEFINE q == SubSeq(p, 1, d)
<1>3. d \in Int
  BY <1>1
<1>4. /\ q \in Seq(S) /\ Len(q) = IF 1 <= d THEN d - 1 + 1 ELSE 0
      /\ \A i \in 1 .. d - 1 + 1 : q[i] = p[1 + i - 1]
  BY <1>2, <1>3, SubSeqProperties
<1> HIDE DEF q
<1>5. q \in Seq(S) /\ Len(q) = d /\ \A i \in 1 .. d : q[i] = p[i]
  BY <1>1, <1>4
<1> QED
  BY <1>5 DEF q

(* ... and its end are all of it.                                              *)
LEMMA SplitAt ==
    ASSUME NEW S, NEW p \in Seq(S), NEW d \in 0 .. Len(p)
    PROVE  SubSeq(p, 1, d) \o SubSeq(p, d + 1, Len(p)) = p
<1>1. PICK n \in Nat : n = Len(p)
  BY LenProperties
<1>2. 1 \in 1 .. Len(p) + 1 /\ d \in 1 - 1 .. Len(p) /\ Len(p) \in d .. Len(p)
  BY <1>1
<1>3. SubSeq(p, 1, d) \o SubSeq(p, d + 1, Len(p)) = SubSeq(p, 1, Len(p))
  BY <1>2, ConcatAdjacentSubSeq
<1> QED
  BY <1>3, SubSeqFull

(* What was put together, taken apart.                                         *)
LEMMA Halves ==
    ASSUME NEW S, NEW s \in Seq(S), NEW t \in Seq(S)
    PROVE  /\ Len(s \o t) = Len(s) + Len(t)
           /\ SubSeq(s \o t, 1, Len(s)) = s
           /\ SubSeq(s \o t, Len(s) + 1, Len(s) + Len(t)) = t
<1>1. PICK n \in Nat : n = Len(s)
  BY LenProperties
<1>2. PICK m \in Nat : m = Len(t)
  BY LenProperties
<1>3. PICK u : u = s \o t
  OBVIOUS
<1>4. /\ u \in Seq(S) /\ Len(u) = n + m
      /\ \A i \in 1 .. n + m : u[i] = IF i <= n THEN s[i] ELSE t[i - n]
  BY <1>1, <1>2, <1>3, ConcatProperties
<1>5. n \in 0 .. Len(u)
  BY <1>4
<1>6. SubSeq(u, 1, n) = s
  <2>1. SubSeq(u, 1, n) \in Seq(S) /\ Len(SubSeq(u, 1, n)) = n
        /\ \A i \in 1 .. n : SubSeq(u, 1, n)[i] = u[i]
    BY <1>4, <1>5, PrefixProperties
  <2>2. \A i \in 1 .. n : u[i] = s[i]
    BY <1>4
  <2> QED
    BY <1>1, <2>1, <2>2, SeqEqual
<1>7. SubSeq(u, n + 1, Len(u)) = t
  <2>1. SubSeq(u, n + 1, Len(u)) \in Seq(S) /\ Len(SubSeq(u, n + 1, Len(u))) = Len(u) - n
        /\ \A i \in 1 .. Len(u) - n : SubSeq(u, n + 1, Len(u))[i] = u[n + i]
    BY <1>4, <1>5, SuffixProperties
  <2>2. Len(u) - n = m /\ \A i \in 1 .. m : u[n + i] = t[i]
    BY <1>4
  <2> QED
    BY <1>2, <2>1, <2>2, SeqEqual
<1> QED
  BY <1>1, <1>2, <1>3, <1>4, <1>6, <1>7

(* A first element, and the others.                                            *)
LEMMA ConsTail ==
    ASSUME NEW S, NEW m \in S, NEW t \in Seq(S)
    PROVE  Tail(<<m>> \o t) = t
<1>1. PICK n \in Nat : n = Len(t)
  BY LenProperties
<1>2. <<m>> \in Seq(S) /\ Len(<<m>>) = 1
  OBVIOUS
<1>3. PICK u : u = <<m>> \o t
  OBVIOUS
<1>4. u \in Seq(S) /\ Len(u) = 1 + n
  BY <1>1, <1>2, <1>3, ConcatProperties
<1>5. SubSeq(u, 1 + 1, 1 + n) = t
  BY ONLY <1>1, <1>2, <1>3, t \in Seq(S), Halves
<1>6. u # <<>>
  BY <1>4, EmptySeq
<1>7. Tail(u) = SubSeq(u, 2, Len(u))
  BY <1>4, <1>6, TailIsSubSeq
<1> QED
  BY <1>3, <1>4, <1>5, <1>7

LEMMA HeadTail ==
    ASSUME NEW S, NEW s \in Seq(S), s # <<>>
    PROVE  /\ s[1] \in S /\ Tail(s) \in Seq(S) /\ Len(s) \in Nat \ {0}
           /\ Len(Tail(s)) = Len(s) - 1
           /\ s = <<s[1]>> \o Tail(s)
           /\ \A i \in 1 .. Len(s) - 1 : Tail(s)[i] = s[i + 1]
<1>1. PICK n \in Nat : n = Len(s)
  BY LenProperties
<1>2. n # 0
  BY <1>1, EmptySeq
<1>3. 1 \in 1 .. Len(s) /\ Len(s) \in 1 .. Len(s)
  BY <1>1, <1>2
<1>4. SubSeq(s, 1, Len(s)) = <<s[1]>> \o SubSeq(s, 1 + 1, Len(s))
  BY ONLY <1>3, s \in Seq(S), SubSeqRecursiveFirst
<1>5. Tail(s) = SubSeq(s, 2, Len(s))
  BY TailIsSubSeq
<1>6. SubSeq(s, 1, Len(s)) = s
  BY SubSeqFull
<1>7. s = <<s[1]>> \o Tail(s)
  BY <1>4, <1>5, <1>6
<1>8. s[1] \in S
  BY <1>3, ElementOfSeq
<1>9. Tail(s) \in Seq(S) /\ Len(Tail(s)) = Len(s) - 1
      /\ \A i \in 1 .. Len(s) - 1 : Tail(s)[i] = s[i + 1]
  BY HeadTailProperties
<1> QED
  BY <1>1, <1>2, <1>7, <1>8, <1>9

(* A sequence is a prefix of itself with more behind it ...                    *)
LEMMA PrefixOfConcat ==
    ASSUME NEW S, NEW s \in Seq(S), NEW t \in Seq(S)
    PROVE  IsPrefix(s, s \o t)
<1>1. PICK n \in Nat : n = Len(s)
  BY LenProperties
<1>2. PICK m \in Nat : m = Len(t)
  BY LenProperties
<1>3. Len(s \o t) = n + m /\ SubSeq(s \o t, 1, n) = s
  BY <1>1, <1>2, Halves
<1>4. SubSeq(s, 1, n) = s
  BY <1>1, SubSeqFull
<1> QED
  BY <1>1, <1>3, <1>4 DEF IsPrefix

(* ... and of nothing else.                                                    *)
LEMMA PrefixSplits ==
    ASSUME NEW S, NEW s \in Seq(S), NEW t \in Seq(S), IsPrefix(s, t)
    PROVE  /\ Len(s) \in 0 .. Len(t)
           /\ t = s \o SubSeq(t, Len(s) + 1, Len(t))
<1>1. PICK n \in Nat : n = Len(s)
  BY LenProperties
<1>2. PICK m \in Nat : m = Len(t)
  BY LenProperties
<1>3. n <= m /\ SubSeq(s, 1, n) = SubSeq(t, 1, n)
  BY <1>1, <1>2 DEF IsPrefix
<1>4. SubSeq(s, 1, n) = s
  BY <1>1, SubSeqFull
<1>5. n \in 0 .. Len(t)
  BY <1>1, <1>2, <1>3
<1>6. SubSeq(t, 1, n) \o SubSeq(t, n + 1, Len(t)) = t
  BY ONLY <1>5, t \in Seq(S), SplitAt
<1> QED
  BY <1>1, <1>3, <1>4, <1>5, <1>6

LEMMA Pair ==
    ASSUME NEW S, NEW a \in S, NEW b \in S
    PROVE  <<a>> \o <<b>> = <<a, b>>
<1>1. <<a>> \in Seq(S) /\ <<b>> \in Seq(S) /\ Len(<<a>>) = 1 /\ Len(<<b>>) = 1
  OBVIOUS
<1>2. PICK u : u = <<a>> \o <<b>>
  OBVIOUS
<1>3. u \in Seq(S) /\ Len(u) = 2 /\ u[1] = a /\ u[2] = b
  <2>1. u \in Seq(S) /\ Len(u) = 1 + 1
        /\ \A i \in 1 .. 1 + 1 : u[i] = IF i <= 1 THEN <<a>>[i] ELSE <<b>>[i - 1]
    BY <1>1, <1>2, ConcatProperties
  <2> QED
    BY <2>1
<1>4. PICK v : v = <<a, b>>
  OBVIOUS
<1>5. v \in Seq(S) /\ Len(v) = 2 /\ v[1] = a /\ v[2] = b
  BY <1>4
<1>6. \A i \in 1 .. 2 : i = 1 \/ i = 2
  OBVIOUS
<1>7. \A i \in 1 .. 2 : u[i] = v[i]
  BY <1>3, <1>5, <1>6
<1>8. u = v
  BY <1>3, <1>5, <1>7, SeqEqual
<1> QED
  BY <1>2, <1>4, <1>8

LEMMA ConcatFirst ==
    ASSUME NEW S, NEW s \in Seq(S), NEW t \in Seq(S), s # <<>>
    PROVE  (s \o t)[1] = s[1]
<1>1. PICK n \in Nat \ {0} : n = Len(s)
  BY HeadTail
<1>2. PICK m \in Nat : m = Len(t)
  BY LenProperties
<1>3. \A i \in 1 .. n + m : (s \o t)[i] = IF i <= n THEN s[i] ELSE t[i - n]
  BY <1>1, <1>2, ConcatProperties
<1>4. 1 \in 1 .. n + m /\ 1 <= n
  OBVIOUS
<1> QED
  BY <1>3, <1>4

-----------------------------------------------------------------------------
(* What was put together, by position.                                         *)
LEMMA ConcatPlaces ==
    ASSUME NEW S, NEW p \in Seq(S), NEW q \in Seq(S), NEW u, u = p \o q
    PROVE  /\ Len(p) \in Nat /\ Len(q) \in Nat /\ Len(u) = Len(p) + Len(q)
           /\ \A x \in 1 .. Len(p) : u[x] = p[x]
           /\ \A x \in 1 .. Len(q) : u[Len(p) + x] = q[x]
<1>1. PICK n \in Nat : n = Len(p)
  BY LenProperties
<1>2. PICK m \in Nat : m = Len(q)
  BY LenProperties
<1>3. Len(u) = n + m /\ \A x \in 1 .. n + m : u[x] = IF x <= n THEN p[x] ELSE q[x - n]
  BY <1>1, <1>2, ConcatProperties
<1>4. \A x \in 1 .. n : u[x] = p[x]
  BY <1>3
<1>5. \A x \in 1 .. m : u[n + x] = q[x]
  BY <1>3
<1> QED
  BY <1>1, <1>2, <1>3, <1>4, <1>5

(* What has grown stays.                                                       *)
Keeps(f, n, k) == \A m \in 0 .. n - k : /\ Len(f[k]) <= Len(f[k + m])
                                       /\ \A x \in 1 .. Len(f[k]) : f[k + m][x] = f[k][x]

LEMMA FlattenKeeps ==
    ASSUME NEW S, NEW n \in Nat, NEW s, Pieces(s, n, S),
           NEW f \in [0 .. n -> Seq(S)], Flattening(s, n, f), NEW k \in 0 .. n
    PROVE  Keeps(f, n, k)
<1> DEFINE G == {m \in 0 .. n - k : /\ Len(f[k]) <= Len(f[k + m])
                                    /\ \A x \in 1 .. Len(f[k]) : f[k + m][x] = f[k][x]}
<1>1. PICK l \in Nat : l = Len(f[k])
  BY LenProperties
<1>2. 0 \in G
  BY <1>1
<1>3. ASSUME NEW m \in 0 .. (n - k) - 1, m \in G PROVE m + 1 \in G
  <2>1. /\ k + m \in 0 .. n /\ k + m + 1 \in 1 .. n /\ m + 1 \in 0 .. n - k
        /\ (k + m + 1) - 1 = k + m /\ k + (m + 1) = k + m + 1
    OBVIOUS
  <2>2. f[k + m] \in Seq(S) /\ s[k + m + 1] \in Seq(S) /\ f[k + m + 1] \in Seq(S)
    BY <2>1 DEF Pieces
  <2>3. f[k + m + 1] = f[k + m] \o s[k + m + 1]
    BY <2>1 DEF Flattening
  <2>4. PICK p \in Seq(S), q \in Seq(S), u \in Seq(S) :
           p = f[k + m] /\ q = s[k + m + 1] /\ u = f[k + m + 1]
    BY <2>2
  <2>5. u = p \o q
    BY <2>3, <2>4
  <2>6. /\ Len(p) \in Nat /\ Len(q) \in Nat /\ Len(u) = Len(p) + Len(q)
        /\ \A x \in 1 .. Len(p) : u[x] = p[x]
    BY ONLY <2>5, p \in Seq(S), q \in Seq(S), ConcatPlaces
  <2>7. l <= Len(p) /\ \A x \in 1 .. l : p[x] = f[k][x]
    BY <1>1, <1>3, <2>4
  <2>8. l <= Len(u) /\ \A x \in 1 .. l : u[x] = f[k][x]
    BY ONLY <2>6, <2>7, l \in Nat
  <2> QED
    BY <1>1, <2>1, <2>4, <2>8
<1>4. n - k \in Nat
  OBVIOUS
<1>5. 0 .. n - k \subseteq G
  <2> HIDE DEF G
  <2> QED
    BY <1>2, <1>3, <1>4, Ascend
<1> QED
  BY <1>5 DEF Keeps

(* A part of what does not change is where it was.                             *)
LEMMA PartOf ==
    ASSUME NEW l \in Nat, NEW m \in Nat, NEW q, NEW u, NEW t,
           \A x \in 1 .. m : u[l + x] = q[x],
           NEW n, n = l + m, \A x \in 1 .. n : t[x] = u[x]
    PROVE  \A x \in 1 .. m : t[l + x] = q[x]
<1> SUFFICES ASSUME NEW x \in 1 .. m PROVE t[l + x] = q[x]
  OBVIOUS
<1>1. l + x \in 1 .. n
  OBVIOUS
<1> QED
  BY <1>1

(* Where the parts of a flattened sequence start in it.                        *)
Starts(s, n, t, f) ==
    /\ f[0] = 0 /\ f[n] = Len(t)
    /\ \A k \in 1 .. n : /\ f[k] = f[k - 1] + Len(s[k])
                         /\ f[k] <= Len(t)
                         /\ \A x \in 1 .. Len(s[k]) : t[f[k - 1] + x] = s[k][x]

LEMMA FlattenStarts ==
    ASSUME NEW S, NEW s \in Seq(Seq(S))
    PROVE  \E f \in [0 .. Len(s) -> Nat] : Starts(s, Len(s), FlattenSeq(s), f)
<1>1. PICK n \in Nat : n = Len(s)
  BY LenProperties
<1>2. PICK g \in [0 .. n -> Seq(S)] : Flattening(s, n, g) /\ FlattenSeq(s) = g[n]
  BY <1>1, FlattenDef
<1>3. Pieces(s, n, S)
  BY <1>1, ElementOfSeq DEF Pieces
<1> DEFINE f == [k \in 0 .. n |-> Len(g[k])]
<1>4. f \in [0 .. n -> Nat]
  <2>1. ASSUME NEW k \in 0 .. n PROVE Len(g[k]) \in Nat
    BY LenProperties
  <2> QED
    BY <2>1
<1>5. \A k \in 0 .. n : f[k] = Len(g[k])
  OBVIOUS
<1> HIDE DEF f
<1>6. f[0] = 0 /\ f[n] = Len(g[n])
  <2>1. g[0] = <<>>
    BY <1>2 DEF Flattening
  <2> QED
    BY <1>5, <2>1
<1>7. ASSUME NEW k \in 1 .. n
      PROVE  /\ f[k] = f[k - 1] + Len(s[k])
             /\ f[k] <= Len(g[n])
             /\ \A x \in 1 .. Len(s[k]) : g[n][f[k - 1] + x] = s[k][x]
  <2>1. k - 1 \in 0 .. n /\ k \in 0 .. n /\ n - k \in 0 .. n - k /\ k + (n - k) = n
    OBVIOUS
  <2>2. Keeps(g, n, k)
    BY ONLY <1>2, <1>3, <2>1, n \in Nat, g \in [0 .. n -> Seq(S)], FlattenKeeps
  <2>3. g[k - 1] \in Seq(S) /\ s[k] \in Seq(S) /\ g[k] = g[k - 1] \o s[k]
    BY <1>2, <1>3, <2>1 DEF Pieces, Flattening
  <2>4. PICK p \in Seq(S), q \in Seq(S), u \in Seq(S) : p = g[k - 1] /\ q = s[k] /\ u = g[k]
    BY <2>1, <2>3
  <2>5. u = p \o q
    BY <2>3, <2>4
  <2>6. /\ Len(p) \in Nat /\ Len(q) \in Nat /\ Len(u) = Len(p) + Len(q)
        /\ \A x \in 1 .. Len(q) : u[Len(p) + x] = q[x]
    BY ONLY <2>5, p \in Seq(S), q \in Seq(S), ConcatPlaces
  <2>7. Len(u) <= Len(g[n]) /\ \A x \in 1 .. Len(u) : g[n][x] = u[x]
    <3>1. /\ Len(g[k]) <= Len(g[k + (n - k)])
          /\ \A x \in 1 .. Len(g[k]) : g[k + (n - k)][x] = g[k][x]
      BY ONLY <2>1, <2>2 DEF Keeps
    <3> QED
      BY ONLY <2>1, <2>4, <3>1
  <2>8. f[k] = Len(u) /\ f[k - 1] = Len(p)
    BY <1>5, <2>1, <2>4
  <2>9. \A x \in 1 .. Len(q) : g[n][Len(p) + x] = q[x]
    BY ONLY <2>6, <2>7, PartOf
  <2> QED
    BY <2>4, <2>6, <2>7, <2>8, <2>9
<1>8. Starts(s, n, g[n], f)
  BY <1>6, <1>7 DEF Starts
<1> QED
  BY <1>1, <1>2, <1>4, <1>8
=============================================================================
