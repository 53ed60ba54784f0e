------------------------- MODULE ResponseCacheProofs -------------------------
(* Theorems about the response caches, for any number of concurrent requests,  *)
(* any documents, tools and sizes of the caches.                               *)
EXTENDS ResponseCache, FiniteSetTheorems, TLAPS

-----------------------------------------------------------------------------
(* Types, and what a request has in hand at each step.                         *)

Converting == {"convert", "pipe", "createIn", "createOut", "writeIn", "run", "stat", "read"}
Steps == Converting \cup {"idle", "lookup", "generate", "store", "done"}

Seed(r) == IF r \in nocache THEN "clock" ELSE "fixed"

Document == [format : Formats \cup {"png", "none"}, variant : Variants \cup {"none"},
             seed : {"fixed", "clock", "none"}]

Typed ==
    /\ pc \in [Reqs -> Steps]
    /\ key \in [Reqs -> Key \cup {NoKey}]
    /\ data \in [Reqs -> Document]
    /\ status \in [Reqs -> Nat]
    /\ entries = [c \in Caches |-> entries[c]]

(* An idle request has said nothing yet; until it stores its bytes they are    *)
(* those of the format it generates, and then those of the format it was asked *)
(* for; only a finished request has answered.                                  *)
Progress ==
    \A r \in Reqs :
        /\ pc[r] = "idle" => r \notin nocache
        /\ pc[r] \notin {"idle", "done"} => key[r] \in Key
        /\ pc[r] # "done" => status[r] = 0
        /\ pc[r] \in Converting =>
               data[r] = Bytes(genFormat(key[r].format), key[r].variant, Seed(r))
        /\ pc[r] = "store" => data[r] = Bytes(key[r].format, key[r].variant, Seed(r))

(* The caches are coherent and the answers as asked because of what requests   *)
(* have in hand, and a hit is as asked because the caches are coherent: the    *)
(* invariant is the conjunction.                                               *)
ContentsInv == Typed /\ Progress /\ CacheCoherent /\ ServedAsAsked

-----------------------------------------------------------------------------
(* Documents that the handlers make are documents.                             *)
LEMMA Documents ==
    ASSUME NEW k \in Key, NEW s \in {"fixed", "clock"}
    PROVE  /\ Bytes(k.format, k.variant, s) \in Document
           /\ Bytes(genFormat(k.format), k.variant, s) \in Document
  BY DEF Key, Bytes, Document, genFormat, Converted

(* boundedCache.put: the new entry, and some of the old ones as they were.     *)
LEMMA PutContents ==
    ASSUME NEW m, NEW k, NEW v, NEW n \in put(m, k, v)
    PROVE  /\ k \in DOMAIN n
           /\ DOMAIN n \subseteq DOMAIN m \cup {k}
           /\ \A j \in DOMAIN n : n[j] = IF j = k THEN v ELSE m[j]
<1>1. CASE n = With(m, k, v)
  BY <1>1 DEF With
<1>2. ASSUME NEW x \in DOMAIN m, n = With(Without(m, {x}), k, v)
      PROVE  /\ k \in DOMAIN n
             /\ DOMAIN n \subseteq DOMAIN m \cup {k}
             /\ \A j \in DOMAIN n : n[j] = IF j = k THEN v ELSE m[j]
  BY <1>2 DEF With, Without
<1> QED
  BY <1>1, <1>2 DEF put

(* No request has started and the caches are empty.                            *)
LEMMA InitContents == Init => ContentsInv
<1> SUFFICES ASSUME Init PROVE ContentsInv
  OBVIOUS
<1>1. Typed
  BY DEF Init, Typed, Steps, Document, NoBlob, Bytes
<1>2. Progress
  BY DEF Init, Progress, Converting
<1>3. CacheCoherent
  BY DEF Init, CacheCoherent
<1>4. ServedAsAsked
  BY DEF Init, ServedAsAsked
<1> QED
  BY <1>1, <1>2, <1>3, <1>4 DEF ContentsInv

(* Each step of a handler keeps the invariant.  The steps of a conversion come *)
(* down to three: it goes on, it fails, or it is over (<1>5, <1>6, <1>7).      *)
LEMMA StepContents == ContentsInv /\ [Next]_vars => ContentsInv'
<1> SUFFICES ASSUME ContentsInv, [Next]_vars PROVE ContentsInv'
  OBVIOUS
<1> USE DEF ContentsInv
<1>1. ASSUME NEW r \in Reqs, Begin(r) PROVE ContentsInv'
  <2>1. PICK k \in Key : key' = [key EXCEPT ![r] = k]
    BY <1>1 DEF Begin
  <2>2. /\ pc[r] = "idle" /\ pc' = [pc EXCEPT ![r] = "lookup"]
        /\ status' = status /\ entries' = entries /\ data' = data
        /\ nocache' \in {nocache, nocache \cup {r}}
    BY <1>1 DEF Begin, Goto
  <2>3. Typed'
    BY <2>1, <2>2 DEF Typed, Steps
  <2>4. Progress'
    BY <2>1, <2>2 DEF Typed, Progress, Converting, Seed
  <2>5. CacheCoherent'
    BY <2>2 DEF CacheCoherent
  <2>6. ServedAsAsked'
    BY <2>1, <2>2 DEF Typed, Progress, ServedAsAsked
  <2> QED
    BY <2>3, <2>4, <2>5, <2>6
<1>2. ASSUME NEW r \in Reqs, BadRequest(r) PROVE ContentsInv'
  <2>1. /\ pc[r] = "idle" /\ pc' = [pc EXCEPT ![r] = "done"]
        /\ status' = [status EXCEPT ![r] = 400]
        /\ UNCHANGED <<entries, key, nocache, data>>
    BY <1>2 DEF BadRequest, Respond
  <2>2. Typed'
    BY <2>1 DEF Typed, Steps
  <2>3. Progress'
    BY <2>1 DEF Typed, Progress, Converting, Seed
  <2> QED
    BY <2>1, <2>2, <2>3 DEF Typed, CacheCoherent, ServedAsAsked
<1>3. ASSUME NEW r \in Reqs, Lookup(r) PROVE ContentsInv'
  <2> DEFINE c == CacheOf(key[r])
  <2>1. pc[r] = "lookup" /\ UNCHANGED <<entries, key, nocache>>
    BY <1>3 DEF Lookup
  <2>2. CASE r \notin nocache /\ key[r] \in DOMAIN entries[c]
    <3>1. /\ data' = [data EXCEPT ![r] = entries[c][key[r]]]
          /\ pc' = [pc EXCEPT ![r] = "done"]
          /\ status' = [status EXCEPT ![r] = 200]
      BY <1>3, <2>2 DEF Lookup, Respond, cacheKey
    <3>2. key[r] \in Key
      BY <2>1 DEF Progress
    <3>3. entries[c][key[r]] = Bytes(key[r].format, key[r].variant, "fixed")
      BY <2>2, <3>2 DEF CacheCoherent, CacheOf, Caches, Fresh
    <3>4. entries[c][key[r]] \in Document
      BY <3>2, <3>3, Documents
    <3> HIDE DEF c
    <3>5. Typed'
      BY <2>1, <3>1, <3>4 DEF Typed, Steps
    <3>6. Progress'
      BY <2>1, <3>1 DEF Typed, Progress, Converting, Seed
    <3>7. ServedAsAsked'
      BY <2>1, <2>2, <3>1, <3>3 DEF Typed, ServedAsAsked
    <3> QED
      BY <2>1, <3>5, <3>6, <3>7 DEF CacheCoherent
  <2>3. CASE ~(r \notin nocache /\ key[r] \in DOMAIN entries[c])
    <3>1. pc' = [pc EXCEPT ![r] = "generate"] /\ UNCHANGED <<status, data>>
      BY <1>3, <2>3 DEF Lookup, Goto, cacheKey
    <3>2. Typed'
      BY <2>1, <3>1 DEF Typed, Steps
    <3>3. Progress'
      BY <2>1, <3>1 DEF Typed, Progress, Converting, Seed
    <3> QED
      BY <2>1, <3>1, <3>2, <3>3 DEF CacheCoherent, ServedAsAsked
  <2> QED
    BY <2>2, <2>3
<1>4. ASSUME NEW r \in Reqs, Generate(r) PROVE ContentsInv'
  <2>1. pc[r] = "generate" /\ UNCHANGED <<entries, key, nocache>> /\ key[r] \in Key
    BY <1>4 DEF Generate, Progress
  <2>2. CASE data' = [data EXCEPT ![r] = Bytes(genFormat(key[r].format), key[r].variant, Seed(r))]
             /\ Goto(r, IF key[r].format \in Converted THEN "convert" ELSE "store")
    <3>1. Bytes(genFormat(key[r].format), key[r].variant, Seed(r)) \in Document
      BY <2>1, Documents DEF Seed
    <3>2. Typed'
      BY <2>1, <2>2, <3>1 DEF Typed, Steps, Converting, Goto
    <3>3. Progress'
      BY <2>1, <2>2 DEF Typed, Progress, Converting, Seed, Goto, genFormat
    <3>4. ServedAsAsked'
      BY <2>1, <2>2 DEF Typed, Progress, ServedAsAsked, Goto
    <3> QED
      BY <2>1, <3>2, <3>3, <3>4 DEF CacheCoherent
  <2>3. CASE Respond(r, 500) /\ UNCHANGED data
    <3>1. Typed'
      BY <2>1, <2>3 DEF Typed, Steps, Respond
    <3>2. Progress'
      BY <2>1, <2>3 DEF Typed, Progress, Converting, Seed, Respond
    <3>3. ServedAsAsked'
      BY <2>1, <2>3 DEF Typed, ServedAsAsked, Respond
    <3> QED
      BY <2>1, <3>1, <3>2, <3>3 DEF CacheCoherent
  <2> QED
    BY <1>4, <2>2, <2>3 DEF Generate, Seed
<1>5. ASSUME NEW r \in Reqs, NEW next \in Converting,
             pc[r] \in Converting, Goto(r, next),
             UNCHANGED <<entries, key, nocache, data>>
      PROVE  ContentsInv'
  <2>1. Typed'
    BY <1>5 DEF Typed, Steps, Goto
  <2>2. Progress'
    BY <1>5 DEF Typed, Progress, Converting, Seed, Goto
  <2> QED
    BY <1>5, <2>1, <2>2 DEF CacheCoherent, ServedAsAsked, Goto
<1>6. ASSUME NEW r \in Reqs, NEW code \in Nat \ {200},
             pc[r] \in Converting, Respond(r, code),
             UNCHANGED <<entries, key, nocache, data>>
      PROVE  ContentsInv'
  <2>1. Typed'
    BY <1>6 DEF Typed, Steps, Respond
  <2>2. Progress'
    BY <1>6 DEF Typed, Progress, Converting, Seed, Respond
  <2>3. ServedAsAsked'
    BY <1>6 DEF Typed, ServedAsAsked, Respond
  <2> QED
    BY <1>6, <2>1, <2>2, <2>3 DEF CacheCoherent
<1>7. ASSUME NEW r \in Reqs, pc[r] \in Converting, Convert(r), Goto(r, "store"),
             UNCHANGED <<entries, key, nocache>>
      PROVE  ContentsInv'
  <2>1. /\ key[r] \in Key
        /\ data[r] = Bytes(genFormat(key[r].format), key[r].variant, Seed(r))
    BY <1>7 DEF Progress, Converting
  <2>2. data' = [data EXCEPT ![r] = Bytes(key[r].format, key[r].variant, Seed(r))]
    <3> DEFINE f == key[r].format
               g == genFormat(key[r].format)
               v == key[r].variant
               d == Seed(r)
    <3>1. data' = [data EXCEPT ![r] = [data[r] EXCEPT !.format = f]]
      BY <1>7 DEF Convert
    <3>2. data[r] = [format |-> g, variant |-> v, seed |-> d]
      BY <2>1 DEF Bytes
    <3> HIDE DEF f, g, v, d
    <3>3. [data[r] EXCEPT !.format = f] = [format |-> f, variant |-> v, seed |-> d]
      BY <3>2
    <3>4. [data[r] EXCEPT !.format = f] = Bytes(f, v, d)
      BY <3>3 DEF Bytes
    <3> QED
      BY <3>1, <3>4 DEF f, v, d
  <2>3. Bytes(key[r].format, key[r].variant, Seed(r)) \in Document
    BY <2>1, Documents DEF Seed
  <2>4. Typed'
    BY <1>7, <2>2, <2>3 DEF Typed, Steps, Goto
  <2>5. Progress'
    BY <1>7, <2>1, <2>2 DEF Typed, Progress, Converting, Seed, Goto
  <2>6. ServedAsAsked'
    BY <1>7, <2>2 DEF Typed, Progress, Converting, ServedAsAsked, Goto
  <2> QED
    BY <1>7, <2>4, <2>5, <2>6 DEF CacheCoherent
<1>8. ASSUME NEW r \in Reqs, ChooseTool(r) PROVE ContentsInv'
  <2>1. pc[r] \in Converting /\ UNCHANGED <<entries, key, nocache, data>>
    BY <1>8 DEF ChooseTool, Converting
  <2>2. \/ Respond(r, 501)
        \/ \E next \in Converting : Goto(r, next)
    BY <1>8 DEF ChooseTool, Converting
  <2> QED
    BY <1>5, <1>6, <2>1, <2>2
<1>9. ASSUME NEW r \in Reqs, Pipe(r) PROVE ContentsInv'
  <2>1. pc[r] \in Converting /\ UNCHANGED <<entries, key, nocache>>
    BY <1>9 DEF Pipe, Converting
  <2> QED
    BY <1>9, <1>6, <1>7, <2>1 DEF Pipe
<1>10. ASSUME NEW r \in Reqs, CreateIn(r) \/ CreateOut(r) \/ Stage(r) PROVE ContentsInv'
  <2>1. pc[r] \in Converting /\ UNCHANGED <<entries, key, nocache, data>>
    BY <1>10 DEF CreateIn, CreateOut, Stage, Stages, Converting
  <2>2. \/ Respond(r, 500)
        \/ \E next \in Converting : Goto(r, next)
    BY <1>10 DEF CreateIn, CreateOut, Stage, Stages, Converting
  <2> QED
    BY <1>5, <1>6, <2>1, <2>2
<1>11. ASSUME NEW r \in Reqs, ReadOut(r) PROVE ContentsInv'
  <2>1. pc[r] \in Converting /\ UNCHANGED <<entries, key, nocache>>
    BY <1>11 DEF ReadOut, Converting
  <2> QED
    BY <1>11, <1>6, <1>7, <2>1 DEF ReadOut
<1>12. ASSUME NEW r \in Reqs, Store(r) PROVE ContentsInv'
  <2> DEFINE c == CacheOf(key[r])
  <2>1. /\ pc[r] = "store" /\ pc' = [pc EXCEPT ![r] = "done"]
        /\ status' = [status EXCEPT ![r] = 200]
        /\ UNCHANGED <<key, nocache, data>>
        /\ key[r] \in Key
        /\ data[r] = Bytes(key[r].format, key[r].variant, Seed(r))
    BY <1>12 DEF Store, Respond, Progress
  <2>2. c \in Caches
    BY DEF CacheOf, Caches
  <2>3. CacheCoherent' /\ entries' = [d \in Caches |-> entries'[d]]
    <3>1. CASE r \in nocache
      <4>1. entries' = entries
        BY <1>12, <3>1 DEF Store
      <4> QED
        BY <4>1 DEF CacheCoherent, Typed
    <3>2. CASE r \notin nocache
      <4>1. PICK n \in put(entries[c], key[r], data[r]) : entries' = [entries EXCEPT ![c] = n]
        BY <1>12, <3>2 DEF Store, cacheKey
      <4>2. /\ DOMAIN n \subseteq DOMAIN entries[c] \cup {key[r]}
            /\ \A j \in DOMAIN n : n[j] = IF j = key[r] THEN data[r] ELSE entries[c][j]
        BY <4>1, PutContents
      <4>3. data[r] = Fresh(key[r])
        BY <2>1, <3>2 DEF Seed, Fresh
      <4>4. \A j \in DOMAIN n : CacheOf(j) = c /\ n[j] = Fresh(j)
        BY <2>2, <4>2, <4>3 DEF CacheCoherent
      <4>5. \A d \in Caches : entries'[d] = IF d = c THEN n ELSE entries[d]
        BY <2>2, <4>1 DEF Typed
      <4>6. entries' = [d \in Caches |-> entries'[d]]
        BY <2>2, <4>1 DEF Typed
      <4> HIDE DEF c
      <4>7. CacheCoherent'
        BY <4>4, <4>5 DEF CacheCoherent
      <4> QED
        BY <4>6, <4>7
    <3> QED
      BY <3>1, <3>2
  <2>4. Typed'
    BY <2>1, <2>3 DEF Typed, Steps
  <2>5. Progress'
    BY <2>1 DEF Typed, Progress, Converting, Seed
  <2>6. ServedAsAsked'
    BY <2>1 DEF Typed, ServedAsAsked, Seed
  <2> QED
    BY <2>3, <2>4, <2>5, <2>6
<1>13. CASE AllDone \/ UNCHANGED vars
  <2>1. UNCHANGED vars
    BY <1>13 DEF AllDone
  <2> QED
    BY <2>1 DEF vars, Typed, Progress, Seed, CacheCoherent, ServedAsAsked
<1> QED
  BY <1>1, <1>2, <1>3, <1>4, <1>8, <1>9, <1>10, <1>11, <1>12, <1>13 DEF Next

(* Whatever is cached is what generating it again would give, for any requests *)
(* whose lookups, conversions and stores interleave in any way.                *)
THEOREM Coherent == Spec => []CacheCoherent
  BY InitContents, StepContents, PTL DEF Spec, ContentsInv

(* Every successful answer is the document that was asked for.                 *)
THEOREM AnswersAsAsked == Spec => []ServedAsAsked
  BY InitContents, StepContents, PTL DEF Spec, ContentsInv

-----------------------------------------------------------------------------
(* The size of the caches.                                                     *)

Bound == IF MaxSize = 0 THEN 1 ELSE MaxSize

(* Counting needs finite maps; maps of one entry more or one less are finite.  *)
SizeInv ==
    /\ entries = [c \in Caches |-> entries[c]]
    /\ \A c \in Caches : IsFiniteSet(DOMAIN entries[c])
    /\ CacheBounded

(* boundedCache.put on a map within the bound gives a map within it, because   *)
(* a full map gives up an entry first, even if the key was there already.      *)
LEMMA PutBounded ==
    ASSUME NEW m, NEW k, NEW v, NEW n \in put(m, k, v),
           IsFiniteSet(DOMAIN m), Cardinality(DOMAIN m) <= Bound
    PROVE  IsFiniteSet(DOMAIN n) /\ Cardinality(DOMAIN n) <= Bound
<1> DEFINE D == DOMAIN m
<1>1. Cardinality(D) \in Nat /\ MaxSize \in Nat
  BY FS_CardinalityType, CacheAssumption
<1>2. CASE D = {} \/ Cardinality(D) < MaxSize
  <2>1. Cardinality(D) + 1 <= Bound
    BY <1>1, <1>2, FS_EmptySet DEF Bound
  <2>2. DOMAIN n = D \cup {k}
    BY <1>1, <1>2 DEF put, With
  <2>3. /\ IsFiniteSet(D \cup {k})
        /\ Cardinality(D \cup {k}) \in {Cardinality(D), Cardinality(D) + 1}
    BY FS_AddElement
  <2> HIDE DEF D
  <2> QED
    BY <1>1, <2>1, <2>2, <2>3, CacheAssumption DEF Bound
<1>3. CASE D # {} /\ Cardinality(D) >= MaxSize
  <2>1. PICK x \in D : DOMAIN n = (D \ {x}) \cup {k}
    BY <1>3 DEF put, With, Without
  <2>2. IsFiniteSet(D \ {x}) /\ Cardinality(D \ {x}) = Cardinality(D) - 1
    BY FS_RemoveElement
  <2>3. /\ IsFiniteSet((D \ {x}) \cup {k})
        /\ Cardinality((D \ {x}) \cup {k})
               \in {Cardinality(D \ {x}), Cardinality(D \ {x}) + 1}
    BY <2>2, FS_AddElement
  <2> HIDE DEF D
  <2> QED
    BY <1>1, <2>1, <2>2, <2>3, CacheAssumption DEF Bound, D
<1> QED
  BY <1>1, <1>2, <1>3

(* The caches start empty.                                                     *)
LEMMA InitSize == Init => SizeInv
<1> SUFFICES ASSUME Init PROVE SizeInv
  OBVIOUS
<1>1. \A c \in Caches : DOMAIN entries[c] = {}
  BY DEF Init
<1>2. IsFiniteSet({}) /\ Cardinality({}) = 0
  BY FS_EmptySet
<1> QED
  BY <1>1, <1>2, CacheAssumption DEF Init, SizeInv, CacheBounded

(* Only Store changes a cache.                                                 *)
LEMMA StepSize == SizeInv /\ [Next]_vars => SizeInv'
<1> SUFFICES ASSUME SizeInv, [Next]_vars PROVE SizeInv'
  OBVIOUS
<1>1. CASE UNCHANGED entries
  BY <1>1 DEF SizeInv, CacheBounded
<1>2. ASSUME NEW r \in Reqs, Store(r), entries' # entries PROVE SizeInv'
  <2> DEFINE c == CacheOf(key[r])
  <2>1. PICK n \in put(entries[c], cacheKey(r), data[r]) : entries' = [entries EXCEPT ![c] = n]
    BY <1>2 DEF Store
  <2>2. c \in Caches
    BY DEF CacheOf, Caches
  <2>3. IsFiniteSet(DOMAIN entries[c]) /\ Cardinality(DOMAIN entries[c]) <= Bound
    BY <2>2 DEF SizeInv, CacheBounded, Bound
  <2>4. IsFiniteSet(DOMAIN n) /\ Cardinality(DOMAIN n) <= Bound
    BY <2>1, <2>3, PutBounded
  <2> HIDE DEF c
  <2>5. entries' = [d \in Caches |-> IF d = c THEN n ELSE entries[d]]
    BY <2>1, <2>2 DEF SizeInv
  <2> QED
    BY <2>2, <2>4, <2>5 DEF SizeInv, CacheBounded, Bound
<1>3. CASE \E r \in Reqs : \/ Begin(r) \/ BadRequest(r) \/ Lookup(r)
                             \/ Generate(r) \/ ChooseTool(r) \/ Pipe(r) \/ CreateIn(r)
                             \/ CreateOut(r) \/ Stage(r) \/ ReadOut(r)
  BY <1>1, <1>3 DEF Begin, BadRequest, Lookup, Generate, ChooseTool, Pipe, CreateIn,
                    CreateOut, Stage, ReadOut
<1> QED
  BY <1>1, <1>2, <1>3 DEF Next, AllDone, vars

(* No cache grows past its bound, however many handlers miss and store at once *)
(* and however often a key is stored again.                                    *)
THEOREM Bounded == Spec => []CacheBounded
  BY InitSize, StepSize, PTL DEF Spec, SizeInv

-----------------------------------------------------------------------------
(* Temporary files.                                                            *)

(* Files belong to requests, and the input is there while the output is being  *)
(* created: what the failure of that step must remove.                         *)
FilesInv ==
    /\ pc \in [Reqs -> Steps]
    /\ files \subseteq [req : Reqs, name : {"in", "out"}]
    /\ \A r \in Reqs : pc[r] = "createOut" => TempFile(r, "in") \in files
    /\ TempFilesOwned

(* There are no files and no conversions.                                      *)
LEMMA InitFiles == Init => FilesInv
  BY DEF Init, FilesInv, Steps, TempFilesOwned, Stages

(* A request touches no file but its own, and removes both on every way out.   *)
LEMMA StepFiles == FilesInv /\ [Next]_vars => FilesInv'
<1> SUFFICES ASSUME FilesInv, [Next]_vars PROVE FilesInv'
  OBVIOUS
<1> DEFINE Needing == {"createOut", "writeIn", "run", "stat", "read"}
           Both(r) == {TempFile(r, "in"), TempFile(r, "out")}
<1>1. DOMAIN Stages = {"writeIn", "run", "stat"}
  BY DEF Stages
<1>2. /\ Stages["writeIn"] = "run" /\ Stages["run"] = "stat" /\ Stages["stat"] = "read"
  BY DEF Stages
<1>3. ASSUME NEW r \in Reqs, NEW next \in Steps \ Needing, pc[r] \notin Needing,
             pc' = [pc EXCEPT ![r] = next], files' = files
      PROVE  FilesInv'
  BY <1>1, <1>3 DEF FilesInv, TempFilesOwned
<1>4. ASSUME NEW r \in Reqs, NEW next \in {"done", "store"}, pc[r] \in Needing,
             pc' = [pc EXCEPT ![r] = next], Remove(r)
      PROVE  FilesInv'
  <2>1. pc' \in [Reqs -> Steps] /\ files' \subseteq files
    BY <1>4 DEF FilesInv, Remove, Steps
  <2>2. \A f \in files' : f.req # r
    BY <1>4 DEF FilesInv, Remove, TempFile
  <2>3. \A q \in Reqs \ {r} : pc'[q] = pc[q] /\ \A n \in {"in", "out"} :
            TempFile(q, n) \in files' <=> TempFile(q, n) \in files
    BY <1>4 DEF FilesInv, Remove, TempFile
  <2>4. pc'[r] = next
    BY <1>4 DEF FilesInv
  <2> QED
    BY <1>1, <2>1, <2>2, <2>3, <2>4 DEF FilesInv, TempFilesOwned
<1>5. ASSUME NEW r \in Reqs, CreateIn(r) PROVE FilesInv'
  <2>1. CASE files' = files \cup {TempFile(r, "in")} /\ Goto(r, "createOut")
    <3>1. pc' = [pc EXCEPT ![r] = "createOut"]
      BY <2>1 DEF Goto
    <3>2. \A q \in Reqs \ {r} : pc'[q] = pc[q]
      BY <3>1 DEF FilesInv
    <3>3. pc'[r] = "createOut" /\ pc' \in [Reqs -> Steps]
      BY <3>1 DEF FilesInv, Steps, Converting
    <3>4. TempFile(r, "in") \in [req : Reqs, name : {"in", "out"}] /\ TempFile(r, "in").req = r
      BY DEF TempFile
    <3> QED
      BY <1>1, <2>1, <3>2, <3>3, <3>4 DEF FilesInv, TempFilesOwned
  <2>2. CASE Respond(r, 500) /\ UNCHANGED files
    BY <1>3, <1>5, <2>2 DEF CreateIn, Respond, Steps
  <2> QED
    BY <1>5, <2>1, <2>2 DEF CreateIn
<1>6. ASSUME NEW r \in Reqs, CreateOut(r) PROVE FilesInv'
  <2>1. CASE files' = files \cup {TempFile(r, "out")} /\ Goto(r, "writeIn")
    <3>1. pc' = [pc EXCEPT ![r] = "writeIn"]
      BY <2>1 DEF Goto
    <3>2. \A q \in Reqs \ {r} : pc'[q] = pc[q]
      BY <3>1 DEF FilesInv
    <3>3. pc'[r] = "writeIn" /\ pc' \in [Reqs -> Steps]
      BY <3>1 DEF FilesInv, Steps, Converting
    <3>4. TempFile(r, "out") \in [req : Reqs, name : {"in", "out"}] /\ TempFile(r, "out").req = r
      BY DEF TempFile
    <3>5. TempFile(r, "in") \in files
      BY <1>6 DEF CreateOut, FilesInv
    <3> QED
      BY <1>1, <2>1, <3>2, <3>3, <3>4, <3>5 DEF FilesInv, TempFilesOwned
  <2>2. CASE Respond(r, 500) /\ Remove(r)
    BY <1>4, <1>6, <2>2 DEF CreateOut, Respond
  <2> QED
    BY <1>6, <2>1, <2>2 DEF CreateOut
<1>7. ASSUME NEW r \in Reqs, Stage(r) PROVE FilesInv'
  <2>1. CASE Goto(r, Stages[pc[r]]) /\ UNCHANGED files
    <3>1. PICK next \in {"run", "stat", "read"} : pc' = [pc EXCEPT ![r] = next]
      BY <1>1, <1>2, <1>7, <2>1 DEF Stage, Goto
    <3>2. pc' \in [Reqs -> Steps] /\ pc'[r] = next /\ \A q \in Reqs \ {r} : pc'[q] = pc[q]
      BY <3>1 DEF FilesInv, Steps, Converting
    <3>3. Both(r) \subseteq files
      BY <1>7 DEF Stage, FilesInv, TempFilesOwned
    <3> QED
      BY <1>1, <2>1, <3>2, <3>3 DEF FilesInv, TempFilesOwned
  <2>2. CASE Respond(r, 500) /\ Remove(r)
    BY <1>1, <1>4, <1>7, <2>2 DEF Stage, Respond
  <2> QED
    BY <1>7, <2>1, <2>2 DEF Stage
<1>8. ASSUME NEW r \in Reqs, ReadOut(r) PROVE FilesInv'
  BY <1>4, <1>8 DEF ReadOut, Respond, Goto
<1>9. ASSUME NEW r \in Reqs,
             \/ Begin(r) \/ BadRequest(r) \/ Lookup(r) \/ Generate(r)
             \/ ChooseTool(r) \/ Pipe(r) \/ Store(r)
      PROVE  FilesInv'
  <2>1. pc[r] \notin Needing /\ files' = files
    BY <1>9 DEF Begin, BadRequest, Lookup, Generate, ChooseTool, Pipe, Store, disk
  <2>2. \E next \in Steps \ Needing : pc' = [pc EXCEPT ![r] = next]
    BY <1>9 DEF Begin, BadRequest, Lookup, Generate, ChooseTool, Pipe, Store,
                Goto, Respond, Steps, Converting
  <2> QED
    BY <1>3, <2>1, <2>2
<1>10. CASE AllDone \/ UNCHANGED vars
  <2>1. UNCHANGED <<pc, files>>
    BY <1>10 DEF AllDone, vars
  <2> QED
    BY <2>1 DEF FilesInv, TempFilesOwned
<1> QED
  BY <1>5, <1>6, <1>7, <1>8, <1>9, <1>10 DEF Next

(* A conversion that needs its temporary files has them, and no failure at any *)
(* step leaves one behind.                                                     *)
THEOREM FilesOwned == Spec => []TempFilesOwned
  BY InitFiles, StepFiles, PTL DEF Spec, FilesInv
=============================================================================
