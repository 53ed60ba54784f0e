---------------------------- MODULE ResponseCache ----------------------------
(* Generated images and PDFs and the two bounded caches behind them            *)
(* (httpbin/helpers.go: boundedCache; httpbin/handlers.go: Image, PDF).        *)
(* A handler looks its document up under the read lock, generates it without   *)
(* any lock on a miss, and stores it under the write lock, so that handlers    *)
(* interleave between these steps.  An image that has to be converted goes     *)
(* through an external tool, by pipes or by two temporary files.               *)
(*                                                                             *)
(* The bytes of a document are abstracted to what they were made from; two     *)
(* documents have the same ETag exactly if they are the same.                  *)
EXTENDS Integers, Sequences, FiniteSets

CONSTANTS Reqs,        \* requests, each served by a goroutine of its own
          Variants,    \* size and gradient of an image; pages, size, seed of a PDF
          Formats,     \* formats asked for, of "png", "jpeg", "avif", "webp", "pdf"
          Installations,\* sets of tools that may be installed
          MaxSize      \* maxSize of both caches

ASSUME CacheAssumption ==
    /\ Formats \subseteq {"png", "jpeg", "avif", "webp", "pdf"}
    /\ MaxSize \in Nat

(* A cache key; the cache it belongs to; the bytes a seed makes of it.         *)
Key == [format : Formats, variant : Variants]
Caches == {"img", "pdf"}
CacheOf(k) == IF k.format = "pdf" THEN "pdf" ELSE "img"
Bytes(format, variant, seed) == [format |-> format, variant |-> variant, seed |-> seed]
NoBlob == Bytes("none", "none", "none")

(* Images in these formats are generated as PNG and then converted.            *)
Converted == {"avif", "webp"}
genFormat(format) == IF format \in Converted THEN "png" ELSE format

(* converterToolDefs: the tools for a format in order of preference, and those *)
(* that read and write files.                                                  *)
Tools == [avif |-> <<"avifenc", "magick", "convert", "ffmpeg">>,
          webp |-> <<"cwebp", "magick", "convert", "ffmpeg">>]
UsesTempFiles == {"avifenc"}

(* The first tool for each format that is installed.                           *)
detectImageConverters(installed) ==
    LET found(f) == SelectSeq(Tools[f], LAMBDA t : t \in installed)
    IN  [f \in {g \in Converted : found(g) # <<>>} |-> Head(found(f))]

VARIABLES converters,\* h.imageConverters, from format to tool
          files,     \* temporary files on disk, with the request that made them
          entries,   \* entries[c]: the map of cache c, from key to bytes
          pc,        \* pc[r]: the step it takes next
          key,       \* key[r]: what r asks for
          nocache,   \* requests that ask for a fresh document
          data,      \* data[r]: the bytes r has made or found
          status     \* status[r]: the status it answered with, 0 before

vars == <<converters, files, entries, pc, key, nocache, data, status>>
disk == <<converters, files>>

NoKey == [format |-> "none", variant |-> "none"]

-----------------------------------------------------------------------------
Init ==
    /\ \E installed \in Installations : converters = detectImageConverters(installed)
    /\ files = {}
    /\ entries = [c \in Caches |-> [k \in {} |-> NoBlob]]
    /\ pc = [r \in Reqs |-> "idle"]
    /\ key = [r \in Reqs |-> NoKey]
    /\ nocache = {}
    /\ data = [r \in Reqs |-> NoBlob]
    /\ status = [r \in Reqs |-> 0]

Goto(r, next) == pc' = [pc EXCEPT ![r] = next] /\ UNCHANGED status

Respond(r, code) ==
    /\ pc' = [pc EXCEPT ![r] = "done"]
    /\ status' = [status EXCEPT ![r] = code]

(* The handler has parsed its parameters ...                                   *)
Begin(r) ==
    /\ pc[r] = "idle"
    /\ \E k \in Key, fresh \in BOOLEAN :
          /\ key' = [key EXCEPT ![r] = k]
          /\ nocache' = IF fresh THEN nocache \cup {r} ELSE nocache
    /\ Goto(r, "lookup")
    /\ UNCHANGED <<disk, entries, data>>

(* ... or turned them down.                                                    *)
BadRequest(r) ==
    /\ pc[r] = "idle"
    /\ Respond(r, 400)
    /\ UNCHANGED <<disk, entries, key, nocache, data>>

(* Bug: images are cached under the format they are generated in.              *)
cacheKeyGenFormatBug(r) == [key[r] EXCEPT !.format = genFormat(@)]

(* imageCacheKey{format: kind, ...}, pdfCacheKey{...}                          *)
cacheKey(r) == key[r]

(* boundedCache.get, skipped for nocache.                                      *)
Lookup(r) ==
    LET c == CacheOf(key[r])
        k == cacheKey(r)
    IN  /\ pc[r] = "lookup"
        /\ IF r \notin nocache /\ k \in DOMAIN entries[c]
           THEN /\ data' = [data EXCEPT ![r] = entries[c][k]]
                /\ Respond(r, 200)
           ELSE Goto(r, "generate") /\ UNCHANGED data
        /\ UNCHANGED <<disk, entries, key, nocache>>

(* generateImage or generatePDF, from a fixed seed or from the clock; either   *)
(* may fail.                                                                   *)
Generate(r) ==
    /\ pc[r] = "generate"
    /\ \/ LET f == key[r].format
              s == IF r \in nocache THEN "clock" ELSE "fixed"
          IN  /\ data' = [data EXCEPT ![r] = Bytes(genFormat(f), key[r].variant, s)]
              /\ Goto(r, IF f \in Converted THEN "convert" ELSE "store")
       \/ Respond(r, 500) /\ UNCHANGED data
    /\ UNCHANGED <<disk, entries, key, nocache>>

(* A tool for the format, or 501.                                              *)
ChooseTool(r) ==
    LET f == key[r].format
    IN  /\ pc[r] = "convert"
        /\ IF f \notin DOMAIN converters THEN Respond(r, 501)
           ELSE Goto(r, IF converters[f] \in UsesTempFiles THEN "createIn" ELSE "pipe")
        /\ UNCHANGED <<disk, entries, key, nocache, data>>

Convert(r) == data' = [data EXCEPT ![r].format = key[r].format]

(* A tool on pipes: it may not start, fail, write too much, run out of time or *)
(* be cancelled with the request.                                              *)
Pipe(r) ==
    /\ pc[r] = "pipe"
    /\ \/ Convert(r) /\ Goto(r, "store")
       \/ Respond(r, 500) /\ UNCHANGED data
    /\ UNCHANGED <<disk, entries, key, nocache>>

(* convertWithTempFiles: a step fails, or the next one is taken; os.CreateTemp *)
(* makes a file of a name of its own.                                          *)
TempFile(r, name) == [req |-> r, name |-> name]

CreateIn(r) ==
    /\ pc[r] = "createIn"
    /\ \/ files' = files \cup {TempFile(r, "in")} /\ Goto(r, "createOut")
       \/ Respond(r, 500) /\ UNCHANGED files
    /\ UNCHANGED <<converters, entries, key, nocache, data>>

(* Bug: the output is removed only once it has been read.                      *)
RemoveAtEndBug(r) ==
    files' = files \ (IF pc[r] = "read" THEN {TempFile(r, "in"), TempFile(r, "out")}
                                        ELSE {TempFile(r, "in")})

(* The removals that have been deferred by now run on every way out.           *)
Remove(r) == files' = files \ {TempFile(r, "in"), TempFile(r, "out")}

CreateOut(r) ==
    /\ pc[r] = "createOut"
    /\ \/ files' = files \cup {TempFile(r, "out")} /\ Goto(r, "writeIn")
       \/ Respond(r, 500) /\ Remove(r)
    /\ UNCHANGED <<converters, entries, key, nocache, data>>

(* Writing the PNG, running the tool, and checking the size of its output.     *)
Stages == [writeIn |-> "run", run |-> "stat", stat |-> "read"]

Stage(r) ==
    /\ pc[r] \in DOMAIN Stages
    /\ \/ Goto(r, Stages[pc[r]]) /\ UNCHANGED files
       \/ Respond(r, 500) /\ Remove(r)
    /\ UNCHANGED <<converters, entries, key, nocache, data>>

ReadOut(r) ==
    /\ pc[r] = "read"
    /\ \/ Convert(r) /\ Goto(r, "store")
       \/ Respond(r, 500) /\ UNCHANGED data
    /\ Remove(r)
    /\ UNCHANGED <<converters, entries, key, nocache>>

With(m, k, v) == [j \in DOMAIN m \cup {k} |-> IF j = k THEN v ELSE m[j]]
Without(m, S) == [j \in DOMAIN m \ S |-> m[j]]

(* Bug: the bound is off by one.                                               *)
putOffByOneBug(m, k, v) ==
    IF Cardinality(DOMAIN m) > MaxSize
    THEN {With(Without(m, {x}), k, v) : x \in DOMAIN m}
    ELSE {With(m, k, v)}

(* boundedCache.put: a full map loses the first key that a range over it       *)
(* yields, any key, whether or not k itself is already there.                  *)
put(m, k, v) ==
    IF Cardinality(DOMAIN m) >= MaxSize /\ DOMAIN m # {}
    THEN {With(Without(m, {x}), k, v) : x \in DOMAIN m}
    ELSE {With(m, k, v)}

(* Bug: a nocache document is stored as well.                                  *)
StoreAlwaysBug(r) ==
    LET c == CacheOf(key[r])
    IN  /\ pc[r] = "store"
        /\ \E m \in put(entries[c], cacheKey(r), data[r]) :
              entries' = [entries EXCEPT ![c] = m]
        /\ Respond(r, 200)
        /\ UNCHANGED <<disk, key, nocache, data>>

(* Store the document, unless it is a nocache one, and respond with it.        *)
Store(r) ==
    LET c == CacheOf(key[r])
    IN  /\ pc[r] = "store"
        /\ IF r \in nocache
           THEN UNCHANGED entries
           ELSE \E m \in put(entries[c], cacheKey(r), data[r]) :
                   entries' = [entries EXCEPT ![c] = m]
        /\ Respond(r, 200)
        /\ UNCHANGED <<disk, key, nocache, data>>

AllDone ==
    /\ \A r \in Reqs : pc[r] = "done"
    /\ UNCHANGED vars

Next ==
    \/ \E r \in Reqs : \/ Begin(r) \/ BadRequest(r) \/ Lookup(r)
                       \/ Generate(r) \/ ChooseTool(r) \/ Pipe(r) \/ CreateIn(r)
                       \/ CreateOut(r) \/ Stage(r) \/ ReadOut(r) \/ Store(r)
    \/ AllDone

Spec == Init /\ [][Next]_vars

-----------------------------------------------------------------------------
(* Properties.                                                                 *)

(* What an entry under k must hold.                                            *)
Fresh(k) == Bytes(k.format, k.variant, "fixed")

(* Whatever is cached is what generating it again would give: concurrent       *)
(* misses, failed conversions and nocache requests leave no other bytes, and   *)
(* converted and unconverted images are not mixed up.                          *)
CacheCoherent ==
    \A c \in Caches : \A k \in DOMAIN entries[c] :
        CacheOf(k) = c /\ entries[c][k] = Fresh(k)

(* A successful answer holds the format and variant that were asked for, made  *)
(* from the clock exactly if the request said nocache: a hit and a miss cannot *)
(* be told apart.                                                              *)
ServedAsAsked ==
    \A r \in Reqs : status[r] = 200 =>
        data[r] = Bytes(key[r].format, key[r].variant,
                        IF r \in nocache THEN "clock" ELSE "fixed")

(* The caches stay within maxSize (one entry, if that is 0) however many       *)
(* handlers store at once.                                                     *)
CacheBounded ==
    \A c \in Caches :
        Cardinality(DOMAIN entries[c]) <= (IF MaxSize = 0 THEN 1 ELSE MaxSize)

(* A temporary file belongs to a conversion that still needs it: the tool and  *)
(* whoever reads its output find both files, and no failure, time-out or       *)
(* cancellation at any step leaves a file behind.                              *)
TempFilesOwned ==
    /\ \A f \in files :
          pc[f.req] \in {"createOut", "read"} \cup DOMAIN Stages
    /\ \A r \in Reqs :
          pc[r] \in {"read"} \cup DOMAIN Stages => {TempFile(r, "in"), TempFile(r, "out")} \subseteq files
=============================================================================
