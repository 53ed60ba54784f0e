# A TLA+ verification project for go-httpbin

go-httpbin is an HTTP server that answers requests in ways that are useful for testing
clients: it delays, redirects, streams, limits, echoes and generates. Most endpoints are
pure functions of one request. What this project models is the rest: the state that
requests share, the steps in which they interleave, and the sequential logic whose
corner cases are hard to reach with tests.

Everything is in TLA+ (no PlusCal). TLC checks each module on small instances; TLAPS
proves the safety properties of all nine specifications for all instances, and that the
limiter implements its abstract specification. Liveness is left to TLC.

## 1. Inventory

| Part | State | Operations | Hard about it | Correct if |
| - | - | - | - | - |
| Rate limiter (`ratelimit.go`) | map of token buckets, bounded | `allow`, two evictions, cleanup goroutine | a full map, evictions that reset a client, cleanup between requests | bounded; evicts the idlest; nobody gets more than burst + rate + what was forgiven |
| Middleware chain (`middleware.go`, `httpbin.go`) | semaphore channel, per-request writer | observe, strip prefix, limit, enter, preflight, delay, leave | panics and disconnects while holding a slot, order of wrappers | slots balance; everything that does not panic is observed |
| Shutdown (`cmd/cmd.go`) | main and signal goroutine, `doneCh` | listen, signal, close, drain or time out, wait, return | a process that leaves too early or never | exit 0 means everybody was answered; a signal ends the process |
| WebSocket (`websocket/`) | `currentMsg`, frame queue | read, validate, assemble, handle, frame, write, close | fragments between control frames, limits, failing I/O | echoes whole messages in order; accuses only the guilty; ends |
| Caches (`helpers.go`, `handlers.go`) | two bounded maps, temporary files | look up, generate, convert through pipes or files, store | concurrent misses, conversions that fail or are cancelled half way, `nocache` | what is served is what was asked for; bounded; no file left behind |
| Pipeline URLs (`pipeline.go`) | none; a client's position in a redirect chain | parse, validate, delay, dispatch, redirect | dual-role names, cumulative delays, chains over several requests | delays within the limit; chains keep their promise and end |
| Redirects outside it (`handlers.go`) | none; the same client | `redirectLocation`, `RedirectTo`, cookies, links, statuses with a Location | six places that build a location under a prefix, which clients read in their own way | the client stays under the prefix unless it asks to leave |
| Mix, weighted statuses (`mix.go`, `helpers.go`) | none | parse and check directives, sum the delays, choose by weight | sums checked late, choices at the boundary | delays within the limit; chosen by weight |
| Streams (`handlers.go`: Drip, SSE) | ticker, connection, client's last id | check, delay, write, pause, fail, cancel | slow clients, lost connections, rounding | no gap in the ids; pace kept; always returns |
| Ranges and bytes (`handlers.go`: Range, Bytes, StreamBytes, Stream) | offset in a stream that sleeps as it is read | seek, read, copy, write chunks | several ranges, buffers and chunks that do not divide, sleeps nobody cancels | the bytes asked for, all of them, in order, in time |
| Durations (`helpers.go`) | none | parse, bound, range | overflow | no delay outside its bounds |
| Client address (`helpers.go`, `options.go`) | trusted networks | parse, resolve, normalise | header built by several hosts | finds and charges the client |
| Configuration (`cmd/cmd.go`) | configuration as it is resolved | flags, environment, checks, reset, build | order of resolving, checking and resetting | user's settings reach the server, or it does not start |

How they interact: every request passes observe, the prefix, the limiter (whose key comes
from the client address), the semaphore, preflight and the response delay (which parses a
duration) before the mux picks a handler: pipeline, stream, cache or WebSocket. Requests
share the limiter, the semaphore and the caches. The configuration decides which of these
exist; shutdown waits for all requests but hijacked ones.

Parts that are not modelled are listed in section 7.

## 2. Modules

| Module | Models | Checked through |
| - | - | - |
| `IdealLimiter` | abstract: one bucket per client, never forgotten | instance in `RateLimiter`, `Server` |
| `RateLimiter` | `tokenBucket`, `ipRateLimiter` | `MCRateLimiter` |
| `RateLimiterProofs` | theorems about `RateLimiter` | TLAPS |
| `Server` | middleware chain and shutdown, over `IdealLimiter` | `MCServer` |
| `ServerProofs` | theorems about the chain and the shutdown | TLAPS |
| `WebSocket` | one connection after its handshake | itself |
| `WebSocketProofs` | theorems about `WebSocket` | TLAPS |
| `ResponseCache` | Image and PDF with their caches | `MCResponseCache` |
| `ResponseCacheProofs` | theorems about `ResponseCache` | TLAPS |
| `PipelineParser` | the tables, `parsePipeline`, `buildModifierPrefix` and a reference definition of what can be read | `Pipeline` |
| `Pipeline` | composable URLs, mix, weighted statuses and every handler that redirects, under a prefix | `MCPipeline` |
| `PipelineProofs` | theorems about `Pipeline` and `PipelineParser` | TLAPS |
| `SequenceFacts` | lemmas on counting up and down, recursive functions and `FlattenSeq`, for the proofs about pipelines and streams | TLAPS |
| `Streams` | Drip, SSE and a reconnecting client; Range over `syntheticByteStream`; Bytes, StreamBytes, Stream | `MCStreams` |
| `StreamsProofs` | theorems about `Streams` | TLAPS |
| `Durations` | from text to delay | itself |
| `ClientIP` | from headers to address and limiter key | `MCClientIP` |
| `Config` | `loadConfig`, `mainImpl` | itself |
| `InputProofs` | theorems about `Durations`, `ClientIP` and `Config` | TLAPS |

`InputProofs` extends three modules that share no state, whose proofs are short; for that
reason their specifications have names of their own (`DelaySpec`, `IPSpec`, `CmdSpec`).

`Server` composes the limiter with the other middlewares. It uses `IdealLimiter`, which
`RateLimiter` is shown to implement, so that the state of the map need not be repeated
there.

Every definition that stands for code is listed with its lines in `PROJECT.json`, under
`map`. Operators whose names end in `Bug` are not part of the specifications: each is a
definition as a plausible mistake would have it, and `PROJECT.json`, under `mutants`, says
which property fails when it replaces the real one. A property that no such change breaks
would say nothing about the code.

### State and actions

* **RateLimiter.** `buckets` is the Go map, a function on the tracked keys; an entry has
  `tokens`, `lastRefill` and `lastSeen`. Tokens are counted in units of 1/`Unit` token, so
  that a tick can refill a fraction. `AllowNew`, `AllowKnown` and `Cleanup` are the critical
  sections under the mutex. `evictOldestLocked` takes the first of several oldest keys in
  the order of a Go map, any of them. `from`, `spent` and `forgiven` are history: what was
  admitted, and what evictions wrote off, in the window that opens at time `from`.
* **Server.** `pc[r]` follows the goroutine of request `r` through the wrappers. `sem` is
  the length of `maxConcurrent`'s channel. `due[r]` is the timer it waits on; `gone` are
  the requests whose context is cancelled. `StartHandler` chooses how long a handler takes:
  its own delay or its pipeline's, and then a streaming terminal or a converter with a limit
  of its own; or as long as a slow client holds it, up to the server's timeouts.
  `listenAndServeGracefully` is its two goroutines: `phase` is the main one, in
  `ListenAndServe` and then at `doneCh`, and the process with it; `stopper` is the signal
  goroutine, in `Shutdown` until `deadline`; `doneCh` is the channel between them. That
  `ListenAndServe` returns when `Shutdown` begins, which tracks all connections but hijacked
  ones, is modelled from how the code uses net/http.
* **WebSocket.** `pc`, `currentMsg`, `offset` and `result` are `serveLoop`'s and
  `frameResponse`'s locals. The client numbers its data bytes and keeps its own account, so
  that a lost, repeated or swapped byte shows. Each write may fail.
* **ResponseCache.** `entries[c]` is the map of cache `c`; looking up, generating,
  converting and storing are separate steps of each request, as the lock is released
  between them. A document is the format, the variant and the seed it was made from.
  `converters` is what `detectImageConverters` found at start-up; `files` are the
  temporary files, each with its request. `convertWithTempFiles` is one action per call
  that may fail: create, create, then write, run and check (`Stage`), then read. The
  deferred removals belong to the action that returns.
* **Pipeline.** A path is a sequence of segments. `parsePipeline` is a function over
  positions, in place of the loop. One name stands for each kind of modifier and terminal.
  `url` is where the client is: a path on the server, the same with a query or with the host
  spelled out, or another host. `Answer` is the response together with what a client makes of
  its status and Location; every action that answers goes through it. A path is what
  `r.URL.Path` holds, unescaped, and a relative redirect of the pipeline writes it as it is:
  `Reads` says what a client reads for a segment with a '?', '#' or '%' in it, and
  `Unescaped` what it reads for the whole path, cut, altered or refused. The absolute ones go
  through `url.URL`, which escapes. A `?url=` may be a path with a slash in front, a relative
  path or one with a host; `doRedirect` puts the prefix before the first only, and `Resolved`
  is what a client makes of the result, dot segments included. `Sent` is what `WriteHeader`
  does with a number: it panics outside 100 to 999, and an informational status is followed
  by 200. `promise` is history: the chain the client is in. `weightedRandomChoice` is a
  function of the random number, a multiple of 1/`Grain`.
* **Streams.** One tick of `clock` is the unit `computePausePerWrite` divides. `ticked` is
  the ticker's channel, with room for one tick. A write may block on the client. For Range,
  `offset` is `syntheticByteStream`'s and `part` the range `http.ServeContent` is copying;
  which ranges it serves (clipped, dropped, ignored if longer than the content, 416) is
  modelled from its documentation as far as Range depends on it. A read sleeps without
  looking at the context, so a lost connection ends the copying only at the next write.
* **Durations.** `time.Duration` is an integer from `-Half` to `Half - 1` that wraps; what
  converting a number out of range gives depends on the processor and is a choice. `limit`
  is `MaxDuration`, any duration at all. `Panic` is `rand.Int63n` with an argument that is
  not positive.
* **ClientIP.** Addresses and networks are model values. Proxies append the address
  they got the request from, as reverse proxies do.
* **Config.** One setting of each kind stands for its like; a value is the default, good
  or bad, and where it came from.

## 3. Runs

| Run | Shows |
| - | - |
| `limiter_pressure` | three clients, two entries: the bound on tracked keys, the bound on every window, and that only the least recently seen entry goes before its time |
| `limiter_ideal` | with room and lifetime enough, dropping entries is invisible (refinement of `IdealLimiter`), nothing is forgiven, idle entries go |
| `server` | two requests, one slot, one token: the slot comes back through panics and disconnects, exit 0 is graceful, the observer is called once per request that does not panic, the grace period is enough for every request that is through within `MaxDuration` of its arrival, requests end, a signal ends the process, in every order of the two goroutines |
| `websocket_echo` | any four frames: messages whole and in order, text valid, lawful clients not accused, nothing after a close frame, connection ends |
| `response_cache` | three concurrent requests, caches of two entries, converters that fail at any step: coherent, as asked, bounded, and every temporary file belongs to a request that is still converting |
| `pipeline` | about 20 000 paths, under a prefix: delays within the limit in pipelines and in mix, the parser against a reference definition, chains whose segments survive in a location keep modifiers and destination and are not turned down half way, and all end; the client is kept under the prefix, which is never put on twice, unless it asks for a URL that leads out of it; weighted statuses come up in proportion |
| `streams` | four items, two units of blocking, three connections, any two ranges: received in order and without gaps, pace kept on both sides, complete, handlers return |
| `durations` | every text in six-bit arithmetic, under a limit of nothing, a middling one and the longest duration: no delay out of bounds, a panic for the range of all durations only, meaning kept |
| `client_ip` | two proxies, three hosts: client found and charged, `none` means the peer |
| `config` | all combinations of flags and variables, malformed ones included, for six settings |

Two runs expect a violation: they state what a document or a comment says, and TLC shows
where the code does otherwise.

| Run | The code | The text |
| - | - | - |
| `websocket_split` | `frameResponse` never advances `offset` | `websocket.go:372` "splits a message into N frames" |
| `config_proxies` | `rawTrustedProxies` is reset before `mainImpl` reads it | `README.md:303` "Trust no proxy headers" |

`websocket_echo` sets the fragment limit equal to the message limit, so that no answer has
to be split, and `Answers` without "nil": it shows that the rest of the loop is right when
the finding above and the observation on nil answers below are set aside. `client_ip`
starts from a program that calls `ParseTrustedProxies` and `WithTrustedProxies` itself, for
the same reason.

The models show more places where the code and a text part, which the properties above
leave room for:

* `evictOldestLocked` (`ratelimit.go:118`) never deletes the empty key, so a full map whose
  oldest entry has it outgrows its limit; `README.md:115` says "Maximum number of tracked
  IPs". `RateLimiter` models it (`EmptyKey`), and the theorem on the bound has the absence
  of such a client as its hypothesis.
* `MaxDuration` bounds each wait of a request and not their sum (`README.md:109`, "Maximum
  duration a response may take"). A response delay comes on top of whatever the handler
  waits; a pipeline's delay is followed by a drip, SSE or range terminal with a duration of
  its own (`pipeline.go:331`, `pipeline.go:493`); a converter has 10 seconds whatever
  `MaxDuration` is (`helpers.go:1038`); and a slow client holds a handler until the server's
  timeouts. The grace period of a shutdown is `MaxDuration` and a second, so such a request
  may be cut off: `GivesUpOnlyOnLong` is about all others.
* With `MaxDuration` at the longest of all durations (`cmd.go:219` takes any), the range from
  0 to it makes `rand.Int63n` panic (`handlers.go:677`, `pipeline.go:336`), as the number of
  delays in it wraps. `DelaySafe` says that this is the only such range.
* After a nil answer `currentMsg` stays set and the client's next message is a protocol
  error (`websocket.go:227`); only handlers other than the echo handler answer nil.
* A large number of seconds can wrap into the accepted range (`helpers.go:352`; `README.md:331`,
  "Invalid or excessive values return `400 Bad Request`"): `MeaningKept` is about delays
  that are within the limit, and `DelaySafe` about what is waited for.
* `?response_delay=1-5` is 400 (`middleware.go:148`; `README.md:323`, "Random delay between
  1 and 5 seconds"): `MeaningKept` asks for ranges only where they are parsed.
* Absolute redirects outside the pipeline leave the prefix out (`handlers.go:425`), so that
  under a prefix the second request of the chain is 404; those of the pipeline put it in
  (`pipeline.go:682`). The tests expect the former (`handlers_test.go:1421`,
  `TestRedirects`), so `RedirectsInside` and `ChainNotRejected` name it as an exception.
* A relative redirect of the pipeline writes the segments it was asked for as they are
  (`pipeline.go:247`, `pipeline.go:676`, `handlers.go:1061`). `/header/X-A:b%3Fc/redirect/2/get`
  is answered with `/header/X-A:b?c/redirect/1/get`, whose path is `/header/X-A:b`: the rest of
  the chain is lost, and the next request is 400. With '#' it is the same, and with '%' the
  segment is altered or the location malformed. `Survives` leaves such chains out of
  `ChainKeepsPromise` and `ChainNotRejected`; that they end, and stay under the prefix, is
  still checked. Without `Survives` TLC finds both properties violated.
* `doRedirect` puts the prefix before a path with a single slash in front and before nothing
  else (`handlers.go:1058`), so that `/redirect-to?url=../x`, or one whose dots climb out of
  the prefix, leaves it. These are the client's own URLs: `RedirectsInside` names them as an
  exception (`SentAway`), and TLC finds it violated without.
* A variable for a switch that is neither `1` nor `true` is off, a slip too (`cmd.go:464`);
  no other malformed value passes in silence but the proxies', which are reset.
* A weighted choice whose weights are all 0, or that falls on a number that is no status,
  panics (`helpers.go:681`; the comment at `helpers.go:664`: "returns a randomly chosen
  element"). `Status` answers `Panicked` there, and `ChosenByWeight` asks for some weight.
* A status modifier from 100 to 199 ends as 200, as net/http treats those as informational.
* `Stream`'s comment (`handlers.go:590`) says "max(n, 100) lines"; the code writes at most
  100, and `WrittenInFull` is about what the code writes.
* `Seek` from the end computes `size - offset`, and `Read` beyond the end would return a
  negative count (`helpers.go:467`, `helpers.go:434`). `http.ServeContent` does neither.
* Temporary files survive if the process exits on a drain timeout in the middle of a
  conversion; `TempFilesOwned` is about requests that return.
* A flag that spells out its default loses to the environment (`cmd.go:281`; `README.md:135`,
  "Command line arguments take precedence"): `OwnFlagWins` is about other values.

## 4. Bounds

* `RateLimiter`: one client more than entries makes evictions happen; `Burst` 2 and a
  refill of half or two thirds of a token per tick give fractions; lifetimes shorter than
  the run make expiry happen. `MaxSpent` is above what any window allows, so it cuts
  nothing off.
* `Server`: two requests of one client, one slot and one token reach 429 and 503, and a
  slot that is not given back is missed by the other; requests meet only at the limiter and
  the semaphore. Delays go one past `MaxDuration`, and converters and slow clients past it
  too. `LatestStart` keeps arrivals and the signal early enough for their end to be seen
  before the clock stops.
* `WebSocket`: four frames are enough for a fragmented message, a control frame in the
  middle and the start of another; sizes go one past each limit.
* `ResponseCache`: three requests are enough for two to race while a third evicts. Two
  `Installations`: with and without a tool that reads its input from a pipe, next to the
  one that needs files.
* `Pipeline`: all paths of three words out of sixteen, and chains of up to three
  redirects with destinations of up to four segments; `MaxSegments` 6 so that the limit is
  passed too. A prefix of one segment is enough to be missing or doubled. `MaxDirectives` 2
  with up to three directives; `Grain` 12 is a multiple of all sums of weights in use, so
  that "in proportion" is exact. Counts of hundreds of redirects outside the pipeline,
  which the code allows, are left out of the paths. Headers and destinations with a segment
  of each kind that a client reads differently; targets of each kind, with up to three dots.
* `Streams`: counts -1 to 5 with a limit of 4 and delays from -1, so that
  requests are rejected on both sides; durations that divide evenly and do not. All
  pairs of ranges of four bytes over contents of up to four, overlapping, reversed and out
  of bounds; a buffer of two bytes, so that parts end inside one and at its end; chunk sizes
  from 0 to 3; `MaxLines` 3 so that lines are clipped.
* `Durations`: six bits (`Half` 32), a millisecond of four nanoseconds and numbers up to 36
  half milliseconds overflow several times over, and durations up to 36 go past the longest.
* Symmetry is used for clients and requests that are interchangeable, never in a run with
  a liveness property.

## 5. Fairness

* `RateLimiter`: the cleanup goroutine's ticker keeps firing.
* `Server`: goroutines run, the main one included, time passes, `Shutdown` closes the
  listeners, which ends `ListenAndServe`, and polls until it is done or its context expires.
  Nothing is assumed of clients or signals.
* `WebSocket`: the goroutine runs, and a read that gets no frame fails at the deadline
  `Serve` sets on the connection.
* `Pipeline`: the handler runs and the client follows redirects.
* `Streams`: the handler's goroutine runs and time passes. Nothing is assumed of the
  client, which may never read.

## 6. Proofs

Each theorem holds for every value of the constants that satisfies the named assumption of
its module: any number of clients, requests, slots, entries and frames, any limits and any
length of time. The assumptions say what kind of number or text a constant is; TLC
evaluates them in every run. Where they leave out something that the code accepts, it is
said here or in section 7: a negative `MaxDuration` (`Server`, `Pipeline`), and a prefix with
a '?', '#' or '%' in it or one that begins with `absolute-redirect` or `get` (`Pipeline`).
A bound that keeps a run finite (such
as `MaxTime` or `MaxFrames`) is a parameter like the others, so the theorems hold however
large it is. Where a theorem has a hypothesis of its own, it is named below.

Few properties are inductive as they stand. Each paragraph says what had to be added. The
stronger invariants were model-checked first, on the instances of section 3.

### RateLimiterProofs

* `TypeCorrect`: `Spec => []TypeOK`. Not inductive alone: that a bucket never holds more
  than its capacity needs that no time stamp is in the future (`Stamped`).
* `TrackedBounded`: if no client has the empty key, the map never outgrows its limit. The
  hypothesis is needed (section 3: the empty key is never evicted); the argument is that making room
  leaves at most `MaxEntries - 1` keys, by the cardinality theorems for finite sets.
* `WindowBounded`: over every window a client is admitted for at most its grant, the
  refill of the window and what evictions forgave it. The bound is not inductive: a state
  in which a client has spent everything and still holds tokens satisfies it. `Account` is:
  what a client has spent *and could still spend* stays within the bound. A tick adds at
  most `Refill` to what it could spend; an admitted request moves a token from one side to
  the other; an eviction adds to both sides alike. One lemma per action shows this.
* `LeastRecentEvicted`: only a full map loses an entry that has not expired, and only the
  least recently seen one.
* `NothingIsForgiven`: with room for every client, a burst of at least one token and a
  lifetime in which a bucket refills (`Generous`), no eviction writes off a debt. `Solvent`
  is the invariant: no bucket is overdrawn, and both of its time stamps are set together,
  so an entry that expires has had the time to fill up.
* `RefinesIdeal`: if `Generous`, then `Spec => ImplementsIdeal`. The mapping gives each
  client the tokens its entry would have now, or a full bucket if it has none. `Tick` is the
  abstract tick; `AllowNew` and `AllowKnown` are the abstract request; `Cleanup` is
  invisible, which is where `Solvent` is needed: what it drops is full.

### ServerProofs

* `TypeCorrect` and `SlotsAreBalanced`: the channel holds one item per request inside.
  Neither is inductive without the other, as a request that leaves takes an item out of the
  channel and there has to be one; the count itself is by the cardinality theorems, one
  lemma each for entering, leaving and staying.
* `EachObserved`: needs `Reported`, that nobody is reported before the end and that a
  request that panics can only unwind.
* `ExitsGracefully`: between what `Shutdown` finds and the return of `mainImpl` there are
  steps of both goroutines and of all requests. `Settled` is what holds meanwhile: once nil
  is on its way, the signal goroutine has returned, so that the listeners are closed, and no
  request is active; and none becomes active, as a connection that was hijacked does not
  come back.
* `GraceSuffices`: needs `Timely`, a bound on where each goroutine is in time: those before
  their first wait are as old as the clock, those that wait are not past their timer, the
  deadline is at least `MaxDuration` and a second after every request in flight began, those
  that arrived between the signal and the closing of the listeners included, and `Shutdown`
  does not give up before it.

### WebSocketProofs

* `TypeCorrect` and `CloseIsLast`: `Typed` adds the types of the frames that are built and
  of the client's own account.
* `BlamesTheGuilty` and `EchoesFaithfully`, for handlers that answer every message (`"nil"`
  not among `Answers`; section 3 has what happens otherwise). `Conversation` ties the
  server's locals to the client's account: when the loop reads, both are in the middle of
  the same message, which is valid so far, and everything sent has come back; while it
  frames and writes, exactly the last message is missing. The fragment limit is not assumed
  to equal the message limit: a message that would be split is never written (the finding
  of section 3), so the property holds up to it.

### ResponseCacheProofs

* `Coherent` and `AnswersAsAsked`, together: an entry is right because what a request
  stores is right, and an answer because the entry it found was. `Progress` says what each
  request holds between its steps, when other requests may change the cache.
* `Bounded`: `put` on a map within its bound gives one within it, for every choice of the
  entry to drop.
* `FilesOwned`: needs that the first file exists before the second is created.

### InputProofs: Durations

* `DelaysAreSafe`: the bounds are checked after the arithmetic has wrapped, so it does not
  matter what it wrapped to; and the number of delays within them wraps only if they are 0
  and the longest duration.
* `MeaningIsKept`: for a delay within the limit nothing wraps. The lemmas relate
  multiplication in words to multiplication of integers.

### InputProofs: Config

* `FlagsWin`, `MalformedStops` and `TLSOrNothing` follow from one invariant. `Resolving`
  says of the loop that the settings before the current one have their final value and
  passed their checks, and the others are as the flags left them; the check of the
  certificate comes when both halves are final.

### InputProofs: ClientIP

* `ClientIsFound`: `Journey` says that some position of the header holds the client, and
  that only trusted proxies follow it. Every proxy that forwards the request keeps this,
  and the walk from the right stops there, whatever the client itself wrote before it.

### StreamsProofs

SSE, Drip, Bytes, StreamBytes, Stream and Range, for any counts, chunk sizes, buffers,
durations, ranges and connections.

* `ResponsesComplete`: `Counted` bounds the loop counter at each point of the loop,
  `Finished` says how far it got.
* `ItemsInOrder`: what the client has and what is on the wire are together the first items,
  and, while connected, all that were written (`Ordered`); after a reconnect the count goes
  on from the last id received.
* `PaceIsKept`: `Timed` relates the clock to the number of items written. A ticker that
  holds one tick for a slow writer is never ahead of its grid (`Ahead`), and without slow
  writes it is exactly on it. The upper bound is that the rounded-up pauses exceed the
  duration by less than a unit each.

For Range all three come from `RangeInv`. `Placed` says where the bytes of each range are
among those of all of them; `Position` then says that what is written are the bytes of the
ranges before this one and those of this one up to the mark, and that what has been read is
at most to its end, however reads cut it. `Slept` bounds the clock by the bytes read so
far, one pause each; as `http.ServeContent` serves the whole content instead of ranges that
are longer than it together, these are at most `req.count` bytes, and the sleeps at most
the duration.

The proofs of the last two showed that the properties were wrong for rejected requests: with
a negative count or initial delay they compared an untouched state with a negative bound.
`PaceKept` now asks for an acceptable request, and `ReceivedInOrder` lets a client have
received nothing; the run now tries such requests.

### SequenceFacts

The prover cannot instantiate an induction theorem whose parameter is a predicate. These
lemmas do without: a set of numbers that has a member has a least one (well-foundedness,
which is about sets), so a set that holds 0, and with every number the next, holds all.
From it follow that a function defined by recursion over positions exists and is what its
equation says, upwards and downwards, and what `FlattenSeq` is: the empty sequence, one
part, a part more, how long it is and where each part starts in it. What is to be shown of
all prefixes of a sequence is then the set of the lengths for which it holds.

### PipelineProofs

Paths of any segments and any length, with any prefix, limits, tables of numbers, weights
and directives. `Segment` is what a segment can be: a string of the client, a name or a
numeral that the server writes.

* `RoundTripHolds` and `CompleteHolds` are about the parser. Its loop, a function over
  positions, is first shown to be one: at every position it is a modifier and the rest, or
  the terminal. Both theorems go along a path from its end: what is rebuilt from the
  modifiers is what was read, is read the same way again, and any other way to read the
  path as modifiers and a terminal takes the same modifiers at the same places. That every
  path requested is a sequence of segments after the prefix (`Written`) is an invariant of
  its own, with one lemma per handler that sends the client somewhere.
* `DelaysHold`: `Budget` adds to the time waited the most that may still be drawn. The sum
  over the ranges left drops by at least what is drawn from the first.
* `PromiseHolds` and `NotRejectedHolds`: `Chained` says where a client in a chain is, to the
  segment (`OnPath`), and, while redirects are left, that it is either in a chain outside the
  pipeline or in one whose modifiers, length, count and status have been accepted
  (`Underway`). That the next request is accepted too uses the parser's theorems: what
  `buildModifierPrefix` writes, the same type, one less and the same destination is read back
  as just that. `Checked` says that a request is dispatched as it was validated. Both are
  about chains that survive in their locations: a plain path is read as it is written
  (`PlainRead`), and everything a chain asks for is plain if its modifiers and destination are
  (`AheadPlain`). A chain that does not survive is broken for good (`StaysBroken`).
* `InsideHolds`: while the client is under the prefix, it is so once (`Unmixed`), for every
  location that a handler makes (`Suits`). What a client reads for a path under the prefix is
  under it, as the prefix itself is plain (`UnescapedSuits`). A target that climbs may end
  above the prefix, at it or below it, but never below it twice: what climbs only moves to the
  front (`TidyClimb`).
* `WeightsHold`: the number of random numbers for which the running sum of the weights is
  first passed at a position is the weight there times the random numbers per unit of
  weight. It counts an interval; that the sum is below the total before and above it after
  is an induction.

Four of them have hypotheses, all of which the instance of `MCPipeline` satisfies:

* `Countable` (`PromiseHolds`, `NotRejectedHolds`, `InsideHolds`): when a request asks for a
  number of redirects, the numbers below it are in the table `Number`. `strconv.Itoa` writes
  every number; a table of a model need not.
* `Evenly` (`WeightsHold`): the total weight divides the number of random numbers, so that
  "in proportion" is exact. `rand.Float64` has 2^53, and comes as close as that.
* `Apart`, or no prefix (`InsideHolds`): the first segment of the prefix is none of what a
  client asks for, is sent or reads, and the prefix has no dot segments. Otherwise a client
  may itself have written the prefix twice.

The proofs showed that something had been left unsaid: a prefix that begins with
`absolute-redirect` or `get` would let an absolute redirect outside the pipeline, which
leaves the prefix out, come back under it by accident.

### Only model-checked

All liveness properties: `IdleForgotten`, `RequestsEnd`, `SignalEndsProcess`,
`ConnectionEnds`, `HandlerReturns`, `ChainEnds`. Liveness under fairness is out of this
prover's reach. The two runs that expect a violation are TLC's too.

## 7. Not modelled

* Digest and basic authentication, request echoing, body parsing, base64, what cookies and
  ETags contain, header exclusion, UUIDs: functions of one request, without state. Digest
  nonces are not remembered, so there is no replay or expiry to model.
* The outcome of the pipeline's other terminals, and `Unstable`: a free choice of status.
* The redirects of net/http's mux: `/delay` to `/delay/`, where a path of one segment stands
  for the one with a slash, and paths with dot segments to clean ones. Escapes that spell a
  slash or a dot segment, and dot segments of a `?url=` that are not at its front.
* The status that `Drip` is asked for with `?code=`: it is 200, and no property depends on it.
* Machine arithmetic outside `Durations`: sums of delays in a pipeline or in mix wrap if
  `MaxDuration` is so close to the longest duration that a few of them exceed it. A negative `MaxDuration`,
  with which every delay is refused and a shutdown does not wait.
* A second signal, and one before `signal.Notify` is called, which ends the process at once;
  connections that `Shutdown` leaves alone for five seconds because they have sent nothing.
* `If-Range` and conditional headers of Range; the multipart envelope.
* What images, PDFs and archives contain; static assets; the wording of logs.
* `autohead` and `limitRequestSize`, which wrap the writer and the body.
* net/http's own timeouts (`SRV_*`), keep-alive and TLS.
* Masking, length encoding and the accept key of WebSocket frames.
* Floating point: tokens are whole units, seconds whole half-milliseconds.

## 8. Plan

1. *(done)* Limiter, its abstract specification and its proofs; server and shutdown;
   WebSocket; caches; pipeline; streams; durations; client address; configuration.
2. *(done)* Redirects under a prefix, `RedirectTo`, cookies and links; `Mix`; weighted
   statuses; `Range`, `Bytes`, `StreamBytes` and `Stream`; converters and their temporary
   files.
3. *(done)* Proofs of every safety property that a run checks, and of the refinement of
   `IdealLimiter`; the two goroutines of the shutdown; locations as clients read them; limits
   up to the longest duration.
4. Left: the terminals of the pipeline whose outcome is a free choice, `autohead` and
   `limitRequestSize` as wrappers of the chain, and digest authentication as a function of
   its request.
