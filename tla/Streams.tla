------------------------------- MODULE Streams -------------------------------
(* The responses of httpbin/handlers.go that come in pieces.  Drip writes      *)
(* bytes and SSE numbered events, one per tick of a time.Ticker, after a       *)
(* delay; a client of SSE that loses its connection, or reaches the end of a   *)
(* stream, asks again with the id of the last event it has seen.  Range serves *)
(* parts of a stream that sleeps as it is read (helpers.go:                    *)
(* syntheticByteStream); Bytes, StreamBytes and Stream write without pause.    *)
(*                                                                             *)
(* The clock counts the time since the handler of the current connection       *)
(* started, in the units (nanoseconds) that computePausePerWrite divides.      *)
(* A write may block on a slow client; ticks that pass meanwhile are lost but  *)
(* for one, which the ticker's channel holds.                                  *)
EXTENDS Integers, Sequences, SequencesExt

CONSTANTS Counts,       \* values of ?count= (SSE) and ?numbytes= (Drip)
          Durations,    \* values of ?duration=
          InitDelays,   \* values of ?delay=
          FailAfters,   \* values of ?fail_after=, 0 for none
          Chunks,       \* values of ?chunk_size=
          RangeHeaders, \* values of the Range header: sequences of <<first, last>>
          BufSize,      \* bytes that io.CopyN reads at a time
          MaxLines,     \* the most lines Stream writes (100)
          MaxCount,     \* maxSSECount, MaxBodySize
          MaxDuration,  \* HTTPBin.MaxDuration
          MaxSlow,      \* bound on the time writes block per connection
          MaxConns      \* bound on connections

ASSUME StreamsAssumption ==
    /\ Counts \subseteq Int /\ Durations \subseteq Int /\ InitDelays \subseteq Int
    /\ FailAfters \subseteq Nat /\ Chunks \subseteq Int
    /\ RangeHeaders \subseteq Seq(Nat \X Nat)
    /\ \A h \in RangeHeaders : \A k \in DOMAIN h : h[k][1] <= h[k][2]
    /\ BufSize \in Nat \ {0} /\ MaxLines \in Nat \ {0}
    /\ MaxCount \in Nat \ {0} /\ MaxDuration \in Nat \ {0}
    /\ MaxSlow \in Nat /\ MaxConns \in Nat

VARIABLES req,          \* the request, the same on every connection
          lastEventID,  \* its Last-Event-ID header, 0 without
          pc,           \* "idle", "delaying", "writing", "pausing", "pouring",
                        \* "seeking", "reading", "sleeping" or "done"
          status,       \* of the response, 0 before
          clock,        \* time since the handler started
          tickAt,       \* when the ticker fires next, or a sleep ends
          ticked,       \* its channel holds a tick
          i,            \* items written
          slow,         \* time that writes have blocked
          wire,         \* items written and not received
          broken,       \* the connection is lost, the context cancelled
          part,         \* the range being served, by number
          offset,       \* the position in the byte stream
          mark,         \* the position up to which it has been written
          got,          \* items the client has received, over all connections
          conns         \* connections opened

connVars == <<req, lastEventID, conns>>
rangeVars == <<part, offset, mark>>
vars == <<connVars, rangeVars, pc, status, clock, tickAt, ticked, i, slow, wire, broken, got>>

Request ==
    [kind : {"sse"}, count : Counts, duration : Durations, delay : InitDelays,
     failAfter : FailAfters, chunk : {0}, ranges : {<<>>}]
    \cup
    [kind : {"drip"}, count : Counts, duration : Durations, delay : InitDelays,
     failAfter : {0}, chunk : {0}, ranges : {<<>>}]
    \cup
    [kind : {"range"}, count : Counts, duration : Durations, delay : {0},
     failAfter : {0}, chunk : {0}, ranges : RangeHeaders]
    \cup
    [kind : {"bytes", "lines"}, count : Counts, duration : {0}, delay : {0},
     failAfter : {0}, chunk : Chunks, ranges : {<<>>}]

-----------------------------------------------------------------------------
(* SSE does not take a duration of 0.                                          *)
Shortest == IF req.kind = "sse" THEN 1 ELSE 0

(* What SSE and Drip check before the response starts; anything else is 400.   *)
AcceptablePaced ==
    /\ req.count \in 1 .. MaxCount
    /\ req.duration \in Shortest .. MaxDuration
    /\ req.delay \in 0 .. MaxDuration
    /\ req.duration + req.delay <= MaxDuration

(* Range needs a byte; Bytes does not; Stream takes any count and clips it.    *)
AcceptableRange == req.count \in 1 .. MaxCount /\ req.duration \in 0 .. MaxDuration
AcceptableBytes == req.count \in 0 .. MaxCount

Acceptable ==
    CASE req.kind \in {"sse", "drip"} -> AcceptablePaced
      [] req.kind = "range" -> AcceptableRange
      [] req.kind = "bytes" -> AcceptableBytes
      [] req.kind = "lines" -> TRUE

(* Bug: one pause too many.                                                    *)
computePauseExtraBug(duration, count) ==
    IF count > 1 THEN (duration + count - 1) \div (count - 1) ELSE duration

(* count - 1 pauses, rounded up.                                               *)
computePausePerWrite(duration, count) ==
    IF count > 1 THEN (duration + (count - 1) - 1) \div (count - 1) ELSE duration

pause == computePausePerWrite(req.duration, req.count)

(* Items in the response of Bytes and Stream, and the size of the next write.  *)
Total == IF req.kind = "bytes" THEN req.count
         ELSE IF req.count > MaxLines THEN MaxLines ELSE IF req.count < 1 THEN 1 ELSE req.count

Chunk == IF req.kind = "lines" THEN 1
         ELSE IF req.chunk \in 1 .. Total - i THEN req.chunk ELSE Total - i

-----------------------------------------------------------------------------
(* newSyntheticByteStream: the pause per byte, rounded down; the byte at o;    *)
(* and those of some ranges, one range after the other.                        *)
pausePerByte == req.duration \div req.count
Letter(o) == o % 26
BytesOf(ranges) ==
    FlattenSeq([k \in DOMAIN ranges |->
                   [j \in 1 .. ranges[k][2] - ranges[k][1] + 1 |-> Letter(ranges[k][1] + j - 1)]])

(* http.ServeContent: ranges are clipped to the content; those behind its end  *)
(* are dropped, unless all are, which is 416; and all of them are ignored if   *)
(* together they are longer than the content.                                  *)

Clipped(g) == <<g[1], IF g[2] < req.count THEN g[2] ELSE req.count - 1>>
Within == FlattenSeq([k \in DOMAIN req.ranges |->
              IF req.ranges[k][1] < req.count THEN <<Clipped(req.ranges[k])>> ELSE <<>>])
Length == Len(BytesOf(Within))
Unsatisfiable == req.ranges # <<>> /\ Within = <<>>
Whole == req.ranges = <<>> \/ Length > req.count
Parts == IF Whole THEN <<<<0, req.count - 1>>>> ELSE Within

-----------------------------------------------------------------------------
Init ==
    /\ req \in Request
    /\ lastEventID = 0
    /\ pc = "idle"
    /\ status = 0
    /\ clock = 0
    /\ tickAt = 0
    /\ ticked = FALSE
    /\ i = 0
    /\ slow = 0
    /\ wire = <<>>
    /\ broken = FALSE
    /\ part = 1
    /\ offset = 0
    /\ mark = 0
    /\ got = <<>>
    /\ conns = 0

(* The request arrives; its parameters are checked before anything is sent.    *)
Connect ==
    /\ pc = "idle"
    /\ conns < MaxConns
    /\ conns' = conns + 1
    /\ lastEventID' = IF got = <<>> \/ req.kind # "sse" THEN 0 ELSE Last(got)
    /\ IF ~Acceptable THEN pc' = "done" /\ status' = 400
       ELSE CASE req.kind \in {"sse", "drip"} -> pc' = "delaying" /\ status' = 0
              [] req.kind \in {"bytes", "lines"} ->
                    pc' = (IF Total = 0 THEN "done" ELSE "pouring") /\ status' = 200
              [] req.kind = "range" ->
                    IF Unsatisfiable THEN pc' = "done" /\ status' = 416
                    ELSE pc' = "seeking" /\ status' = IF Whole THEN 200 ELSE 206
    /\ clock' = 0
    /\ tickAt' = 0
    /\ ticked' = FALSE
    /\ i' = 0
    /\ slow' = 0
    /\ wire' = <<>>
    /\ broken' = FALSE
    /\ part' = 1
    /\ offset' = 0
    /\ mark' = 0
    /\ UNCHANGED <<req, got>>

(* The initial delay is over: the headers go out and the ticker starts.  200   *)
(* stands for whatever status Drip is asked for with ?code=.                   *)
Begin ==
    /\ pc = "delaying"
    /\ clock >= req.delay
    /\ pc' = "writing"
    /\ status' = 200
    /\ tickAt' = clock + pause
    /\ UNCHANGED <<connVars, rangeVars, clock, ticked, i, slow, wire, broken, got>>

(* The client leaves during the delay.                                         *)
DelayCancelled ==
    /\ pc = "delaying"
    /\ req.delay > 0
    /\ broken
    /\ pc' = "done"
    /\ status' = 499
    /\ UNCHANGED <<connVars, rangeVars, clock, tickAt, ticked, i, slow, wire, broken, got>>

(* Bug: ids start at the last one seen.                                        *)
ItemRepeatingBug(n) == IF req.kind = "sse" THEN lastEventID + n ELSE 0

(* Item n of this response, from 0: an event with its id, or a '*'.            *)
Item(n) == IF req.kind = "sse" THEN lastEventID + 1 + n ELSE 0

(* Bug: fail_after stops one event late.                                       *)
CutLateBug == req.failAfter > 0 /\ req.count > 1 /\ i > req.failAfter

(* fail_after: the stream stops short.                                         *)
Cut == req.failAfter > 0 /\ req.count > 1 /\ i >= req.failAfter

(* Bug: a write that failed is tried again for ever.                           *)
WriteRetryingBug ==
    LET n == IF pause = 0 THEN req.count ELSE 1
    IN  /\ pc = "writing"
        /\ ~Cut
        /\ IF broken
           THEN UNCHANGED <<wire, i, pc>>
           ELSE /\ wire' = wire \o [j \in 1 .. n |-> Item(i + j - 1)]
                /\ i' = i + n
                /\ pc' = IF i + n = req.count THEN "done" ELSE "pausing"
        /\ UNCHANGED <<connVars, rangeVars, status, clock, tickAt, ticked, slow, broken, got>>

(* Without a pause everything is written at once, otherwise one item.          *)
Write ==
    LET n == IF pause = 0 THEN req.count ELSE 1
    IN  /\ pc = "writing"
        /\ ~Cut
        /\ wire' = IF broken THEN wire ELSE wire \o [j \in 1 .. n |-> Item(i + j - 1)]
        /\ i' = i + n
        /\ pc' = IF i + n = req.count THEN "done" ELSE "pausing"
        /\ UNCHANGED <<connVars, rangeVars, status, clock, tickAt, ticked, slow, broken, got>>

Fail ==
    /\ pc = "writing"
    /\ Cut
    /\ pc' = "done"
    /\ UNCHANGED <<connVars, rangeVars, status, clock, tickAt, ticked, i, slow, wire, broken, got>>

(* Bug: the tick is seen but not taken from the channel.                       *)
PauseNotTakenBug ==
    /\ pc = "pausing"
    /\ ticked
    /\ pc' = "writing"
    /\ UNCHANGED <<connVars, rangeVars, status, clock, tickAt, ticked, i, slow, wire, broken, got>>

(* The select after a write: the ticker or the context, either if both.        *)
Pause ==
    /\ pc = "pausing"
    /\ ticked
    /\ ticked' = FALSE
    /\ pc' = "writing"
    /\ UNCHANGED <<connVars, rangeVars, status, clock, tickAt, i, slow, wire, broken, got>>

PauseCancelled ==
    /\ pc = "pausing"
    /\ broken
    /\ pc' = "done"
    /\ UNCHANGED <<connVars, rangeVars, status, clock, tickAt, ticked, i, slow, wire, broken, got>>

-----------------------------------------------------------------------------
(* Bytes, StreamBytes and Stream: pieces of the response, one after the other, *)
(* whether or not anybody is there to read them.                               *)
Pour ==
    /\ pc = "pouring"
    /\ wire' = IF broken THEN wire ELSE wire \o [j \in 1 .. Chunk |-> i + j - 1]
    /\ i' = i + Chunk
    /\ pc' = IF i + Chunk = Total THEN "done" ELSE "pouring"
    /\ UNCHANGED <<connVars, rangeVars, status, clock, tickAt, ticked, slow, broken, got>>

(* Bug: only the first part is looked for, the others are read on from there.  *)
SeekOnceBug ==
    /\ pc = "seeking"
    /\ IF part > Len(Parts)
       THEN pc' = "done" /\ UNCHANGED <<offset, mark>>
       ELSE /\ offset' = IF part = 1 THEN Parts[1][1] ELSE offset
            /\ mark' = offset'
            /\ pc' = "reading"
    /\ UNCHANGED <<connVars, part, status, clock, tickAt, ticked, i, slow, wire, broken, got>>

(* Range: ServeContent seeks to the next part, or is done.                     *)
Seek ==
    /\ pc = "seeking"
    /\ IF part > Len(Parts)
       THEN pc' = "done" /\ UNCHANGED <<offset, mark>>
       ELSE /\ offset' = Parts[part][1]
            /\ mark' = Parts[part][1]
            /\ pc' = "reading"
    /\ UNCHANGED <<connVars, part, status, clock, tickAt, ticked, i, slow, wire, broken, got>>

(* syntheticByteStream.Read: up to a buffer, and not past the end; it sleeps   *)
(* for every byte before it returns, with nothing to wake it.                  *)
Read ==
    LET left == Parts[part][2] + 1 - offset
        n    == IF left < BufSize THEN left ELSE BufSize
        end  == IF offset + n >= req.count THEN req.count ELSE offset + n
    IN  /\ pc = "reading"
        /\ offset' = end
        /\ tickAt' = clock + pausePerByte * (end - offset)
        /\ pc' = "sleeping"
        /\ UNCHANGED <<connVars, part, mark, status, clock, ticked, i, slow, wire, broken, got>>

(* What was read is written; a lost connection ends the copying here.          *)
Copy ==
    /\ pc = "sleeping"
    /\ clock >= tickAt
    /\ IF broken
       THEN pc' = "done" /\ UNCHANGED <<wire, mark, i, part>>
       ELSE /\ wire' = wire \o [j \in 1 .. offset - mark |-> Letter(mark + j - 1)]
            /\ i' = i + offset - mark
            /\ mark' = offset
            /\ IF offset > Parts[part][2]
               THEN pc' = "seeking" /\ part' = part + 1
               ELSE pc' = "reading" /\ UNCHANGED part
    /\ UNCHANGED <<connVars, offset, status, clock, tickAt, ticked, slow, broken, got>>

-----------------------------------------------------------------------------
(* The client.                                                                 *)

Receive ==
    /\ wire # <<>>
    /\ got' = Append(got, Head(wire))
    /\ wire' = Tail(wire)
    /\ UNCHANGED <<connVars, rangeVars, pc, status, clock, tickAt, ticked, i, slow, broken>>

(* The connection is lost, and with it whatever was under way.                 *)
Break ==
    /\ pc # "idle"
    /\ ~broken
    /\ broken' = TRUE
    /\ wire' = <<>>
    /\ UNCHANGED <<connVars, rangeVars, pc, status, clock, tickAt, ticked, i, slow, got>>

(* An event source asks again after a lost connection and after the end of the *)
(* stream, unless it was turned down.  (That the old handler has returned by   *)
(* then is no restriction: two handlers share nothing.)                        *)
Reconnect ==
    /\ pc = "done"
    /\ req.kind = "sse"
    /\ status # 400
    /\ broken \/ wire = <<>>
    /\ conns < MaxConns
    /\ pc' = "idle"
    /\ UNCHANGED <<connVars, rangeVars, status, clock, tickAt, ticked, i, slow, wire, broken, got>>

(* Time passes unless the handler can go on; writing takes none, or as long as *)
(* the client lets it block.                                                   *)
Urgent ==
    \/ pc = "delaying" /\ (clock >= req.delay \/ broken)
    \/ pc = "writing" /\ slow >= MaxSlow
    \/ pc = "pausing" /\ (ticked \/ broken)
    \/ pc = "sleeping" /\ clock >= tickAt

Tick ==
    LET fires == pc \in {"writing", "pausing"} /\ clock + 1 >= tickAt
    IN  /\ pc \in {"delaying", "writing", "pausing", "sleeping"}
        /\ ~Urgent
        /\ clock' = clock + 1
        /\ slow' = IF pc = "writing" THEN slow + 1 ELSE slow
        /\ ticked' = (ticked \/ (fires /\ pause > 0))
        /\ tickAt' = IF fires THEN tickAt + pause ELSE tickAt
        /\ UNCHANGED <<connVars, rangeVars, pc, status, i, wire, broken, got>>

Over ==
    /\ pc = "done"
    /\ UNCHANGED vars

Handler == \/ Begin \/ DelayCancelled \/ Write \/ Fail \/ Pause \/ PauseCancelled
           \/ Pour \/ Seek \/ Read \/ Copy \/ Tick

Next == Connect \/ Handler \/ Receive \/ Break \/ Reconnect \/ Over

Spec == Init /\ [][Next]_vars

(* The handler's goroutine runs and time passes; clients owe nothing.          *)
FairSpec == Spec /\ WF_vars(Handler)

-----------------------------------------------------------------------------
(* Properties.                                                                 *)

(* The bytes a Range request asks for, part after part.                        *)
AskedBytes == BytesOf(Parts)

(* A client has received what it asked for and nothing else, up to some point: *)
(* an event source the ids 1, 2, 3, ... without gap or repetition, however     *)
(* often it lost the connection and whatever was under way then; a client of   *)
(* Range the bytes of its ranges, in the order of the ranges, however they are *)
(* cut into reads; the others their items in order.                            *)
ReceivedInOrder ==
    CASE req.kind = "sse" -> \A n \in 1 .. Len(got) : got[n] = n
      [] req.kind = "range" -> got = <<>> \/ IsPrefix(got, AskedBytes)
      [] req.kind = "drip" -> got = <<>> \/ Len(got) <= req.count
      [] OTHER -> got = [n \in 1 .. Len(got) |-> n - 1]

(* Items are never written ahead of the pace, even by a ticker that holds a    *)
(* tick back for a slow writer, and a stream of several items that is written  *)
(* in full takes at least the duration that was asked for.  Unless the client  *)
(* slows it down, a response to an acceptable request takes at most that       *)
(* duration plus the rounding of its pauses, less than a unit per item; a      *)
(* Range response never takes longer, however many ranges are asked for.       *)
PaceKept ==
    /\ (req.kind \in {"sse", "drip"} /\ status = 200 /\ i > 0) =>
          /\ clock >= req.delay + (i - 1) * pause
          /\ (i = req.count /\ i > 1) => clock >= req.delay + req.duration
    /\ (Acceptable /\ slow = 0) =>
          IF req.kind = "range" THEN clock <= req.duration
          ELSE clock <= req.delay + (IF req.count > 1 THEN req.duration + req.count - 2 ELSE 0)

(* A response to a client that stayed connected is complete: all the items of  *)
(* the announced Content-Length, those before fail_after, all the bytes of all *)
(* ranges, or as many lines as Stream is willing to write.                     *)
WrittenInFull ==
    (pc = "done" /\ status \in {200, 206} /\ ~broken) =>
        i = CASE req.kind = "range" -> Len(AskedBytes)
              [] req.kind \in {"bytes", "lines"} -> Total
              [] OTHER -> IF req.failAfter > 0 /\ req.failAfter < req.count
                          THEN req.failAfter ELSE req.count

(* Every handler returns, whether or not its client stays.                     *)
HandlerReturns == pc # "idle" ~> pc = "done"
=============================================================================
