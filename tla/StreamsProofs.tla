---------------------------- MODULE StreamsProofs ----------------------------
(* Theorems about the responses that come in pieces, for any parameters: SSE,  *)
(* Drip, Bytes, StreamBytes and Stream, and Range with any ranges.             *)
EXTENDS Streams, SequenceFacts

(* Division rounds down.                                                       *)
LEMMA DivisionBounds ==
    ASSUME NEW a \in Nat, NEW b \in Nat \ {0}
    PROVE  /\ a \div b \in Nat
           /\ (a \div b) * b <= a
           /\ a < (a \div b) * b + b
  OBVIOUS

(* A factor that grows makes the product grow.                                 *)
LEMMA ProductMonotone ==
    ASSUME NEW m \in Nat, NEW n \in Nat, NEW p \in Nat, m <= n
    PROVE  /\ m * p \in Nat /\ n * p \in Nat /\ m * p <= n * p
  OBVIOUS

(* Taking one factor more.                                                     *)
LEMMA ProductNext ==
    ASSUME NEW m \in Int, NEW p \in Int
    PROVE  /\ m * p \in Int /\ (m + 1) * p = m * p + p /\ (m - 1) * p = m * p - p
  OBVIOUS

-----------------------------------------------------------------------------
(* Requests.                                                                   *)

Paced == req.kind \in {"sse", "drip"}
Plain == req.kind \in {"bytes", "lines"}

(* The parameters are numbers, and some endpoints do not have all of them.     *)
LEMMA RequestType ==
    ASSUME req \in Request
    PROVE  /\ req.kind \in {"sse", "drip", "range", "bytes", "lines"}
           /\ req.count \in Int /\ req.duration \in Int /\ req.delay \in Int
           /\ req.failAfter \in Nat /\ req.chunk \in Int
           /\ req.kind # "sse" => req.failAfter = 0
           /\ Plain => req.duration = 0 /\ req.delay = 0
<1>1. /\ req.kind \in {"sse", "drip", "range", "bytes", "lines"}
      /\ req.count \in Counts /\ req.duration \in Durations \cup {0}
      /\ req.delay \in InitDelays \cup {0}
      /\ req.failAfter \in FailAfters \cup {0} /\ req.chunk \in Chunks \cup {0}
      /\ req.kind # "sse" => req.failAfter = 0
      /\ req.kind \in {"bytes", "lines"} => req.duration = 0 /\ req.delay = 0
  BY DEF Request
<1>2. /\ \A n \in Counts \cup Durations \cup InitDelays \cup Chunks \cup {0} : n \in Int
      /\ \A n \in FailAfters \cup {0} : n \in Nat
  BY StreamsAssumption
<1>3. /\ req.count \in Int /\ req.duration \in Int /\ req.delay \in Int
      /\ req.failAfter \in Nat /\ req.chunk \in Int
  BY <1>1, <1>2, Zenon
<1> QED
  BY <1>1, <1>3 DEF Plain

(* What SSE and Drip accept.                                                   *)
LEMMA PacedRequest ==
    ASSUME req \in Request, Paced, Acceptable
    PROVE  /\ req.count \in Nat \ {0} /\ req.duration \in Nat /\ req.delay \in Nat
           /\ req.kind = "sse" => req.duration > 0
<1>1. AcceptablePaced
  BY DEF Paced, Acceptable
<1>2. /\ req.count \in 1 .. MaxCount /\ req.duration \in Shortest .. MaxDuration
      /\ req.delay \in 0 .. MaxDuration
  BY <1>1 DEF AcceptablePaced
<1>3. Shortest \in Nat /\ (req.kind = "sse" => Shortest = 1)
  BY DEF Shortest
<1> HIDE DEF Shortest
<1> QED
  BY <1>2, <1>3

(* The pauses between the items of an accepted stream add up to its duration,  *)
(* and to less than one unit more per item; SSE always pauses.                 *)
LEMMA PauseFacts ==
    ASSUME req \in Request, Paced, Acceptable
    PROVE  /\ pause \in Nat
           /\ req.count > 1 => /\ req.duration <= (req.count - 1) * pause
                               /\ (req.count - 1) * pause <= req.duration + req.count - 2
           /\ pause = 0 => req.duration = 0 /\ req.failAfter = 0
<1> DEFINE c == req.count
           d == req.duration
<1>1. c \in Nat \ {0} /\ d \in Nat /\ (req.kind = "sse" => d > 0)
  BY PacedRequest
<1>2. req.kind # "sse" => req.failAfter = 0
  BY RequestType
<1>3. pause = IF c > 1 THEN (d + (c - 1) - 1) \div (c - 1) ELSE d
  BY DEF pause, computePausePerWrite
<1> HIDE DEF c, d
<1>4. CASE c > 1
  <2>1. PICK a \in Nat, b \in Nat \ {0} : a = d + (c - 1) - 1 /\ b = c - 1
    BY <1>1, <1>4
  <2>2. pause = a \div b
    BY <1>3, <1>4, <2>1
  <2>3. /\ pause \in Nat /\ pause * b <= a /\ a < pause * b + b
    BY <2>2, DivisionBounds
  <2>4. b * pause = pause * b /\ b * pause \in Nat
    BY <2>3
  <2>5. d <= b * pause /\ b * pause <= d + c - 2
    <3>1. PICK q \in Nat : q = b * pause
      BY <2>4
    <3>2. q <= a /\ a < q + b
      BY <2>3, <2>4, <3>1
    <3> QED
      BY <1>1, <2>1, <3>1, <3>2
  <2>6. pause = 0 => d = 0
    <3>1. pause = 0 => b * pause = 0
      BY <2>3
    <3> QED
      BY <1>1, <2>4, <2>5, <3>1
  <2> QED
    BY <1>1, <1>2, <2>1, <2>3, <2>5, <2>6 DEF c, d
<1>5. CASE ~(c > 1)
  BY <1>1, <1>2, <1>3, <1>5 DEF c, d
<1> QED
  BY <1>4, <1>5

(* What Bytes and Stream write, and each time that they do.                    *)
LEMMA PlainFacts ==
    ASSUME req \in Request, Plain, Acceptable
    PROVE  /\ Total \in Nat
           /\ i \in Nat /\ i < Total => Chunk \in Nat \ {0} /\ i + Chunk <= Total
<1>1. req.count \in Int /\ req.chunk \in Int /\ MaxLines \in Nat \ {0}
  BY RequestType, StreamsAssumption
<1>2. req.kind = "bytes" => req.count \in Nat
  BY DEF Acceptable, AcceptableBytes
<1>3. Total \in Nat
  BY <1>1, <1>2 DEF Total
<1>4. ASSUME i \in Nat, i < Total PROVE Chunk \in Nat \ {0} /\ i + Chunk <= Total
  <2> DEFINE t == Total
  <2>1. Chunk = IF req.kind = "lines" THEN 1
                ELSE IF req.chunk \in 1 .. t - i THEN req.chunk ELSE t - i
    BY DEF Chunk
  <2>2. t \in Nat /\ i \in Nat /\ i < t
    BY <1>3, <1>4
  <2> HIDE DEF t
  <2>3. Chunk \in Nat \ {0} /\ i + Chunk <= t
    BY <1>1, <2>1, <2>2
  <2> QED
    BY <2>3 DEF t
<1> QED
  BY <1>3, <1>4

-----------------------------------------------------------------------------
(* Where a handler is, and how much it has written by then.                    *)

Control ==
    /\ req \in Request /\ req.kind # "range"
    /\ i \in Nat /\ slow \in Nat /\ clock \in Nat /\ tickAt \in Int
    /\ ticked \in BOOLEAN /\ broken \in BOOLEAN
    /\ pc \in {"idle", "delaying", "writing", "pausing", "pouring", "done"}
    /\ pc \in {"delaying", "writing", "pausing"} => Paced /\ Acceptable
    /\ pc = "pouring" => Plain /\ Acceptable
    /\ status \in {200, 206} => Acceptable
    /\ pc = "delaying" => status = 0 /\ i = 0
    /\ pc \in {"writing", "pausing"} => status = 200

(* The loop ends before it has written too much; without a pause it never gets *)
(* round, and with fail_after it does not get past that.                       *)
Counted ==
    /\ Paced /\ i > 0 => i <= req.count
    /\ pc \in {"writing", "pausing"} => /\ i < req.count
                                        /\ req.failAfter > 0 /\ req.count > 1 => i <= req.failAfter
    /\ pc = "writing" => pause > 0 \/ i = 0
    /\ pc = "pausing" => pause > 0 /\ i > 0
    /\ pc = "pouring" => i < Total

(* The steps of a response that is no Range response.                          *)
LEMMA StepsOf ==
    ASSUME Control, [Next]_vars
    PROVE  /\ req' = req
           /\ \/ Connect \/ Begin \/ DelayCancelled \/ Write \/ Fail \/ Pause \/ PauseCancelled
              \/ Pour \/ Tick \/ Receive \/ Break \/ Reconnect \/ UNCHANGED vars
<1>1. ~Seek /\ ~Read /\ ~Copy
  BY DEF Control, Seek, Read, Copy
<1>2. \/ Connect \/ Begin \/ DelayCancelled \/ Write \/ Fail \/ Pause \/ PauseCancelled
      \/ Pour \/ Tick \/ Receive \/ Break \/ Reconnect \/ UNCHANGED vars
  BY <1>1 DEF Next, Handler, Over
<1>3. UNCHANGED connVars => req' = req
  BY DEF connVars
<1>4. req' = req
  <2>1. CASE Connect
    BY <2>1 DEF Connect
  <2>2. CASE UNCHANGED vars
    BY <2>2, <1>3 DEF vars
  <2> QED
    BY <1>2, <1>3, <2>1, <2>2 DEF Begin, DelayCancelled, Write, Fail, Pause, PauseCancelled, Pour,
       Tick, Receive, Break, Reconnect
<1> QED
  BY <1>2, <1>4

(* What a request means does not change on the way.                            *)
LEMMA SameRequest ==
    ASSUME req' = req
    PROVE  /\ Paced' <=> Paced
           /\ Plain' <=> Plain
           /\ Acceptable' <=> Acceptable
           /\ pause' = pause
           /\ Total' = Total
  BY DEF Paced, Plain, Acceptable, AcceptablePaced, AcceptableRange, AcceptableBytes, Shortest,
         pause, computePausePerWrite, Total

(* All the items of a response that is no Range response.                      *)
Full == IF Plain THEN Total
        ELSE IF req.failAfter > 0 /\ req.failAfter < req.count THEN req.failAfter ELSE req.count

Finished == pc = "done" /\ status \in {200, 206} /\ ~broken => i = Full

(* A connection is opened.                                                     *)
LEMMA ConnectControl ==
    ASSUME Control, Connect
    PROVE  Control' /\ Counted' /\ Finished'
<1>1. /\ req' = req /\ clock' = 0 /\ tickAt' = 0 /\ i' = 0 /\ slow' = 0
      /\ ticked' \in BOOLEAN /\ broken' \in BOOLEAN
  BY DEF Connect
<1>2. /\ req \in Request /\ req.kind # "range" /\ (Paced \/ Plain) /\ ~(Paced /\ Plain)
  BY RequestType DEF Control, Paced, Plain
<1>3. \/ ~Acceptable /\ pc' = "done" /\ status' = 400
      \/ Acceptable /\ Paced /\ pc' = "delaying" /\ status' = 0
      \/ Acceptable /\ Plain /\ pc' = (IF Total = 0 THEN "done" ELSE "pouring") /\ status' = 200
  BY <1>2 DEF Connect, Paced, Plain
<1>4. /\ Paced' <=> Paced
      /\ Plain' <=> Plain
      /\ Acceptable' <=> Acceptable
      /\ pause' = pause
      /\ Total' = Total
  BY <1>1, SameRequest
<1>5. CASE ~Acceptable /\ pc' = "done" /\ status' = 400
  BY <1>1, <1>2, <1>4, <1>5 DEF Control, Counted, Finished
<1>6. CASE Acceptable /\ Paced /\ pc' = "delaying" /\ status' = 0
  BY <1>1, <1>2, <1>4, <1>6 DEF Control, Counted, Finished
<1>7. CASE Acceptable /\ Plain /\ pc' = (IF Total = 0 THEN "done" ELSE "pouring") /\ status' = 200
  <2>1. Total \in Nat
    BY <1>2, <1>7, PlainFacts
  <2>2. Control' /\ Counted'
    BY <1>1, <1>2, <1>4, <1>7, <2>1 DEF Control, Counted
  <2>3. Full' = Total
    BY <1>4, <1>7 DEF Full
  <2> QED
    BY <1>1, <1>7, <2>2, <2>3 DEF Finished
<1> QED
  BY <1>3, <1>5, <1>6, <1>7

(* Items of a paced stream are written.                                        *)
LEMMA WriteControl ==
    ASSUME Control, Counted, Write
    PROVE  Control' /\ Counted' /\ Finished'
<1> DEFINE n == IF pause = 0 THEN req.count ELSE 1
<1>1. /\ pc = "writing" /\ ~Cut /\ i' = i + n /\ req' = req
      /\ pc' = IF i + n = req.count THEN "done" ELSE "pausing"
      /\ UNCHANGED <<status, clock, tickAt, ticked, slow, broken>>
  BY DEF Write, connVars
<1>2. /\ req \in Request /\ Paced /\ Acceptable /\ ~Plain /\ status = 200
      /\ i \in Nat /\ i < req.count
      /\ req.failAfter > 0 /\ req.count > 1 => i <= req.failAfter
      /\ pause > 0 \/ i = 0
  BY <1>1 DEF Control, Counted, Paced, Plain
<1>3. /\ req.count \in Nat \ {0} /\ req.failAfter \in Nat
      /\ pause \in Nat /\ (pause = 0 => req.failAfter = 0)
  BY <1>2, PacedRequest, PauseFacts, RequestType
<1>4. /\ Paced' <=> Paced
      /\ Plain' <=> Plain
      /\ Acceptable' <=> Acceptable
      /\ pause' = pause
      /\ Total' = Total
  BY <1>1, SameRequest
<1>5. ~(req.failAfter > 0 /\ req.count > 1 /\ i >= req.failAfter)
  BY <1>1 DEF Cut
<1>6. CASE pause = 0
  <2>1. i' = req.count /\ pc' = "done"
    BY <1>1, <1>2, <1>3, <1>6
  <2>2. Control' /\ Counted'
    BY <1>1, <1>2, <1>3, <1>4, <2>1 DEF Control, Counted
  <2>3. Full' = req.count
    BY <1>1, <1>2, <1>3, <1>4, <1>6 DEF Full
  <2> QED
    BY <2>1, <2>2, <2>3 DEF Finished
<1>7. CASE pause > 0
  <2>1. i' = i + 1 /\ pc' = IF i + 1 = req.count THEN "done" ELSE "pausing"
    BY <1>1, <1>3, <1>7
  <2>2. Control'
    BY <1>1, <1>2, <1>3, <1>4, <2>1 DEF Control
  <2>3. Counted'
    BY <1>1, <1>2, <1>3, <1>4, <1>5, <1>7, <2>1 DEF Counted
  <2>4. ASSUME i + 1 = req.count PROVE Full' = req.count
    <3>1. ~(req.failAfter > 0 /\ req.failAfter < req.count)
      BY <1>2, <1>3, <1>5, <2>4
    <3> QED
      BY <1>1, <1>2, <1>4, <3>1 DEF Full
  <2> QED
    BY <2>1, <2>2, <2>3, <2>4 DEF Finished
<1> QED
  BY <1>3, <1>6, <1>7

(* A piece of Bytes or Stream is written.                                      *)
LEMMA PourControl ==
    ASSUME Control, Counted, Pour
    PROVE  Control' /\ Counted' /\ Finished'
<1>1. /\ pc = "pouring" /\ i' = i + Chunk /\ req' = req
      /\ pc' = IF i + Chunk = Total THEN "done" ELSE "pouring"
      /\ UNCHANGED <<status, clock, tickAt, ticked, slow, broken>>
  BY DEF Pour, connVars
<1>2. /\ req \in Request /\ ~Paced /\ Acceptable /\ Plain /\ i \in Nat /\ i < Total
  BY <1>1 DEF Control, Counted, Paced, Plain
<1>3. Total \in Nat /\ Chunk \in Nat \ {0} /\ i + Chunk <= Total
  BY <1>2, PlainFacts
<1>4. /\ Paced' <=> Paced
      /\ Plain' <=> Plain
      /\ Acceptable' <=> Acceptable
      /\ Total' = Total
  BY <1>1, SameRequest
<1>5. Control'
  BY <1>1, <1>2, <1>3, <1>4 DEF Control
<1>6. Counted'
  BY <1>1, <1>2, <1>3, <1>4 DEF Counted
<1>7. Full' = Total
  BY <1>2, <1>4 DEF Full
<1> QED
  BY <1>1, <1>5, <1>6, <1>7 DEF Finished

(* A response that is over is complete unless its client has left.             *)
LEMMA StepControl ==
    ASSUME Control, Counted, Finished, [Next]_vars
    PROVE  Control' /\ Counted' /\ Finished'
<1>1. req' = req
  BY StepsOf
<1>2. /\ Paced' <=> Paced
      /\ Plain' <=> Plain
      /\ Acceptable' <=> Acceptable
      /\ pause' = pause
      /\ Total' = Total
  BY <1>1, SameRequest
<1>3. Full' = Full
  BY <1>1, <1>2 DEF Full
<1>4. CASE Begin
  <2>1. /\ pc = "delaying" /\ pc' = "writing" /\ status' = 200 /\ tickAt' = clock + pause
        /\ UNCHANGED <<clock, ticked, i, slow, broken>>
    BY <1>4 DEF Begin
  <2>2. /\ req \in Request /\ Paced /\ Acceptable /\ i = 0 /\ clock \in Nat
    BY <2>1 DEF Control
  <2>3. pause \in Nat /\ req.count \in Nat \ {0} /\ req.failAfter \in Nat
    BY <2>2, PauseFacts, PacedRequest, RequestType
  <2>4. Control'
    BY <1>1, <1>2, <2>1, <2>2, <2>3 DEF Control
  <2> QED
    BY <1>1, <1>2, <2>1, <2>2, <2>3, <2>4 DEF Counted, Finished
<1>5. CASE DelayCancelled
  BY <1>1, <1>2, <1>5 DEF DelayCancelled, Control, Counted, Finished
<1>6. CASE Fail
  <2>1. /\ pc = "writing" /\ Cut /\ pc' = "done"
        /\ UNCHANGED <<status, clock, tickAt, ticked, i, slow, broken>>
    BY <1>6 DEF Fail
  <2>2. Control' /\ Counted'
    BY <1>1, <1>2, <2>1 DEF Control, Counted
  <2>3. /\ req.failAfter > 0 /\ req.count > 1 /\ i >= req.failAfter
        /\ i <= req.failAfter /\ i < req.count /\ ~Plain
        /\ i \in Nat /\ req.failAfter \in Nat /\ req.count \in Int
    BY <2>1, RequestType DEF Cut, Counted, Control, Paced, Plain
  <2>4. i = Full
    BY <2>3 DEF Full
  <2> QED
    BY <1>3, <2>1, <2>2, <2>4 DEF Finished
<1>7. CASE Pause
  <2>1. /\ pc = "pausing" /\ pc' = "writing" /\ ticked' \in BOOLEAN
        /\ UNCHANGED <<status, clock, tickAt, i, slow, broken>>
    BY <1>7 DEF Pause
  <2> QED
    BY <1>1, <1>2, <2>1 DEF Control, Counted, Finished
<1>8. CASE PauseCancelled
  BY <1>1, <1>2, <1>8 DEF PauseCancelled, Control, Counted, Finished
<1>9. CASE Tick
  <2>1. /\ clock' = clock + 1 /\ slow' \in {slow, slow + 1} /\ tickAt' \in {tickAt, tickAt + pause}
        /\ pc \in {"delaying", "writing", "pausing", "sleeping"}
        /\ UNCHANGED <<pc, status, i, broken>>
    BY <1>9 DEF Tick
  <2>2. ticked' \in BOOLEAN
    BY <1>9 DEF Tick
  <2>3. req \in Request /\ Paced /\ Acceptable /\ tickAt \in Int /\ clock \in Nat /\ slow \in Nat
    BY <2>1 DEF Control
  <2>4. pause \in Nat
    BY <2>3, PauseFacts
  <2>5. clock' \in Nat /\ slow' \in Nat /\ tickAt' \in Int
    BY <2>1, <2>3, <2>4
  <2>6. Control'
    BY <1>1, <1>2, <2>1, <2>2, <2>5 DEF Control
  <2> QED
    BY <1>1, <1>2, <2>1, <2>6 DEF Control, Counted, Finished
<1>10. CASE Receive \/ UNCHANGED vars
  <2>1. UNCHANGED <<pc, status, clock, tickAt, ticked, i, slow, broken>>
    BY <1>10 DEF Receive, vars
  <2> QED
    BY <1>1, <1>2, <1>3, <2>1 DEF Control, Counted, Finished
<1>11. CASE Break
  <2>1. broken' /\ broken' \in BOOLEAN /\ UNCHANGED <<pc, status, clock, tickAt, ticked, i, slow>>
    BY <1>11 DEF Break
  <2> QED
    BY <1>1, <1>2, <2>1 DEF Control, Counted, Finished
<1>12. CASE Reconnect
  <2>1. pc' = "idle" /\ UNCHANGED <<status, clock, tickAt, ticked, i, slow, broken>>
    BY <1>12 DEF Reconnect
  <2> QED
    BY <1>1, <1>2, <2>1 DEF Control, Counted, Finished
<1> QED
  BY <1>4, <1>5, <1>6, <1>7, <1>8, <1>9, <1>10, <1>11, <1>12, StepsOf, ConnectControl,
     WriteControl, PourControl

(* Nothing has happened yet.                                                   *)
LEMMA InitControl == Init /\ req.kind # "range" => Control /\ Counted /\ Finished
<1> SUFFICES ASSUME Init, req.kind # "range" PROVE Control /\ Counted /\ Finished
  OBVIOUS
<1>1. /\ pc = "idle" /\ status = 0 /\ i = 0 /\ slow = 0 /\ clock = 0 /\ tickAt = 0
      /\ req \in Request
  BY DEF Init
<1>2. ticked \in BOOLEAN /\ broken \in BOOLEAN
  BY DEF Init
<1> QED
  BY <1>1, <1>2 DEF Control, Counted, Finished

(* The request stays the same.                                                 *)
LEMMA RequestKept == [Next]_vars => req' = req
<1> SUFFICES ASSUME [Next]_vars PROVE req' = req
  OBVIOUS
<1>1. UNCHANGED connVars => req' = req
  BY DEF connVars
<1>2. CASE Connect
  BY <1>2 DEF Connect
<1>3. CASE Handler
  BY <1>1, <1>3 DEF Handler, Begin, DelayCancelled, Write, Fail, Pause, PauseCancelled, Pour,
     Seek, Read, Copy, Tick
<1>4. CASE Receive \/ Break \/ Reconnect
  BY <1>1, <1>4 DEF Receive, Break, Reconnect
<1>5. CASE Over \/ UNCHANGED vars
  BY <1>1, <1>5 DEF Over, vars
<1> QED
  BY <1>2, <1>3, <1>4, <1>5 DEF Next

(* Where the handlers of the other endpoints are, always.                      *)
LEMMA ControlAlways == Spec => [](req.kind # "range" => Control /\ Counted /\ Finished)
<1> DEFINE Inv == req.kind # "range" => Control /\ Counted /\ Finished
<1>1. Init => Inv
  BY InitControl
<1>2. Inv /\ [Next]_vars => Inv'
  BY StepControl, RequestKept
<1> QED
  BY <1>1, <1>2, PTL DEF Spec

-----------------------------------------------------------------------------
(* The parts of a Range response.                                              *)

Ranged == req.kind = "range"

(* Ranges within the content.                                                  *)
Valid == {g \in Nat \X Nat : g[1] <= g[2] /\ g[2] < req.count}

Size(g) == g[2] - g[1] + 1

(* Where the bytes of each of the ranges p are among those of all of them.     *)
Placed(p, f) ==
    /\ f[0] = 0 /\ f[Len(p)] = Len(BytesOf(p))
    /\ \A k \in 1 .. Len(p) :
          /\ f[k] = f[k - 1] + Size(p[k])
          /\ f[k] <= Len(BytesOf(p))
          /\ \A x \in 1 .. Size(p[k]) : BytesOf(p)[f[k - 1] + x] = Letter(p[k][1] + x - 1)

LEMMA LetterType ==
    ASSUME NEW o \in Nat
    PROVE  Letter(o) \in Nat
  BY DEF Letter

LEMMA BytesPlaced ==
    ASSUME NEW p \in Seq(Valid)
    PROVE  /\ BytesOf(p) \in Seq(Nat)
           /\ \E f \in [0 .. Len(p) -> Nat] : Placed(p, f)
<1> DEFINE piece(g) == [j \in 1 .. g[2] - g[1] + 1 |-> Letter(g[1] + j - 1)]
           s == [k \in DOMAIN p |-> [j \in 1 .. p[k][2] - p[k][1] + 1 |-> Letter(p[k][1] + j - 1)]]
<1>1. ASSUME NEW g \in Valid
      PROVE  /\ Size(g) \in Nat /\ piece(g) \in Seq(Nat) /\ Len(piece(g)) = Size(g)
             /\ \A x \in 1 .. Size(g) : piece(g)[x] = Letter(g[1] + x - 1)
  <2>1. PICK a \in Nat, b \in Nat : a = g[1] /\ b = g[2] /\ a <= b
    BY DEF Valid
  <2>2. PICK n \in Nat : n = g[2] - g[1] + 1 /\ n = Size(g)
    BY <2>1 DEF Size
  <2>3. \A x \in 1 .. n : g[1] + x - 1 \in Nat
    BY <2>1
  <2>4. \A x \in 1 .. n : Letter(g[1] + x - 1) \in Nat
    BY <2>3, LetterType
  <2>5. piece(g) = [j \in 1 .. n |-> Letter(g[1] + j - 1)]
    BY <2>2
  <2>6. piece(g) \in [1 .. n -> Nat]
    BY <2>4, <2>5
  <2>7. piece(g) \in Seq(Nat) /\ Len(piece(g)) = n
    <3> HIDE DEF piece
    <3> QED
      BY <2>6, SeqDef, LenProperties
  <2> QED
    BY <2>2, <2>5, <2>7
<1>2. PICK n \in Nat : n = Len(p) /\ DOMAIN p = 1 .. n
  BY LenProperties
<1>3. \A k \in 1 .. n : p[k] \in Valid
  BY <1>2, ElementOfSeq
<1>4. s = [k \in 1 .. n |-> piece(p[k])]
  BY <1>2
<1>5. BytesOf(p) = FlattenSeq(s)
  BY DEF BytesOf
<1> HIDE DEF s, piece
<1>6. s \in [1 .. n -> Seq(Nat)]
  BY <1>1, <1>3, <1>4
<1>7. s \in Seq(Seq(Nat)) /\ Len(s) = n
  BY <1>6, SeqDef, LenProperties
<1>8. PICK f \in [0 .. n -> Nat] : Starts(s, n, FlattenSeq(s), f)
  BY <1>7, FlattenStarts
<1>9. FlattenSeq(s) \in Seq(Nat)
  BY <1>7, FlattenType
<1>10. PICK t : t = FlattenSeq(s)
  OBVIOUS
<1>11. ASSUME NEW k \in 1 .. n
       PROVE  /\ f[k] = f[k - 1] + Size(p[k])
              /\ f[k] <= Len(t)
              /\ \A x \in 1 .. Size(p[k]) : t[f[k - 1] + x] = Letter(p[k][1] + x - 1)
  <2>1. s[k] = piece(p[k]) /\ p[k] \in Valid
    BY <1>3, <1>4
  <2>2. Len(s[k]) = Size(p[k]) /\ \A x \in 1 .. Size(p[k]) : s[k][x] = Letter(p[k][1] + x - 1)
    BY <1>1, <2>1
  <2>3. /\ f[k] = f[k - 1] + Len(s[k])
        /\ f[k] <= Len(t)
        /\ \A x \in 1 .. Len(s[k]) : t[f[k - 1] + x] = s[k][x]
    BY <1>8, <1>10 DEF Starts
  <2> QED
    BY <2>2, <2>3
<1>12. f[0] = 0 /\ f[n] = Len(t)
  BY <1>8, <1>10 DEF Starts
<1>13. Placed(p, f)
  BY <1>2, <1>5, <1>10, <1>11, <1>12 DEF Placed
<1> QED
  BY <1>2, <1>5, <1>9, <1>13

(* What ServeContent serves is within the content, and no longer than it.      *)
LEMMA PartsFacts ==
    ASSUME req \in Request, Ranged, Acceptable, ~Unsatisfiable
    PROVE  /\ Parts \in Seq(Valid)
           /\ AskedBytes \in Seq(Nat) /\ Len(AskedBytes) <= req.count
<1>1. req.count \in Nat \ {0}
  <2>1. AcceptableRange
    BY DEF Ranged, Acceptable
  <2>2. req.count \in 1 .. MaxCount /\ MaxCount \in Nat
    BY <2>1, StreamsAssumption DEF AcceptableRange
  <2> QED
    BY <2>2
<1>2. /\ req.ranges \in Seq(Nat \X Nat)
      /\ \A k \in DOMAIN req.ranges : req.ranges[k][1] <= req.ranges[k][2]
  <2>1. req.ranges \in RangeHeaders
    BY DEF Ranged, Request
  <2> QED
    BY <2>1, StreamsAssumption
<1>3. Within \in Seq(Valid)
  <2>1. PICK n \in Nat : n = Len(req.ranges) /\ DOMAIN req.ranges = 1 .. n
    BY <1>2, LenProperties
  <2> DEFINE w == [k \in DOMAIN req.ranges |->
                      IF req.ranges[k][1] < req.count THEN <<Clipped(req.ranges[k])>> ELSE <<>>]
  <2>2. ASSUME NEW k \in 1 .. n, req.ranges[k][1] < req.count
        PROVE  Clipped(req.ranges[k]) \in Valid
    <3>1. req.ranges[k] \in Nat \X Nat
      BY <1>2, <2>1, ElementOfSeq
    <3>2. PICK a \in Nat, b \in Nat : a = req.ranges[k][1] /\ b = req.ranges[k][2] /\ a <= b
      BY <1>2, <2>1, <3>1
    <3>3. PICK c \in Nat : c = IF b < req.count THEN b ELSE req.count - 1
      BY <1>1
    <3>4. a <= c /\ c < req.count
      BY <1>1, <2>2, <3>2, <3>3
    <3>5. Clipped(req.ranges[k]) = <<a, c>>
      BY <3>2, <3>3 DEF Clipped
    <3>6. <<a, c>> \in Valid
      BY <3>4 DEF Valid
    <3> QED
      BY <3>5, <3>6
  <2>3. ASSUME NEW k \in 1 .. n PROVE w[k] \in Seq(Valid)
    <3>1. CASE req.ranges[k][1] < req.count
      <4>1. PICK g \in Valid : g = Clipped(req.ranges[k])
        BY <2>2, <3>1
      <4>2. w[k] = <<g>>
        BY <2>1, <3>1, <4>1
      <4>3. <<g>> \in Seq(Valid)
        BY ONLY g \in Valid
      <4> QED
        BY <4>2, <4>3
    <3>2. CASE ~(req.ranges[k][1] < req.count)
      <4>1. w[k] = <<>>
        BY <2>1, <3>2
      <4> QED
        BY <4>1, EmptySeq
    <3> QED
      BY <3>1, <3>2
  <2>4. w = [k \in 1 .. n |-> w[k]]
    BY <2>1
  <2>5. Within = FlattenSeq(w)
    BY DEF Within
  <2> HIDE DEF w
  <2>6. w \in [1 .. n -> Seq(Valid)]
    BY <2>3, <2>4
  <2>7. w \in Seq(Seq(Valid))
    BY <2>6, SeqDef
  <2> QED
    BY <2>5, <2>7, FlattenType
<1>4. CASE Whole
  <2>1. PICK m \in Nat : m = req.count - 1
    BY <1>1
  <2>2. PICK g \in Valid : g = <<0, m>>
    <3>1. 0 <= m /\ m < req.count
      BY <1>1, <2>1
    <3>2. <<0, m>> \in Valid
      BY <3>1 DEF Valid
    <3> QED
      BY <3>2
  <2>3. PICK p \in Seq(Valid) : p = <<g>> /\ Len(p) = 1 /\ p[1] = g
    <3>1. <<g>> \in Seq(Valid) /\ Len(<<g>>) = 1 /\ <<g>>[1] = g
      BY ONLY g \in Valid
    <3> QED
      BY <3>1
  <2>4. Parts = p
    BY <1>4, <2>1, <2>2, <2>3 DEF Parts
  <2>5. BytesOf(p) \in Seq(Nat) /\ \E f \in [0 .. Len(p) -> Nat] : Placed(p, f)
    BY BytesPlaced
  <2>6. PICK f \in [0 .. 1 -> Nat] : Placed(p, f)
    BY <2>3, <2>5
  <2>7. f[0] = 0 /\ f[1] = Len(BytesOf(p)) /\ f[1] = f[1 - 1] + Size(g)
    BY <2>3, <2>6 DEF Placed
  <2>8. Size(g) = req.count
    BY <1>1, <2>1, <2>2 DEF Size
  <2>9. Len(BytesOf(p)) = req.count
    BY <1>1, <2>7, <2>8
  <2> QED
    BY <1>1, <2>4, <2>5, <2>9 DEF AskedBytes
<1>5. CASE ~Whole
  <2>1. Parts = Within
    BY <1>5 DEF Parts
  <2>2. BytesOf(Within) \in Seq(Nat)
    BY <1>3, BytesPlaced
  <2>3. Len(BytesOf(Within)) <= req.count
    <3>1. Len(BytesOf(Within)) \in Nat
      BY <2>2, LenProperties
    <3>2. ~(Len(BytesOf(Within)) > req.count)
      BY <1>5 DEF Whole, Length
    <3> QED
      BY <1>1, <3>1, <3>2
  <2> QED
    BY <1>3, <2>1, <2>2, <2>3 DEF AskedBytes
<1> QED
  BY <1>4, <1>5

(* Bytes asked for before each part.                                           *)
Place == CHOOSE f \in [0 .. Len(Parts) -> Nat] : Placed(Parts, f)

LEMMA PlaceFacts ==
    ASSUME req \in Request, Ranged, Acceptable, ~Unsatisfiable
    PROVE  /\ Len(Parts) \in Nat /\ Len(AskedBytes) \in Nat
           /\ \A k \in 0 .. Len(Parts) : Place[k] \in Nat
           /\ Place[0] = 0 /\ Place[Len(Parts)] = Len(AskedBytes)
           /\ \A k \in 1 .. Len(Parts) :
                 /\ Parts[k] \in Valid
                 /\ Place[k] = Place[k - 1] + Size(Parts[k])
                 /\ Place[k] <= Len(AskedBytes)
                 /\ \A x \in 1 .. Size(Parts[k]) :
                       AskedBytes[Place[k - 1] + x] = Letter(Parts[k][1] + x - 1)
<1>1. Parts \in Seq(Valid) /\ AskedBytes \in Seq(Nat)
  BY PartsFacts
<1>2. \E f \in [0 .. Len(Parts) -> Nat] : Placed(Parts, f)
  BY <1>1, BytesPlaced
<1>3. Place \in [0 .. Len(Parts) -> Nat] /\ Placed(Parts, Place)
  BY <1>2 DEF Place
<1>4. \A k \in 1 .. Len(Parts) : Parts[k] \in Valid
  BY <1>1, ElementOfSeq
<1>5. Len(Parts) \in Nat /\ Len(AskedBytes) \in Nat
  BY <1>1, LenProperties
<1> QED
  BY <1>3, <1>4, <1>5 DEF Placed, AskedBytes

(* They depend on the request only.                                            *)
LEMMA SameParts ==
    ASSUME req' = req
    PROVE  /\ Ranged' <=> Ranged
           /\ Acceptable' <=> Acceptable
           /\ Unsatisfiable' <=> Unsatisfiable
           /\ Whole' <=> Whole
           /\ Parts' = Parts /\ AskedBytes' = AskedBytes /\ Place' = Place
           /\ pausePerByte' = pausePerByte
<1>1. Within' = Within
  BY DEF Within, Clipped
<1>2. Whole' <=> Whole
  BY <1>1 DEF Whole, Length
<1>3. Parts' = Parts
  BY <1>1, <1>2 DEF Parts
<1>4. AskedBytes' = AskedBytes /\ Place' = Place
  BY <1>3 DEF AskedBytes, Place
<1>5. Acceptable' <=> Acceptable
  BY SameRequest
<1> QED
  BY <1>1, <1>2, <1>3, <1>4, <1>5 DEF Ranged, Unsatisfiable, pausePerByte

(* A byte takes its share of the duration.                                     *)
LEMMA ByteFacts ==
    ASSUME req \in Request, Ranged, Acceptable
    PROVE  /\ req.count \in Nat \ {0} /\ req.duration \in Nat /\ pausePerByte \in Nat
           /\ req.count * pausePerByte <= req.duration
<1>1. AcceptableRange
  BY DEF Ranged, Acceptable
<1>2. req.count \in 1 .. MaxCount /\ MaxCount \in Nat /\ req.duration \in 0 .. MaxDuration
      /\ MaxDuration \in Nat
  BY <1>1, StreamsAssumption DEF AcceptableRange
<1>3. PICK c \in Nat \ {0}, d \in Nat : c = req.count /\ d = req.duration
  BY <1>2
<1>4. d \div c \in Nat /\ (d \div c) * c <= d
  BY DivisionBounds
<1>5. c * (d \div c) <= d
  BY <1>4
<1> QED
  BY <1>3, <1>4, <1>5 DEF pausePerByte

LEMMA Distribute ==
    ASSUME NEW n \in Nat, NEW d \in Nat, NEW p \in Nat
    PROVE  /\ n * p \in Nat /\ p * d \in Nat /\ (n + d) * p \in Nat
           /\ n * p + p * d = (n + d) * p
  OBVIOUS

-----------------------------------------------------------------------------
(* Range: where the handler is.                                                *)

Serving == pc \in {"seeking", "reading", "sleeping"}

RangeControl ==
    /\ req \in Request /\ Ranged
    /\ pc \in {"idle", "done"} \/ Serving
    /\ i \in Nat /\ clock \in Nat /\ tickAt \in Int /\ slow = 0 /\ broken \in BOOLEAN
    /\ Serving => part \in 1 .. Len(Parts) + 1
    /\ Serving \/ i > 0 => Acceptable /\ ~Unsatisfiable

(* In a part, the bytes before it and those of it up to the mark are written,  *)
(* and those up to the offset have been read.                                  *)
Position ==
    /\ pc = "seeking" => i = Place[part - 1]
    /\ pc \in {"reading", "sleeping"} =>
          /\ part \in 1 .. Len(Parts) /\ mark \in Nat /\ offset \in Nat
          /\ Parts[part][1] <= mark
          /\ i = Place[part - 1] + (mark - Parts[part][1])
    /\ pc = "reading" => offset = mark /\ offset <= Parts[part][2]
    /\ pc = "sleeping" => mark < offset /\ offset <= Parts[part][2] + 1
    /\ i > 0 => i <= Len(AskedBytes)
    /\ pc = "done" /\ status \in {200, 206} /\ ~broken => i = Len(AskedBytes)

(* Time passes for bytes that are read, and the content is as long as all of   *)
(* them.                                                                       *)
Slept ==
    /\ pc = "idle" => clock = 0
    /\ pc \in {"seeking", "reading"} => clock <= i * pausePerByte
    /\ pc = "sleeping" => /\ clock <= tickAt
                          /\ tickAt <= (i + (offset - mark)) * pausePerByte
    /\ Acceptable => clock <= req.duration

RangeInv == RangeControl /\ Position /\ Slept

LEMMA RangeSteps ==
    ASSUME RangeControl, [Next]_vars
    PROVE  /\ req' = req
           /\ Connect \/ Seek \/ Read \/ Copy \/ Tick \/ Receive \/ Break \/ UNCHANGED vars
<1>1. req' = req
  BY RequestKept
<1>2. pc \notin {"delaying", "writing", "pausing", "pouring"} /\ req.kind = "range"
  BY DEF RangeControl, Serving, Ranged
<1>3. ~Begin /\ ~DelayCancelled /\ ~Write /\ ~Fail /\ ~Pause /\ ~PauseCancelled /\ ~Pour
      /\ ~Reconnect
  BY <1>2 DEF Begin, DelayCancelled, Write, Fail, Pause, PauseCancelled, Pour, Reconnect
<1> QED
  BY <1>1, <1>3 DEF Next, Handler, Over

(* A part from a to b while it is served: with n bytes before it, of l in all, *)
(* it is written up to k and read up to o.                                     *)
Order(a, b, n, l, c, k, o) ==
    a <= b /\ b < c /\ n + (b - a + 1) <= l /\ l <= c /\ a <= k /\ k <= o /\ o <= b + 1

Served(a, b, n, l, c, k, o) ==
    /\ a = Parts[part][1] /\ b = Parts[part][2]
    /\ n = Place[part - 1] /\ n + (b - a + 1) = Place[part]
    /\ l = Len(AskedBytes) /\ c = req.count
    /\ k = mark /\ o = offset /\ i = n + (k - a)

(* What follows from it.                                                       *)
Sums(a, b, n, l, c, k, o) ==
    /\ n + (k - a) \in Nat /\ n + (o - a) \in Nat /\ a <= o
    /\ (n + (k - a)) + (o - k) = n + (o - a) /\ (n + (k - a)) + o - k = n + (o - a)
    /\ n + (o - a) <= l /\ n + (o - a) <= c
    /\ o > b => n + (o - a) = n + (b - a + 1)
    /\ ~(o > b) => o <= b

LEMMA OrderFacts ==
    ASSUME NEW a \in Nat, NEW b \in Nat, NEW n \in Nat, NEW l \in Nat, NEW c \in Nat,
           NEW k \in Nat, NEW o \in Nat, Order(a, b, n, l, c, k, o)
    PROVE  Sums(a, b, n, l, c, k, o)
  BY DEF Order, Sums

LEMMA InPart ==
    ASSUME RangeInv, pc \in {"reading", "sleeping"}
    PROVE  \E a, b, n, l, c, k, o \in Nat :
              Order(a, b, n, l, c, k, o) /\ Served(a, b, n, l, c, k, o)
<1>1. /\ req \in Request /\ Ranged /\ Acceptable /\ ~Unsatisfiable
      /\ part \in 1 .. Len(Parts) /\ mark \in Nat /\ offset \in Nat /\ i \in Nat
  BY DEF RangeInv, RangeControl, Position, Serving
<1>2. PICK m \in Nat : m = Len(Parts) /\ part \in 1 .. m
  BY <1>1, PlaceFacts
<1>3. part - 1 \in 0 .. m /\ part \in 0 .. m
  BY <1>2
<1>4. PICK g \in Valid : g = Parts[part]
  BY <1>1, PlaceFacts
<1>5. PICK a \in Nat, b \in Nat, c \in Nat :
         a = g[1] /\ b = g[2] /\ a <= b /\ b < c /\ c = req.count
  BY <1>1, ByteFacts DEF Valid
<1>6. PICK n \in Nat, k \in Nat : n = Place[part - 1] /\ k = Place[part]
  BY <1>1, <1>2, <1>3, PlaceFacts
<1>7. PICK l \in Nat : l = Len(AskedBytes) /\ l <= c
  BY <1>1, <1>5, PlaceFacts, PartsFacts
<1>8. k = n + (b - a + 1) /\ k <= l
  BY <1>1, <1>4, <1>5, <1>6, <1>7, PlaceFacts DEF Size
<1>9. a <= mark /\ i = n + (mark - a)
  BY <1>4, <1>5, <1>6 DEF RangeInv, Position
<1>10. mark <= offset /\ offset <= b + 1
  <2>1. CASE pc = "reading"
    <3>1. offset = mark /\ offset <= b
      BY <1>4, <1>5, <2>1 DEF RangeInv, Position
    <3> QED
      BY <1>1, <3>1
  <2>2. CASE pc = "sleeping"
    <3>1. mark < offset /\ offset <= b + 1
      BY <1>4, <1>5, <2>2 DEF RangeInv, Position
    <3> QED
      BY <1>1, <3>1
  <2> QED
    BY <2>1, <2>2
<1>11. n + (b - a + 1) <= l
  BY <1>8
<1>12. Order(a, b, n, l, c, mark, offset) /\ Served(a, b, n, l, c, mark, offset)
  BY <1>4, <1>5, <1>6, <1>7, <1>8, <1>9, <1>10, <1>11 DEF Order, Served
<1> QED
  BY <1>1, <1>12

(* A request for ranges arrives ...                                            *)
LEMMA ConnectRange ==
    ASSUME RangeInv, Connect
    PROVE  RangeInv'
<1>1. /\ req' = req /\ clock' = 0 /\ tickAt' = 0 /\ i' = 0 /\ slow' = 0 /\ part' = 1
      /\ broken' \in BOOLEAN
  BY DEF Connect
<1>2. req \in Request /\ Ranged
  BY DEF RangeInv, RangeControl
<1>3. CASE ~Acceptable \/ Unsatisfiable
  <2>1. pc' = "done" /\ status' \in {400, 416}
    BY <1>2, <1>3 DEF Connect, Ranged
  <2>2. ~Serving' /\ status' \notin {200, 206}
    BY <2>1 DEF Serving
  <2>3. RangeControl' /\ Position'
    BY <1>1, <1>2, <2>1, <2>2, SameParts DEF RangeControl, Position
  <2>4. Acceptable => 0 <= req.duration
    BY <1>2, ByteFacts
  <2>5. Slept'
    BY <1>1, <2>1, <2>4, SameParts DEF Slept
  <2> QED
    BY <2>3, <2>5 DEF RangeInv
<1>4. CASE Acceptable /\ ~Unsatisfiable
  <2>1. pc' = "seeking"
    BY <1>2, <1>4 DEF Connect, Ranged
  <2>2. Place[0] = 0 /\ Len(Parts) \in Nat /\ pausePerByte \in Nat /\ req.duration \in Nat
    BY <1>2, <1>4, PlaceFacts, ByteFacts
  <2>3. 1 \in 1 .. Len(Parts) + 1 /\ 1 - 1 = 0 /\ 0 <= 0 * pausePerByte
    BY <2>2
  <2>4. Serving'
    BY <2>1 DEF Serving
  <2>5. RangeControl'
    BY <1>1, <1>2, <1>4, <2>3, <2>4, SameParts DEF RangeControl
  <2>6. Position' /\ Slept'
    BY <1>1, <2>1, <2>2, <2>3, SameParts DEF Position, Slept
  <2> QED
    BY <2>5, <2>6 DEF RangeInv
<1> QED
  BY <1>3, <1>4

(* ... the next part is looked for ...                                         *)
LEMMA SeekRange ==
    ASSUME RangeInv, Seek
    PROVE  RangeInv'
<1>1. /\ pc = "seeking" /\ Serving /\ req' = req
      /\ UNCHANGED <<part, status, clock, tickAt, i, slow, broken>>
  BY DEF Seek, connVars, Serving
<1>2. /\ req \in Request /\ Ranged /\ Acceptable /\ ~Unsatisfiable
      /\ part \in 1 .. Len(Parts) + 1 /\ i = Place[part - 1] /\ clock <= i * pausePerByte
      /\ i \in Nat /\ clock \in Nat /\ tickAt \in Int /\ slow = 0 /\ broken \in BOOLEAN
      /\ clock <= req.duration /\ (i > 0 => i <= Len(AskedBytes))
  BY <1>1 DEF RangeInv, RangeControl, Position, Slept
<1>3. PICK m \in Nat : m = Len(Parts) /\ part \in 1 .. m + 1 /\ Place[m] = Len(AskedBytes)
  BY <1>2, PlaceFacts
<1>4. CASE part > m
  <2>1. pc' = "done"
    BY <1>3, <1>4 DEF Seek
  <2>2. part - 1 = m
    BY <1>3, <1>4
  <2>3. i = Len(AskedBytes)
    BY <1>2, <1>3, <2>2
  <2>4. ~Serving'
    BY <2>1 DEF Serving
  <2>5. RangeControl'
    BY <1>1, <1>2, <2>1, <2>4, SameParts DEF RangeControl
  <2>6. Position' /\ Slept'
    BY <1>1, <1>2, <2>1, <2>3, SameParts DEF Position, Slept
  <2> QED
    BY <2>5, <2>6 DEF RangeInv
<1>5. CASE ~(part > m)
  <2>1. pc' = "reading" /\ offset' = Parts[part][1] /\ mark' = Parts[part][1]
    BY <1>3, <1>5 DEF Seek
  <2>2. part \in 1 .. m
    BY <1>3, <1>5
  <2>3. PICK g \in Valid : g = Parts[part]
    BY <1>2, <1>3, <2>2, PlaceFacts
  <2>4. PICK a \in Nat, b \in Nat : a = g[1] /\ b = g[2] /\ a <= b
    BY DEF Valid
  <2>5. PICK n \in Nat : n = i /\ n = Place[part - 1] /\ n = n + (a - a)
    BY <1>2
  <2>6. Serving'
    BY <2>1 DEF Serving
  <2>7. RangeControl'
    BY <1>1, <1>2, <2>6, SameParts DEF RangeControl
  <2>8. Position'
    BY <1>1, <1>2, <1>3, <2>1, <2>2, <2>3, <2>4, <2>5, SameParts DEF Position
  <2>9. Slept'
    BY <1>1, <1>2, <2>1, SameParts DEF Slept
  <2> QED
    BY <2>7, <2>8, <2>9 DEF RangeInv
<1> QED
  BY <1>4, <1>5

(* (From o, the d bytes that are left up to b, or a buffer of them, are some,  *)
(* and in bounds.)                                                             *)
Buffered(o, b, c, size, d) ==
    /\ d = IF b + 1 - o < size THEN b + 1 - o ELSE size
    /\ o + d <= b + 1 /\ o < o + d /\ o + d \in Nat /\ (o + d) - o = d
    /\ (IF o + d >= c THEN c ELSE o + d) = o + d

LEMMA BufferFacts ==
    ASSUME NEW o \in Nat, NEW b \in Nat, NEW c \in Nat, NEW size \in Nat \ {0}, o <= b, b < c
    PROVE  \E d \in Nat \ {0} : Buffered(o, b, c, size, d)
<1>1. PICK d \in Nat \ {0} : d = (IF b + 1 - o < size THEN b + 1 - o ELSE size) /\ o + d <= b + 1
  <2>1. CASE b + 1 - o < size
    BY <2>1
  <2>2. CASE ~(b + 1 - o < size)
    BY <2>2
  <2> QED
    BY <2>1, <2>2
<1>2. (IF o + d >= c THEN c ELSE o + d) = o + d
  BY <1>1
<1>3. o < o + d /\ o + d \in Nat /\ (o + d) - o = d
  OBVIOUS
<1> QED
  BY <1>1, <1>2, <1>3 DEF Buffered

(* ... bytes of it are read, at least one and no more than there are ...       *)
LEMMA ReadRange ==
    ASSUME RangeInv, Read
    PROVE  RangeInv'
<1>1. /\ pc = "reading" /\ pc' = "sleeping" /\ Serving /\ Serving' /\ req' = req
      /\ UNCHANGED <<part, mark, status, clock, i, slow, broken>>
  BY DEF Read, connVars, Serving
<1>2. /\ req \in Request /\ Ranged /\ Acceptable /\ ~Unsatisfiable
      /\ part \in 1 .. Len(Parts) /\ offset = mark /\ offset <= Parts[part][2]
      /\ clock <= i * pausePerByte
      /\ i \in Nat /\ clock \in Nat /\ slow = 0 /\ broken \in BOOLEAN
      /\ clock <= req.duration
  BY <1>1 DEF RangeInv, RangeControl, Position, Slept
<1>3. PICK a, b, n, l, c, k, o \in Nat :
         Order(a, b, n, l, c, k, o) /\ Served(a, b, n, l, c, k, o)
  BY <1>1, InPart
<1>4. PICK size \in Nat \ {0} : size = BufSize
  BY StreamsAssumption
<1>5. o = offset /\ o = mark /\ o <= b /\ b < c
  BY <1>2, <1>3 DEF Order, Served
<1>6. PICK d \in Nat \ {0} : Buffered(o, b, c, size, d)
  BY <1>5, BufferFacts
<1>7. offset' = o + d /\ tickAt' = clock + pausePerByte * d
  BY <1>3, <1>4, <1>5, <1>6 DEF Read, Buffered, Served
<1>8. pausePerByte \in Nat
  BY <1>2, ByteFacts
<1>9. /\ i * pausePerByte \in Nat /\ pausePerByte * d \in Nat
      /\ i * pausePerByte + pausePerByte * d = (i + d) * pausePerByte
  BY <1>2, <1>8, Distribute
<1>10. offset' - mark = d /\ offset' \in Nat /\ mark < offset' /\ offset' <= b + 1
  BY <1>5, <1>6, <1>7 DEF Buffered
<1>11. clock <= tickAt' /\ tickAt' <= (i + d) * pausePerByte /\ tickAt' \in Int
  <2>1. PICK x \in Nat, y \in Nat : x = i * pausePerByte /\ y = pausePerByte * d
    BY <1>9
  <2>2. tickAt' = clock + y /\ clock <= x /\ x + y = (i + d) * pausePerByte
    BY <1>2, <1>7, <1>9, <2>1
  <2>3. clock <= clock + y /\ clock + y <= x + y /\ clock + y \in Int
    BY <1>2, <2>2
  <2> QED
    BY <2>2, <2>3
<1>12. RangeControl'
  <2>1. part \in 1 .. Len(Parts) + 1
    BY <1>1 DEF RangeInv, RangeControl
  <2> QED
    BY <1>1, <1>2, <1>11, <2>1, SameParts DEF RangeControl
<1>13. Position'
  <2>1. i > 0 => i <= Len(AskedBytes)
    BY DEF RangeInv, Position
  <2> QED
    BY <1>1, <1>2, <1>3, <1>10, <2>1, SameParts DEF Position, Order, Served
<1>14. Slept'
  BY <1>1, <1>2, <1>10, <1>11, SameParts DEF Slept
<1> QED
  BY <1>12, <1>13, <1>14 DEF RangeInv

(* ... time passes until they are all slept for ...                            *)
LEMMA TickRange ==
    ASSUME RangeInv, Tick
    PROVE  RangeInv'
<1>1. pc = "sleeping" /\ Serving
  BY DEF Tick, RangeInv, RangeControl, Serving
<1>2. /\ ~(clock >= tickAt) /\ req' = req /\ clock' = clock + 1 /\ tickAt' = tickAt /\ slow' = slow
      /\ UNCHANGED <<pc, part, offset, mark, status, i, broken>>
  BY <1>1 DEF Tick, Urgent, connVars, rangeVars
<1>3. /\ req \in Request /\ Ranged /\ Acceptable /\ ~Unsatisfiable
      /\ clock <= tickAt /\ tickAt <= (i + (offset - mark)) * pausePerByte
      /\ i \in Nat /\ clock \in Nat /\ tickAt \in Int
  BY <1>1 DEF RangeInv, RangeControl, Slept
<1>4. PICK a, b, n, l, c, k, o \in Nat :
         Order(a, b, n, l, c, k, o) /\ Served(a, b, n, l, c, k, o)
  BY <1>1, InPart
<1>5. PICK e \in Nat : e = i + (offset - mark) /\ e <= c
  <2>1. i + (offset - mark) = n + (o - a) /\ n + (o - a) \in Nat /\ n + (o - a) <= c
    <3>1. Sums(a, b, n, l, c, k, o)
      BY <1>4, OrderFacts
    <3> QED
      BY <1>4, <3>1 DEF Sums, Served
  <2> QED
    BY <2>1
<1>6. pausePerByte \in Nat /\ req.duration \in Nat /\ c * pausePerByte <= req.duration
  BY <1>3, <1>4, ByteFacts DEF Served
<1>7. e * pausePerByte \in Nat /\ c * pausePerByte \in Nat /\ e * pausePerByte <= c * pausePerByte
  BY <1>5, <1>6, ProductMonotone
<1>8. clock' \in Nat /\ clock' <= tickAt
  BY <1>2, <1>3
<1>9. clock' <= req.duration
  <2>1. tickAt <= e * pausePerByte
    BY <1>3, <1>5
  <2> QED
    BY <1>3, <1>6, <1>7, <1>8, <2>1
<1>10. RangeControl'
  <2>1. Serving' <=> Serving
    BY <1>2 DEF Serving
  <2> QED
    BY <1>2, <1>8, <2>1, SameParts DEF RangeInv, RangeControl
<1>11. Position'
  BY <1>2, SameParts DEF RangeInv, Position
<1>12. Slept'
  BY <1>1, <1>2, <1>3, <1>8, <1>9, SameParts DEF Slept
<1> QED
  BY <1>10, <1>11, <1>12 DEF RangeInv

(* ... and they are written, which is the end of it if nobody is there.        *)
LEMMA CopyRange ==
    ASSUME RangeInv, Copy
    PROVE  RangeInv'
<1>1. /\ pc = "sleeping" /\ Serving /\ req' = req
      /\ UNCHANGED <<offset, status, clock, tickAt, slow, broken>>
  BY DEF Copy, connVars, Serving
<1>2. /\ req \in Request /\ Ranged /\ Acceptable /\ ~Unsatisfiable
      /\ clock <= tickAt /\ tickAt <= (i + (offset - mark)) * pausePerByte
      /\ i \in Nat /\ clock \in Nat /\ tickAt \in Int /\ slow = 0 /\ broken \in BOOLEAN
      /\ clock <= req.duration /\ (i > 0 => i <= Len(AskedBytes)) /\ part \in 1 .. Len(Parts)
  BY <1>1 DEF RangeInv, RangeControl, Position, Slept
<1>3. CASE broken
  <2>1. pc' = "done" /\ UNCHANGED <<mark, i, part>>
    BY <1>3 DEF Copy
  <2>2. ~Serving'
    BY <2>1 DEF Serving
  <2>3. RangeControl'
    BY <1>1, <1>2, <2>1, <2>2, SameParts DEF RangeControl
  <2>4. Position' /\ Slept'
    BY <1>1, <1>2, <1>3, <2>1, SameParts DEF Position, Slept
  <2> QED
    BY <2>3, <2>4 DEF RangeInv
<1>4. CASE ~broken
  <2>1. PICK a, b, n, l, c, k, o \in Nat :
         Order(a, b, n, l, c, k, o) /\ Served(a, b, n, l, c, k, o)
    BY <1>1, InPart
  <2>2. i' = i + offset - mark /\ mark' = offset /\ Sums(a, b, n, l, c, k, o)
    BY <1>4, <2>1, OrderFacts DEF Copy
  <2>3. i' \in Nat /\ i' = n + (o - a) /\ i' = i + (offset - mark) /\ a <= o
    BY <2>1, <2>2 DEF Sums, Served
  <2>4. i' <= Len(AskedBytes)
    BY <2>1, <2>2, <2>3 DEF Sums, Served
  <2>5. clock <= i' * pausePerByte
    <3>1. pausePerByte \in Nat
      BY <1>2, ByteFacts
    <3>2. PICK y \in Nat : y = i' * pausePerByte
      BY <2>3, <3>1, ProductMonotone
    <3>3. tickAt <= y
      BY <1>2, <2>3, <3>2
    <3> QED
      BY <1>2, <3>2, <3>3
  <2>6. PICK m \in Nat : m = Len(Parts) /\ part \in 1 .. m
    BY <1>2, PlaceFacts
  <2>7. CASE o > b
    <3>1. pc' = "seeking" /\ part' = part + 1
      BY <1>4, <2>1, <2>7 DEF Copy, Served
    <3>2. n + (o - a) = n + (b - a + 1)
      BY <2>2, <2>7 DEF Sums
    <3>3. part' - 1 = part /\ part' \in 1 .. m + 1
      BY <2>6, <3>1
    <3>4. i' = Place[part' - 1]
      BY <2>1, <2>3, <3>2, <3>3 DEF Served
    <3>5. Serving'
      BY <3>1 DEF Serving
    <3>6. RangeControl'
      BY <1>1, <1>2, <2>3, <2>6, <3>3, <3>5, SameParts DEF RangeControl
    <3>7. Position' /\ Slept'
      BY <1>1, <1>2, <2>4, <2>5, <3>1, <3>4, SameParts DEF Position, Slept
    <3> QED
      BY <3>6, <3>7 DEF RangeInv
  <2>8. CASE ~(o > b)
    <3>1. pc' = "reading" /\ part' = part
      BY <1>4, <2>1, <2>8 DEF Copy, Served
    <3>2. o <= b /\ part \in 1 .. m + 1
      BY <2>2, <2>6, <2>8 DEF Sums
    <3>3. Serving'
      BY <3>1 DEF Serving
    <3>4. RangeControl'
      BY <1>1, <1>2, <2>3, <2>6, <3>1, <3>2, <3>3, SameParts DEF RangeControl
    <3>5. Position'
      BY <1>1, <1>2, <2>1, <2>2, <2>3, <2>4, <3>1, <3>2, SameParts DEF Position, Served
    <3>6. Slept'
      BY <1>1, <1>2, <2>5, <3>1, SameParts DEF Slept
    <3> QED
      BY <3>4, <3>5, <3>6 DEF RangeInv
  <2> QED
    BY <2>7, <2>8
<1> QED
  BY <1>3, <1>4

LEMMA StepRange ==
    ASSUME RangeInv, [Next]_vars
    PROVE  RangeInv'
<1>1. req' = req
  BY RangeSteps DEF RangeInv
<1>2. CASE Receive \/ UNCHANGED vars
  <2>1. UNCHANGED <<pc, part, offset, mark, status, clock, tickAt, i, slow, broken>>
    BY <1>2 DEF Receive, vars, rangeVars
  <2>2. Serving' <=> Serving
    BY <2>1 DEF Serving
  <2> QED
    BY <1>1, <2>1, <2>2, SameParts DEF RangeInv, RangeControl, Position, Slept
<1>3. CASE Break
  <2>1. UNCHANGED <<pc, part, offset, mark, status, clock, tickAt, i, slow>> /\ broken' = TRUE
    BY <1>3 DEF Break, rangeVars
  <2>2. Serving' <=> Serving
    BY <2>1 DEF Serving
  <2> QED
    BY <1>1, <2>1, <2>2, SameParts DEF RangeInv, RangeControl, Position, Slept
<1>4. Connect \/ Seek \/ Read \/ Copy \/ Tick \/ Receive \/ Break \/ UNCHANGED vars
  BY RangeSteps DEF RangeInv
<1> QED
  BY <1>2, <1>3, <1>4, ConnectRange, SeekRange, ReadRange, CopyRange, TickRange

(* Where the handler of Range is, always.                                      *)
LEMMA RangeAlways == Spec => [](Ranged => RangeInv)
<1>1. Init => (Ranged => RangeInv)
  <2> SUFFICES ASSUME Init, Ranged PROVE RangeInv
    OBVIOUS
  <2>1. /\ pc = "idle" /\ status = 0 /\ i = 0 /\ slow = 0 /\ clock = 0 /\ tickAt = 0
        /\ req \in Request /\ broken \in BOOLEAN
    BY DEF Init
  <2>2. Acceptable => 0 <= req.duration
    BY <2>1, ByteFacts
  <2>3. ~Serving
    BY <2>1 DEF Serving
  <2>4. RangeControl /\ Position
    BY <2>1, <2>3 DEF RangeControl, Position
  <2>5. Slept
    BY <2>1, <2>2 DEF Slept
  <2> QED
    BY <2>4, <2>5 DEF RangeInv
<1>2. (Ranged => RangeInv) /\ [Next]_vars => (Ranged => RangeInv)'
  BY StepRange, RequestKept, SameParts
<1> QED
  BY <1>1, <1>2, PTL DEF Spec

(* When a handler returns to a client that stayed, it has written all that it  *)
(* announced, or all before fail_after, or all bytes of all ranges, however    *)
(* they overlap and are cut into reads.                                        *)
THEOREM ResponsesComplete == Spec => []WrittenInFull
<1>1. /\ req.kind # "range" => Control /\ Counted /\ Finished
      /\ Ranged => RangeInv
      => WrittenInFull
  <2> SUFFICES ASSUME req.kind # "range" => Control /\ Counted /\ Finished,
                      Ranged => RangeInv,
                      pc = "done" /\ status \in {200, 206} /\ ~broken
               PROVE  WrittenInFull
    BY DEF WrittenInFull
  <2>1. CASE req.kind # "range"
    <3>1. i = Full
      BY <2>1 DEF Finished
    <3> QED
      BY <2>1, <3>1 DEF WrittenInFull, Full, Plain
  <2>2. CASE req.kind = "range"
    <3>1. i = Len(AskedBytes)
      BY <2>2 DEF Ranged, RangeInv, Position
    <3> QED
      BY <2>2, <3>1 DEF WrittenInFull
  <2> QED
    BY <2>1, <2>2
<1> QED
  BY <1>1, ControlAlways, RangeAlways, PTL

-----------------------------------------------------------------------------
(* What the client has received.                                               *)

(* Item n, from 1, over all connections.                                       *)
Nth(n) == CASE req.kind = "sse" -> n
            [] req.kind = "drip" -> 0
            [] req.kind = "range" -> AskedBytes[n]
            [] OTHER -> n - 1

LEMMA SameNth ==
    ASSUME req' = req
    PROVE  \A k : Nth(k)' = Nth(k)
  BY SameParts DEF Nth

Sized == req \in Request /\ i \in Nat /\ broken \in BOOLEAN

(* The items received and those on the wire are the first ones; none is        *)
(* missing while the connection holds; an event source goes on where it is.    *)
Ordered ==
    /\ wire \in Seq(Int) /\ got \in Seq(Int) /\ lastEventID \in Int
    /\ broken \/ pc = "idle" => wire = <<>>
    /\ req.kind # "sse" => lastEventID = 0 /\ (pc = "idle" => got = <<>>)
    /\ Len(got) + Len(wire) <= lastEventID + i
    /\ ~broken => Len(got) + Len(wire) = lastEventID + i
    /\ \A n \in 1 .. Len(got) : got[n] = Nth(n)
    /\ \A n \in 1 .. Len(wire) : wire[n] = Nth(Len(got) + n)

(* Sequences that number their elements, joined.                               *)
LEMMA Joined ==
    ASSUME NEW s \in Seq(Int), NEW t \in Seq(Int)
    PROVE  /\ s \o t \in Seq(Int) /\ Len(s) \in Nat /\ Len(t) \in Nat
           /\ Len(s \o t) = Len(s) + Len(t)
           /\ \A k \in 1 .. Len(s \o t) :
                 \/ k \in 1 .. Len(s) /\ (s \o t)[k] = s[k]
                 \/ k - Len(s) \in 1 .. Len(t) /\ (s \o t)[k] = t[k - Len(s)]
<1>1. Len(s) \in Nat /\ Len(t) \in Nat
  BY LenProperties
<1>2. /\ s \o t \in Seq(Int)
      /\ Len(s \o t) = Len(s) + Len(t)
      /\ \A k \in 1 .. Len(s) + Len(t) : (s \o t)[k] = IF k <= Len(s) THEN s[k] ELSE t[k - Len(s)]
  BY ConcatProperties
<1> QED
  BY <1>1, <1>2

(* Two sums that are equal stay so.                                            *)
LEMMA Shifted ==
    ASSUME NEW a \in Int, NEW b \in Int, NEW c \in Int, NEW d \in Int, NEW k \in Int,
           a + b = c + d
    PROVE  a + (b + k) = c + (d + k)
  OBVIOUS

(* The items after those that this connection has written.                     *)
Following(s) == \A j \in 1 .. Len(s) : s[j] = Nth(lastEventID + i + j)

(* Items that are written follow those written before.                         *)
LEMMA WireGrows ==
    ASSUME Sized, Ordered, req' = req, NEW n \in Nat, NEW s \in Seq(Int), Len(s) = n,
           Following(s),
           wire' = IF broken THEN wire ELSE wire \o s, i' = i + n,
           pc # "idle", pc' # "idle", UNCHANGED <<lastEventID, broken, got>>
    PROVE  Ordered'
<1>1. /\ wire \in Seq(Int) /\ got \in Seq(Int) /\ Len(wire) \in Nat /\ Len(got) \in Nat
      /\ i \in Nat /\ lastEventID \in Int
  BY LenProperties DEF Sized, Ordered
<1>2. \A k : Nth(k)' = Nth(k)
  BY SameNth
<1>3. CASE broken
  BY <1>1, <1>2, <1>3 DEF Ordered
<1>4. CASE ~broken
  <2>1. wire' = wire \o s
    BY <1>4
  <2>2. /\ wire' \in Seq(Int) /\ Len(wire') = Len(wire) + n
        /\ \A k \in 1 .. Len(wire') :
              \/ k \in 1 .. Len(wire) /\ wire'[k] = wire[k]
              \/ k - Len(wire) \in 1 .. n /\ wire'[k] = s[k - Len(wire)]
    <3>1. PICK w \in Seq(Int) : w = wire
      BY <1>1
    <3>2. PICK u : u = wire'
      OBVIOUS
    <3>3. u = w \o s
      BY <2>1, <3>1, <3>2
    <3>4. /\ u \in Seq(Int) /\ Len(u) = Len(w) + n
          /\ \A k \in 1 .. Len(u) :
                \/ k \in 1 .. Len(w) /\ u[k] = w[k]
                \/ k - Len(w) \in 1 .. n /\ u[k] = s[k - Len(w)]
      BY ONLY <3>3, w \in Seq(Int), s \in Seq(Int), Len(s) = n, Joined
    <3> QED
      BY <3>1, <3>2, <3>4
  <2>3. Len(got) + Len(wire) = lastEventID + i
    BY <1>4 DEF Ordered
  <2>4. \A k \in Int : lastEventID + i + (k - Len(wire)) = Len(got) + k
    <3>1. PICK a \in Int, b \in Int, c \in Int, d \in Int :
             a = Len(got) /\ b = Len(wire) /\ c = lastEventID /\ d = i
      BY <1>1
    <3>2. a + b = c + d
      BY <2>3, <3>1
    <3>3. \A k \in Int : c + d + (k - b) = a + k
      BY <3>2
    <3> QED
      BY <3>1, <3>3
  <2>5. ASSUME NEW k \in 1 .. Len(wire') PROVE wire'[k] = Nth(Len(got) + k)
    <3>1. CASE k \in 1 .. Len(wire) /\ wire'[k] = wire[k]
      BY <3>1 DEF Ordered
    <3>2. CASE k - Len(wire) \in 1 .. n /\ wire'[k] = s[k - Len(wire)]
      <4>1. wire'[k] = Nth(lastEventID + i + (k - Len(wire)))
        BY <3>2 DEF Following
      <4>2. lastEventID + i + (k - Len(wire)) = Len(got) + k
        BY <2>4
      <4> QED
        BY <4>1, <4>2
    <3> QED
      BY <2>2, <3>1, <3>2
  <2>6. Len(got) + Len(wire') = lastEventID + i'
    <3>1. Len(got) + (Len(wire) + n) = lastEventID + (i + n)
      BY <1>1, <2>3, Shifted
    <3> QED
      BY <2>2, <3>1
  <2>7. \A k \in 1 .. Len(got) : got[k] = Nth(k)
    BY DEF Ordered
  <2> QED
    BY <1>1, <1>2, <1>4, <2>2, <2>5, <2>6, <2>7 DEF Ordered
<1> QED
  BY <1>3, <1>4 DEF Sized

(* What SSE and Drip write in one go ...                                       *)
LEMMA WriteOrdered ==
    ASSUME Control, Counted, Ordered, Write
    PROVE  Ordered'
<1>1. /\ pc = "writing" /\ pc' # "idle" /\ req' = req /\ UNCHANGED <<lastEventID, broken, got>>
  BY DEF Write, connVars
<1>2. /\ req \in Request /\ Paced /\ Acceptable /\ i \in Nat /\ lastEventID \in Int
  BY <1>1 DEF Control, Ordered
<1>3. PICK n \in Nat : n = IF pause = 0 THEN req.count ELSE 1
  BY <1>2, PacedRequest
<1>4. PICK s : s = [j \in 1 .. n |-> Item(i + j - 1)]
  OBVIOUS
<1>5. wire' = (IF broken THEN wire ELSE wire \o s) /\ i' = i + n
  BY <1>3, <1>4 DEF Write
<1>6. \A j \in 1 .. n : Item(i + j - 1) \in Int /\ Item(i + j - 1) = Nth(lastEventID + i + j)
  BY <1>2 DEF Item, Nth, Paced
<1>7. s \in [1 .. n -> Int]
  BY <1>4, <1>6
<1>8. s \in Seq(Int) /\ Len(s) = n
  BY <1>7, SeqDef, LenProperties
<1>9. Following(s)
  BY <1>4, <1>6, <1>8 DEF Following
<1> QED
  BY <1>1, <1>5, <1>8, <1>9, WireGrows DEF Control, Sized

(* ... what Bytes and Stream do ...                                            *)
LEMMA PourOrdered ==
    ASSUME Control, Counted, Ordered, Pour
    PROVE  Ordered'
<1>1. /\ pc = "pouring" /\ pc' # "idle" /\ req' = req /\ UNCHANGED <<lastEventID, broken, got>>
  BY DEF Pour, connVars
<1>2. /\ req \in Request /\ Plain /\ Acceptable /\ i \in Nat /\ i < Total /\ lastEventID = 0
  BY <1>1 DEF Control, Counted, Ordered, Plain
<1>3. PICK n \in Nat : n = Chunk
  BY <1>2, PlainFacts
<1>4. PICK s : s = [j \in 1 .. n |-> i + j - 1]
  OBVIOUS
<1>5. wire' = (IF broken THEN wire ELSE wire \o s) /\ i' = i + n
  BY <1>3, <1>4 DEF Pour
<1>6. \A j \in 1 .. n : i + j - 1 \in Int /\ i + j - 1 = Nth(lastEventID + i + j)
  BY <1>2 DEF Nth, Plain
<1>7. s \in [1 .. n -> Int]
  BY <1>4, <1>6
<1>8. s \in Seq(Int) /\ Len(s) = n
  BY <1>7, SeqDef, LenProperties
<1>9. Following(s)
  BY <1>4, <1>6, <1>8 DEF Following
<1> QED
  BY <1>1, <1>5, <1>8, <1>9, WireGrows DEF Control, Sized

(* ... and what Range has read of a part.                                      *)
LEMMA CopyOrdered ==
    ASSUME RangeInv, Ordered, Copy
    PROVE  Ordered'
<1>1. /\ pc = "sleeping" /\ pc' # "idle" /\ req' = req /\ UNCHANGED <<lastEventID, broken, got>>
      /\ Serving
  BY DEF Copy, connVars, Serving
<1>2. /\ req \in Request /\ Ranged /\ Acceptable /\ ~Unsatisfiable
      /\ part \in 1 .. Len(Parts) /\ lastEventID = 0 /\ i \in Nat /\ broken \in BOOLEAN
  BY <1>1 DEF RangeInv, RangeControl, Position, Ordered, Ranged
<1>3. CASE broken
  <2>1. UNCHANGED <<wire, i>>
    BY <1>3 DEF Copy
  <2>2. \A k : Nth(k)' = Nth(k)
    BY <1>1, SameNth
  <2> QED
    BY <1>1, <2>1, <2>2 DEF Ordered
<1>4. CASE ~broken
  <2>1. PICK a, b, n, l, c, k, o \in Nat :
           Order(a, b, n, l, c, k, o) /\ Served(a, b, n, l, c, k, o)
    BY <1>1, InPart
  <2>2. PICK d \in Nat : d = o - k /\ o = offset /\ k = mark
    BY <2>1 DEF Order, Served
  <2>3. PICK s : s = [j \in 1 .. d |-> Letter(k + j - 1)]
    OBVIOUS
  <2>4. wire' = wire \o s /\ i' = i + offset - mark
    BY <1>4, <2>2, <2>3 DEF Copy
  <2>5. i' = i + d
    BY <1>2, <2>2, <2>4
  <2>6. ASSUME NEW j \in 1 .. d
        PROVE  Letter(k + j - 1) \in Int /\ Letter(k + j - 1) = Nth(lastEventID + i + j)
    <3>1. PICK x \in Nat : /\ x = (k - a) + j /\ x \in 1 .. b - a + 1
                           /\ n + x = (n + (k - a)) + j /\ a + x - 1 = k + j - 1
      BY <2>1, <2>2 DEF Order
    <3>2. Size(Parts[part]) = b - a + 1 /\ Parts[part][1] = a /\ Place[part - 1] = n
          /\ i = n + (k - a)
      BY <2>1 DEF Served, Size
    <3>3. AskedBytes[n + x] = Letter(a + x - 1)
      <4>1. \A y \in 1 .. Size(Parts[part]) :
               AskedBytes[Place[part - 1] + y] = Letter(Parts[part][1] + y - 1)
        BY <1>2, PlaceFacts
      <4> QED
        BY <3>1, <3>2, <4>1
    <3>4. lastEventID + i + j = n + x
      BY <1>2, <3>1, <3>2
    <3>5. Nth(n + x) = AskedBytes[n + x]
      BY <1>2 DEF Nth, Ranged
    <3>6. k + j - 1 \in Nat
      OBVIOUS
    <3>7. Letter(k + j - 1) \in Nat
      BY <3>6, LetterType
    <3> QED
      BY <3>1, <3>3, <3>4, <3>5, <3>7
  <2>7. s \in [1 .. d -> Int]
    BY <2>3, <2>6
  <2>8. s \in Seq(Int) /\ Len(s) = d
    BY <2>7, SeqDef, LenProperties
  <2>9. Following(s)
    BY <2>3, <2>6, <2>8 DEF Following
  <2>10. wire' = IF broken THEN wire ELSE wire \o s
    BY <1>4, <2>4
  <2> QED
    BY <1>1, <1>2, <2>5, <2>8, <2>9, <2>10, WireGrows DEF Sized
<1> QED
  BY <1>2, <1>3, <1>4

(* The client takes what comes first.                                          *)
LEMMA ReceiveOrdered ==
    ASSUME Sized, Ordered, Receive
    PROVE  Ordered'
<1>1. /\ wire # <<>> /\ got' = Append(got, Head(wire)) /\ wire' = Tail(wire)
      /\ UNCHANGED <<req, lastEventID, pc, i, broken>>
  BY DEF Receive, connVars
<1>2. /\ wire \in Seq(Int) /\ got \in Seq(Int) /\ Len(wire) \in Nat /\ Len(got) \in Nat
      /\ i \in Nat /\ lastEventID \in Int
  BY LenProperties DEF Sized, Ordered
<1>3. /\ Head(wire) = wire[1] /\ Head(wire) \in Int /\ Len(wire) >= 1
      /\ wire' \in Seq(Int) /\ Len(wire') = Len(wire) - 1
      /\ \A k \in 1 .. Len(wire') : wire'[k] = wire[k + 1]
  <2>1. /\ Head(wire) \in Int /\ Tail(wire) \in Seq(Int) /\ Len(Tail(wire)) = Len(wire) - 1
        /\ \A k \in 1 .. Len(Tail(wire)) : Tail(wire)[k] = wire[k + 1]
    BY <1>1, <1>2, HeadTailProperties
  <2>2. Head(wire) = wire[1] /\ Len(wire) >= 1
    BY <1>1, <1>2, EmptySeq
  <2> QED
    BY <1>1, <2>1, <2>2
<1>4. /\ got' \in Seq(Int) /\ Len(got') = Len(got) + 1 /\ got'[Len(got) + 1] = Head(wire)
      /\ \A k \in 1 .. Len(got) : got'[k] = got[k]
  BY <1>1, <1>2, <1>3, AppendProperties
<1>5. \A k : Nth(k)' = Nth(k)
  BY <1>1, SameNth
<1>6. wire[1] = Nth(Len(got) + 1)
  BY <1>2, <1>3 DEF Ordered
<1>7. ASSUME NEW k \in 1 .. Len(got') PROVE got'[k] = Nth(k)
  <2>1. CASE k = Len(got) + 1
    BY <1>3, <1>4, <1>6, <2>1
  <2>2. CASE k # Len(got) + 1
    <3>1. k \in 1 .. Len(got)
      BY <1>2, <1>4, <2>2
    <3> QED
      BY <1>4, <3>1 DEF Ordered
  <2> QED
    BY <2>1, <2>2
<1>8. ASSUME NEW k \in 1 .. Len(wire') PROVE wire'[k] = Nth(Len(got') + k)
  <2>1. k + 1 \in 1 .. Len(wire) /\ Len(got') + k = Len(got) + (k + 1)
    BY <1>2, <1>3, <1>4
  <2>2. wire[k + 1] = Nth(Len(got) + (k + 1))
    BY <2>1 DEF Ordered
  <2> QED
    BY <1>3, <2>1, <2>2
<1>9. Len(got') + Len(wire') = Len(got) + Len(wire)
  BY <1>2, <1>3, <1>4
<1>10. ~(broken \/ pc = "idle")
  BY <1>1 DEF Ordered
<1> QED
  BY <1>1, <1>2, <1>3, <1>4, <1>5, <1>7, <1>8, <1>9, <1>10 DEF Ordered

(* A new connection goes on after the last event received.                     *)
LEMMA ConnectOrdered ==
    ASSUME Sized, Ordered, Connect
    PROVE  Ordered'
<1>1. /\ pc = "idle" /\ i' = 0 /\ wire' = <<>> /\ UNCHANGED <<req, got>>
      /\ lastEventID' = IF got = <<>> \/ req.kind # "sse" THEN 0 ELSE Last(got)
  BY DEF Connect
<1>2. pc' # "idle"
  BY RequestType DEF Connect, Sized
<1>3. wire' \in Seq(Int) /\ Len(wire') = 0 /\ Len(<<>>) = 0
  BY <1>1, EmptySeq
<1>4. got \in Seq(Int) /\ Len(got) \in Nat /\ (got # <<>> => Len(got) \in 1 .. Len(got))
  BY LenProperties, EmptySeq DEF Ordered
<1>5. lastEventID' = Len(got) /\ (req.kind # "sse" => lastEventID' = 0)
  <2>1. CASE got = <<>>
    BY <1>1, <1>3, <2>1
  <2>2. CASE got # <<>> /\ req.kind # "sse"
    BY <1>1, <2>2 DEF Ordered
  <2>3. CASE got # <<>> /\ req.kind = "sse"
    <3>1. got[Len(got)] = Nth(Len(got))
      BY <1>4, <2>3 DEF Ordered
    <3> QED
      BY <1>1, <2>3, <3>1 DEF Nth, Last
  <2> QED
    BY <2>1, <2>2, <2>3
<1>6. \A k \in 1 .. Len(got) : got[k] = Nth(k)'
  BY <1>1, SameNth DEF Ordered
<1> QED
  BY <1>1, <1>2, <1>3, <1>4, <1>5, <1>6 DEF Ordered

(* Every step keeps the order.                                                 *)
LEMMA StepOrdered ==
    ASSUME req.kind # "range" => Control /\ Counted, Ranged => RangeInv, Ordered, [Next]_vars
    PROVE  Ordered'
<1>1. req' = req /\ \A k : Nth(k)' = Nth(k)
  BY RequestKept, SameNth
<1> Sized
  BY DEF Ranged, RangeInv, RangeControl, Control, Sized
<1>2. CASE Break
  <2>1. wire' = <<>> /\ broken' = TRUE /\ pc # "idle" /\ UNCHANGED <<lastEventID, pc, i, got>>
    BY <1>2 DEF Break, connVars
  <2>2. wire' \in Seq(Int) /\ Len(wire') = 0 /\ Len(wire) \in Nat /\ Len(got) \in Nat
        /\ i \in Nat /\ lastEventID \in Int
    BY <2>1, EmptySeq, LenProperties DEF Ordered, Sized
  <2>3. Len(got) + Len(wire') <= lastEventID + i
    <3>1. Len(got) + Len(wire) <= lastEventID + i
      BY DEF Ordered
    <3> QED
      BY <2>2, <3>1
  <2>4. \A k \in 1 .. Len(wire') : wire'[k] = Nth(Len(got) + k)
    BY <2>2
  <2> QED
    BY <1>1, <2>1, <2>2, <2>3, <2>4 DEF Ordered
<1>3. CASE Reconnect
  <2>1. /\ pc' = "idle" /\ req.kind = "sse" /\ (broken \/ wire = <<>>)
        /\ UNCHANGED <<lastEventID, i, wire, broken, got>>
    BY <1>3 DEF Reconnect, connVars
  <2> QED
    BY <1>1, <2>1 DEF Ordered
<1>4. CASE Begin \/ DelayCancelled \/ Fail \/ Pause \/ PauseCancelled \/ Seek \/ Read \/ Tick
  <2>1. pc # "idle" /\ pc' # "idle" /\ UNCHANGED <<lastEventID, i, wire, broken, got>>
    BY <1>4 DEF Begin, DelayCancelled, Fail, Pause, PauseCancelled, Seek, Read, Tick, connVars
  <2> QED
    BY <1>1, <2>1 DEF Ordered
<1>5. CASE UNCHANGED vars
  <2>1. UNCHANGED <<lastEventID, pc, i, wire, broken, got>>
    BY <1>5 DEF vars, connVars
  <2> QED
    BY <1>1, <2>1 DEF Ordered
<1>6. CASE req.kind # "range"
  BY <1>2, <1>3, <1>4, <1>5, <1>6, StepsOf, ConnectOrdered, WriteOrdered, PourOrdered,
     ReceiveOrdered
<1>7. CASE req.kind = "range"
  <2>1. RangeInv
    BY <1>7 DEF Ranged
  <2>2. Connect \/ Seek \/ Read \/ Copy \/ Tick \/ Receive \/ Break \/ UNCHANGED vars
    BY <2>1, RangeSteps DEF RangeInv
  <2> QED
    BY <1>2, <1>4, <1>5, <2>1, <2>2, ConnectOrdered, CopyOrdered, ReceiveOrdered
<1> QED
  BY <1>6, <1>7

(* A client of SSE receives the ids 1, 2, 3, ... without gap or repetition,    *)
(* over any number of connections, lost at any point; a client of Range the    *)
(* bytes of its ranges in their order; the clients of Bytes, StreamBytes and   *)
(* Stream their items in order, and of Drip not too many.                      *)
THEOREM ItemsInOrder == Spec => []ReceivedInOrder
<1> DEFINE Inv == /\ req.kind # "range" => Control /\ Counted /\ Finished
                  /\ Ranged => RangeInv
<1>1. Init => Ordered
  <2> SUFFICES ASSUME Init PROVE Ordered
    OBVIOUS
  <2>1. /\ wire = <<>> /\ got = <<>> /\ lastEventID = 0 /\ i = 0
        /\ <<>> \in Seq(Int) /\ Len(<<>>) = 0
    BY EmptySeq DEF Init
  <2> QED
    BY <2>1 DEF Ordered
<1>2. Inv /\ Ordered /\ [Next]_vars => Ordered'
  BY StepOrdered
<1>3. Inv /\ Ordered => ReceivedInOrder
  <2> SUFFICES ASSUME Inv, Ordered PROVE ReceivedInOrder
    OBVIOUS
  <2>1. /\ req.kind \in {"sse", "drip", "range", "bytes", "lines"}
        /\ got \in Seq(Int) /\ Len(got) \in Nat /\ Len(wire) \in Nat /\ DOMAIN got = 1 .. Len(got)
        /\ i \in Nat /\ req.count \in Int
        /\ \A n \in 1 .. Len(got) : got[n] = Nth(n)
    BY RequestType, LenProperties DEF Ranged, RangeInv, RangeControl, Control, Ordered
  <2>2. CASE req.kind = "sse"
    BY <2>1, <2>2 DEF Nth, ReceivedInOrder
  <2>3. CASE req.kind = "drip"
    <3>1. Len(got) <= i
      <4>1. Len(got) + Len(wire) <= lastEventID + i /\ lastEventID = 0
        BY <2>3 DEF Ordered
      <4> QED
        BY <2>1, <4>1
    <3>2. got # <<>> => Len(got) > 0
      BY <2>1, EmptySeq
    <3>3. i > 0 => i <= req.count
      BY <2>3 DEF Inv, Counted, Paced
    <3>4. got = <<>> \/ Len(got) <= req.count
      BY <2>1, <3>1, <3>2, <3>3
    <3> QED
      BY <2>3, <3>4 DEF ReceivedInOrder
  <2>4. CASE req.kind \in {"bytes", "lines"}
    <3>1. got = [n \in 1 .. Len(got) |-> n - 1]
      <4>1. \A n \in 1 .. Len(got) : got[n] = n - 1
        BY <2>1, <2>4 DEF Nth
      <4>2. got = [n \in 1 .. Len(got) |-> got[n]]
        BY <2>1, LenProperties
      <4> QED
        BY <4>1, <4>2
    <3> QED
      BY <2>4, <3>1 DEF ReceivedInOrder
  <2>5. CASE req.kind = "range"
    <3> SUFFICES ASSUME got # <<>> PROVE IsPrefix(got, AskedBytes)
      BY <2>5 DEF ReceivedInOrder
    <3>1. Len(got) <= i /\ i > 0
      <4>1. Len(got) + Len(wire) <= lastEventID + i /\ lastEventID = 0
        BY <2>5 DEF Ordered
      <4>2. Len(got) > 0
        BY <2>1, EmptySeq
      <4> QED
        BY <2>1, <4>1, <4>2
    <3>2. RangeInv /\ Ranged
      BY <2>5 DEF Inv, Ranged
    <3>3. req \in Request /\ Acceptable /\ ~Unsatisfiable /\ i <= Len(AskedBytes)
      BY <3>1, <3>2 DEF RangeInv, RangeControl, Position
    <3>4. AskedBytes \in Seq(Nat)
      BY <3>2, <3>3, PartsFacts
    <3>5. PICK m \in Nat, l \in Nat : m = Len(got) /\ l = Len(AskedBytes) /\ m \in 0 .. l
      <4>1. Len(AskedBytes) \in Nat
        BY <3>4, LenProperties
      <4>2. PICK m \in Nat, l \in Nat, n \in Nat :
               m = Len(got) /\ l = Len(AskedBytes) /\ n = i
        BY <2>1, <4>1
      <4>3. m <= n /\ n <= l
        BY <3>1, <3>3, <4>2
      <4>4. m \in 0 .. l
        BY ONLY <4>3, m \in Nat, n \in Nat, l \in Nat
      <4> QED
        BY <4>2, <4>4
    <3>6. \A n \in 1 .. m : got[n] = AskedBytes[n]
      BY <2>1, <2>5, <3>5 DEF Nth
    <3>7. SubSeq(AskedBytes, 1, m) = got
      <4>1. PICK u : u = SubSeq(AskedBytes, 1, m)
        OBVIOUS
      <4>2. u \in Seq(Nat) /\ Len(u) = m /\ \A n \in 1 .. m : u[n] = AskedBytes[n]
        BY <3>4, <3>5, <4>1, PrefixProperties
      <4>3. \A n \in 1 .. m : u[n] = got[n]
        BY <3>6, <4>2
      <4>4. u = got
        BY <2>1, <3>5, <4>2, <4>3, SeqEqual
      <4> QED
        BY <4>1, <4>4
    <3>8. SubSeq(got, 1, m) = got
      BY <2>1, <3>5, SubSeqFull
    <3> QED
      BY <3>5, <3>7, <3>8 DEF IsPrefix
  <2> QED
    BY <2>1, <2>2, <2>3, <2>4, <2>5
<1> QED
  BY <1>1, <1>2, <1>3, ControlAlways, RangeAlways, PTL DEF Spec

-----------------------------------------------------------------------------
(* Time.                                                                       *)

(* The ticker is due after its k-th tick at the earliest, one later if its     *)
(* channel holds a tick, and not later than that unless a write has blocked.   *)
Ahead(k) ==
    /\ tickAt - pause <= clock
    /\ pause > 0 => clock < tickAt
    /\ req.delay + k * pause <= tickAt
    /\ ticked => req.delay + k * pause + pause <= tickAt
    /\ slow = 0 => tickAt = req.delay + k * pause + (IF ticked THEN pause ELSE 0)

Latest == req.delay + (IF req.count > 1 THEN req.duration + req.count - 2 ELSE 0)

(* After i items the i-th pause is under way or over.                          *)
Timed ==
    /\ Plain => clock = 0
    /\ pc = "delaying" => clock <= req.delay /\ slow = 0 /\ ~ticked
    /\ pc = "writing" => Ahead(i + 1) /\ (slow = 0 => ~ticked /\ clock = req.delay + i * pause)
    /\ pc = "pausing" => Ahead(i) /\ (slow = 0 => clock <= req.delay + i * pause)
    /\ Paced /\ status = 200 /\ i > 0 => req.delay + (i - 1) * pause <= clock
    /\ Acceptable /\ slow = 0 => clock <= Latest

(* The latest moment is not before the delay, nor before any pause but the     *)
(* last one, which is not taken.                                               *)
LEMMA LatestFacts ==
    ASSUME req \in Request, Acceptable, Paced \/ Plain
    PROVE  /\ req.delay \in Nat /\ Latest \in Nat /\ req.delay <= Latest
           /\ Paced => \A n \in Nat : n < req.count =>
                           n * pause \in Nat /\ req.delay + n * pause <= Latest
<1>1. /\ req.delay \in Nat /\ req.duration \in Nat /\ req.count \in Int
  BY RequestType, PacedRequest
<1>2. Latest \in Nat /\ req.delay <= Latest
  BY <1>1 DEF Latest
<1>3. ASSUME Paced, NEW n \in Nat, n < req.count
      PROVE  n * pause \in Nat /\ req.delay + n * pause <= Latest
  <2>1. PICK p \in Nat : p = pause
    BY <1>3, PauseFacts
  <2>2. CASE n = 0
    <3>1. n * pause = 0
      BY <2>1, <2>2
    <3> QED
      BY <1>1, <1>2, <3>1
  <2>3. CASE n > 0
    <3>1. PICK m \in Nat : m = req.count - 1 /\ n <= m /\ req.count > 1
      BY <1>1, <1>3, <2>3
    <3>2. n * p \in Nat /\ m * p \in Nat /\ n * p <= m * p
      BY <3>1, ProductMonotone
    <3>3. m * p <= req.duration + req.count - 2
      BY <1>3, <2>1, <3>1, PauseFacts
    <3>4. PICK x \in Nat, y \in Nat : x = n * p /\ y = m * p
      BY <3>2
    <3>5. x <= y /\ y <= req.duration + req.count - 2
      BY <3>2, <3>3, <3>4
    <3>6. req.delay + x <= Latest
      BY <1>1, <3>1, <3>5 DEF Latest
    <3> QED
      BY <2>1, <3>4, <3>6
  <2> QED
    BY <2>2, <2>3
<1> QED
  BY <1>1, <1>2, <1>3

(* The clock ticks while the handler is writing or pausing.                    *)
LEMMA TickAhead ==
    ASSUME Control, Counted, Tick, pc \in {"writing", "pausing"}, NEW k \in Nat, Ahead(k),
           slow = 0 /\ pc = "writing" => ~ticked
    PROVE  /\ Ahead(k)'
           /\ pc = "pausing" /\ slow' = 0 /\ clock <= req.delay + k * pause
                => clock' <= req.delay + k * pause
<1>1. /\ req \in Request /\ Paced /\ Acceptable /\ req' = req
      /\ clock \in Nat /\ slow \in Nat /\ tickAt \in Int
  BY DEF Control, Tick, connVars
<1>2. PICK p \in Nat : p = pause
  BY <1>1, PauseFacts
<1>3. PICK d \in Nat : d = req.delay
  BY <1>1, PacedRequest
<1>4. PICK q \in Nat : q = k * pause
  BY <1>2
<1>5. pause' = p /\ req'.delay = d /\ (k * pause)' = q
  <2>1. pause' = pause
    BY <1>1, SameRequest
  <2> QED
    BY <1>1, <1>2, <1>3, <1>4, <2>1
<1>6. /\ tickAt - p <= clock
      /\ p > 0 => clock < tickAt
      /\ d + q <= tickAt
      /\ ticked => d + q + p <= tickAt
      /\ slow = 0 => tickAt = d + q + (IF ticked THEN p ELSE 0)
  BY <1>2, <1>3, <1>4 DEF Ahead
<1>7. /\ clock' = clock + 1
      /\ slow' = IF pc = "writing" THEN slow + 1 ELSE slow
      /\ tickAt' = IF clock + 1 >= tickAt THEN tickAt + p ELSE tickAt
  BY <1>2 DEF Tick
<1>8. /\ ticked' <=> ticked \/ (clock + 1 >= tickAt /\ p > 0)
      /\ pc = "pausing" => ~ticked
      /\ pc = "pausing" => p > 0
  BY <1>2 DEF Tick, Urgent, Counted
<1>9. CASE clock + 1 >= tickAt
  <2>1. /\ tickAt' - p <= clock'
        /\ p > 0 => clock' < tickAt'
        /\ d + q <= tickAt'
        /\ ticked' => d + q + p <= tickAt'
    BY <1>1, <1>6, <1>7, <1>9
  <2>2. slow' = 0 => pc = "pausing" /\ slow = 0
    BY <1>1, <1>7
  <2>3. slow' = 0 => ticked' /\ tickAt' = d + q + p /\ clock' = d + q
    BY <1>1, <1>6, <1>7, <1>8, <1>9, <2>2
  <2>4. slow' = 0 => tickAt' = d + q + (IF ticked' THEN p ELSE 0)
    BY <2>3
  <2>5. Ahead(k)'
    BY <1>5, <2>1, <2>4 DEF Ahead
  <2> QED
    BY <1>3, <1>4, <2>3, <2>5
<1>10. CASE ~(clock + 1 >= tickAt)
  <2>1. tickAt' = tickAt /\ (ticked' <=> ticked)
    BY <1>7, <1>8, <1>10
  <2>2. /\ tickAt' - p <= clock'
        /\ p > 0 => clock' < tickAt'
        /\ d + q <= tickAt'
        /\ ticked' => d + q + p <= tickAt'
    BY <1>1, <1>6, <1>7, <1>10, <2>1
  <2>3. slow' = 0 => pc = "pausing" /\ slow = 0
    BY <1>1, <1>7
  <2>4. slow' = 0 => ~ticked' /\ tickAt' = d + q /\ clock' <= d + q
    BY <1>1, <1>6, <1>7, <1>8, <1>10, <2>1, <2>3
  <2>5. slow' = 0 => tickAt' = d + q + (IF ticked' THEN p ELSE 0)
    BY <2>4
  <2>6. Ahead(k)'
    BY <1>5, <2>2, <2>5 DEF Ahead
  <2> QED
    BY <1>3, <1>4, <2>4, <2>6
<1> QED
  BY <1>9, <1>10

(* Time passes.                                                                *)
LEMMA TickTimed ==
    ASSUME Control, Counted, Timed, Tick
    PROVE  Timed'
<1>1. /\ req' = req /\ clock' = clock + 1 /\ UNCHANGED <<pc, status, i, broken>>
      /\ slow' = IF pc = "writing" THEN slow + 1 ELSE slow
      /\ pc \in {"delaying", "writing", "pausing", "sleeping"} /\ ~Urgent
  BY DEF Tick, connVars
<1>2. /\ req \in Request /\ Paced /\ ~Plain /\ Acceptable /\ pc # "sleeping"
      /\ i \in Nat /\ slow \in Nat /\ clock \in Nat
  BY <1>1 DEF Control, Paced, Plain
<1>3. /\ Paced' <=> Paced
      /\ Plain' <=> Plain
      /\ pause' = pause
      /\ Latest' = Latest
  BY <1>1, SameRequest DEF Latest
<1>4. /\ req.delay \in Nat /\ Latest \in Nat /\ req.delay <= Latest
      /\ \A n \in Nat : n < req.count => n * pause \in Nat /\ req.delay + n * pause <= Latest
  BY <1>2, LatestFacts
<1>5. Paced /\ status' = 200 /\ i' > 0 => req.delay + (i' - 1) * pause <= clock'
  <2> SUFFICES ASSUME status = 200, i > 0 PROVE req.delay + (i - 1) * pause <= clock + 1
    BY <1>1
  <2>1. PICK x \in Int : x = (i - 1) * pause
    BY <1>2, PauseFacts
  <2>2. req.delay + x <= clock
    BY <1>2, <2>1 DEF Timed
  <2>3. req.delay + x <= clock + 1
    BY <1>2, <1>4, <2>2
  <2> QED
    BY <2>1, <2>3
<1>6. CASE pc = "delaying"
  <2>1. clock < req.delay /\ slow = 0 /\ ~ticked
    BY <1>1, <1>2, <1>4, <1>6 DEF Urgent, Timed
  <2>2. ~ticked'
    BY <1>6, <2>1 DEF Tick
  <2>3. clock' <= req.delay /\ clock' <= Latest /\ slow' = 0
    BY <1>1, <1>2, <1>4, <1>6, <2>1
  <2> QED
    BY <1>1, <1>2, <1>3, <1>5, <1>6, <2>2, <2>3 DEF Timed
<1>7. CASE pc = "writing"
  <2>1. Ahead(i + 1) /\ (slow = 0 => ~ticked)
    BY <1>7 DEF Timed
  <2>2. PICK k \in Nat : k = i + 1
    BY <1>2
  <2>3. Ahead(k)'
    BY <1>7, <2>1, <2>2, TickAhead
  <2>4. Ahead(i + 1)'
    BY <1>1, <2>2, <2>3 DEF Ahead
  <2>5. slow' # 0
    BY <1>1, <1>2, <1>7
  <2> QED
    BY <1>1, <1>2, <1>3, <1>5, <1>7, <2>4, <2>5 DEF Timed
<1>8. CASE pc = "pausing"
  <2>1. Ahead(i) /\ (slow = 0 => clock <= req.delay + i * pause)
    BY <1>8 DEF Timed
  <2>2. PICK k \in Nat : k = i
    BY <1>2
  <2>3. /\ Ahead(k)'
        /\ (slow' = 0 /\ clock <= req.delay + k * pause => clock' <= req.delay + k * pause)
    BY <1>8, <2>1, <2>2, TickAhead
  <2>4. Ahead(i)'
    BY <1>1, <2>2, <2>3 DEF Ahead
  <2>5. slow' = 0 => clock' <= req.delay + i * pause
    BY <1>1, <1>8, <2>1, <2>2, <2>3
  <2>6. slow' = 0 => clock' <= Latest
    <3>1. i < req.count
      BY <1>8 DEF Counted
    <3>2. PICK x \in Nat : x = i * pause /\ req.delay + x <= Latest
      BY <1>2, <1>4, <3>1
    <3>3. slow' = 0 => clock' <= req.delay + x
      BY <2>5, <3>2
    <3> QED
      BY <1>1, <1>2, <1>4, <3>2, <3>3
  <2> QED
    BY <1>1, <1>2, <1>3, <1>5, <1>8, <2>4, <2>5, <2>6 DEF Timed
<1> QED
  BY <1>1, <1>2, <1>6, <1>7, <1>8

(* The first write, the next and the last.                                     *)
LEMMA WriteTimed ==
    ASSUME Control, Counted, Timed, Write
    PROVE  Timed'
<1> DEFINE n == IF pause = 0 THEN req.count ELSE 1
<1>1. /\ pc = "writing" /\ i' = i + n /\ req' = req
      /\ pc' = IF i + n = req.count THEN "done" ELSE "pausing"
      /\ UNCHANGED <<status, clock, tickAt, ticked, slow>>
  BY DEF Write, connVars
<1>2. /\ req \in Request /\ Paced /\ ~Plain /\ Acceptable /\ tickAt \in Int
      /\ i \in Nat /\ slow \in Nat /\ clock \in Nat /\ i < req.count /\ (pause > 0 \/ i = 0)
      /\ Ahead(i + 1) /\ (slow = 0 => ~ticked /\ clock = req.delay + i * pause)
  BY <1>1 DEF Control, Counted, Timed, Paced, Plain
<1>3. /\ Paced' <=> Paced
      /\ Plain' <=> Plain
      /\ pause' = pause
      /\ Acceptable' <=> Acceptable
      /\ Latest' = Latest
  BY <1>1, SameRequest DEF Latest
<1>4. PICK p \in Nat, d \in Nat, c \in Nat : p = pause /\ d = req.delay /\ c = req.count
  BY <1>2, PauseFacts, PacedRequest
<1>5. PICK x \in Nat : x = i * p
  BY <1>2, <1>4
<1>6. d + x <= clock /\ (i + 1) * p = x + p
  <2>1. (i + 1) * p = x + p
    BY <1>2, <1>5, ProductNext
  <2>2. tickAt - p <= clock /\ d + (i + 1) * p <= tickAt
    BY <1>2, <1>4 DEF Ahead
  <2>3. PICK y \in Nat : y = (i + 1) * p
    BY <1>5, <2>1
  <2> QED
    BY <1>2, <2>1, <2>2, <2>3
<1>7. slow' = 0 /\ Acceptable' => clock' <= Latest'
  BY <1>1, <1>2, <1>3 DEF Timed
<1>8. CASE p = 0
  <2>1. pc' = "done" /\ i' = c
    BY <1>1, <1>2, <1>4, <1>8
  <2>2. d + (i' - 1) * p <= clock
    <3>1. (c - 1) * p = 0 /\ x = 0
      BY <1>2, <1>4, <1>5, <1>8
    <3> QED
      BY <1>4, <1>6, <2>1, <3>1
  <2> QED
    BY <1>1, <1>2, <1>3, <1>4, <1>7, <2>1, <2>2 DEF Timed
<1>9. CASE p > 0
  <2>1. i' = i + 1 /\ pc' \in {"done", "pausing"}
    BY <1>1, <1>4, <1>9
  <2>2. (i' - 1) * p = x
    <3>1. i' - 1 = i
      BY <1>2, <2>1
    <3> QED
      BY <1>5, <3>1
  <2>3. d + (i' - 1) * p <= clock
    BY <1>6, <2>2
  <2>4. Ahead(i)'
    <3>1. PICK k \in Nat : k = i + 1
      BY <1>2
    <3>2. Ahead(k)'
      BY <1>1, <1>2, <1>3, <3>1 DEF Ahead
    <3> QED
      BY <2>1, <3>1, <3>2 DEF Ahead
  <2>5. slow = 0 => clock <= d + i' * p
    <3>1. i' * p = x + p
      BY <1>6, <2>1
    <3>2. slow = 0 => clock = d + x
      BY <1>2, <1>4, <1>5
    <3>3. d + x <= d + (x + p)
      BY <1>4
    <3> QED
      BY <3>1, <3>2, <3>3
  <2> QED
    BY <1>1, <1>2, <1>3, <1>4, <1>7, <2>1, <2>3, <2>4, <2>5 DEF Timed
<1> QED
  BY <1>4, <1>8, <1>9

(* The ticker starts ...                                                       *)
LEMMA BeginTimed ==
    ASSUME Control, Timed, Begin
    PROVE  Timed'
<1>1. /\ pc = "delaying" /\ clock >= req.delay /\ pc' = "writing" /\ tickAt' = clock + pause
      /\ req' = req /\ UNCHANGED <<clock, ticked, i, slow>>
  BY DEF Begin, connVars
<1>2. /\ req \in Request /\ Paced /\ ~Plain /\ Acceptable /\ i = 0 /\ clock \in Nat
      /\ clock <= req.delay /\ slow = 0 /\ ~ticked
  BY <1>1 DEF Control, Timed, Paced, Plain
<1>3. PICK p \in Nat, d \in Nat : p = pause /\ d = req.delay
  BY <1>2, PauseFacts, PacedRequest
<1>4. clock = d
  BY <1>1, <1>2, <1>3
<1>5. pause' = p /\ req'.delay = d /\ Latest' = Latest /\ ~Plain'
  BY <1>1, <1>2, <1>3, SameRequest DEF Latest
<1>6. (i' + 1) * p = p /\ i' * p = 0
  BY <1>1, <1>2
<1>7. /\ tickAt' - p <= clock' /\ (p > 0 => clock' < tickAt')
      /\ d + p <= tickAt' /\ ~ticked' /\ tickAt' = d + p
  BY <1>1, <1>2, <1>3, <1>4
<1>8. Ahead(i + 1)'
  BY <1>3, <1>5, <1>6, <1>7 DEF Ahead
<1>9. clock' = d + i' * p
  BY <1>1, <1>3, <1>4, <1>6
<1>10. clock' <= Latest'
  BY <1>1, <1>2, <1>5 DEF Timed
<1> QED
  BY <1>1, <1>2, <1>5, <1>7, <1>8, <1>9, <1>10 DEF Timed

(* ... and a tick is taken from its channel.                                   *)
LEMMA PauseTimed ==
    ASSUME Control, Counted, Timed, Pause
    PROVE  Timed'
<1>1. /\ pc = "pausing" /\ ticked /\ ~ticked' /\ pc' = "writing"
      /\ req' = req /\ UNCHANGED <<status, clock, tickAt, i, slow>>
  BY DEF Pause, connVars
<1>2. /\ req \in Request /\ Paced /\ ~Plain /\ Acceptable /\ i \in Nat /\ clock \in Nat
      /\ tickAt \in Int /\ Ahead(i) /\ (slow = 0 => clock <= req.delay + i * pause)
  BY <1>1 DEF Control, Timed, Paced, Plain
<1>3. PICK p \in Nat, d \in Nat : p = pause /\ d = req.delay
  BY <1>2, PauseFacts, PacedRequest
<1>4. PICK x \in Nat : x = i * p
  BY <1>2, <1>3
<1>5. /\ pause' = p /\ req'.delay = d /\ Latest' = Latest /\ ~Plain'
      /\ Acceptable' /\ (Paced' <=> Paced)
  BY <1>1, <1>2, <1>3, SameRequest DEF Latest
<1>6. (i' + 1) * p = x + p /\ i' * p = x
  BY <1>1, <1>2, <1>3, <1>4, ProductNext
<1>7. /\ tickAt - p <= clock /\ (p > 0 => clock < tickAt) /\ d + x + p <= tickAt
      /\ slow = 0 => tickAt = d + x + p
  BY <1>1, <1>2, <1>3, <1>4 DEF Ahead
<1>8. slow = 0 => clock = d + x
  <2>1. slow = 0 => clock <= d + x
    BY <1>2, <1>3, <1>4
  <2> QED
    BY <1>2, <1>3, <1>7, <2>1
<1>9. Ahead(i + 1)'
  <2>1. /\ d + (x + p) <= tickAt
        /\ slow = 0 => tickAt = d + (x + p) + 0
    BY <1>3, <1>4, <1>7
  <2> QED
    BY <1>1, <1>5, <1>6, <1>7, <2>1 DEF Ahead
<1>10. /\ Paced /\ status = 200 /\ i > 0 => d + (i - 1) * p <= clock
       /\ slow = 0 => clock <= Latest
  BY <1>2, <1>3 DEF Timed
<1>11. slow = 0 => clock = d + i' * p
  BY <1>6, <1>8
<1> QED
  BY <1>1, <1>2, <1>5, <1>9, <1>10, <1>11 DEF Timed

(* Every step keeps the pace.                                                  *)
LEMMA StepTimed ==
    ASSUME Control, Counted, Timed, [Next]_vars
    PROVE  Timed'
<1>1. req' = req
  BY StepsOf
<1>2. /\ Paced' <=> Paced
      /\ Plain' <=> Plain
      /\ Acceptable' <=> Acceptable
      /\ pause' = pause
      /\ Latest' = Latest
  BY <1>1, SameRequest DEF Latest
<1>3. CASE Connect
  <2>1. clock' = 0 /\ i' = 0 /\ slow' = 0 /\ ~ticked'
    BY <1>3 DEF Connect
  <2>2. req \in Request /\ (Paced \/ Plain) /\ pc' \in {"delaying", "pouring", "done"}
        /\ (pc' = "delaying" => Acceptable)
    BY <1>3, RequestType DEF Connect, Control, Paced, Plain
  <2>3. Acceptable => req.delay \in Nat /\ Latest \in Nat
    BY <2>2, LatestFacts
  <2>4. (pc' = "delaying" => clock' <= req'.delay) /\ (Acceptable' => clock' <= Latest')
    BY <1>1, <1>2, <2>1, <2>2, <2>3
  <2> QED
    BY <2>1, <2>2, <2>4 DEF Timed
<1>4. CASE Pour \/ Fail \/ PauseCancelled \/ Receive \/ Break \/ Reconnect \/ UNCHANGED vars
  <2>1. /\ UNCHANGED <<status, clock, tickAt, ticked, slow>>
        /\ pc' = pc \/ pc' \in {"done", "idle"}
        /\ i' = i \/ Pour
    BY <1>4 DEF Pour, Fail, PauseCancelled, Receive, Break, Reconnect, vars
  <2>2. CASE Pour
    <3>1. Plain /\ pc' \in {"done", "pouring"}
      BY <2>2 DEF Pour, Control
    <3> QED
      BY <1>1, <1>2, <2>1, <3>1 DEF Timed, Plain, Paced
  <2>3. CASE i' = i
    <3>1. (Ahead(i)' <=> Ahead(i)) /\ (Ahead(i + 1)' <=> Ahead(i + 1))
      BY <1>1, <1>2, <2>1, <2>3 DEF Ahead
    <3> QED
      BY <1>1, <1>2, <2>1, <2>3, <3>1 DEF Timed
  <2> QED
    BY <2>1, <2>2, <2>3
<1>5. CASE DelayCancelled
  <2>1. pc' = "done" /\ status' # 200 /\ UNCHANGED <<clock, slow>>
    BY <1>5 DEF DelayCancelled
  <2> QED
    BY <1>1, <1>2, <2>1 DEF Timed
<1> QED
  BY <1>3, <1>4, <1>5, StepsOf, BeginTimed, PauseTimed, TickTimed, WriteTimed

(* SSE and Drip never write an item ahead of its time, a stream of several     *)
(* items that is written in full lasts as long as was asked, and the responses *)
(* take no longer than that, unless a client blocks them, but for the rounding *)
(* of the pauses; a Range response never does, however many its ranges.        *)
THEOREM PaceIsKept == Spec => []PaceKept
<1> DEFINE Inv == req.kind # "range" => Timed
<1>1. Init => Inv
  <2> SUFFICES ASSUME Init, req.kind # "range" PROVE Timed
    OBVIOUS
  <2>1. pc = "idle" /\ status = 0 /\ clock = 0 /\ i = 0 /\ req \in Request
    BY DEF Init
  <2>2. Paced \/ Plain
    BY <2>1, RequestType DEF Paced, Plain
  <2>3. Acceptable => clock <= Latest
    BY <2>1, <2>2, LatestFacts
  <2> QED
    BY <2>1, <2>3 DEF Timed
<1>2. /\ (req.kind # "range" => Control /\ Counted /\ Finished) /\ Inv /\ [Next]_vars
      => Inv'
  BY StepTimed, RequestKept
<1>3. /\ (req.kind # "range" => Control /\ Counted /\ Finished) /\ Inv
      => (req.kind # "range" => PaceKept)
  <2> SUFFICES ASSUME req.kind # "range", Control, Counted, Timed PROVE PaceKept
    BY DEF Inv
  <2>1. ASSUME req.kind \in {"sse", "drip"}, status = 200, i > 0
        PROVE  /\ clock >= req.delay + (i - 1) * pause
               /\ (i = req.count /\ i > 1) => clock >= req.delay + req.duration
    <3>1. Paced /\ Acceptable /\ req \in Request /\ i \in Nat /\ clock \in Nat
      BY <2>1 DEF Control, Paced
    <3>2. req.delay \in Nat /\ req.duration \in Nat /\ pause \in Nat
      BY <3>1, PacedRequest, PauseFacts
    <3>3. PICK x \in Int : x = (i - 1) * pause
      BY <3>1, <3>2
    <3>4. req.delay + x <= clock
      BY <2>1, <3>1, <3>3 DEF Timed
    <3>5. i = req.count /\ i > 1 => req.duration <= x
      BY <3>1, <3>3, PauseFacts
    <3>6. /\ clock >= req.delay + x
          /\ (i = req.count /\ i > 1) => clock >= req.delay + req.duration
      BY <3>1, <3>2, <3>4, <3>5
    <3> QED
      BY <3>3, <3>6
  <2>2. ASSUME Acceptable, slow = 0
        PROVE  clock <= req.delay + (IF req.count > 1 THEN req.duration + req.count - 2 ELSE 0)
    BY <2>2 DEF Timed, Latest
  <2> QED
    BY <2>1, <2>2 DEF PaceKept
<1>4. (Ranged => RangeInv) => (req.kind = "range" => PaceKept)
  <2> SUFFICES ASSUME req.kind = "range", RangeInv PROVE PaceKept
    BY DEF Ranged
  <2>1. Acceptable => clock <= req.duration
    BY DEF RangeInv, Slept
  <2> QED
    BY <2>1 DEF PaceKept
<1>5. /\ req.kind # "range" => Control /\ Counted /\ Finished
      /\ Inv /\ (Ranged => RangeInv)
      => PaceKept
  BY <1>3, <1>4
<1> QED
  BY <1>1, <1>2, <1>5, ControlAlways, RangeAlways, PTL DEF Spec
=============================================================================
