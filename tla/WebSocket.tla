------------------------------ MODULE WebSocket ------------------------------
(* One WebSocket connection of httpbin/websocket/websocket.go after its        *)
(* handshake: serveLoop reads the client's frames one at a time, assembles     *)
(* messages from fragments, hands each to the handler and writes the answer    *)
(* back in frames.                                                             *)
(*                                                                             *)
(* A payload is a sequence of bytes; the client numbers the data bytes it      *)
(* sends, so no two are alike and any loss, repetition or reordering shows.    *)
EXTENDS Integers, Sequences

CONSTANTS MaxFragment,   \* Limits.MaxFragmentSize
          MaxMessage,    \* Limits.MaxMessageSize
          ControlMax,    \* largest payload of a control frame (125)
          Sizes,         \* payload sizes the client tries
          Answers,       \* what the Handler may do: "echo", "nil", "error"
          MaxFrames,     \* bound on the frames the client sends
          MaxSplit       \* bound on the iterations of frameResponse

(* WebSocketEcho turns down a fragment limit above the message limit.          *)
ASSUME LimitsAssumption ==
    /\ MaxFragment \in Nat \ {0}
    /\ MaxMessage \in Nat \ {0}
    /\ MaxFragment <= MaxMessage
    /\ ControlMax \in Nat
    /\ Sizes \subseteq Nat
    /\ Answers \subseteq {"echo", "nil", "error"}
    /\ MaxFrames \in Nat
    /\ MaxSplit \in Nat

VARIABLES pc,          \* "reading", "framing", "writing" or "closed"
          currentMsg,  \* the message being assembled, or NoMsg
          offset,      \* frameResponse's offset
          result,      \* frameResponse's result: frames built, not yet written
          out,         \* opcodes written to the client, in order
          closeCode,   \* status of the close frame written, 0 before
          taken,       \* frames read so far
          \* the client's own account of the conversation
          clientMsg,   \* the message it is in the middle of, or NoMsg
          sent,        \* messages it has completed
          echoed,      \* messages it has got back
          partial,     \* the one it is getting back
          fault,       \* it has broken the protocol
          bytes        \* data bytes it has numbered

serverVars == <<pc, currentMsg, offset, result, out, closeCode, taken>>
clientVars == <<clientMsg, sent, echoed, partial, fault, bytes>>
vars == <<serverVars, clientVars>>

NoMsg == [binary |-> FALSE, valid |-> TRUE, payload |-> <<>>, open |-> FALSE]

(* A frame as nextFrame decodes it.  valid: its payload is UTF-8, or, in a     *)
(* close frame, a lawful status code and reason.                               *)
Data == {"text", "binary", "continuation"}
Control == {"close", "ping", "pong"}
Frame == [op : Data \cup Control \cup {"other"}, fin : BOOLEAN, rsv : BOOLEAN,
          masked : BOOLEAN, size : Sizes, valid : BOOLEAN]

Numbered(n) == [i \in 1 .. n |-> bytes + i]

(* A fragment of the message m: m continued by frame f with payload p.         *)
Extend(m, f, p) == [binary |-> m.binary, payload |-> m.payload \o p, open |-> m.open,
                    valid |-> m.valid /\ (m.binary \/ f.valid)]

Begin(f, p) == [binary |-> f.op = "binary", payload |-> p, open |-> TRUE,
                valid |-> f.op = "binary" \/ f.valid]

-----------------------------------------------------------------------------
Init ==
    /\ pc = "reading"
    /\ currentMsg = NoMsg
    /\ offset = 0
    /\ result = <<>>
    /\ out = <<>>
    /\ closeCode = 0
    /\ taken = 0
    /\ clientMsg = NoMsg
    /\ sent = <<>>
    /\ echoed = <<>>
    /\ partial = <<>>
    /\ fault = FALSE
    /\ bytes = 0

(* The client sends f, and keeps its own account: whether f breaks RFC 6455 or *)
(* the limits it was told, and which messages it has completed.                *)
ClientSends(f) ==
    LET p     == Numbered(f.size)
        start == f.op \in {"text", "binary"}
        m     == IF start THEN Begin(f, p) ELSE Extend(clientMsg, f, p)
        wrong == \/ ~f.masked \/ f.rsv \/ f.op = "other"
                 \/ f.op \in Control /\ (~f.fin \/ f.size > ControlMax)
                 \/ f.op = "close" /\ ~f.valid
                 \/ f.op \in Data /\ f.size > MaxFragment
                 \/ start /\ clientMsg.open
                 \/ f.op = "continuation" /\ ~clientMsg.open
    IN  /\ taken < MaxFrames
        /\ taken' = taken + 1
        /\ fault' = (fault \/ wrong)
        /\ IF f.op \in Data
           THEN /\ bytes' = bytes + f.size
                /\ clientMsg' = IF f.fin THEN NoMsg ELSE m
                /\ sent' = IF f.fin THEN Append(sent, m) ELSE sent
           ELSE UNCHANGED <<bytes, clientMsg, sent>>
        /\ UNCHANGED <<echoed, partial>>

(* Bug: serveLoop carries on after writing a close frame.                      *)
CloseAndCarryOnBug(code) ==
    /\ out' = Append(out, "close")
    /\ closeCode' = code
    /\ UNCHANGED <<pc, currentMsg, offset, result>>

(* writeCloseFrame, then return; nothing is on the wire if the write fails.    *)
Close(code) ==
    /\ \/ out' = Append(out, "close") /\ closeCode' = code
       \/ UNCHANGED <<out, closeCode>>
    /\ pc' = "closed"
    /\ UNCHANGED <<currentMsg, offset, result>>

(* Bug: a failed read is skipped.                                              *)
ReadErrorSkippedBug == pc = "reading" /\ UNCHANGED vars

(* nextFrame fails: end of stream, a truncated frame or the connection's       *)
(* deadline.                                                                   *)
ReadError ==
    /\ pc = "reading"
    /\ Close(1011)
    /\ UNCHANGED <<taken, clientVars>>

(* nextFrame turns down an unmasked frame.                                     *)
Unmasked(f) ==
    /\ pc = "reading"
    /\ ~f.masked
    /\ ClientSends(f)
    /\ Close(1011)

(* The context is done: return without a word.                                 *)
Cancelled ==
    /\ pc = "reading"
    /\ pc' = "closed"
    /\ UNCHANGED <<currentMsg, offset, result, out, closeCode, taken, clientVars>>

validateFrame(f) ==
    /\ ~f.rsv
    /\ f.op \in Data => f.size <= MaxFragment
    /\ f.op \in Control => f.size <= ControlMax /\ f.fin
    /\ f.op = "close" => f.valid

Invalid(f) ==
    /\ pc = "reading"
    /\ f.masked
    /\ ~validateFrame(f)
    /\ ClientSends(f)
    /\ Close(1002)

(* A frame the loop's switch looks at.                                         *)
Accepted(f) ==
    /\ pc = "reading"
    /\ f.masked
    /\ validateFrame(f)
    /\ ClientSends(f)

(* The frame was read into the message m; a final one goes to the handler,     *)
(* whose nil answer leaves the loop with currentMsg as it is.                  *)
Deliver(m, fin) ==
    IF ~fin
    THEN /\ currentMsg' = m
         /\ UNCHANGED <<pc, offset, result, out, closeCode>>
    ELSE \/ /\ "echo" \in Answers
            /\ currentMsg' = m
            /\ pc' = "framing"
            /\ UNCHANGED <<offset, result, out, closeCode>>
         \/ /\ "nil" \in Answers
            /\ currentMsg' = m
            /\ UNCHANGED <<pc, offset, result, out, closeCode>>
         \/ /\ "error" \in Answers
            /\ Close(1011)

(* case OpcodeBinary, OpcodeText                                               *)
Start(f) ==
    /\ f.op \in {"text", "binary"}
    /\ Accepted(f)
    /\ CASE currentMsg.open -> Close(1002)
         [] ~currentMsg.open /\ f.op = "text" /\ ~f.valid -> Close(1007)
         [] OTHER -> Deliver(Begin(f, Numbered(f.size)), f.fin)

(* Bugs: fragments are not checked to be UTF-8; the size is not checked.       *)
ContinueUncheckedBug(f) ==
    /\ f.op = "continuation"
    /\ Accepted(f)
    /\ LET m == Extend(currentMsg, f, Numbered(f.size))
       IN  CASE ~currentMsg.open -> Close(1002)
             [] currentMsg.open /\ Len(m.payload) > MaxMessage -> Close(1009)
             [] OTHER -> Deliver(m, f.fin)

ContinueUnlimitedBug(f) ==
    /\ f.op = "continuation"
    /\ Accepted(f)
    /\ LET m == Extend(currentMsg, f, Numbered(f.size))
       IN  CASE ~currentMsg.open -> Close(1002)
             [] currentMsg.open /\ ~m.valid -> Close(1007)
             [] OTHER -> Deliver(m, f.fin)

(* case OpcodeContinuation.  Only here is the message's size checked: a first  *)
(* frame is bounded by the fragment limit.                                     *)
Continue(f) ==
    /\ f.op = "continuation"
    /\ Accepted(f)
    /\ LET m == Extend(currentMsg, f, Numbered(f.size))
       IN  CASE ~currentMsg.open -> Close(1002)
             [] currentMsg.open /\ ~currentMsg.binary /\ ~f.valid -> Close(1007)
             [] /\ currentMsg.open
                /\ currentMsg.binary \/ f.valid
                /\ Len(m.payload) > MaxMessage -> Close(1009)
             [] OTHER -> Deliver(m, f.fin)

ClientCloses(f) ==
    /\ f.op = "close"
    /\ Accepted(f)
    /\ Close(1000)

(* case OpcodePing: the frame goes back as a pong, even between fragments.     *)
Ping(f) ==
    /\ f.op = "ping"
    /\ Accepted(f)
    /\ \/ out' = Append(out, "pong") /\ UNCHANGED pc
       \/ pc' = "closed" /\ UNCHANGED out
    /\ UNCHANGED <<currentMsg, offset, result, closeCode>>

Pong(f) ==
    /\ f.op = "pong"
    /\ Accepted(f)
    /\ UNCHANGED <<pc, currentMsg, offset, result, out, closeCode>>

UnknownOpcode(f) ==
    /\ f.op = "other"
    /\ Accepted(f)
    /\ Close(1002)

(* One iteration of frameResponse's loop.  offset is never assigned in it.     *)
FrameResponse ==
    LET dataLen == Len(currentMsg.payload)
        end     == offset + MaxFragment
        fin     == end >= dataLen
        last    == IF fin THEN dataLen ELSE end
    IN  /\ pc = "framing"
        /\ Len(result) < MaxSplit
        /\ result' = Append(result,
                        [fin |-> fin,
                         op  |-> IF offset > 0 THEN "continuation"
                                 ELSE IF currentMsg.binary THEN "binary" ELSE "text",
                         payload |-> SubSeq(currentMsg.payload, offset + 1, last)])
        /\ pc' = IF fin THEN "writing" ELSE "framing"
        /\ UNCHANGED <<currentMsg, offset, out, closeCode, taken, clientVars>>

(* Bug: currentMsg is not reset after the answer.                              *)
WriteResponseNoResetBug ==
    /\ pc = "writing"
    /\ LET f == Head(result)
       IN  /\ out' = Append(out, f.op)
           /\ result' = Tail(result)
           /\ partial' = IF f.fin THEN <<>> ELSE partial \o f.payload
           /\ echoed' = IF f.fin THEN Append(echoed, partial \o f.payload) ELSE echoed
           /\ pc' = IF Tail(result) = <<>> THEN "reading" ELSE "writing"
    /\ UNCHANGED <<currentMsg, offset, closeCode, taken, clientMsg, sent, fault, bytes>>

(* The loop over the frames built: writeFrame each, and reset currentMsg after *)
(* the last.  A failed write ends the connection without a close frame.        *)
WriteResponse ==
    /\ pc = "writing"
    /\ LET f == Head(result)
           more == Tail(result) # <<>>
       IN  /\ out' = Append(out, f.op)
           /\ result' = Tail(result)
           /\ partial' = IF f.fin THEN <<>> ELSE partial \o f.payload
           /\ echoed' = IF f.fin THEN Append(echoed, partial \o f.payload) ELSE echoed
           /\ pc' = IF more THEN "writing" ELSE "reading"
           /\ currentMsg' = IF more THEN currentMsg ELSE NoMsg
    /\ UNCHANGED <<offset, closeCode, taken, clientMsg, sent, fault, bytes>>

WriteError ==
    /\ pc = "writing"
    /\ pc' = "closed"
    /\ UNCHANGED <<currentMsg, offset, result, out, closeCode, taken, clientVars>>

Closed ==
    /\ pc = "closed"
    /\ UNCHANGED vars

Receive(f) ==
    \/ Unmasked(f) \/ Invalid(f) \/ Start(f) \/ Continue(f)
    \/ ClientCloses(f) \/ Ping(f) \/ Pong(f) \/ UnknownOpcode(f)

Next ==
    \/ \E f \in Frame : Receive(f)
    \/ ReadError \/ Cancelled
    \/ FrameResponse \/ WriteResponse \/ WriteError
    \/ Closed

Spec == Init /\ [][Next]_vars

(* The goroutine is scheduled, and a read that waits for a silent client fails *)
(* when the deadline that Serve sets on the connection has passed.             *)
FairSpec == Spec /\ WF_vars(ReadError) /\ WF_vars(FrameResponse \/ WriteResponse)

-----------------------------------------------------------------------------
(* Properties.                                                                 *)

Message == [binary : BOOLEAN, valid : BOOLEAN, open : BOOLEAN,
            payload : Seq(1 .. bytes)]

(* Types; in particular no message that serveLoop assembles outgrows           *)
(* MaxMessage, though only continuation frames are checked against it.         *)
TypeOK ==
    /\ pc \in {"reading", "framing", "writing", "closed"}
    /\ currentMsg \in Message
    /\ pc # "closed" => Len(currentMsg.payload) <= MaxMessage
    /\ offset \in Nat
    /\ Len(result) <= MaxSplit
    /\ closeCode \in {0, 1000, 1002, 1007, 1009, 1011}
    /\ taken \in 0 .. MaxFrames
    /\ clientMsg \in Message
    /\ fault \in BOOLEAN
    /\ bytes \in Nat

(* The client gets its messages back whole, unaltered, in the order it sent    *)
(* them, none twice, none with a fragment that is not the UTF-8 its type       *)
(* promises, and by the time the loop reads again, all of them.                *)
EchoesInOrder ==
    /\ Len(echoed) <= Len(sent)
    /\ \A i \in 1 .. Len(echoed) : echoed[i] = sent[i].payload /\ sent[i].valid
    /\ pc = "reading" => Len(echoed) = Len(sent)

(* A client that keeps to the protocol and its limits is never told that it    *)
(* broke it.                                                                   *)
LawfulClientNotBlamed == closeCode = 1002 => fault

(* The close frame is the last thing written, and it ends the loop.            *)
NothingAfterClose ==
    \A i \in 1 .. Len(out) : out[i] = "close" => i = Len(out) /\ pc = "closed"

(* The connection ends.                                                        *)
ConnectionEnds == <>(pc = "closed")

(* "frameResponse splits a message into N frames": the payloads built so far,  *)
(* in order, are the message cut at multiples of the fragment size.            *)
SplitsMessage ==
    \A i \in 1 .. Len(result) : pc = "framing" =>
        result[i].payload = SubSeq(currentMsg.payload, (i - 1) * MaxFragment + 1,
                                                        i * MaxFragment)
=============================================================================
