--------------------------- MODULE WebSocketProofs ---------------------------
(* Theorems about a WebSocket connection, for any limits, any frames and a     *)
(* conversation of any length.                                                 *)
EXTENDS WebSocket, SequenceTheorems, TLAPS

Codes == {0, 1000, 1002, 1007, 1009, 1011}
Opcodes == Data \cup Control
Places == {"reading", "framing", "writing", "closed"}

(* What a frame of an answer may look like.                                    *)
Built == [fin : BOOLEAN, op : Data, payload : Seq(Nat)]

-----------------------------------------------------------------------------
(* Messages.                                                                   *)

(* The bytes numbered so far stay numbered.                                    *)
LEMMA MessageGrows ==
    ASSUME bytes \in Nat, bytes' \in Nat, bytes <= bytes', NEW m \in Message
    PROVE  m \in Message'
<1>1. m.payload \in Seq(1 .. bytes) /\ 1 .. bytes \subseteq 1 .. bytes'
  BY DEF Message
<1>2. m.payload \in Seq(1 .. bytes')
  BY <1>1, SeqMonotonic
<1>3. m = [binary |-> m.binary, valid |-> m.valid, open |-> m.open, payload |-> m.payload]
      /\ m.binary \in BOOLEAN /\ m.valid \in BOOLEAN /\ m.open \in BOOLEAN
  BY DEF Message
<1> QED
  BY <1>2, <1>3 DEF Message

(* The payload of the client's next data frame.                                *)
LEMMA NumberedType ==
    ASSUME bytes \in Nat, NEW n \in Nat
    PROVE  Numbered(n) \in Seq(1 .. bytes + n) /\ Len(Numbered(n)) = n
<1>1. Numbered(n) \in [1 .. n -> 1 .. bytes + n]
  BY DEF Numbered
<1>2. Numbered(n) \in Seq(1 .. bytes + n)
  BY <1>1, SeqDef
<1>3. DOMAIN Numbered(n) = 1 .. n
  BY DEF Numbered
<1> QED
  BY <1>2, <1>3, LenProperties

(* A message and its continuations are messages of the bytes numbered by then. *)
LEMMA MessageOps ==
    ASSUME bytes \in Nat, bytes' \in Nat, NEW f \in Frame, bytes' = bytes + f.size
    PROVE  /\ Begin(f, Numbered(f.size)) \in Message'
           /\ Len(Begin(f, Numbered(f.size)).payload) = f.size
           /\ \A m \in Message : /\ Extend(m, f, Numbered(f.size)) \in Message'
                                 /\ Extend(m, f, Numbered(f.size)).open = m.open
<1> DEFINE p == Numbered(f.size)
<1>1. f.size \in Nat /\ f.valid \in BOOLEAN
  BY LimitsAssumption DEF Frame
<1>2. p \in Seq(1 .. bytes') /\ Len(p) = f.size
  BY <1>1, NumberedType
<1> HIDE DEF p
<1>3. Begin(f, p) \in Message' /\ Begin(f, p).payload = p
  BY <1>1, <1>2 DEF Begin, Message
<1>4. ASSUME NEW m \in Message PROVE Extend(m, f, p) \in Message' /\ Extend(m, f, p).open = m.open
  <2>1. m \in Message'
    BY <1>1, <1>4, MessageGrows
  <2>2. m.payload \in Seq(1 .. bytes') /\ m.binary \in BOOLEAN /\ m.valid \in BOOLEAN
        /\ m.open \in BOOLEAN
    BY <2>1 DEF Message
  <2>3. m.payload \o p \in Seq(1 .. bytes')
    BY <1>2, <2>2, ConcatProperties
  <2>4. Extend(m, f, p) = [binary |-> m.binary, valid |-> m.valid /\ (m.binary \/ f.valid),
                           open |-> m.open, payload |-> m.payload \o p]
    BY DEF Extend
  <2> QED
    BY <2>2, <2>3, <2>4 DEF Message
<1> QED
  BY <1>2, <1>3, <1>4 DEF p

-----------------------------------------------------------------------------
(* Types.  TypeOK needs the types of the sequences that the loop appends to    *)
(* and takes from, and that there is a frame to write when it writes.          *)

Whole == [binary : BOOLEAN, valid : BOOLEAN, open : BOOLEAN, payload : Seq(Nat)]

Typed ==
    /\ TypeOK
    /\ offset = 0
    /\ result \in Seq(Built)
    /\ pc = "writing" => result # <<>>
    /\ out \in Seq(Opcodes)
    /\ sent \in Seq(Whole)
    /\ echoed \in Seq(Seq(Nat))
    /\ partial \in Seq(Nat)

(* A message of the bytes numbered by the next state is one of numbers.        *)
LEMMA MessageIsWhole ==
    ASSUME bytes' \in Nat, NEW m, m \in Message'
    PROVE  m \in Whole
<1>1. m.payload \in Seq(1 .. bytes') /\ 1 .. bytes' \subseteq Nat
  BY DEF Message
<1>2. m.payload \in Seq(Nat)
  BY <1>1, SeqMonotonic
<1>3. m = [binary |-> m.binary, valid |-> m.valid, open |-> m.open, payload |-> m.payload]
      /\ m.binary \in BOOLEAN /\ m.valid \in BOOLEAN /\ m.open \in BOOLEAN
  BY DEF Message
<1> QED
  BY <1>2, <1>3 DEF Whole

(* No message at all is a message.                                             *)
LEMMA NoMsgMessage == NoMsg \in Message
  BY EmptySeq DEF NoMsg, Message

(* What the client's account may do in a step: grow.                           *)
ClientGrows ==
    /\ taken' \in 0 .. MaxFrames
    /\ fault' \in BOOLEAN /\ (fault => fault')
    /\ bytes' \in Nat /\ bytes <= bytes'
    /\ clientMsg' \in Message'
    /\ sent' \in Seq(Whole) /\ Len(sent) <= Len(sent')
    /\ \A i \in 1 .. Len(sent) : sent'[i] = sent[i]
    /\ UNCHANGED <<echoed, partial>>

(* A frame that breaks the protocol or its limits, by the client's account.    *)
Wrong(f) ==
    \/ ~f.masked \/ f.rsv \/ f.op = "other"
    \/ f.op \in Control /\ (~f.fin \/ f.size > ControlMax)
    \/ f.op = "close" /\ ~f.valid
    \/ f.op \in Data /\ f.size > MaxFragment
    \/ f.op \in {"text", "binary"} /\ clientMsg.open
    \/ f.op = "continuation" /\ ~clientMsg.open

(* A client that sends one is at fault from then on.                           *)
LEMMA SendsFault ==
    ASSUME NEW f, ClientSends(f)
    PROVE  fault' = (fault \/ Wrong(f))
  BY Zenon DEF ClientSends, Wrong

(* A frame the client sends makes it grow ...                                  *)
LEMMA SendsGrow ==
    ASSUME Typed, NEW f \in Frame, ClientSends(f)
    PROVE  ClientGrows
<1> DEFINE start == f.op \in {"text", "binary"}
           m == IF start THEN Begin(f, Numbered(f.size))
                ELSE Extend(clientMsg, f, Numbered(f.size))
<1>1. bytes \in Nat /\ clientMsg \in Message /\ taken \in 0 .. MaxFrames /\ MaxFrames \in Nat
      /\ sent \in Seq(Whole) /\ fault \in BOOLEAN /\ f.size \in Nat
  <2>1. f.size \in Nat /\ MaxFrames \in Nat
    BY LimitsAssumption DEF Frame
  <2>2. fault \in BOOLEAN
    BY DEF Typed, TypeOK
  <2> QED
    BY <2>1, <2>2 DEF Typed, TypeOK
<1>2. taken' \in 0 .. MaxFrames
  BY <1>1 DEF ClientSends
<1>3. fault' \in BOOLEAN /\ (fault => fault')
  <2>1. fault' = (fault \/ Wrong(f))
    BY SendsFault
  <2> QED
    BY <1>1, <2>1, Zenon
<1>4. UNCHANGED <<echoed, partial>>
  BY DEF ClientSends
<1>5. CASE f.op \in Data
  <2>1. /\ bytes' = bytes + f.size
        /\ clientMsg' = IF f.fin THEN NoMsg ELSE m
        /\ sent' = IF f.fin THEN Append(sent, m) ELSE sent
    BY <1>5 DEF ClientSends
  <2>2. bytes' \in Nat /\ bytes <= bytes'
    BY <1>1, <2>1
  <2>3. m \in Message'
    BY <1>1, <2>1, <2>2, MessageOps
  <2>4. NoMsg \in Message'
    BY EmptySeq DEF NoMsg, Message
  <2>5. m \in Whole
    BY <2>2, <2>3, MessageIsWhole
  <2> HIDE DEF m
  <2>6. sent' \in Seq(Whole) /\ Len(sent) <= Len(sent')
        /\ \A i \in 1 .. Len(sent) : sent'[i] = sent[i]
    <3>1. Len(sent) \in Nat
      BY <1>1, LenProperties
    <3> QED
      BY <1>1, <2>1, <2>5, <3>1, AppendProperties
  <2> QED
    BY <1>2, <1>3, <1>4, <2>1, <2>2, <2>3, <2>4, <2>6 DEF ClientGrows
<1>6. CASE f.op \notin Data
  <2>1. UNCHANGED <<bytes, clientMsg, sent>>
    BY <1>6 DEF ClientSends
  <2>2. clientMsg' \in Message'
    BY <1>1, <2>1 DEF Message
  <2>3. Len(sent) \in Nat
    BY <1>1, LenProperties
  <2> QED
    BY <1>1, <1>2, <1>3, <1>4, <2>1, <2>2, <2>3 DEF ClientGrows
<1> QED
  BY <1>5, <1>6

(* ... and so does doing nothing.                                              *)
LEMMA SilenceGrows ==
    ASSUME Typed, UNCHANGED <<taken, clientVars>>
    PROVE  ClientGrows
<1>1. Len(sent) \in Nat
  BY LenProperties DEF Typed
<1>2. clientMsg' \in Message'
  BY DEF Typed, TypeOK, Message, clientVars
<1> QED
  BY <1>1, <1>2 DEF Typed, TypeOK, ClientGrows, clientVars

(* The server returns from serveLoop, perhaps after a close frame.             *)
Returns(code) ==
    /\ pc' = "closed"
    /\ UNCHANGED <<currentMsg, offset, result>>
    /\ \/ UNCHANGED <<out, closeCode>>
       \/ out' = Append(out, "close") /\ closeCode' = code /\ pc = "reading"

(* Deliver leaves the message where serveLoop finds it, or returns.            *)
LEMMA Delivered ==
    ASSUME NEW m, NEW fin \in BOOLEAN, pc = "reading", Deliver(m, fin)
    PROVE  \/ Returns(1011)
           \/ /\ currentMsg' = m
              /\ UNCHANGED <<offset, result, out, closeCode>>
              /\ \/ ~fin /\ pc' = "reading"
                 \/ fin /\ pc' = "framing"
                 \/ "nil" \in Answers /\ pc' = "reading"
  BY DEF Deliver, Close, Returns

(* Close is a return.                                                          *)
LEMMA CloseReturns ==
    ASSUME NEW code, pc = "reading", Close(code)
    PROVE  Returns(code)
  BY DEF Close, Returns

(* What serveLoop does with a frame that starts a message.                     *)
LEMMA Started ==
    ASSUME NEW f \in Frame, Start(f)
    PROVE  \/ currentMsg.open /\ Returns(1002)
           \/ ~currentMsg.open /\ Returns(1007)
           \/ /\ ~currentMsg.open
              /\ f.op = "binary" \/ f.valid
              /\ Deliver(Begin(f, Numbered(f.size)), f.fin)
<1>1. pc = "reading" /\ f.op \in {"text", "binary"}
  BY DEF Start, Accepted
<1>2. CASE currentMsg.open
  BY <1>1, <1>2, CloseReturns DEF Start
<1>3. CASE ~currentMsg.open /\ f.op = "text" /\ ~f.valid
  BY <1>1, <1>3, CloseReturns DEF Start
<1>4. CASE ~currentMsg.open /\ ~(f.op = "text" /\ ~f.valid)
  BY <1>1, <1>4 DEF Start
<1> QED
  BY <1>2, <1>3, <1>4

(* And with one that continues it.                                             *)
LEMMA Continued ==
    ASSUME NEW f \in Frame, Continue(f)
    PROVE  \/ ~currentMsg.open /\ Returns(1002)
           \/ currentMsg.open /\ (Returns(1007) \/ Returns(1009))
           \/ /\ currentMsg.open
              /\ currentMsg.binary \/ f.valid
              /\ ~(Len(Extend(currentMsg, f, Numbered(f.size)).payload) > MaxMessage)
              /\ Deliver(Extend(currentMsg, f, Numbered(f.size)), f.fin)
<1> DEFINE m == Extend(currentMsg, f, Numbered(f.size))
<1>1. pc = "reading"
  BY DEF Continue, Accepted
<1> HIDE DEF m
<1>2. CASE ~currentMsg.open
  <2>1. Close(1002)
    BY <1>2 DEF Continue, m
  <2> QED
    BY <1>1, <1>2, <2>1, CloseReturns
<1>3. CASE currentMsg.open /\ ~currentMsg.binary /\ ~f.valid
  <2>1. Close(1007)
    BY <1>3 DEF Continue, m
  <2> QED
    BY <1>1, <1>3, <2>1, CloseReturns
<1>4. CASE currentMsg.open /\ (currentMsg.binary \/ f.valid) /\ Len(m.payload) > MaxMessage
  <2>1. Close(1009)
    BY <1>4 DEF Continue, m
  <2> QED
    BY <1>1, <1>4, <2>1, CloseReturns
<1>5. CASE currentMsg.open /\ (currentMsg.binary \/ f.valid) /\ ~(Len(m.payload) > MaxMessage)
  <2>1. Deliver(m, f.fin)
    BY <1>5 DEF Continue, m
  <2> QED
    BY <1>5, <2>1 DEF m
<1> QED
  BY <1>2, <1>3, <1>4, <1>5

-----------------------------------------------------------------------------
(* A return keeps the types and the place of the close frame ...               *)
LEMMA ReturnsTyped ==
    ASSUME Typed, NothingAfterClose, ClientGrows, NEW code \in Codes, Returns(code)
    PROVE  Typed' /\ NothingAfterClose'
<1>1. /\ pc' = "closed" /\ UNCHANGED <<currentMsg, offset, result>>
  BY DEF Returns
<1>2. currentMsg' \in Message'
  BY <1>1, MessageGrows DEF Typed, TypeOK, ClientGrows
<1>3. out \in Seq(Opcodes) /\ Len(out) \in Nat /\ "close" \in Opcodes
  BY LenProperties DEF Typed, Opcodes, Control
<1>4. CASE UNCHANGED <<out, closeCode>>
  <2>1. TypeOK'
    BY <1>1, <1>2, <1>4 DEF Typed, TypeOK, ClientGrows
  <2> QED
    BY <1>1, <1>4, <2>1 DEF Typed, ClientGrows, NothingAfterClose
<1>5. CASE out' = Append(out, "close") /\ closeCode' = code /\ pc = "reading"
  <2>1. TypeOK'
    BY <1>1, <1>2, <1>5 DEF Typed, TypeOK, ClientGrows, Codes
  <2>2. /\ out' \in Seq(Opcodes) /\ Len(out') = Len(out) + 1
        /\ \A i \in 1 .. Len(out) : out'[i] = out[i]
    BY <1>3, <1>5, AppendProperties
  <2>3. NothingAfterClose'
    BY <1>1, <1>3, <1>5, <2>2 DEF NothingAfterClose
  <2> QED
    BY <1>1, <2>1, <2>2, <2>3 DEF Typed, ClientGrows
<1> QED
  BY <1>4, <1>5 DEF Returns

(* ... and so does a frame that is read into a message or answered by a pong.  *)
LEMMA ReadTyped ==
    ASSUME Typed, NothingAfterClose, ClientGrows, pc = "reading",
           pc' \in {"reading", "framing"}, UNCHANGED <<offset, result, closeCode>>,
           out' = out \/ out' = Append(out, "pong"),
           currentMsg' \in Message', Len(currentMsg'.payload) <= MaxMessage
    PROVE  Typed' /\ NothingAfterClose'
<1>1. TypeOK'
  BY DEF Typed, TypeOK, ClientGrows
<1>2. out \in Seq(Opcodes) /\ Len(out) \in Nat /\ "pong" \in Opcodes
  BY LenProperties DEF Typed, Opcodes, Control
<1>3. out' \in Seq(Opcodes) /\ \A i \in 1 .. Len(out') : out'[i] # "close"
  <2>1. \A i \in 1 .. Len(out) : out[i] # "close"
    BY DEF NothingAfterClose
  <2>2. CASE out' = Append(out, "pong")
    <3>1. /\ out' \in Seq(Opcodes) /\ Len(out') = Len(out) + 1
          /\ \A i \in 1 .. Len(out) : out'[i] = out[i]
          /\ out'[Len(out) + 1] = "pong"
      BY <1>2, <2>2, AppendProperties
    <3> QED
      BY <1>2, <2>1, <3>1
  <2> QED
    BY <1>2, <2>1, <2>2
<1> QED
  BY <1>1, <1>3 DEF Typed, ClientGrows, NothingAfterClose

(* frameResponse appends a frame of the message.  With offset at 0 its payload *)
(* is a prefix of the message's, and all of it in a final frame.               *)
LEMMA FrameBuilt ==
    ASSUME Typed, FrameResponse
    PROVE  \E f \in Built :
              /\ result' = Append(result, f)
              /\ f.fin <=> Len(currentMsg.payload) <= MaxFragment
              /\ f.fin => f.payload = currentMsg.payload
              /\ pc' = IF f.fin THEN "writing" ELSE "framing"
<1> DEFINE msg     == currentMsg.payload
           dataLen == Len(msg)
           fin     == MaxFragment >= dataLen
           last    == IF fin THEN dataLen ELSE MaxFragment
           f       == [fin |-> fin,
                       op  |-> IF currentMsg.binary THEN "binary" ELSE "text",
                       payload |-> SubSeq(msg, 1, last)]
<1>1. msg \in Seq(1 .. bytes) /\ bytes \in Nat /\ MaxFragment \in Nat /\ offset = 0
  BY LimitsAssumption DEF Typed, TypeOK, Message
<1>2. msg \in Seq(Nat)
  <2>1. 1 .. bytes \subseteq Nat
    BY <1>1
  <2> QED
    BY <1>1, <2>1, SeqMonotonic
<1>3. dataLen \in Nat /\ last \in 0 .. dataLen /\ \A i \in 1 .. dataLen : msg[i] \in Nat
  <2>1. dataLen \in Nat /\ msg \in [1 .. dataLen -> Nat]
    BY <1>2, LenProperties
  <2> HIDE DEF msg
  <2> QED
    BY <1>1, <2>1
<1>4. SubSeq(msg, 1, last) \in Seq(Nat)
  <2>1. 1 \in Int /\ last \in Int /\ \A i \in 1 .. last : msg[i] \in Nat
    BY <1>3
  <2> HIDE DEF msg, last
  <2> QED
    BY <2>1, SubSeqProperties
<1>5. fin => SubSeq(msg, 1, last) = msg
  <2>1. SubSeq(msg, 1, Len(msg)) = msg
    BY <1>2, SubSeqFull
  <2> QED
    BY <2>1
<1>6. f \in Built
  <2>1. fin \in BOOLEAN /\ (IF currentMsg.binary THEN "binary" ELSE "text") \in Data
    BY DEF Data
  <2> HIDE DEF fin, last, msg
  <2> QED
    BY <1>4, <2>1 DEF Built
<1>7. /\ result' = Append(result, f)
      /\ pc' = IF fin THEN "writing" ELSE "framing"
  <2>1. offset + MaxFragment = MaxFragment /\ ~(offset > 0) /\ offset + 1 = 1
    BY <1>1
  <2> QED
    BY <2>1 DEF FrameResponse
<1>8. fin <=> dataLen <= MaxFragment
  BY <1>1, <1>3
<1>9. f.fin = fin /\ f.payload = SubSeq(msg, 1, last)
  <2> HIDE DEF fin, last, msg
  <2> QED
    OBVIOUS
<1> HIDE DEF f, last, fin
<1> QED
  BY <1>5, <1>6, <1>7, <1>8, <1>9

(* A connection begins with nothing read and nothing written.                  *)
LEMMA InitTyped == Init => Typed /\ NothingAfterClose
<1> SUFFICES ASSUME Init PROVE Typed /\ NothingAfterClose
  OBVIOUS
<1>1. NoMsg \in Message /\ Len(NoMsg.payload) = 0
  BY NoMsgMessage, EmptySeq DEF NoMsg
<1>2. TypeOK
  <2>1. currentMsg \in Message /\ clientMsg \in Message /\ Len(currentMsg.payload) = 0
    BY <1>1 DEF Init
  <2>2. Len(result) = 0
    BY EmptySeq DEF Init
  <2>3. fault \in BOOLEAN
    BY DEF Init
  <2>4. /\ pc = "reading" /\ offset = 0 /\ closeCode = 0 /\ taken = 0 /\ bytes = 0
        /\ 0 \in 0 .. MaxFrames /\ 0 <= MaxMessage /\ 0 <= MaxSplit
    BY LimitsAssumption DEF Init
  <2> QED
    BY <2>1, <2>2, <2>3, <2>4 DEF TypeOK
<1>3. Len(out) = 0
  BY EmptySeq DEF Init
<1> QED
  BY <1>2, <1>3, EmptySeq DEF Init, Typed, NothingAfterClose

(* The four ways a frame that was read goes: a return, a message in the making *)
(* or made, a pong, or nothing.                                                *)
LEMMA ReceiveTyped ==
    ASSUME Typed, NothingAfterClose, NEW f \in Frame, Receive(f)
    PROVE  Typed' /\ NothingAfterClose'
<1>1. pc = "reading" /\ ClientSends(f) /\ f.fin \in BOOLEAN
  BY DEF Receive, Unmasked, Invalid, Start, Continue, ClientCloses, Ping, Pong, UnknownOpcode,
         Accepted, Frame
<1>2. ClientGrows
  BY <1>1, SendsGrow
<1>3. bytes \in Nat /\ bytes' \in Nat /\ currentMsg \in Message
      /\ Len(currentMsg.payload) <= MaxMessage
  BY <1>1, <1>2 DEF Typed, TypeOK, ClientGrows
<1>4. currentMsg \in Message'
  BY <1>2, <1>3, MessageGrows DEF ClientGrows
<1>5. CASE \E code \in Codes : Returns(code)
  BY <1>2, <1>5, ReturnsTyped
<1>6. ASSUME NEW m, m \in Message', Len(m.payload) <= MaxMessage, Deliver(m, f.fin)
      PROVE  Typed' /\ NothingAfterClose'
  <2>1. CASE Returns(1011)
    BY <1>5, <2>1 DEF Codes
  <2>2. CASE /\ currentMsg' = m
             /\ UNCHANGED <<offset, result, out, closeCode>>
             /\ pc' \in {"reading", "framing"}
    BY <1>1, <1>2, <1>6, <2>2, ReadTyped
  <2> QED
    BY <1>1, <1>6, <2>1, <2>2, Delivered
<1>7. CASE Unmasked(f) \/ Invalid(f) \/ ClientCloses(f) \/ UnknownOpcode(f)
  <2>1. \E code \in Codes : Close(code)
    BY <1>7 DEF Unmasked, Invalid, ClientCloses, UnknownOpcode, Codes
  <2> QED
    BY <1>1, <1>5, <2>1, CloseReturns
<1>8. CASE Start(f)
  <2>1. bytes' = bytes + f.size
    BY <1>1, <1>8 DEF Start, ClientSends, Data
  <2>2. /\ Begin(f, Numbered(f.size)) \in Message'
        /\ Len(Begin(f, Numbered(f.size)).payload) = f.size
    BY <1>3, <2>1, MessageOps
  <2>3. f.size <= MaxMessage
    <3>1. f.size <= MaxFragment
      BY <1>8 DEF Start, Accepted, validateFrame, Data
    <3>2. f.size \in Nat
      BY LimitsAssumption DEF Frame
    <3> QED
      BY <3>1, <3>2, LimitsAssumption
  <2> QED
    BY <1>5, <1>6, <1>8, <2>2, <2>3, Started DEF Codes
<1>9. CASE Continue(f)
  <2> DEFINE m == Extend(currentMsg, f, Numbered(f.size))
  <2>1. bytes' = bytes + f.size
    BY <1>1, <1>9 DEF Continue, ClientSends, Data
  <2>2. m \in Message'
    BY <1>3, <2>1, MessageOps
  <2>3. Len(m.payload) \in Nat /\ MaxMessage \in Nat
    <3>1. m.payload \in Seq(1 .. bytes')
      BY <2>2 DEF Message
    <3> QED
      BY <3>1, LenProperties, LimitsAssumption
  <2> HIDE DEF m
  <2>4. \/ \E code \in Codes : Returns(code)
        \/ ~(Len(m.payload) > MaxMessage) /\ Deliver(m, f.fin)
    BY <1>9, Continued DEF Codes, m
  <2> QED
    BY <1>5, <1>6, <2>2, <2>3, <2>4
<1>10. CASE Ping(f)
  <2>1. CASE out' = Append(out, "pong") /\ UNCHANGED <<pc, currentMsg, offset, result, closeCode>>
    BY <1>1, <1>2, <1>3, <1>4, <2>1, ReadTyped
  <2>2. CASE pc' = "closed" /\ UNCHANGED <<out, currentMsg, offset, result, closeCode>>
    BY <1>5, <2>2 DEF Returns, Codes
  <2> QED
    BY <1>10, <2>1, <2>2 DEF Ping
<1>11. CASE Pong(f)
  BY <1>1, <1>2, <1>3, <1>4, <1>11, ReadTyped DEF Pong
<1> QED
  BY <1>7, <1>8, <1>9, <1>10, <1>11 DEF Receive

(* Writing a frame of the answer.                                              *)
LEMMA WriteTyped ==
    ASSUME Typed, NothingAfterClose, WriteResponse
    PROVE  Typed' /\ NothingAfterClose'
<1> DEFINE f == Head(result)
<1>1. /\ pc = "writing" /\ UNCHANGED <<offset, closeCode, taken, clientMsg, sent, fault, bytes>>
      /\ out' = Append(out, f.op) /\ result' = Tail(result)
      /\ partial' = IF f.fin THEN <<>> ELSE partial \o f.payload
      /\ echoed' = IF f.fin THEN Append(echoed, partial \o f.payload) ELSE echoed
      /\ pc' = IF Tail(result) # <<>> THEN "writing" ELSE "reading"
      /\ currentMsg' = IF Tail(result) # <<>> THEN currentMsg ELSE NoMsg
  BY DEF WriteResponse
<1>2. result \in Seq(Built) /\ result # <<>> /\ Len(result) \in Nat
  BY <1>1, LenProperties DEF Typed
<1>3. f \in Built /\ result' \in Seq(Built) /\ Len(result') = Len(result) - 1
  BY <1>1, <1>2, HeadTailProperties
<1>4. f.op \in Data /\ f.payload \in Seq(Nat)
  BY <1>3 DEF Built
<1> HIDE DEF f
<1>5. out \in Seq(Opcodes) /\ Len(out) \in Nat /\ f.op \in Opcodes /\ f.op # "close"
  BY <1>4, LenProperties DEF Typed, Opcodes, Data
<1>6. /\ out' \in Seq(Opcodes) /\ Len(out') = Len(out) + 1
      /\ \A i \in 1 .. Len(out) : out'[i] = out[i]
      /\ out'[Len(out) + 1] = f.op
  BY <1>1, <1>5, AppendProperties
<1>7. NothingAfterClose'
  <2>1. \A i \in 1 .. Len(out) : out[i] # "close"
    BY <1>1 DEF NothingAfterClose
  <2>2. \A i \in 1 .. Len(out') : out'[i] # "close"
    BY <1>5, <1>6, <2>1
  <2> QED
    BY <2>2 DEF NothingAfterClose
<1>8. partial \o f.payload \in Seq(Nat) /\ <<>> \in Seq(Nat)
  BY <1>4, ConcatProperties, EmptySeq DEF Typed
<1>9. partial' \in Seq(Nat) /\ echoed' \in Seq(Seq(Nat))
  BY <1>1, <1>8, AppendProperties DEF Typed
<1>10. currentMsg' \in Message' /\ Len(currentMsg'.payload) <= MaxMessage
  <2>1. NoMsg \in Message' /\ Len(NoMsg.payload) = 0
    BY EmptySeq DEF NoMsg, Message
  <2>2. currentMsg \in Message' /\ Len(currentMsg.payload) <= MaxMessage
    BY <1>1 DEF Typed, TypeOK, Message
  <2> QED
    BY <1>1, <2>1, <2>2, LimitsAssumption
<1>11. clientMsg' \in Message'
  BY <1>1 DEF Typed, TypeOK, Message
<1>12. Len(result') <= MaxSplit
  BY <1>2, <1>3, LimitsAssumption DEF Typed, TypeOK
<1>13. TypeOK'
  BY <1>1, <1>10, <1>11, <1>12 DEF Typed, TypeOK
<1> QED
  BY <1>1, <1>3, <1>6, <1>7, <1>9, <1>13 DEF Typed

(* Every step of the connection keeps the types and the close frame last.      *)
LEMMA StepTyped ==
    Typed /\ NothingAfterClose /\ [Next]_vars => Typed' /\ NothingAfterClose'
<1> SUFFICES ASSUME Typed, NothingAfterClose, [Next]_vars PROVE Typed' /\ NothingAfterClose'
  OBVIOUS
<1>1. ASSUME NEW f \in Frame, Receive(f) PROVE Typed' /\ NothingAfterClose'
  BY <1>1, ReceiveTyped
<1>2. CASE ReadError \/ Cancelled \/ WriteError
  <2>1. ClientGrows
    BY <1>2, SilenceGrows DEF ReadError, Cancelled, WriteError, clientVars
  <2>2. Returns(1011)
    BY <1>2 DEF ReadError, Cancelled, WriteError, Close, Returns
  <2> QED
    BY <2>1, <2>2, ReturnsTyped DEF Codes
<1>3. CASE FrameResponse
  <2>1. PICK f \in Built : /\ result' = Append(result, f)
                           /\ pc' = IF f.fin THEN "writing" ELSE "framing"
    BY <1>3, FrameBuilt
  <2>2. /\ pc = "framing" /\ Len(result) < MaxSplit
        /\ UNCHANGED <<currentMsg, offset, out, closeCode, taken, clientVars>>
    BY <1>3 DEF FrameResponse
  <2>3. result \in Seq(Built) /\ Len(result) \in Nat /\ MaxSplit \in Nat
    BY LenProperties, LimitsAssumption DEF Typed
  <2>4. result' \in Seq(Built) /\ result' # <<>> /\ Len(result') = Len(result) + 1
    BY <2>1, <2>3, AppendProperties
  <2>5. Len(result') <= MaxSplit
    BY <2>2, <2>3, <2>4
  <2>6. currentMsg' \in Message' /\ clientMsg' \in Message' /\ Len(currentMsg'.payload) <= MaxMessage
    BY <2>2 DEF Typed, TypeOK, Message, clientVars
  <2>7. TypeOK'
    BY <2>1, <2>2, <2>5, <2>6 DEF Typed, TypeOK, clientVars
  <2> QED
    BY <2>1, <2>2, <2>4, <2>7 DEF Typed, clientVars, NothingAfterClose
<1>4. CASE WriteResponse
  BY <1>4, WriteTyped
<1>5. CASE Closed \/ UNCHANGED vars
  <2>1. UNCHANGED <<pc, currentMsg, offset, result, out, closeCode, taken, clientMsg, sent,
                    echoed, partial, fault, bytes>>
    BY <1>5 DEF Closed, vars, serverVars, clientVars
  <2> QED
    BY <2>1 DEF Typed, TypeOK, Message, NothingAfterClose
<1> QED
  BY <1>1, <1>2, <1>3, <1>4, <1>5 DEF Next

(* Types; no message that serveLoop assembles outgrows MaxMessage, for any     *)
(* limits that WebSocketEcho accepts.                                          *)
THEOREM TypeCorrect == Spec => []TypeOK
  BY InitTyped, StepTyped, PTL DEF Spec, Typed

(* Nothing is written after a close frame and serveLoop does not outlive it.   *)
THEOREM CloseIsLast == Spec => []NothingAfterClose
  BY InitTyped, StepTyped, PTL DEF Spec

-----------------------------------------------------------------------------
(* The conversation.  A handler that answers nil leaves its message open, so   *)
(* what follows is about handlers that do not, as WebSocketEcho's does not.    *)

(* What was echoed is what was sent.                                           *)
Heard == \A i \in 1 .. Len(echoed) : echoed[i] = sent[i].payload /\ sent[i].valid

(* The server and the client agree on the message that is under way, and while *)
(* it is being answered it is the last one sent; an answer that is complete is *)
(* one frame, since frameResponse never comes to the end of a second.          *)
Conversation ==
    /\ partial = <<>>
    /\ Len(echoed) <= Len(sent)
    /\ Heard
    /\ pc = "reading" => /\ currentMsg = clientMsg
                         /\ clientMsg.valid
                         /\ result = <<>>
                         /\ Len(echoed) = Len(sent)
    /\ pc \in {"framing", "writing"} => /\ clientMsg = NoMsg
                                        /\ Len(sent) = Len(echoed) + 1
                                        /\ currentMsg = sent[Len(sent)]
                                        /\ currentMsg.valid
    /\ pc = "framing" => result = <<>> \/ Len(currentMsg.payload) > MaxFragment
    /\ pc = "writing" => /\ Len(result) = 1
                         /\ Head(result).fin
                         /\ Head(result).payload = currentMsg.payload

(* Nothing has been said yet.                                                  *)
LEMMA InitConversation == Init => Conversation /\ LawfulClientNotBlamed
  BY EmptySeq DEF Init, Conversation, Heard, LawfulClientNotBlamed, NoMsg

(* A return leaves what was echoed as it was.                                  *)
LEMMA ReturnsConversation ==
    ASSUME Typed, Conversation, LawfulClientNotBlamed, ClientGrows,
           NEW code, Returns(code), code = 1002 => fault'
    PROVE  Conversation' /\ LawfulClientNotBlamed'
<1>1. /\ Len(echoed) \in Nat /\ Len(sent) \in Nat /\ Len(sent') \in Nat
      /\ UNCHANGED <<echoed, partial>> /\ Len(sent) <= Len(sent')
      /\ \A i \in 1 .. Len(sent) : sent'[i] = sent[i]
  BY LenProperties DEF Typed, ClientGrows
<1>2. Len(echoed) <= Len(sent) /\ Heard /\ partial = <<>>
  BY DEF Conversation
<1>3. pc' = "closed"
  BY DEF Returns
<1>4. Heard'
  BY <1>1, <1>2 DEF Heard
<1>5. Conversation'
  BY <1>1, <1>2, <1>3, <1>4 DEF Conversation
<1>6. LawfulClientNotBlamed'
  BY DEF Returns, LawfulClientNotBlamed, ClientGrows
<1> QED
  BY <1>5, <1>6

(* A frame that does not add to a message.                                     *)
LEMMA AsideConversation ==
    ASSUME Conversation, LawfulClientNotBlamed, ClientGrows,
           UNCHANGED <<pc, currentMsg, result, closeCode, clientMsg, sent>>
    PROVE  Conversation' /\ LawfulClientNotBlamed'
  BY DEF ClientGrows, Conversation, Heard, LawfulClientNotBlamed

(* A frame whose message m is the same to the server and to the client.        *)
LEMMA MessageConversation ==
    ASSUME Typed, Conversation, LawfulClientNotBlamed, ClientGrows, "nil" \notin Answers,
           pc = "reading", NEW fin \in BOOLEAN, NEW m \in Whole, m.valid, Deliver(m, fin),
           clientMsg' = IF fin THEN NoMsg ELSE m,
           sent' = IF fin THEN Append(sent, m) ELSE sent
    PROVE  Conversation' /\ LawfulClientNotBlamed'
<1>1. /\ Len(echoed) \in Nat /\ Len(sent) \in Nat /\ sent \in Seq(Whole)
      /\ UNCHANGED <<echoed, partial>>
  BY LenProperties DEF Typed, ClientGrows
<1>2. /\ Len(echoed) = Len(sent) /\ result = <<>> /\ Heard /\ partial = <<>>
  BY DEF Conversation
<1>3. CASE Returns(1011)
  BY <1>3, ReturnsConversation
<1>4. CASE currentMsg' = m /\ UNCHANGED <<result, closeCode>> /\ ~fin /\ pc' = "reading"
  <2>1. clientMsg' = m /\ sent' = sent
    BY <1>4
  <2>2. Heard'
    BY <1>1, <1>2, <2>1 DEF Heard
  <2>3. Conversation'
    BY <1>1, <1>2, <1>4, <2>1, <2>2 DEF Conversation
  <2> QED
    BY <1>4, <2>3 DEF LawfulClientNotBlamed, ClientGrows
<1>5. CASE currentMsg' = m /\ UNCHANGED <<result, closeCode>> /\ fin /\ pc' = "framing"
  <2>1. clientMsg' = NoMsg /\ sent' = Append(sent, m)
    BY <1>5
  <2>2. /\ Len(sent') = Len(sent) + 1 /\ sent'[Len(sent) + 1] = m
        /\ \A i \in 1 .. Len(sent) : sent'[i] = sent[i]
    BY <1>1, <2>1, AppendProperties
  <2>3. Heard'
    BY <1>1, <1>2, <2>2 DEF Heard
  <2>4. Conversation'
    BY <1>1, <1>2, <1>5, <2>1, <2>2, <2>3 DEF Conversation
  <2> QED
    BY <1>5, <2>4 DEF LawfulClientNotBlamed, ClientGrows
<1> QED
  BY <1>3, <1>4, <1>5, Delivered

(* What serveLoop does with a frame and what the client thinks of it agree.    *)
LEMMA ReceiveConversation ==
    ASSUME Typed, Conversation, LawfulClientNotBlamed, "nil" \notin Answers,
           NEW f \in Frame, Receive(f)
    PROVE  Conversation' /\ LawfulClientNotBlamed'
<1>1. pc = "reading" /\ ClientSends(f) /\ f.fin \in BOOLEAN /\ f.valid \in BOOLEAN
  BY DEF Receive, Unmasked, Invalid, Start, Continue, ClientCloses, Ping, Pong, UnknownOpcode,
         Accepted, Frame
<1>2. ClientGrows /\ fault' = (fault \/ Wrong(f))
  BY <1>1, SendsGrow, SendsFault
<1>3. Wrong(f) => fault'
  BY <1>2
<1>4. currentMsg = clientMsg /\ clientMsg.valid
  BY <1>1 DEF Conversation
<1>5. bytes \in Nat /\ bytes' \in Nat /\ currentMsg \in Message
  BY <1>2 DEF Typed, TypeOK, ClientGrows
<1>6. ASSUME NEW code, Returns(code), code = 1002 => Wrong(f)
      PROVE  Conversation' /\ LawfulClientNotBlamed'
  BY <1>2, <1>3, <1>6, ReturnsConversation
<1>7. CASE Unmasked(f)
  BY <1>1, <1>6, <1>7, CloseReturns DEF Unmasked
<1>8. CASE Invalid(f)
  <2>1. Wrong(f)
    <3>1. f.size \in Nat /\ ControlMax \in Nat /\ MaxFragment \in Nat
      BY LimitsAssumption DEF Frame
    <3> QED
      BY <1>8, <3>1 DEF Invalid, validateFrame, Wrong
  <2> QED
    BY <1>1, <1>6, <1>8, <2>1, CloseReturns DEF Invalid
<1>9. CASE ClientCloses(f)
  BY <1>1, <1>6, <1>9, CloseReturns DEF ClientCloses
<1>10. CASE UnknownOpcode(f)
  <2>1. Wrong(f)
    BY <1>10 DEF UnknownOpcode, Wrong
  <2> QED
    BY <1>1, <1>6, <1>10, <2>1, CloseReturns DEF UnknownOpcode
<1>11. CASE Ping(f)
  <2>1. UNCHANGED <<clientMsg, sent>>
    BY <1>1, <1>11 DEF Ping, ClientSends, Data
  <2>2. CASE UNCHANGED pc
    BY <1>2, <1>11, <2>1, <2>2, AsideConversation DEF Ping
  <2>3. CASE pc' = "closed" /\ UNCHANGED out
    BY <1>6, <1>11, <2>3 DEF Ping, Returns
  <2> QED
    BY <1>11, <2>2, <2>3 DEF Ping
<1>12. CASE Pong(f)
  <2>1. UNCHANGED <<clientMsg, sent>>
    BY <1>1, <1>12 DEF Pong, ClientSends, Data
  <2> QED
    BY <1>2, <1>12, <2>1, AsideConversation DEF Pong
<1>13. CASE Start(f)
  <2> DEFINE m == Begin(f, Numbered(f.size))
  <2>1. f.op \in {"text", "binary"}
    BY <1>13 DEF Start
  <2>2. /\ bytes' = bytes + f.size
        /\ clientMsg' = IF f.fin THEN NoMsg ELSE m
        /\ sent' = IF f.fin THEN Append(sent, m) ELSE sent
    BY <1>1, <2>1 DEF ClientSends, Data
  <2>3. m \in Whole
    <3>1. m \in Message'
      BY <1>5, <2>2, MessageOps
    <3> QED
      BY <1>5, <3>1, MessageIsWhole
  <2>4. f.op = "binary" \/ f.valid => m.valid
    BY <1>1 DEF Begin
  <2>5. clientMsg.open => Wrong(f)
    BY <2>1 DEF Wrong
  <2> HIDE DEF m
  <2>6. \/ clientMsg.open /\ Returns(1002)
        \/ Returns(1007)
        \/ (f.op = "binary" \/ f.valid) /\ Deliver(m, f.fin)
    BY <1>4, <1>13, Started DEF m
  <2> QED
    BY <1>1, <1>2, <1>6, <2>2, <2>3, <2>4, <2>5, <2>6, MessageConversation
<1>14. CASE Continue(f)
  <2> DEFINE m == Extend(currentMsg, f, Numbered(f.size))
  <2>1. f.op = "continuation"
    BY <1>14 DEF Continue
  <2>2. /\ bytes' = bytes + f.size
        /\ clientMsg' = IF f.fin THEN NoMsg ELSE m
        /\ sent' = IF f.fin THEN Append(sent, m) ELSE sent
    BY <1>1, <1>4, <2>1 DEF ClientSends, Data
  <2>3. m \in Whole
    <3>1. m \in Message'
      BY <1>5, <2>2, MessageOps
    <3> QED
      BY <1>5, <3>1, MessageIsWhole
  <2>4. currentMsg.binary \/ f.valid => m.valid
    BY <1>4 DEF Extend
  <2>5. ~clientMsg.open => Wrong(f)
    BY <2>1 DEF Wrong
  <2> HIDE DEF m
  <2>6. \/ ~clientMsg.open /\ Returns(1002)
        \/ Returns(1007) \/ Returns(1009)
        \/ (currentMsg.binary \/ f.valid) /\ Deliver(m, f.fin)
    BY <1>4, <1>14, Continued DEF m
  <2> QED
    BY <1>1, <1>2, <1>6, <2>2, <2>3, <2>4, <2>5, <2>6, MessageConversation
<1> QED
  BY <1>7, <1>8, <1>9, <1>10, <1>11, <1>12, <1>13, <1>14 DEF Receive

(* A frame of the answer is built; if it is the last, it is the only one.      *)
LEMMA FrameConversation ==
    ASSUME Typed, Conversation, LawfulClientNotBlamed, FrameResponse
    PROVE  Conversation' /\ LawfulClientNotBlamed'
<1>1. PICK f \in Built : /\ result' = Append(result, f)
                         /\ f.fin <=> Len(currentMsg.payload) <= MaxFragment
                         /\ f.fin => f.payload = currentMsg.payload
                         /\ pc' = IF f.fin THEN "writing" ELSE "framing"
  BY FrameBuilt
<1>2. pc = "framing" /\ UNCHANGED <<currentMsg, closeCode, clientMsg, sent, echoed, partial, fault>>
  BY DEF FrameResponse, clientVars
<1>3. LawfulClientNotBlamed' /\ Heard'
  BY <1>2 DEF LawfulClientNotBlamed, Conversation, Heard
<1>4. Len(currentMsg.payload) \in Nat /\ MaxFragment \in Nat
  <2>1. currentMsg.payload \in Seq(1 .. bytes)
    BY DEF Typed, TypeOK, Message
  <2> QED
    BY <2>1, LenProperties, LimitsAssumption
<1>5. CASE f.fin
  <2>1. result = <<>>
    BY <1>1, <1>2, <1>4, <1>5 DEF Conversation
  <2>2. result' = Append(<<>>, f) /\ <<>> \in Seq(Built) /\ Len(<<>>) = 0
    BY <1>1, <2>1, EmptySeq
  <2>3. result' \in Seq(Built) /\ Len(result') = 1 /\ result'[1] = f
    BY <2>2, AppendProperties
  <2>4. Head(result') = f
    BY <2>3, HeadTailProperties
  <2> QED
    BY <1>1, <1>2, <1>3, <1>5, <2>3, <2>4 DEF Conversation
<1>6. CASE ~f.fin
  <2>1. Len(currentMsg.payload) > MaxFragment
    BY <1>1, <1>4, <1>6
  <2> QED
    BY <1>1, <1>2, <1>3, <1>6, <2>1 DEF Conversation
<1> QED
  BY <1>5, <1>6

(* The answer's one frame is written and the message is over.                  *)
LEMMA WriteConversation ==
    ASSUME Typed, Conversation, LawfulClientNotBlamed, WriteResponse
    PROVE  Conversation' /\ LawfulClientNotBlamed'
<1> DEFINE f == Head(result)
<1>1. /\ pc = "writing" /\ UNCHANGED <<closeCode, clientMsg, sent, fault>>
      /\ result' = Tail(result)
      /\ partial' = IF f.fin THEN <<>> ELSE partial \o f.payload
      /\ echoed' = IF f.fin THEN Append(echoed, partial \o f.payload) ELSE echoed
      /\ pc' = IF Tail(result) # <<>> THEN "writing" ELSE "reading"
      /\ currentMsg' = IF Tail(result) # <<>> THEN currentMsg ELSE NoMsg
  BY DEF WriteResponse
<1>2. /\ Len(result) = 1 /\ f.fin /\ f.payload = currentMsg.payload /\ partial = <<>>
      /\ clientMsg = NoMsg /\ Len(sent) = Len(echoed) + 1 /\ Heard
      /\ currentMsg = sent[Len(sent)] /\ currentMsg.valid
  BY <1>1 DEF Conversation
<1>3. result \in Seq(Built) /\ result # <<>> /\ echoed \in Seq(Seq(Nat)) /\ Len(echoed) \in Nat
  BY <1>1, LenProperties DEF Typed
<1>4. f \in Built /\ Tail(result) \in Seq(Built) /\ Len(Tail(result)) = 0
  BY <1>2, <1>3, HeadTailProperties
<1>5. Tail(result) = <<>>
  BY <1>4, EmptySeq
<1>6. f.payload \in Seq(Nat)
  BY <1>4 DEF Built
<1> HIDE DEF f
<1>7. echoed' = Append(echoed, f.payload)
  <2>1. <<>> \o f.payload = f.payload
    BY <1>6, ConcatEmptySeq
  <2> QED
    BY <1>1, <1>2, <2>1
<1>8. /\ Len(echoed') = Len(echoed) + 1 /\ echoed'[Len(echoed) + 1] = currentMsg.payload
      /\ \A i \in 1 .. Len(echoed) : echoed'[i] = echoed[i]
  BY <1>2, <1>3, <1>6, <1>7, AppendProperties
<1>9. Heard'
  <2> SUFFICES ASSUME NEW i \in 1 .. Len(echoed')
               PROVE  echoed'[i] = sent[i].payload /\ sent[i].valid
    BY <1>1 DEF Heard
  <2>1. CASE i = Len(echoed) + 1
    BY <1>2, <1>8, <2>1
  <2>2. CASE i # Len(echoed) + 1
    <3>1. i \in 1 .. Len(echoed)
      BY <1>3, <1>8, <2>2
    <3> QED
      BY <1>2, <1>8, <3>1 DEF Heard
  <2> QED
    BY <2>1, <2>2
<1>10. clientMsg.valid
  BY <1>2 DEF NoMsg
<1>11. Conversation'
  BY <1>1, <1>2, <1>3, <1>5, <1>8, <1>9, <1>10 DEF Conversation
<1> QED
  BY <1>1, <1>11 DEF LawfulClientNotBlamed

(* Every step keeps the two sides in agreement.                                *)
LEMMA StepConversation ==
    "nil" \notin Answers =>
        (Typed /\ Conversation /\ LawfulClientNotBlamed /\ [Next]_vars
            => Conversation' /\ LawfulClientNotBlamed')
<1> SUFFICES ASSUME "nil" \notin Answers, Typed, Conversation, LawfulClientNotBlamed, [Next]_vars
             PROVE  Conversation' /\ LawfulClientNotBlamed'
  OBVIOUS
<1>1. ASSUME NEW f \in Frame, Receive(f) PROVE Conversation' /\ LawfulClientNotBlamed'
  BY <1>1, ReceiveConversation
<1>2. CASE ReadError \/ Cancelled \/ WriteError
  <2>1. ClientGrows
    BY <1>2, SilenceGrows DEF ReadError, Cancelled, WriteError, clientVars
  <2>2. Returns(1011)
    BY <1>2 DEF ReadError, Cancelled, WriteError, Close, Returns
  <2> QED
    BY <2>1, <2>2, ReturnsConversation
<1>3. CASE FrameResponse
  BY <1>3, FrameConversation
<1>4. CASE WriteResponse
  BY <1>4, WriteConversation
<1>5. CASE Closed \/ UNCHANGED vars
  <2>1. UNCHANGED <<pc, currentMsg, result, closeCode, clientMsg, sent, echoed, partial, fault>>
    BY <1>5 DEF Closed, vars, serverVars, clientVars
  <2> QED
    BY <2>1 DEF Conversation, Heard, LawfulClientNotBlamed
<1> QED
  BY <1>1, <1>2, <1>3, <1>4, <1>5 DEF Next

(* With a handler that answers every message or fails, serveLoop closes with   *)
(* 1002 only on a client that has broken the protocol or its limits.           *)
THEOREM BlamesTheGuilty == "nil" \notin Answers => (Spec => []LawfulClientNotBlamed)
<1> SUFFICES ASSUME "nil" \notin Answers PROVE Spec => []LawfulClientNotBlamed
  OBVIOUS
<1>1. Typed /\ Conversation /\ LawfulClientNotBlamed /\ [Next]_vars
        => Conversation' /\ LawfulClientNotBlamed'
  BY StepConversation
<1> QED
  BY <1>1, InitTyped, StepTyped, InitConversation, PTL DEF Spec

(* With such a handler the client gets its messages back whole, unaltered, in  *)
(* order and none twice, and serveLoop owes it none when it reads again.       *)
THEOREM EchoesFaithfully == "nil" \notin Answers => (Spec => []EchoesInOrder)
<1> SUFFICES ASSUME "nil" \notin Answers PROVE Spec => []EchoesInOrder
  OBVIOUS
<1>1. Typed /\ Conversation /\ LawfulClientNotBlamed /\ [Next]_vars
        => Conversation' /\ LawfulClientNotBlamed'
  BY StepConversation
<1>2. Conversation => EchoesInOrder
  BY DEF Conversation, Heard, EchoesInOrder
<1> QED
  BY <1>1, <1>2, InitTyped, StepTyped, InitConversation, PTL DEF Spec
=============================================================================
