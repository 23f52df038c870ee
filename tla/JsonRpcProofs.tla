--------------------------- MODULE JsonRpcProofs ---------------------------
(* Proofs about JsonRpc, for any messages the client may send and any number  *)
(* of them.                                                                   *)
EXTENDS JsonRpc, SequenceTheorems, TLAPS

-----------------------------------------------------------------------------
(* Units. *)

\* The units of the first messages are units of more messages too.
LEMMA UnitsGrow == ASSUME NEW n \in Nat PROVE UnitsUpTo(n) \subseteq UnitsUpTo(n + 1)
  BY DEF UnitsUpTo

\* A frame is a length, a blank line and the pieces of the body in their order.
LEMMA FrameUnits ==
    ASSUME NEW n \in Nat \ {0}, NEW m \in Messages
    PROVE  /\ Frame(n, m) \in Seq(UnitsUpTo(n)) /\ Len(Frame(n, m)) = 2 + m.size
           /\ Frame(n, m)[1] = Length(n, m) /\ Frame(n, m)[2] = Blank(n)
           /\ \A i \in 1 .. m.size : Frame(n, m)[2 + i] = Piece(n, i, m.size)
<1>1. m.size \in Nat
  BY MessagesAssumption
<1>2. /\ Length(n, m) \in UnitsUpTo(n) /\ Blank(n) \in UnitsUpTo(n)
      /\ \A i \in 1 .. m.size : Piece(n, i, m.size) \in UnitsUpTo(n)
  BY <1>1 DEF Length, Blank, Piece, UnitsUpTo
<1>3. /\ Body(n, m.size) \in Seq(UnitsUpTo(n)) /\ Len(Body(n, m.size)) = m.size
      /\ \A i \in 1 .. m.size : Body(n, m.size)[i] = Piece(n, i, m.size)
  BY <1>1, <1>2 DEF Body
<1> DEFINE header == <<Length(n, m), Blank(n)>>
<1>4. header \in Seq(UnitsUpTo(n)) /\ Len(header) = 2 /\ header[1] = Length(n, m) /\ header[2] = Blank(n)
  BY <1>2
<1> HIDE DEF header
<1>5. QED
  BY <1>1, <1>3, <1>4, ConcatProperties DEF Frame, header

-----------------------------------------------------------------------------
(* Types. *)

\* Whatever is in the buffer when a message is looked for, MessageIn returns a
\* message that was sent, or 0.
LEMMA MessageInIsSent ==
    ASSUME TypeOK, MessageIn(content) # 0
    PROVE  MessageIn(content) \in 1 .. Len(stream) /\ stream[MessageIn(content)] \in Messages
<1>1. content \in Seq(UnitsUpTo(Len(stream))) /\ Len(content) = Len(buffer) + 1
  BY AppendProperties DEF TypeOK, content
<1>2. content[1] \in UnitsUpTo(Len(stream))
  BY <1>1 DEF TypeOK
<1>3. QED
  BY <1>2 DEF MessageIn, UnitsUpTo, TypeOK

\* What is written has the type of what is written.
LEMMA OutputGrows ==
    ASSUME TypeOK, NEW o \in Written(Len(stream))
    PROVE  Append(output, o) \in Seq(Written(Len(stream)))
  BY AppendProperties DEF TypeOK

\* Errors may be written whatever was sent, and so may what is queued.
LEMMA WrittenTypes ==
    ASSUME NEW n \in Nat
    PROVE  /\ \A code \in Codes : Error(code) \in Written(n)
           /\ Queueable(n) \subseteq Written(n)
           /\ Own \in Queueable(n) /\ \A i \in 1 .. n : Response(i) \in Queueable(n)
  BY DEF Written, Queueable

\* A handler queues at most one message, and reports at most one error.
LEMMA HandlerQueues ==
    ASSUME TypeOK, NEW n \in 1 .. Len(stream), NEW m \in Messages, FireCallback(n, m)
    PROVE  /\ \/ outQueue' = Append(outQueue, Response(n)) /\ m.kind # "exit"
                 /\ dispatched' = Append(dispatched, [message |-> n, to |-> "response"])
              \/ outQueue' \in {outQueue, Append(outQueue, Own)} /\ m.kind # "shutdown"
                 /\ dispatched' = Append(dispatched, [message |-> n, to |-> "callback"])
           /\ \/ output' = output
              \/ m.kind = "registered" /\ output' = Append(output, Error("InternalError"))
           /\ m.kind = "exit" => outQueue' = outQueue
<1>1. PICK queued \in MayQueue(n, m), reported \in MayReport(m) :
        /\ outQueue' = outQueue \o queued
        /\ output' = output \o reported
        /\ dispatched' = Append(dispatched,
             [message |-> n, to |-> IF queued = <<Response(n)>> THEN "response" ELSE "callback"])
  BY DEF FireCallback
<1>2. \A S : \A s \in Seq(S), e \in S : s \o <<>> = s /\ s \o <<e>> = Append(s, e)
  OBVIOUS
<1>3. /\ outQueue \in Seq(Queueable(Len(stream))) /\ output \in Seq(Written(Len(stream)))
      /\ Own \in Queueable(Len(stream)) /\ Response(n) \in Queueable(Len(stream))
      /\ Error("InternalError") \in Written(Len(stream))
  BY WrittenTypes DEF TypeOK, Codes
<1>4. reported = <<>> \/ (m.kind = "registered" /\ reported = <<Error("InternalError")>>)
  BY DEF MayReport
<1>5. output' = output \/ (m.kind = "registered" /\ output' = Append(output, Error("InternalError")))
  BY <1>1, <1>2, <1>3, <1>4
<1>6. /\ queued \in {<<>>, <<Own>>, <<Response(n)>>}
      /\ m.kind = "shutdown" => queued = <<Response(n)>>
      /\ m.kind = "exit" => queued = <<>>
  BY MessagesAssumption DEF MayQueue
<1>7. <<Own>> # <<Response(n)>> /\ <<>> # <<Response(n)>>
  <2>1. <<Own>>[1].type # <<Response(n)>>[1].type
    BY DEF Own, Response
  <2>2. QED
    BY <2>1
<1>8. CASE queued = <<Response(n)>>
  BY <1>1, <1>2, <1>3, <1>5, <1>6, <1>7, <1>8
<1>9. CASE queued # <<Response(n)>>
  BY <1>1, <1>2, <1>3, <1>5, <1>6, <1>9
<1>10. QED
  BY <1>8, <1>9

\* What is dispatched has the type of what is taken up.
LEMMA DispatchIsTakenUp ==
    ASSUME TypeOK, NEW n \in 1 .. Len(stream),
           NEW to \in {"response", "callback", "respond", "nobody", "MethodNotFound", "NotInitialized"}
    PROVE  Append(dispatched, [message |-> n, to |-> to]) \in Seq(TakenUp(Len(stream)))
<1>1. [message |-> n, to |-> to] \in TakenUp(Len(stream))
  BY DEF TakenUp
<1>2. QED
  BY <1>1, AppendProperties DEF TypeOK

\* What each action adds to the sequences has their type.
THEOREM TypeCorrect == Spec => []TypeOK
<1>1. Init => TypeOK
  <2> SUFFICES ASSUME Init PROVE TypeOK
    OBVIOUS
  <2>1. char \in UnitsUpTo(0) /\ Len(stream) = 0
    BY DEF Init, Nothing, Blank, UnitsUpTo
  <2>2. /\ buffer \in Seq(UnitsUpTo(Len(stream))) /\ input \in Seq(UnitsUpTo(Len(stream)))
        /\ outQueue \in Seq(Queueable(Len(stream))) /\ stream \in Seq(Messages)
        /\ output \in Seq(Written(Len(stream))) /\ dispatched \in Seq(TakenUp(Len(stream)))
    BY EmptySeq DEF Init
  <2>3. Len(stream) <= MaxMessages
    BY <2>1, BoundAssumption
  <2>4. /\ contentLength \in Nat /\ char \in UnitsUpTo(Len(stream))
        /\ unwritten \in SUBSET (1 .. Len(stream))
    BY <2>1 DEF Init
  <2>5. QED
    BY <2>2, <2>3, <2>4, Zenon DEF Init, TypeOK
<1>2. TypeOK /\ [Next]_vars => TypeOK'
  <2> SUFFICES ASSUME TypeOK, [Next]_vars PROVE TypeOK'
    OBVIOUS
  <2> DEFINE Sent == UnitsUpTo(Len(stream))
  <2>0. content \in Seq(Sent) /\ Len(content) = Len(buffer) + 1
    BY AppendProperties DEF TypeOK, content
  <2>00. Len(stream) \in Nat /\ \A code \in Codes : Error(code) \in Written(Len(stream))
    BY WrittenTypes DEF TypeOK
  <2>1. CASE UNCHANGED vars
    BY <2>1 DEF vars, parser, TypeOK
  <2>2. CASE Read
    BY <2>2, HeadTailProperties DEF Read, parser, TypeOK
  <2>3. CASE EndOfInput
    BY <2>3 DEF EndOfInput, parser, TypeOK
  <2>4. CASE Consume
    <3> USE DEF Consume
    <3>1. CASE ProcessBufferHeader
      <4> USE DEF ProcessBufferHeader
      <4>1. CASE ReadLength
        <5>1. char.value \in Nat
          BY <4>1 DEF ReadLength, TypeOK, UnitsUpTo
        <5>2. QED
          BY <2>4, <3>1, <4>1, <5>1, EmptySeq DEF ReadLength, TypeOK
      <4>2. CASE ReadLengthThrows
        BY <2>4, <3>1, <4>2 DEF ReadLengthThrows, TypeOK
      <4>3. CASE EndHeader
        <5>1. output' \in Seq(Written(Len(stream)))
          BY <2>00, <4>3, OutputGrows DEF EndHeader, WriteError, TypeOK, Codes
        <5>2. QED
          BY <2>4, <3>1, <4>3, <5>1 DEF EndHeader, TypeOK
      <4>4. CASE BufferHeader
        BY <2>4, <3>1, <4>4, <2>0 DEF BufferHeader, TypeOK, content
      <4>5. QED
        BY <3>1, <4>1, <4>2, <4>3, <4>4
    <3>2. CASE ProcessBufferContent
      <4> USE DEF ProcessBufferContent
      <4>1. CASE BufferContent
        BY <2>4, <3>2, <4>1, <2>0 DEF BufferContent, TypeOK
      <4>2. CASE ParseFails
        <5>1. output' \in Seq(Written(Len(stream)))
          BY <2>00, <4>2, OutputGrows DEF ParseFails, WriteError, Codes
        <5>2. QED
          BY <2>4, <3>2, <4>2, <5>1, EmptySeq DEF ParseFails, TypeOK
      <4>3. CASE Dispatch
        <5> DEFINE n == MessageIn(content)
                   m == stream[n]
        <5>1. n \in 1 .. Len(stream) /\ m \in Messages
          BY <4>3, MessageInIsSent DEF Dispatch
        <5> HIDE DEF n
        <5>2. /\ initialized' \in BOOLEAN /\ shutdown' \in BOOLEAN
              /\ outQueue' \in Seq(Queueable(Len(stream))) /\ output' \in Seq(Written(Len(stream)))
              /\ dispatched' \in Seq(TakenUp(Len(stream)))
              /\ result' \in {"none", "EXIT_SUCCESS", "EXIT_FAILURE", result}
          <6>1. CASE FireCallback(n, m)
            <7>1. /\ outQueue' \in {outQueue, Append(outQueue, Own), Append(outQueue, Response(n))}
                  /\ output' \in {output, Append(output, Error("InternalError"))}
                  /\ \E to \in {"response", "callback"} :
                       dispatched' = Append(dispatched, [message |-> n, to |-> to])
              BY <5>1, <6>1, HandlerQueues
            <7>2. outQueue' \in Seq(Queueable(Len(stream)))
              <8>1. /\ outQueue \in Seq(Queueable(Len(stream)))
                    /\ Own \in Queueable(Len(stream)) /\ Response(n) \in Queueable(Len(stream))
                BY <2>00, <5>1, WrittenTypes DEF TypeOK
              <8>2. \A e \in Queueable(Len(stream)) : Append(outQueue, e) \in Seq(Queueable(Len(stream)))
                BY <8>1, AppendProperties
              <8>3. QED
                BY <7>1, <8>1, <8>2
            <7>3. output' \in Seq(Written(Len(stream)))
              BY <2>00, <7>1, OutputGrows DEF TypeOK, Codes
            <7>4. dispatched' \in Seq(TakenUp(Len(stream)))
              BY <5>1, <7>1, DispatchIsTakenUp
            <7>5. QED
              BY <6>1, <7>2, <7>3, <7>4 DEF FireCallback, TypeOK
          <6>2. CASE RejectMethod(n, m)
            <7>1. output' \in Seq(Written(Len(stream))) /\ dispatched' \in Seq(TakenUp(Len(stream)))
              BY <2>00, <5>1, <6>2, OutputGrows, DispatchIsTakenUp DEF RejectMethod, WriteError, TypeOK, Codes
            <7>2. QED
              BY <6>2, <7>1 DEF RejectMethod, TypeOK
          <6>3. CASE RejectEarly(n, m)
            <7>1. output' \in Seq(Written(Len(stream))) /\ dispatched' \in Seq(TakenUp(Len(stream)))
              BY <2>00, <5>1, <6>3, OutputGrows, DispatchIsTakenUp DEF RejectEarly, WriteError, TypeOK, Codes
            <7>2. QED
              BY <6>3, <7>1 DEF RejectEarly, TypeOK
          <6>4. CASE FireRespondCallback(n, m)
            BY <5>1, <6>4, AppendProperties, DispatchIsTakenUp DEF FireRespondCallback, TypeOK
          <6>5. QED
            BY <4>3, <6>1, <6>2, <6>3, <6>4 DEF Dispatch, n
        <5>3. QED
          BY <2>4, <3>2, <4>3, <5>2, <2>0 DEF Dispatch, TypeOK
      <4>4. QED
        BY <3>2, <4>1, <4>2, <4>3
    <3>3. QED
      BY <2>4, <3>1, <3>2
  <2>5. CASE Reset
    BY <2>5, EmptySeq DEF Reset, TypeOK
  <2>6. CASE Drain
    <3>1. CASE UNCHANGED <<outQueue, output, unwritten>>
      BY <2>6, <3>1 DEF Drain, WriteNext, parser, TypeOK
    <3>2. CASE WriteNext
      <4>1. /\ Tail(outQueue) \in Seq(Queueable(Len(stream))) /\ outQueue' = Tail(outQueue)
            /\ Head(outQueue) \in Queueable(Len(stream))
        BY <3>2, HeadTailProperties DEF WriteNext, TypeOK
      <4>2. output' \in Seq(Written(Len(stream))) /\ unwritten' \in SUBSET (1 .. Len(stream))
        <5>1. Head(outQueue) \in Written(Len(stream))
          BY <2>00, <4>1, WrittenTypes
        <5>2. Head(outQueue).type = "response" => Head(outQueue).id \in 1 .. Len(stream)
          BY <4>1 DEF Queueable, Response, Own
        <5>3. QED
          BY <3>2, <5>1, <5>2, OutputGrows DEF WriteNext, Write, WriteFails, TypeOK
      <4>3. QED
        BY <2>6, <3>2, <4>1, <4>2 DEF Drain, WriteNext, parser, TypeOK
    <3>3. QED
      BY <2>6, <3>1, <3>2 DEF Drain
  <2>7. ASSUME NEW m \in Messages, Send(m) PROVE TypeOK'
    <3>1. stream' \in Seq(Messages) /\ Len(stream') = Len(stream) + 1 /\ Len(stream) \in Nat
      BY <2>7, AppendProperties DEF Send, TypeOK
    <3>2. Sent \subseteq UnitsUpTo(Len(stream'))
      BY <3>1, UnitsGrow
    <3>3. Frame(Len(stream'), m) \in Seq(UnitsUpTo(Len(stream')))
      BY <3>1, FrameUnits
    <3>4. input \in Seq(UnitsUpTo(Len(stream'))) /\ buffer \in Seq(UnitsUpTo(Len(stream')))
      BY <3>2, SeqMonotonic DEF TypeOK
    <3>5. input' \in Seq(UnitsUpTo(Len(stream')))
      BY <2>7, <3>3, <3>4, ConcatProperties DEF Send
    <3>6. /\ outQueue \in Seq(Queueable(Len(stream'))) /\ unwritten \in SUBSET (1 .. Len(stream'))
          /\ output \in Seq(Written(Len(stream')))
          /\ dispatched \in Seq(TakenUp(Len(stream')))
      <4>1. 1 .. Len(stream) \subseteq 1 .. Len(stream')
        BY <3>1
      <4>2. /\ Written(Len(stream)) \subseteq Written(Len(stream'))
            /\ Queueable(Len(stream)) \subseteq Queueable(Len(stream'))
            /\ TakenUp(Len(stream)) \subseteq TakenUp(Len(stream'))
        BY <4>1 DEF Written, Queueable, TakenUp
      <4>3. QED
        BY <4>1, <4>2, SeqMonotonic DEF TypeOK
    <3>7. QED
      <4>1. Len(stream') <= MaxMessages
        BY <2>7, <3>1, BoundAssumption DEF Send, TypeOK
      <4>2. char \in UnitsUpTo(Len(stream'))
        BY <3>2 DEF TypeOK
      <4>3. QED
        BY <2>7, <3>1, <3>4, <3>5, <3>6, <4>1, <4>2 DEF Send, parser, TypeOK
  <2>8. CASE Close
    BY <2>8 DEF Close, parser, TypeOK
  <2>9. CASE Interrupt
    BY <2>9 DEF Interrupt, parser, TypeOK
  <2>10. QED
    BY <2>1, <2>2, <2>3, <2>4, <2>5, <2>6, <2>7, <2>8, <2>9 DEF Next, Server
<1>3. QED
  BY <1>1, <1>2, PTL DEF Spec

-----------------------------------------------------------------------------
(* The end of a body. *)

\* The buffer is shorter than the body it is to hold, not only while the loop
\* waits for a character; and the header of a message is forgotten with it.
BodyIncomplete ==
    /\ validHeader /\ pc \in {"read", "consume"} => Len(buffer) < contentLength
    /\ pc = "drain" /\ isProcessing => ~validHeader

\* The buffer never outgrows the length in the header: whatever was sent, also
\* behind a body that is not JSON, the server never waits for an end that the
\* comparison of lengths can no longer find.
THEOREM BodiesEnd == Spec => []BodyCanEnd
<1>1. Init => BodyIncomplete
  BY DEF Init, BodyIncomplete
<1>2. TypeOK /\ BodyIncomplete /\ [Next]_vars => BodyIncomplete'
  <2> SUFFICES ASSUME TypeOK, BodyIncomplete, [Next]_vars PROVE BodyIncomplete'
    OBVIOUS
  <2> USE DEF BodyIncomplete
  <2>0. Len(buffer) \in Nat /\ contentLength \in Nat /\ Len(content) = Len(buffer) + 1
    BY AppendProperties DEF TypeOK, content
  <2>1. CASE Consume /\ ProcessBufferHeader
    <3>1. CASE EndHeader
      <4>1. contentLength' = contentLength /\ Len(buffer') = 0
        BY <3>1, EmptySeq DEF EndHeader
      <4>2. validHeader' => contentLength > 0
        BY <3>1 DEF EndHeader
      <4>3. QED
        BY <2>0, <2>1, <3>1, <4>1, <4>2 DEF EndHeader
    <3>2. CASE validHeader' = validHeader /\ pc' \in {"read", "stopped"}
      BY <2>1, <3>2 DEF ProcessBufferHeader
    <3>3. QED
      BY <2>1, <3>1, <3>2 DEF ProcessBufferHeader, ReadLength, ReadLengthThrows, BufferHeader
  <2>2. CASE Consume /\ ProcessBufferContent
    BY <2>0, <2>2 DEF Consume, ProcessBufferContent, BufferContent, ParseFails, Dispatch
  <2>3. CASE Reset \/ Drain \/ Read \/ EndOfInput
    BY <2>3 DEF Reset, Drain, Read, EndOfInput, parser
  <2>4. CASE UNCHANGED <<parser, pc>>
    BY <2>4 DEF parser
  <2>5. QED
    BY <2>1, <2>2, <2>3, <2>4 DEF Next, Server, Consume, Send, Close, Interrupt, vars
<1>3. BodyIncomplete => BodyCanEnd
  BY DEF BodyIncomplete, BodyCanEnd
<1>4. QED
  BY <1>1, <1>2, <1>3, TypeCorrect, PTL DEF Spec

-----------------------------------------------------------------------------
(* What was taken up. *)

\* A message goes to its handler, which queues a response or does not, or is
\* refused or passed over; what is queued and written by that, and where it went.
Served(n, m, to) ==
    /\ m.kind \in Registered /\ Gate(m) /\ initialized'
    /\ \/ to = "response" /\ outQueue' = Append(outQueue, Response(n)) /\ m.kind # "exit"
       \/ to = "callback" /\ outQueue' \in {outQueue, Append(outQueue, Own)} /\ m.kind # "shutdown"
    /\ \/ output' = output
       \/ m.kind = "registered" /\ output' = Append(output, Error("InternalError"))
    /\ shutdown' = (shutdown \/ m.kind = "shutdown")
Refused(n, m, to) ==
    /\ to \notin {"response", "callback"} /\ m.kind # "initialize"
    /\ UNCHANGED <<initialized, shutdown, outQueue, result>>
    /\ \/ output' = output
       \/ initialized /\ output' = Append(output, Error("MethodNotFound"))
       \/ ~initialized /\ output' = Append(output, Error("NotInitialized"))

\* The dispatch of the message in the buffer adds it to the history.
LEMMA DispatchAppends ==
    ASSUME TypeOK, Dispatch
    PROVE  LET n == MessageIn(content)
           IN  /\ n \in 1 .. Len(stream) /\ stream[n] \in Messages
               /\ Len(dispatched') = Len(dispatched) + 1
               /\ \A i \in 1 .. Len(dispatched) : dispatched'[i] = dispatched[i]
               /\ dispatched'[Len(dispatched) + 1].message = n
               /\ \/ Served(n, stream[n], dispatched'[Len(dispatched) + 1].to)
                  \/ Refused(n, stream[n], dispatched'[Len(dispatched) + 1].to)
<1> DEFINE n == MessageIn(content)
           m == stream[n]
<1>1. n \in 1 .. Len(stream) /\ m \in Messages
  BY MessageInIsSent DEF Dispatch
<1> HIDE DEF n, m
<1>2. \E to \in {"response", "callback", "respond", "nobody", "MethodNotFound", "NotInitialized"} :
        /\ dispatched' = Append(dispatched, [message |-> n, to |-> to])
        /\ Served(n, m, to) \/ Refused(n, m, to)
  <2>1. CASE FireCallback(n, m)
    BY <1>1, <2>1, HandlerQueues DEF FireCallback, Served
  <2>2. CASE RejectMethod(n, m)
    BY <2>2 DEF RejectMethod, Refused, WriteError, Gate
  <2>3. CASE RejectEarly(n, m)
    BY <2>3 DEF RejectEarly, Refused, WriteError, Gate
  <2>4. CASE FireRespondCallback(n, m)
    BY <2>4 DEF FireRespondCallback, Refused
  <2>5. QED
    BY <2>1, <2>2, <2>3, <2>4 DEF Dispatch, n, m
<1>3. PICK to \in {"response", "callback", "respond", "nobody", "MethodNotFound", "NotInitialized"} :
        /\ dispatched' = Append(dispatched, [message |-> n, to |-> to])
        /\ Served(n, m, to) \/ Refused(n, m, to)
  BY <1>2
<1>4. dispatched \in Seq(TakenUp(Len(stream)))
  BY DEF TypeOK
<1>5. [message |-> n, to |-> to] \in TakenUp(Len(stream))
  BY <1>1 DEF TakenUp
<1>6. /\ Len(dispatched') = Len(dispatched) + 1
      /\ dispatched'[Len(dispatched) + 1] = [message |-> n, to |-> to]
      /\ \A i \in 1 .. Len(dispatched) : dispatched'[i] = dispatched[i]
  BY <1>3, <1>4, <1>5, AppendProperties
<1>7. QED
  BY <1>1, <1>3, <1>6 DEF n, m

\* Only messages that were sent are dispatched.
LEMMA DispatchedWereSent ==
    ASSUME TypeOK
    PROVE  \A i \in 1 .. Len(dispatched) : dispatched[i].message \in 1 .. Len(stream)
<1>1. \A i \in 1 .. Len(dispatched) : dispatched[i] \in TakenUp(Len(stream))
  BY ElementOfSeq DEF TypeOK
<1>2. QED
  BY <1>1 DEF TakenUp

\* Nothing else changes the history, and a message that was sent stays what it is.
LEMMA HistoryGrows ==
    ASSUME TypeOK, [Next]_vars
    PROVE  /\ \A n \in 1 .. Len(stream) : n \in 1 .. Len(stream') /\ stream'[n] = stream[n]
           /\ \A i \in 1 .. Len(dispatched) : dispatched[i].message \in 1 .. Len(stream)
           /\ \/ UNCHANGED dispatched
              \/ Consume /\ ProcessBufferContent /\ Dispatch /\ UNCHANGED stream
<1>1. \A i \in 1 .. Len(dispatched) : dispatched[i].message \in 1 .. Len(stream)
  BY DispatchedWereSent
<1>2. ASSUME NEW m \in Messages, Send(m)
      PROVE  \A n \in 1 .. Len(stream) : n \in 1 .. Len(stream') /\ stream'[n] = stream[n]
  BY <1>2, AppendProperties DEF Send, TypeOK
<1>3. \/ UNCHANGED <<stream, dispatched>>
      \/ UNCHANGED dispatched /\ \E m \in Messages : Send(m)
      \/ Consume /\ ProcessBufferContent /\ Dispatch /\ UNCHANGED stream
  BY DEF Next, Server, Read, EndOfInput, Reset, Drain, Send, Close, Interrupt, vars, Consume,
         ProcessBufferHeader, ProcessBufferContent, BufferContent, ParseFails
<1>4. QED
  BY <1>1, <1>2, <1>3

-----------------------------------------------------------------------------
(* The end of the session: nothing left in the queue, a successful exit only *)
(* after shutdown.                                                           *)

\* Responses wait only while the queue is drained: whenever the loop reads, or a
\* message is taken up, all that was queued before it is written.
QueueDrained ==
    /\ pc # "drain" => outQueue = <<>>
    /\ pc # "stopped" => result = "none"
    /\ result = "EXIT_SUCCESS" => shutdown

ShutdownTakenUp ==
    shutdown => \E i \in 1 .. Len(dispatched) :
                   stream[dispatched[i].message].kind = "shutdown" /\ dispatched[i].to = "response"

\* A step of the loop that leaves the draining has emptied the queue.
LEMMA QueueDrainedHolds == Spec => []QueueDrained
<1>1. Init => QueueDrained
  BY DEF Init, QueueDrained
<1>2. TypeOK /\ QueueDrained /\ [Next]_vars => QueueDrained'
  <2> SUFFICES ASSUME TypeOK, QueueDrained, [Next]_vars PROVE QueueDrained'
    OBVIOUS
  <2> USE DEF QueueDrained
  <2>1. CASE Consume /\ ProcessBufferHeader
    BY <2>1 DEF Consume, ProcessBufferHeader, ReadLength, ReadLengthThrows, EndHeader, BufferHeader
  <2>2. CASE Consume /\ ProcessBufferContent /\ Dispatch
    <3> DEFINE n == MessageIn(content)
    <3>1. CASE FireCallback(n, stream[n])
      <4>1. n \in 1 .. Len(stream) /\ stream[n] \in Messages
        BY <2>2, MessageInIsSent DEF Dispatch
      <4>2. stream[n].kind = "exit" => outQueue' = outQueue
        BY <3>1, <4>1, HandlerQueues
      <4>3. QED
        BY <2>2, <3>1, <4>2 DEF Consume, Dispatch, FireCallback
    <3>2. CASE result' = "none" /\ pc' = "drain"
      BY <3>2
    <3>3. QED
      BY <2>2, <3>1, <3>2
         DEF Consume, Dispatch, RejectMethod, RejectEarly, FireRespondCallback
  <2>3. CASE Consume /\ ProcessBufferContent /\ (BufferContent \/ ParseFails)
    BY <2>3 DEF Consume, BufferContent, ParseFails
  <2>4. CASE Read \/ EndOfInput \/ Reset \/ Drain
    BY <2>4 DEF Read, EndOfInput, Reset, Drain, WriteNext
  <2>5. CASE UNCHANGED <<pc, result, outQueue, shutdown>>
    BY <2>5
  <2>6. QED
    BY <2>1, <2>2, <2>3, <2>4, <2>5
       DEF Next, Server, Consume, ProcessBufferContent, Send, Close, Interrupt, vars
<1>3. QED
  BY <1>1, <1>2, TypeCorrect, PTL DEF Spec

\* However the process ends, by exit, the end of the input, an interrupt or an
\* exception, it leaves no response unwritten that it had queued; and it reports
\* success only after the shutdown handler ran.
THEOREM StopsClean == Spec => []CleanStop
<1>1. Init => ShutdownTakenUp
  BY DEF Init, ShutdownTakenUp
<1>2. TypeOK /\ ShutdownTakenUp /\ [Next]_vars => ShutdownTakenUp'
  <2> SUFFICES ASSUME TypeOK, ShutdownTakenUp, [Next]_vars, shutdown'
               PROVE  \E i \in 1 .. Len(dispatched') :
                        /\ stream'[dispatched'[i].message].kind = "shutdown"
                        /\ dispatched'[i].to = "response"
    BY DEF ShutdownTakenUp
  <2>0. Len(dispatched) \in Nat
    BY DEF TypeOK
  <2>1. CASE shutdown
    <3>1. PICK i \in 1 .. Len(dispatched) :
            stream[dispatched[i].message].kind = "shutdown" /\ dispatched[i].to = "response"
      BY <2>1 DEF ShutdownTakenUp
    <3>2. dispatched'[i] = dispatched[i] /\ i \in 1 .. Len(dispatched')
      BY <2>0, HistoryGrows, DispatchAppends
    <3>3. QED
      BY <3>1, <3>2, HistoryGrows
  <2>2. CASE ~shutdown
    <3> DEFINE n == MessageIn(content)
    <3>1. Consume /\ ProcessBufferContent /\ Dispatch
      BY <2>2 DEF Next, Server, Read, EndOfInput, Reset, Drain, Send, Close, Interrupt, vars, Consume,
                  ProcessBufferHeader, ProcessBufferContent, BufferContent, ParseFails
    <3>2. PICK k \in Nat : k = Len(dispatched) + 1
      BY <2>0
    <3>3. /\ Len(dispatched') = k /\ dispatched'[k].message = n /\ UNCHANGED stream
          /\ \/ Served(n, stream[n], dispatched'[k].to)
             \/ Refused(n, stream[n], dispatched'[k].to)
      BY <3>1, <3>2, DispatchAppends DEF Consume
    <3> HIDE DEF n
    <3>4. stream[n].kind = "shutdown" /\ dispatched'[k].to = "response"
      BY <2>2, <3>3 DEF Served, Refused
    <3>5. QED
      BY <2>0, <3>2, <3>3, <3>4
  <2>3. QED
    BY <2>1, <2>2
<1>3. TypeOK /\ QueueDrained /\ ShutdownTakenUp => CleanStop
  BY DEF TypeOK, QueueDrained, ShutdownTakenUp, CleanStop
<1>4. QED
  BY <1>1, <1>2, <1>3, TypeCorrect, QueueDrainedHolds, PTL DEF Spec

-----------------------------------------------------------------------------
(* The order of the units.  In what follows s is a stream of messages. *)

\* The unit u is the last of its frame; Nothing stands before the first.
EndsFrame(s, u) ==
    \/ u.message = 0
    \/ u.type = "blank" /\ s[u.message].size = 0
    \/ u.type = "body" /\ u.piece = u.of

\* The unit v comes right after u in what the client wrote.
Follows(s, u, v) ==
    \/ u.type \in {"length", "nonumber"} /\ v = Blank(u.message)
    \/ EndsFrame(s, u) /\ v = Length(u.message + 1, s[u.message + 1])
    \/ u.type = "blank" /\ ~EndsFrame(s, u) /\ v = Piece(u.message, 1, s[u.message].size)
    \/ u.type = "body" /\ ~EndsFrame(s, u) /\ v = Piece(u.message, u.piece + 1, u.of)

UnitsOf(s) ==
    {Nothing} \cup {Length(n, s[n]) : n \in 1 .. Len(s)} \cup {Blank(n) : n \in 1 .. Len(s)}
      \cup UNION {{Piece(n, i, s[n].size) : i \in 1 .. s[n].size} : n \in 1 .. Len(s)}

\* These units follow one another, up to the last unit of the stream.
InFrames(s, units) ==
    /\ units \in Seq(UnitsOf(s))
    /\ \A i \in 1 .. Len(units) - 1 : Follows(s, units[i], units[i + 1])
    /\ \A i \in 1 .. Len(units) :
         i = Len(units) => EndsFrame(s, units[i]) /\ units[i].message = Len(s)

\* The unit read last, and those behind it.
FramesInOrder == InFrames(stream, <<char>> \o input)

\* A unit tells its message and its place in it.
LEMMA UnitFields ==
    ASSUME NEW s \in Seq(Messages), NEW u \in UnitsOf(s)
    PROVE  /\ u.message \in 0 .. Len(s)
           /\ u.type \in {"length", "nonumber", "blank", "body"}
           /\ u.message = 0 => u = Nothing
           /\ u.type \in {"length", "nonumber"} => u.message # 0 /\ u = Length(u.message, s[u.message])
           /\ u.type = "blank" => u = Blank(u.message)
           /\ u.type = "body" => /\ u.message # 0 /\ u.of = s[u.message].size
                                 /\ u.piece \in 1 .. u.of /\ u = Piece(u.message, u.piece, u.of)
<1>0. Len(s) \in Nat /\ \A n \in 1 .. Len(s) : s[n] \in Messages /\ s[n].size \in Nat
  BY MessagesAssumption
<1>1. CASE u = Nothing
  BY <1>0, <1>1 DEF Nothing, Blank
<1>2. ASSUME NEW n \in 1 .. Len(s), u = Length(n, s[n])
      PROVE  u.message = n /\ u.type \in {"length", "nonumber"}
  BY <1>2 DEF Length
<1>3. ASSUME NEW n \in 1 .. Len(s), u = Blank(n) PROVE u.message = n /\ u.type = "blank"
  BY <1>3 DEF Blank
<1>4. ASSUME NEW n \in 1 .. Len(s), NEW i \in 1 .. s[n].size, u = Piece(n, i, s[n].size)
      PROVE  u.message = n /\ u.type = "body" /\ u.piece = i /\ u.of = s[n].size
  BY <1>4 DEF Piece
<1>5. QED
  BY <1>0, <1>1, <1>2, <1>3, <1>4 DEF UnitsOf

\* What follows a unit belongs to its message, or, behind the last unit of a
\* frame, is the first of the next.
LEMMA NextMessage ==
    ASSUME NEW s \in Seq(Messages), NEW u \in UnitsOf(s), NEW v, Follows(s, u, v)
    PROVE  /\ EndsFrame(s, u) => v.message = u.message + 1 /\ v.type \in {"length", "nonumber"}
           /\ ~EndsFrame(s, u) => v.message = u.message /\ v.type \in {"blank", "body"}
<1>1. CASE u.type \in {"length", "nonumber"} /\ v = Blank(u.message)
  BY <1>1, UnitFields DEF EndsFrame, Blank
<1>2. CASE EndsFrame(s, u) /\ v = Length(u.message + 1, s[u.message + 1])
  BY <1>2 DEF Length
<1>3. CASE ~EndsFrame(s, u) /\ \E i, size : v = Piece(u.message, i, size)
  BY <1>3 DEF Piece
<1>4. QED
  BY <1>1, <1>2, <1>3 DEF Follows

\* What remains of the input behind a unit is still in frames.
LEMMA ReadKeepsFrames ==
    ASSUME NEW s, NEW units, InFrames(s, units), Len(units) > 1
    PROVE  InFrames(s, Tail(units))
<1>1. units \in Seq(UnitsOf(s)) /\ units # <<>> /\ Len(units) \in Nat
  BY EmptySeq DEF InFrames
<1>2. /\ Tail(units) \in Seq(UnitsOf(s)) /\ Len(Tail(units)) = Len(units) - 1
      /\ \A i \in 1 .. Len(units) - 1 : Tail(units)[i] = units[i + 1]
  BY <1>1, HeadTailProperties
<1> DEFINE rest == Tail(units)
<1> HIDE DEF rest
<1>3. \A i \in 1 .. Len(rest) - 1 : Follows(s, rest[i], rest[i + 1])
  <2> SUFFICES ASSUME NEW i \in 1 .. Len(rest) - 1 PROVE Follows(s, rest[i], rest[i + 1])
    OBVIOUS
  <2>1. i + 1 \in 1 .. Len(units) - 1 /\ rest[i] = units[i + 1] /\ rest[i + 1] = units[(i + 1) + 1]
    BY <1>1, <1>2 DEF rest
  <2>2. Follows(s, units[i + 1], units[(i + 1) + 1])
    BY <2>1 DEF InFrames
  <2>3. QED
    BY <2>1, <2>2
<1>4. \A i \in 1 .. Len(rest) : i = Len(rest) => rest[i] = units[Len(units)]
  BY <1>1, <1>2 DEF rest
<1>5. EndsFrame(s, units[Len(units)]) /\ units[Len(units)].message = Len(s)
  BY <1>1 DEF InFrames
<1>6. rest \in Seq(UnitsOf(s))
  BY <1>2 DEF rest
<1>7. QED
  BY <1>3, <1>4, <1>5, <1>6 DEF InFrames, rest

\* A frame behind frames leaves the input in frames.
LEMMA SendKeepsFrames ==
    ASSUME NEW s \in Seq(Messages), NEW units, InFrames(s, units), units # <<>>, NEW m \in Messages,
           NEW n, n = Len(s) + 1
    PROVE  InFrames(Append(s, m), units \o Frame(n, m))
<1> DEFINE t == Append(s, m)
           w == units \o Frame(n, m)
           k == Len(units)
<1>1. /\ n \in Nat \ {0} /\ t \in Seq(Messages) /\ Len(t) = n /\ t[n] = m
      /\ Len(s) \in Nat /\ \A i \in 1 .. Len(s) : t[i] = s[i]
  BY AppendProperties
<1>2. m.size \in Nat
  BY MessagesAssumption
<1>3. units \in Seq(UnitsOf(s)) /\ k \in Nat \ {0} /\ \A i \in 1 .. k : units[i] \in UnitsOf(s)
  BY EmptySeq DEF InFrames
<1> HIDE DEF t
<1>4. UnitsOf(s) \subseteq UnitsOf(t)
  BY <1>1 DEF UnitsOf
<1>5. /\ Length(n, m) \in UnitsOf(t) /\ Blank(n) \in UnitsOf(t)
      /\ \A i \in 1 .. m.size : Piece(n, i, m.size) \in UnitsOf(t)
  BY <1>1, <1>2 DEF UnitsOf
<1>6. /\ Frame(n, m) \in Seq(UnitsUpTo(n)) /\ Len(Frame(n, m)) = 2 + m.size
      /\ Frame(n, m)[1] = Length(n, m) /\ Frame(n, m)[2] = Blank(n)
      /\ \A i \in 1 .. m.size : Frame(n, m)[2 + i] = Piece(n, i, m.size)
  BY <1>1, FrameUnits
<1>7. \A i \in 1 .. 2 + m.size : i = 1 \/ i = 2 \/ (i - 2 \in 1 .. m.size /\ i = 2 + (i - 2))
  BY <1>2
<1>8. \A i \in 1 .. 2 + m.size : Frame(n, m)[i] \in UnitsOf(t)
  BY <1>5, <1>6, <1>7
<1>9. Frame(n, m) \in Seq(UnitsOf(t)) /\ units \in Seq(UnitsOf(t))
  <2> DEFINE f == Frame(n, m)
  <2>1. f \in Seq(UnitsOf(t))
    <3>1. f \in Seq(UnitsUpTo(n)) /\ \A i \in 1 .. Len(f) : f[i] \in UnitsOf(t)
      BY <1>6, <1>8
    <3> HIDE DEF f
    <3>2. QED
      BY <3>1
  <2>2. units \in Seq(UnitsOf(t))
    BY <1>3, <1>4
  <2>3. QED
    BY <2>1, <2>2
<1> HIDE DEF k
<1>10. /\ w \in Seq(UnitsOf(t)) /\ Len(w) = k + 2 + m.size
       /\ \A i \in 1 .. k : w[i] = units[i]
       /\ w[k + 1] = Length(n, m) /\ w[k + 2] = Blank(n)
       /\ \A i \in 1 .. m.size : w[k + 2 + i] = Piece(n, i, m.size)
  <2>1. Len(w) = k + (2 + m.size) /\ w \in Seq(UnitsOf(t))
    BY <1>6, <1>9, ConcatProperties DEF k
  <2>2. \A i \in 1 .. k + (2 + m.size) : w[i] = IF i <= k THEN units[i] ELSE Frame(n, m)[i - k]
    BY <1>6, <1>9, ConcatProperties DEF k
  <2> HIDE DEF w
  <2>3. \A i \in 1 .. k : w[i] = units[i]
    BY <1>2, <1>3, <2>2
  <2>4. w[k + 1] = Length(n, m) /\ w[k + 2] = Blank(n)
    BY <1>2, <1>3, <1>6, <2>2
  <2>5. ASSUME NEW i \in 1 .. m.size PROVE w[k + 2 + i] = Piece(n, i, m.size)
    <3>1. PICK j \in 1 .. k + (2 + m.size) : j = k + 2 + i /\ ~(j <= k) /\ j - k = 2 + i
      BY <1>2, <1>3
    <3>2. w[j] = Frame(n, m)[j - k]
      BY <2>2, <3>1
    <3>3. QED
      BY <1>6, <3>1, <3>2
  <2>6. QED
    BY <1>2, <1>3, <2>1, <2>3, <2>4, <2>5
<1> HIDE DEF w
<1>11. \A u \in UnitsOf(s) :
         /\ EndsFrame(s, u) => EndsFrame(t, u)
         /\ u.message = Len(s) /\ EndsFrame(s, u) => Follows(t, u, Length(n, m))
         /\ \A v \in UnitsOf(s) : Follows(s, u, v) => Follows(t, u, v)
  <2> SUFFICES ASSUME NEW u \in UnitsOf(s)
               PROVE  /\ EndsFrame(s, u) => EndsFrame(t, u)
                      /\ u.message = Len(s) /\ EndsFrame(s, u) => Follows(t, u, Length(n, m))
                      /\ \A v \in UnitsOf(s) : Follows(s, u, v) => Follows(t, u, v)
    OBVIOUS
  <2>1. u.message \in 0 .. Len(s) /\ (u.message = 0 \/ t[u.message] = s[u.message])
    BY <1>1, UnitFields
  <2>2. EndsFrame(s, u) <=> EndsFrame(t, u)
    BY <2>1 DEF EndsFrame
  <2>3. ASSUME NEW v \in UnitsOf(s), Follows(s, u, v) PROVE Follows(t, u, v)
    <3>1. EndsFrame(s, u) => u.message + 1 \in 1 .. Len(s)
      <4>1. v.message \in 0 .. Len(s)
        BY UnitFields
      <4>2. EndsFrame(s, u) => v.message = u.message + 1
        BY <2>3, NextMessage
      <4>3. QED
        BY <2>1, <4>1, <4>2
    <3>2. u.type = "blank" /\ ~EndsFrame(s, u) => u.message # 0
      BY DEF EndsFrame
    <3>3. QED
      BY <1>1, <2>1, <2>2, <2>3, <3>1, <3>2 DEF Follows
  <2>4. u.message = Len(s) /\ EndsFrame(s, u) => Follows(t, u, Length(n, m))
    BY <1>1, <2>2 DEF Follows
  <2>5. QED
    BY <2>2, <2>3, <2>4
<1>12. /\ ~EndsFrame(t, Length(n, m)) /\ Follows(t, Length(n, m), Blank(n))
       /\ EndsFrame(t, Blank(n)) <=> m.size = 0
       /\ m.size # 0 => Follows(t, Blank(n), Piece(n, 1, m.size))
       /\ \A i \in 1 .. m.size : EndsFrame(t, Piece(n, i, m.size)) <=> i = m.size
       /\ \A i \in 1 .. m.size - 1 : Follows(t, Piece(n, i, m.size), Piece(n, i + 1, m.size))
  <2>1. Length(n, m).message = n /\ Length(n, m).type \in {"length", "nonumber"}
    BY DEF Length
  <2>2. Blank(n).message = n /\ Blank(n).type = "blank"
    BY DEF Blank
  <2>3. \A i : /\ Piece(n, i, m.size).message = n /\ Piece(n, i, m.size).type = "body"
               /\ Piece(n, i, m.size).piece = i /\ Piece(n, i, m.size).of = m.size
    BY DEF Piece
  <2>4. QED
    BY <1>1, <1>2, <2>1, <2>2, <2>3 DEF EndsFrame, Follows
<1>13. \A i \in 1 .. Len(w) - 1 : Follows(t, w[i], w[i + 1])
  <2> SUFFICES ASSUME NEW i \in 1 .. Len(w) - 1 PROVE Follows(t, w[i], w[i + 1])
    OBVIOUS
  <2>0. i \in Nat /\ Len(w) = k + 2 + m.size
    BY <1>10
  <2>1. CASE i < k
    <3>1. w[i] = units[i] /\ w[i + 1] = units[i + 1] /\ Follows(s, units[i], units[i + 1])
      BY <1>3, <1>10, <2>0, <2>1 DEF InFrames, k
    <3>2. units[i] \in UnitsOf(s) /\ units[i + 1] \in UnitsOf(s)
      BY <1>3, <2>0, <2>1
    <3>3. QED
      BY <1>11, <3>1, <3>2
  <2>2. CASE i = k
    <3>1. w[i] = units[k] /\ w[i + 1] = Length(n, m)
      BY <1>3, <1>10, <2>2
    <3>2. EndsFrame(s, units[k]) /\ units[k].message = Len(s) /\ units[k] \in UnitsOf(s)
      BY <1>3 DEF InFrames, k
    <3>3. QED
      BY <1>11, <3>1, <3>2
  <2>3. CASE i = k + 1
    BY <1>3, <1>10, <1>12, <2>3
  <2>4. CASE i = k + 2
    <3>1. 1 \in 1 .. m.size /\ m.size # 0
      BY <1>2, <1>3, <2>0, <2>4
    <3>2. w[i] = Blank(n) /\ w[i + 1] = Piece(n, 1, m.size)
      BY <1>3, <1>10, <2>4, <3>1
    <3>3. QED
      BY <1>12, <3>1, <3>2
  <2>5. CASE i > k + 2
    <3>1. PICK j \in 1 .. m.size - 1 : i = k + 2 + j
      <4>1. i - (k + 2) \in 1 .. m.size - 1 /\ i = k + 2 + (i - (k + 2))
        BY <1>2, <1>3, <2>0, <2>5
      <4>2. QED
        BY <4>1
    <3>2. j \in 1 .. m.size /\ j + 1 \in 1 .. m.size /\ i + 1 = k + 2 + (j + 1)
      BY <1>2, <1>3, <3>1
    <3>3. w[i] = Piece(n, j, m.size) /\ w[i + 1] = Piece(n, j + 1, m.size)
      BY <1>10, <3>1, <3>2
    <3>4. QED
      BY <1>12, <3>1, <3>3
  <2>6. QED
    BY <1>3, <2>0, <2>1, <2>2, <2>3, <2>4, <2>5
<1>14. EndsFrame(t, w[Len(w)]) /\ w[Len(w)].message = Len(t)
  <2>1. CASE m.size = 0
    <3>1. w[Len(w)] = Blank(n)
      BY <1>3, <1>10, <2>1
    <3>2. QED
      BY <1>1, <1>12, <2>1, <3>1 DEF Blank
  <2>2. CASE m.size # 0
    <3>1. m.size \in 1 .. m.size /\ w[Len(w)] = Piece(n, m.size, m.size)
      <4>1. m.size \in 1 .. m.size
        BY <1>2, <2>2
      <4>2. w[k + 2 + m.size] = Piece(n, m.size, m.size)
        BY <1>10, <4>1
      <4>3. QED
        BY <1>10, <4>1, <4>2
    <3>2. QED
      BY <1>1, <1>12, <3>1 DEF Piece
  <2>3. QED
    BY <2>1, <2>2
<1>15. QED
  BY <1>10, <1>13, <1>14 DEF InFrames, t, w

\* The server reads exactly what the client wrote, unit by unit.
LEMMA FramesInOrderHolds == Spec => []FramesInOrder
<1>1. Init => FramesInOrder
  <2> SUFFICES ASSUME Init PROVE FramesInOrder
    OBVIOUS
  <2> DEFINE first == <<Nothing>>
  <2>1. <<char>> \o input = first
    BY DEF Init
  <2>2. first \in Seq(UnitsOf(stream)) /\ Len(first) = 1 /\ first[1] = Nothing
    BY DEF UnitsOf
  <2> HIDE DEF first
  <2>3. Len(stream) = 0 /\ EndsFrame(stream, Nothing) /\ Nothing.message = 0
    BY EmptySeq DEF Init, EndsFrame, Nothing, Blank
  <2>4. InFrames(stream, first)
    BY <2>2, <2>3 DEF InFrames
  <2>5. QED
    BY <2>1, <2>4 DEF FramesInOrder
<1>2. TypeOK /\ FramesInOrder /\ [Next]_vars => FramesInOrder'
  <2> SUFFICES ASSUME TypeOK, FramesInOrder, [Next]_vars PROVE FramesInOrder'
    OBVIOUS
  <2> DEFINE S == UnitsUpTo(Len(stream))
             unread == <<char>> \o input
  <2>0. /\ <<char>> \in Seq(S) /\ input \in Seq(S) /\ Len(input) \in Nat
        /\ Len(<<char>>) = 1 /\ <<char>>[1] = char
    BY DEF TypeOK
  <2>1. /\ unread \in Seq(S) /\ Len(unread) = 1 + Len(input) /\ unread # <<>>
        /\ unread[1] = char /\ \A i \in 1 .. Len(input) : unread[i + 1] = input[i]
    BY <2>0, ConcatProperties
  <2>2. CASE UNCHANGED <<char, input, stream>>
    BY <2>2 DEF FramesInOrder
  <2>3. CASE Read
    <3>1. <<char'>> \o input' = input
      BY <2>3 DEF Read, TypeOK
    <3>2. Tail(unread) = input
      BY <2>0
    <3>3. Len(unread) > 1
      BY <2>0, <2>1, <2>3, EmptySeq DEF Read
    <3>4. QED
      BY <2>3, <3>1, <3>2, <3>3, ReadKeepsFrames DEF Read, FramesInOrder
  <2>4. ASSUME NEW m \in Messages, Send(m) PROVE FramesInOrder'
    <3>1. Len(stream') = Len(stream) + 1 /\ stream' = Append(stream, m) /\ char' = char
      BY <2>4, AppendProperties DEF Send, TypeOK
    <3>2. Frame(Len(stream'), m) \in Seq(UnitsUpTo(Len(stream')))
      BY <3>1, FrameUnits DEF TypeOK
    <3>3. <<char'>> \o input' = unread \o Frame(Len(stream'), m)
      <4> DEFINE f == Frame(Len(stream'), m)
                 T == S \cup UnitsUpTo(Len(stream'))
      <4>1. input' = input \o f
        BY <2>4, <3>1 DEF Send
      <4>2. <<char>> \in Seq(T) /\ input \in Seq(T) /\ f \in Seq(T)
        <5> HIDE DEF S, f
        <5>1. f \in Seq(UnitsUpTo(Len(stream')))
          BY <3>2 DEF f
        <5>2. QED
          BY <2>0, <5>1
      <4> HIDE DEF f, T
      <4>3. <<char>> \o (input \o f) = (<<char>> \o input) \o f
        BY <4>2, ConcatAssociative
      <4>4. QED
        BY <3>1, <4>1, <4>3 DEF f
    <3>4. InFrames(Append(stream, m), unread \o Frame(Len(stream'), m))
      <4>1. stream \in Seq(Messages) /\ InFrames(stream, unread)
        BY DEF FramesInOrder, TypeOK
      <4> HIDE DEF unread
      <4>2. QED
        BY <2>1, <3>1, <4>1, SendKeepsFrames
    <3> HIDE DEF unread
    <3>5. QED
      BY <3>1, <3>3, <3>4 DEF FramesInOrder
  <2>5. QED
    BY <2>2, <2>3, <2>4
       DEF Next, Server, EndOfInput, Reset, Drain, Close, Interrupt, vars, Consume
<1>3. QED
  BY <1>1, <1>2, TypeCorrect, PTL DEF Spec

-----------------------------------------------------------------------------
(* Each message is taken up at most once, in the order of the stream. *)

\* The character read last is a unit of the stream, and the next one follows it.
LEMMA CharIsUnit ==
    ASSUME TypeOK, FramesInOrder
    PROVE  /\ char \in UnitsOf(stream) /\ stream \in Seq(Messages)
           /\ Read => Follows(stream, char, char') /\ char' \in UnitsOf(stream)
<1> DEFINE S == UnitsUpTo(Len(stream))
           unread == <<char>> \o input
<1>0. /\ <<char>> \in Seq(S) /\ input \in Seq(S) /\ Len(input) \in Nat /\ stream \in Seq(Messages)
      /\ Len(<<char>>) = 1 /\ <<char>>[1] = char
  BY DEF TypeOK
<1>1. /\ unread \in Seq(S) /\ Len(unread) = 1 + Len(input)
      /\ unread[1] = char /\ \A i \in 1 .. Len(input) : unread[i + 1] = input[i]
  BY <1>0, ConcatProperties
<1> HIDE DEF unread
<1>2. InFrames(stream, unread)
  BY DEF FramesInOrder, unread
<1>3. char \in UnitsOf(stream)
  BY <1>0, <1>1, <1>2 DEF InFrames
<1>4. ASSUME Read PROVE Follows(stream, char, char') /\ char' \in UnitsOf(stream)
  <2>1. 1 \in 1 .. Len(input) /\ char' = input[1]
    BY <1>0, <1>4, EmptySeq DEF Read
  <2>2. unread[2] = char' /\ 1 \in 1 .. Len(unread) - 1 /\ 2 \in 1 .. Len(unread)
    BY <1>0, <1>1, <2>1
  <2>3. QED
    BY <1>1, <1>2, <2>2 DEF InFrames
<1>5. QED
  BY <1>0, <1>3, <1>4

\* Whether a unit ends its frame does not change with what is sent later.
LEMMA EndsFrameStays ==
    ASSUME TypeOK, FramesInOrder, [Next]_vars
    PROVE  EndsFrame(stream', char) <=> EndsFrame(stream, char)
<1>1. char.message \in 0 .. Len(stream)
  BY CharIsUnit, UnitFields
<1>2. char.message = 0 \/ stream'[char.message] = stream[char.message]
  BY <1>1, HistoryGrows DEF TypeOK
<1>3. QED
  BY <1>2 DEF EndsFrame

\* A message is dispatched when the loop has read its last unit.
LEMMA DispatchAtEnd ==
    ASSUME TypeOK, FramesInOrder, Dispatch
    PROVE  /\ MessageIn(content) = char.message /\ EndsFrame(stream, char)
           /\ char.type = "body" /\ stream[char.message].kind # "garbage"
<1> DEFINE n == MessageIn(content)
           of == content[1].of
<1>1. /\ content \in Seq(UnitsUpTo(Len(stream))) /\ Len(content) = Len(buffer) + 1
      /\ content[Len(content)] = char /\ Len(buffer) \in Nat
  BY AppendProperties DEF TypeOK, content
<1> HIDE DEF content
<1>2. content[1] \in UnitsUpTo(Len(stream))
  BY <1>1
<1>3. content[1].type = "body" /\ content = Body(n, of)
  BY DEF Dispatch, MessageIn
<1>4. of \in Nat
  BY <1>2, <1>3 DEF UnitsUpTo
<1> HIDE DEF n, of
<1>5. Len(Body(n, of)) = of /\ \A i \in 1 .. of : Body(n, of)[i] = Piece(n, i, of)
  BY <1>4 DEF Body
<1>6. Len(content) = of
  BY <1>3, <1>5
<1>7. char = Piece(n, of, of)
  BY <1>1, <1>3, <1>4, <1>5, <1>6
<1>8. stream[n].kind # "garbage"
  BY DEF Dispatch, MessageIn, n
<1>9. QED
  BY <1>7, <1>8 DEF Piece, EndsFrame, n

LastTaken == IF dispatched = <<>> THEN 0 ELSE dispatched[Len(dispatched)].message

TakenInOrder ==
    /\ \A i, j \in 1 .. Len(dispatched) : i < j => dispatched[i].message < dispatched[j].message
    /\ LastTaken <= char.message
    /\ LastTaken = char.message => EndsFrame(stream, char)
    /\ pc = "consume" => LastTaken < char.message

\* No message taken up is behind the last one.
LEMMA LastTakenIsLast ==
    ASSUME TypeOK, TakenInOrder
    PROVE  /\ LastTaken \in 0 .. Len(stream)
           /\ \A i \in 1 .. Len(dispatched) : dispatched[i].message <= LastTaken
<1>1. /\ Len(dispatched) \in Nat
      /\ \A i \in 1 .. Len(dispatched) : dispatched[i].message \in 1 .. Len(stream)
  BY DispatchedWereSent DEF TypeOK
<1>2. QED
  BY <1>1, EmptySeq DEF LastTaken, TakenInOrder, TypeOK

\* A step takes up the message whose frame ends at the character read, or none.
LEMMA LastTakenNext ==
    ASSUME TypeOK, FramesInOrder, [Next]_vars
    PROVE  \/ UNCHANGED dispatched /\ LastTaken' = LastTaken
           \/ /\ Consume /\ ProcessBufferContent /\ Dispatch /\ UNCHANGED <<stream, char>>
              /\ LastTaken' = char.message /\ EndsFrame(stream, char)
              /\ Len(dispatched') = Len(dispatched) + 1
              /\ dispatched'[Len(dispatched) + 1].message = char.message
              /\ \A i \in 1 .. Len(dispatched) : dispatched'[i] = dispatched[i]
<1>1. CASE UNCHANGED dispatched
  BY <1>1 DEF LastTaken
<1>2. CASE Consume /\ ProcessBufferContent /\ Dispatch /\ UNCHANGED stream
  <2>0. Len(dispatched) \in Nat
    BY DEF TypeOK
  <2>1. /\ Len(dispatched') = Len(dispatched) + 1
        /\ dispatched'[Len(dispatched) + 1].message = char.message
        /\ \A i \in 1 .. Len(dispatched) : dispatched'[i] = dispatched[i]
    BY <1>2, DispatchAppends, DispatchAtEnd
  <2>2. dispatched' # <<>>
    BY <2>0, <2>1, EmptySeq
  <2>3. QED
    BY <1>2, <2>1, <2>2, DispatchAtEnd DEF LastTaken, Consume
<1>3. QED
  BY <1>1, <1>2, HistoryGrows

\* Messages are taken up in the order they were sent.
LEMMA TakenInOrderHolds == Spec => []TakenInOrder
<1>1. Init => TakenInOrder
  BY EmptySeq DEF Init, TakenInOrder, LastTaken, EndsFrame, Nothing, Blank
<1>2. TypeOK /\ FramesInOrder /\ TakenInOrder /\ [Next]_vars => TakenInOrder'
  <2> SUFFICES ASSUME TypeOK, FramesInOrder, TakenInOrder, [Next]_vars PROVE TakenInOrder'
    OBVIOUS
  <2>0. /\ Len(dispatched) \in Nat /\ LastTaken \in 0 .. Len(stream) /\ Len(stream) \in Nat
        /\ \A i \in 1 .. Len(dispatched) : dispatched[i].message <= LastTaken
        /\ \A i \in 1 .. Len(dispatched) : dispatched[i].message \in 1 .. Len(stream)
        /\ char \in UnitsOf(stream) /\ char.message \in 0 .. Len(stream)
    BY LastTakenIsLast, CharIsUnit, UnitFields, HistoryGrows DEF TypeOK
  <2>1. CASE Read
    <3>1. UNCHANGED <<stream, dispatched>> /\ LastTaken' = LastTaken
      BY <2>1 DEF Read, LastTaken
    <3>2. char' \in UnitsOf(stream) /\ Follows(stream, char, char')
      BY <2>1, CharIsUnit
    <3>3. /\ EndsFrame(stream, char) => char'.message = char.message + 1
          /\ ~EndsFrame(stream, char) => char'.message = char.message
      BY <2>0, <3>2, NextMessage, CharIsUnit
    <3>4. LastTaken < char'.message
      BY <2>0, <3>3 DEF TakenInOrder
    <3>5. char'.message \in 0 .. Len(stream)
      BY <3>2, UnitFields, CharIsUnit
    <3>6. QED
      BY <2>0, <3>1, <3>4, <3>5 DEF TakenInOrder
  <2>2. CASE ~Read
    <3>1. char' = char /\ (EndsFrame(stream', char) <=> EndsFrame(stream, char))
      BY <2>2, EndsFrameStays
         DEF Next, Server, EndOfInput, Reset, Drain, Send, Close, Interrupt, vars, Consume
    <3>2. pc' = "consume" => pc = "consume" /\ ~Consume
      BY <2>2 DEF Next, Server, EndOfInput, Reset, Drain, WriteNext, Send, Close, Interrupt, vars,
           Consume, ProcessBufferHeader, ProcessBufferContent, ReadLength, ReadLengthThrows, EndHeader,
           BufferHeader, BufferContent, ParseFails, Dispatch
    <3>3. CASE UNCHANGED dispatched /\ LastTaken' = LastTaken
      BY <3>1, <3>2, <3>3 DEF TakenInOrder
    <3>4. CASE /\ Consume /\ LastTaken' = char.message /\ EndsFrame(stream, char)
               /\ Len(dispatched') = Len(dispatched) + 1
               /\ dispatched'[Len(dispatched) + 1].message = char.message
               /\ \A i \in 1 .. Len(dispatched) : dispatched'[i] = dispatched[i]
      <4>1. LastTaken < char.message
        BY <3>4 DEF TakenInOrder, Consume
      <4>2. \A i, j \in 1 .. Len(dispatched') :
              i < j => dispatched'[i].message < dispatched'[j].message
        <5> SUFFICES ASSUME NEW i \in 1 .. Len(dispatched'), NEW j \in 1 .. Len(dispatched'), i < j
                     PROVE  dispatched'[i].message < dispatched'[j].message
          OBVIOUS
        <5>1. i \in 1 .. Len(dispatched) /\ dispatched'[i] = dispatched[i]
          BY <2>0, <3>4
        <5>2. dispatched[i].message < char.message
          BY <2>0, <4>1, <5>1
        <5>3. CASE j = Len(dispatched) + 1
          BY <3>4, <5>1, <5>2, <5>3
        <5>4. CASE j \in 1 .. Len(dispatched)
          BY <3>4, <5>1, <5>4 DEF TakenInOrder
        <5>5. QED
          BY <2>0, <3>4, <5>3, <5>4
      <4>3. QED
        BY <2>0, <3>1, <3>2, <3>4, <4>2 DEF TakenInOrder
    <3>5. QED
      BY <3>3, <3>4, LastTakenNext
  <2>3. QED
    BY <2>1, <2>2
<1>3. QED
  BY <1>1, <1>2, TypeCorrect, FramesInOrderHolds, PTL DEF Spec

-----------------------------------------------------------------------------
(* Every response queued is written once, behind that of initialize. *)

Responded(n) == \E i \in 1 .. Len(output) : output[i] = Response(n)

\* One message at most is queued.  It is the response to the message taken up last,
\* or none; what is written responds to earlier ones, in their order.
InTurn ==
    /\ outQueue \in {<<>>, <<Own>>, <<Response(LastTaken)>>}
    /\ \A i \in 1 .. Len(output) : output[i].type = "response" =>
         /\ output[i].id <= LastTaken
         /\ outQueue = <<Response(LastTaken)>> => output[i].id < LastTaken
         /\ \A j \in 1 .. i - 1 : output[j].type = "response" => output[j].id < output[i].id

\* Whoever is to have a response is a message whose handler queued one.
Respondent(n) == \E k \in 1 .. Len(dispatched) : ResponseFor(k) /\ dispatched[k].message = n
Warranted ==
    /\ \A i \in 1 .. Len(output) : output[i].type = "response" => Respondent(output[i].id)
    /\ \A n : outQueue = <<Response(n)>> => Respondent(n)

\* A response is queued, or written, or cannot be.
Owed ==
    \A k \in 1 .. Len(dispatched) : ResponseFor(k) =>
        LET n == dispatched[k].message
        IN  \/ outQueue = <<Response(n)>>
            \/ Responded(n)
            \/ stream[n].kind = "registered" /\ n \in unwritten

Answering == InTurn /\ Warranted /\ Owed

\* What a step does to what is queued, written and taken up.
Consumed == Consume /\ Dispatch /\ pc = "consume" /\ UNCHANGED <<stream, unwritten>>
Quiet ==
    /\ UNCHANGED <<outQueue, unwritten, dispatched, initialized>>
    /\ result' \in {result, "EINTR", "EndOfInput", "aborted"}
    /\ output' \in {output, Append(output, Error("ParseError")), Append(output, Error("InvalidRequest"))}

LEMMA AnswerStep ==
    ASSUME TypeOK, [Next]_vars
    PROVE  \/ Quiet
           \/ Drain /\ WriteNext /\ UNCHANGED <<dispatched, initialized, stream, result>>
           \/ Consumed
<1>1. CASE Consume /\ ProcessBufferContent /\ Dispatch
  BY <1>1 DEF Consume, Consumed
<1>2. CASE Consume /\ (ProcessBufferHeader \/ (ProcessBufferContent /\ (BufferContent \/ ParseFails)))
  BY <1>2 DEF Consume, ProcessBufferHeader, ProcessBufferContent, ReadLength, ReadLengthThrows, EndHeader,
              BufferHeader, BufferContent, ParseFails, WriteError, Quiet
<1>3. CASE Drain
  BY <1>3 DEF Drain, Quiet
<1>4. CASE Read \/ EndOfInput \/ Reset \/ (\E m \in Messages : Send(m)) \/ Close \/ Interrupt \/ UNCHANGED vars
  BY <1>4 DEF Read, EndOfInput, Reset, Send, Close, Interrupt, vars, Quiet
<1>5. QED
  BY <1>1, <1>2, <1>3, <1>4 DEF Next, Server, Consume, ProcessBufferContent

\* Messages that are queued or written differ where their kinds or ids do.
LEMMA MessagesDiffer ==
    /\ \A code : Error(code).type = "error"
    /\ Own.type = "own"
    /\ \A n : Response(n).type = "response" /\ Response(n).id = n
    /\ \A code, n : Error(code) # Response(n) /\ Error(code) # Own /\ Response(n) # Own
    /\ \A m, n : Response(m) = Response(n) => m = n
    /\ \A n : <<Response(n)>> # <<Own>> /\ <<Response(n)>> # <<>> /\ <<Own>> # <<>>
    /\ \A m, n : <<Response(m)>> = <<Response(n)>> => m = n
<1>1. /\ \A code : Error(code).type = "error"
      /\ Own.type = "own"
      /\ \A n : Response(n).type = "response" /\ Response(n).id = n
  BY DEF Error, Own, Response
<1>2. \A e, f : <<e>> = <<f>> => e = f
  <2> SUFFICES ASSUME NEW e, NEW f, <<e>> = <<f>> PROVE e = f
    OBVIOUS
  <2>1. <<e>>[1] = e /\ <<f>>[1] = f
    OBVIOUS
  <2>2. QED
    BY <2>1
<1>3. \A e : <<e>> # <<>>
  OBVIOUS
<1>4. /\ \A code, n : Error(code) # Response(n) /\ Error(code) # Own /\ Response(n) # Own
      /\ \A m, n : Response(m) = Response(n) => m = n
  BY <1>1
<1>5. /\ \A n : <<Response(n)>> # <<Own>> /\ <<Response(n)>> # <<>> /\ <<Own>> # <<>>
      /\ \A m, n : <<Response(m)>> = <<Response(n)>> => m = n
  BY <1>2, <1>3, <1>4
<1>6. QED
  BY <1>1, <1>4, <1>5

\* The sequences are numbered, and the queue and the history name messages sent.
LEMMA AnswerTypes ==
    ASSUME TypeOK, TakenInOrder
    PROVE  /\ Len(output) \in Nat /\ Len(dispatched) \in Nat /\ LastTaken \in 0 .. Len(stream)
           /\ Len(stream) \in Nat
           /\ \A k \in 1 .. Len(dispatched) :
                dispatched[k].message \in 1 .. Len(stream) /\ dispatched[k].message <= LastTaken
           /\ \A i \in 1 .. Len(output) : output[i].type = "response" => output[i].id \in 1 .. Len(stream)
           /\ \A n : outQueue = <<Response(n)>> => n \in 1 .. Len(stream)
<1>1. \A i \in 1 .. Len(output) : output[i] \in Written(Len(stream))
  BY ElementOfSeq DEF TypeOK
<1>2. \A i \in 1 .. Len(output) : output[i].type = "response" => output[i].id \in 1 .. Len(stream)
  BY <1>1 DEF Written, Queueable, Response, Own, Error
<1>3. ASSUME NEW n, outQueue = <<Response(n)>> PROVE n \in 1 .. Len(stream)
  <2>1. Response(n) \in Queueable(Len(stream))
    <3>1. outQueue \in Seq(Queueable(Len(stream))) /\ Len(outQueue) = 1 /\ outQueue[1] = Response(n)
      BY <1>3 DEF TypeOK
    <3>2. QED
      BY <3>1, ElementOfSeq
  <2>2. QED
    BY <2>1 DEF Queueable, Response, Own
<1>4. QED
  BY <1>2, <1>3, LastTakenIsLast, DispatchedWereSent DEF TypeOK

\* An output that grew by one message.
Grew(o) ==
    /\ Len(output') = Len(output) + 1 /\ output'[Len(output) + 1] = o
    /\ \A i \in 1 .. Len(output) : output'[i] = output[i]
LEMMA AppendGrows ==
    ASSUME TypeOK, NEW o, o \in Written(Len(stream)), output' = Append(output, o)
    PROVE  Grew(o)
  BY AppendProperties DEF TypeOK, Grew

\* Where a message of such an output is.
LEMMA GrownIndices ==
    ASSUME TypeOK, NEW o, Grew(o)
    PROVE  /\ Len(output) + 1 \in 1 .. Len(output') /\ output'[Len(output) + 1] = o
           /\ \A i \in 1 .. Len(output) : i \in 1 .. Len(output') /\ output'[i] = output[i]
           /\ \A i \in 1 .. Len(output') : i \in 1 .. Len(output) \/ i = Len(output) + 1
           /\ \A i \in 1 .. Len(output') : \A j \in 1 .. i - 1 : j \in 1 .. Len(output)
<1>1. Len(output) \in Nat
  BY DEF TypeOK
<1>2. QED
  BY <1>1 DEF Grew

\* What a step appends to the output.
LEMMA StepGrows ==
    ASSUME TypeOK
    PROVE  /\ \A code \in Codes : output' = Append(output, Error(code)) => Grew(Error(code))
           /\ output' = Append(output, Own) => Grew(Own)
           /\ \A n \in 1 .. Len(stream) : output' = Append(output, Response(n)) => Grew(Response(n))
<1>1. Len(stream) \in Nat
  BY DEF TypeOK
<1>2. QED
  BY <1>1, WrittenTypes, AppendGrows

\* What a dispatch does: the new entry of the history, and what it queues and writes.
LEMMA DispatchStep ==
    ASSUME TypeOK, FramesInOrder, TakenInOrder, Answering, QueueDrained, [Next]_vars, Consumed,
           NEW n, n = char.message, NEW k, k = Len(dispatched) + 1
    PROVE  /\ n \in 1 .. Len(stream) /\ k \in Nat /\ outQueue = <<>>
           /\ LastTaken' = n /\ LastTaken < n
           /\ Len(dispatched') = k /\ dispatched'[k].message = n
           /\ \A i \in 1 .. Len(dispatched) : dispatched'[i] = dispatched[i]
           /\ \/ dispatched'[k].to = "response" /\ outQueue' = <<Response(n)>>
              \/ dispatched'[k].to # "response" /\ outQueue' \in {<<>>, <<Own>>}
           /\ output' = output \/ \E code \in Codes : Grew(Error(code))
<1>0. n \in 1 .. Len(stream) /\ Len(dispatched) \in Nat
  <2>1. Dispatch
    BY DEF Consumed
  <2>2. MessageIn(content) # 0
    BY <2>1 DEF Dispatch
  <2>3. MessageIn(content) \in 1 .. Len(stream) /\ MessageIn(content) = n
    BY <2>1, <2>2, DispatchAtEnd, MessageInIsSent
  <2>4. QED
    BY <2>3 DEF TypeOK
<1>1. outQueue = <<>>
  BY DEF QueueDrained, Consumed
<1>2. LastTaken < n
  BY DEF TakenInOrder, Consumed
<1>3. /\ Len(dispatched') = k /\ dispatched'[k].message = n
      /\ \A i \in 1 .. Len(dispatched) : dispatched'[i] = dispatched[i]
      /\ \/ Served(n, stream[n], dispatched'[k].to)
         \/ Refused(n, stream[n], dispatched'[k].to)
  BY DispatchAppends, DispatchAtEnd DEF Consumed
<1>4. LastTaken' = n
  <2>1. dispatched' # dispatched
    BY <1>0, <1>3
  <2>2. QED
    BY <2>1, LastTakenNext
<1>5. Append(<<>>, Own) = <<Own>> /\ Append(<<>>, Response(n)) = <<Response(n)>>
  OBVIOUS
<1>6. /\ \/ dispatched'[k].to = "response" /\ outQueue' = <<Response(n)>>
         \/ dispatched'[k].to # "response" /\ outQueue' \in {<<>>, <<Own>>}
      /\ output' = output \/ \E code \in Codes : output' = Append(output, Error(code))
  BY <1>1, <1>3, <1>5 DEF Served, Refused, Codes
<1>7. QED
  BY <1>0, <1>1, <1>2, <1>3, <1>4, <1>6, StepGrows

\* What the draining of the queue does: its one message is written, or cannot be.
LEMMA WriteStep ==
    ASSUME TypeOK, TakenInOrder, Answering, WriteNext
    PROVE  /\ outQueue' = <<>>
           /\ \/ outQueue = <<Own>> /\ UNCHANGED unwritten /\ (Grew(Own) \/ output' = output)
              \/ /\ outQueue = <<Response(LastTaken)>>
                 /\ \/ Grew(Response(LastTaken)) /\ UNCHANGED unwritten
                    \/ /\ output' = output /\ stream[LastTaken].kind = "registered"
                       /\ unwritten' = unwritten \cup {LastTaken}
<1>1. outQueue \in {<<Own>>, <<Response(LastTaken)>>}
  BY DEF WriteNext, Answering, InTurn
<1>2. \A e : Head(<<e>>) = e /\ Tail(<<e>>) = <<>>
  OBVIOUS
<1>3. CASE outQueue = <<Own>>
  BY <1>2, <1>3, StepGrows, MessagesDiffer DEF WriteNext, Write, WriteFails
<1>4. CASE outQueue = <<Response(LastTaken)>>
  <2>1. LastTaken \in 1 .. Len(stream)
    BY <1>4, AnswerTypes
  <2>2. QED
    BY <1>2, <1>4, <2>1, StepGrows, MessagesDiffer DEF WriteNext, Write, WriteFails
<1>5. QED
  BY <1>1, <1>3, <1>4

\* Every step keeps the responses in turn.
LEMMA InTurnIsInductive ==
    ASSUME TypeOK, FramesInOrder, TakenInOrder, Answering, QueueDrained, [Next]_vars
    PROVE  InTurn'
<1> USE DEF InTurn
<1>0. /\ Len(output) \in Nat /\ Len(dispatched) \in Nat /\ LastTaken \in 0 .. Len(stream)
      /\ \A i \in 1 .. Len(output) : output[i].type = "response" => output[i].id \in 1 .. Len(stream)
      /\ InTurn
  BY AnswerTypes DEF Answering
<1>a. ASSUME NEW o, Grew(o), o.type # "response", LastTaken' \in Nat, LastTaken <= LastTaken',
             outQueue' \in {<<>>, <<Own>>, <<Response(LastTaken')>>},
             outQueue' # outQueue /\ outQueue' = <<Response(LastTaken')>> => LastTaken < LastTaken',
             outQueue' = outQueue => LastTaken' = LastTaken
      PROVE  InTurn'
  <2>1. ASSUME NEW i \in 1 .. Len(output'), output'[i].type = "response"
        PROVE  /\ output'[i].id <= LastTaken'
               /\ outQueue' = <<Response(LastTaken')>> => output'[i].id < LastTaken'
               /\ \A j \in 1 .. i - 1 : output'[j].type = "response" => output'[j].id < output'[i].id
    <3>1. i \in 1 .. Len(output) /\ output'[i] = output[i]
      BY <1>a, <2>1, GrownIndices
    <3>2. \A j \in 1 .. i - 1 : j \in 1 .. Len(output) /\ output'[j] = output[j]
      BY <1>a, GrownIndices
    <3>3. output[i].id \in 1 .. Len(stream) /\ output[i].id <= LastTaken
      BY <1>0, <2>1, <3>1
    <3>4. output[i].id <= LastTaken'
      BY <1>0, <1>a, <3>3
    <3>5. outQueue' = <<Response(LastTaken')>> => output[i].id < LastTaken'
      BY <1>0, <1>a, <2>1, <3>1, <3>3
    <3>6. \A j \in 1 .. i - 1 : output[j].type = "response" => output[j].id < output[i].id
      BY <1>0, <2>1, <3>1
    <3>7. QED
      BY <3>1, <3>2, <3>4, <3>5, <3>6
  <2>2. QED
    BY <1>a, <2>1
<1>1. CASE Quiet
  <2>1. outQueue' = outQueue /\ LastTaken' = LastTaken
    BY <1>1 DEF Quiet, LastTaken
  <2>2. output' = output \/ \E code \in Codes : Grew(Error(code))
    BY <1>1, StepGrows DEF Quiet, Codes
  <2>3. CASE output' = output
    BY <1>0, <2>1, <2>3
  <2>4. ASSUME NEW code \in Codes, Grew(Error(code)) PROVE InTurn'
    BY <1>0, <1>a, <2>1, <2>4, MessagesDiffer
  <2>5. QED
    BY <2>2, <2>3, <2>4
<1>2. CASE Drain /\ WriteNext /\ UNCHANGED <<dispatched, initialized, stream, result>>
  <2>1. LastTaken' = LastTaken
    BY <1>2 DEF LastTaken
  <2>2. outQueue' = <<>>
    BY <1>2, WriteStep
  <2>3. CASE output' = output
    BY <1>0, <2>1, <2>2, <2>3, MessagesDiffer
  <2>4. CASE Grew(Own)
    BY <1>0, <1>a, <2>1, <2>2, <2>4, MessagesDiffer
  <2>5. CASE outQueue = <<Response(LastTaken)>> /\ Grew(Response(LastTaken))
    <3>1. ASSUME NEW i \in 1 .. Len(output'), output'[i].type = "response"
          PROVE  /\ output'[i].id <= LastTaken'
                 /\ \A j \in 1 .. i - 1 : output'[j].type = "response" => output'[j].id < output'[i].id
      <4>1. \A j \in 1 .. i - 1 : j \in 1 .. Len(output) /\ output'[j] = output[j]
        BY <2>5, GrownIndices
      <4>2. CASE i \in 1 .. Len(output)
        <5>1. output'[i] = output[i]
          BY <2>5, <4>2, GrownIndices
        <5>2. QED
          BY <1>0, <2>1, <3>1, <4>1, <4>2, <5>1
      <4>3. CASE i = Len(output) + 1
        <5>1. output'[i] = Response(LastTaken)
          BY <2>5, <4>3, GrownIndices
        <5>2. output'[i].id = LastTaken
          BY <5>1, MessagesDiffer
        <5>3. \A j \in 1 .. Len(output) : output[j].type = "response" => output[j].id < LastTaken
          BY <1>0, <2>5
        <5>4. QED
          BY <1>0, <2>1, <4>1, <5>2, <5>3
      <4>4. QED
        BY <2>5, <4>2, <4>3, GrownIndices
    <3>2. QED
      BY <2>2, <3>1, MessagesDiffer
  <2>6. QED
    BY <1>2, <2>3, <2>4, <2>5, WriteStep
<1>3. CASE Consumed
  <2>1. PICK n, k : n = char.message /\ k = Len(dispatched) + 1
    OBVIOUS
  <2>2. /\ n \in 1 .. Len(stream) /\ LastTaken' = n /\ LastTaken < n
        /\ outQueue' \in {<<>>, <<Own>>, <<Response(n)>>}
        /\ output' = output \/ \E code \in Codes : Grew(Error(code))
    BY <1>3, <2>1, DispatchStep
  <2>3. CASE output' = output
    BY <1>0, <2>2, <2>3
  <2>4. ASSUME NEW code \in Codes, Grew(Error(code)) PROVE InTurn'
    <3>1. outQueue' = outQueue => outQueue' = <<>>
      BY <1>3, <2>1, DispatchStep
    <3>2. outQueue' # <<>> \/ InTurn'
      <4> SUFFICES ASSUME outQueue' = <<>> PROVE InTurn'
        OBVIOUS
      <4>1. ASSUME NEW i \in 1 .. Len(output'), output'[i].type = "response"
            PROVE  /\ output'[i].id <= LastTaken'
                   /\ \A j \in 1 .. i - 1 : output'[j].type = "response" => output'[j].id < output'[i].id
        <5>1. i \in 1 .. Len(output) /\ output'[i] = output[i]
          BY <2>4, <4>1, GrownIndices, MessagesDiffer
        <5>2. \A j \in 1 .. i - 1 : j \in 1 .. Len(output) /\ output'[j] = output[j]
          BY <2>4, GrownIndices
        <5>3. output[i].id \in 1 .. Len(stream) /\ output[i].id <= LastTaken
          BY <1>0, <4>1, <5>1
        <5>4. QED
          BY <1>0, <2>2, <4>1, <5>1, <5>2, <5>3
      <4>2. QED
        BY <4>1, MessagesDiffer
    <3>3. QED
      BY <1>0, <1>a, <2>2, <2>4, <3>1, <3>2, MessagesDiffer
  <2>5. QED
    BY <2>2, <2>3, <2>4
<1>4. QED
  BY <1>1, <1>2, <1>3, AnswerStep

\* The history keeps who is to have a response.
LEMMA RespondentStays ==
    ASSUME TypeOK, [Next]_vars, NEW n, Respondent(n)
    PROVE  Respondent(n)'
<1>1. PICK k \in 1 .. Len(dispatched) : ResponseFor(k) /\ dispatched[k].message = n
  BY DEF Respondent
<1>2. Len(dispatched) \in Nat
  BY DEF TypeOK
<1>3. k \in 1 .. Len(dispatched') /\ dispatched'[k] = dispatched[k]
  BY <1>1, <1>2, HistoryGrows, DispatchAppends
<1>4. QED
  BY <1>1, <1>3 DEF Respondent, ResponseFor

\* Every step keeps the responses warranted.
LEMMA WarrantedIsInductive ==
    ASSUME TypeOK, FramesInOrder, TakenInOrder, Answering, QueueDrained, [Next]_vars
    PROVE  Warranted'
<1>0. Len(output) \in Nat /\ Len(dispatched) \in Nat
  BY AnswerTypes
<1>b. \A n : Respondent(n) => Respondent(n)'
  BY RespondentStays
<1>c. /\ \A n : \A i \in 1 .. Len(output) : output[i].type = "response" /\ output[i].id = n => Respondent(n)'
      /\ \A n : outQueue = <<Response(n)>> => Respondent(n)'
  BY <1>b DEF Answering, Warranted
<1>1. ASSUME NEW o, Grew(o), \A n : o.type = "response" /\ o.id = n => Respondent(n)',
             \A n : outQueue' = <<Response(n)>> => Respondent(n)'
      PROVE  Warranted'
  <2>1. \A n : \A i \in 1 .. Len(output') : output'[i].type = "response" /\ output'[i].id = n => Respondent(n)'
    BY <1>1, <1>c, GrownIndices
  <2>2. QED
    BY <1>1, <2>1 DEF Warranted
<1>2. ASSUME output' = output, \A n : outQueue' = <<Response(n)>> => Respondent(n)'
      PROVE  Warranted'
  <2>1. \A n : \A i \in 1 .. Len(output') : output'[i].type = "response" /\ output'[i].id = n => Respondent(n)'
    BY <1>2, <1>c
  <2>2. QED
    BY <1>2, <2>1 DEF Warranted
<1>3. CASE Quiet
  <2>1. \A n : outQueue' = <<Response(n)>> => Respondent(n)'
    BY <1>c, <1>3 DEF Quiet
  <2>2. output' = output \/ \E code \in Codes : Grew(Error(code))
    BY <1>3, StepGrows DEF Quiet, Codes
  <2>3. QED
    BY <1>1, <1>2, <2>1, <2>2, MessagesDiffer
<1>4. CASE Drain /\ WriteNext /\ UNCHANGED <<dispatched, initialized, stream, result>>
  <2>1. \A n : outQueue' # <<Response(n)>>
    BY <1>4, WriteStep, MessagesDiffer
  <2>2. \/ output' = output \/ Grew(Own)
        \/ outQueue = <<Response(LastTaken)>> /\ Grew(Response(LastTaken))
    BY <1>4, WriteStep
  <2>3. QED
    BY <1>c, <1>1, <1>2, <2>1, <2>2, MessagesDiffer
<1>5. CASE Consumed
  <2>1. PICK n, k : n = char.message /\ k = Len(dispatched) + 1
    OBVIOUS
  <2>2. /\ k \in Nat /\ Len(dispatched') = k /\ dispatched'[k].message = n
        /\ \/ dispatched'[k].to = "response" /\ outQueue' = <<Response(n)>>
           \/ dispatched'[k].to # "response" /\ outQueue' \in {<<>>, <<Own>>}
        /\ output' = output \/ \E code \in Codes : Grew(Error(code))
    BY <1>5, <2>1, DispatchStep
  <2>3. k \in 1 .. Len(dispatched')
    BY <1>0, <2>1, <2>2
  <2>4. \A j : outQueue' = <<Response(j)>> => Respondent(j)'
    BY <2>2, <2>3, MessagesDiffer DEF Respondent, ResponseFor
  <2>5. QED
    BY <1>1, <1>2, <2>2, <2>4, MessagesDiffer
<1>6. QED
  BY <1>3, <1>4, <1>5, AnswerStep

\* What is written stays so.
LEMMA WrittenStays ==
    ASSUME TypeOK, NEW n, Responded(n), output' = output \/ \E o : Grew(o)
    PROVE  Responded(n)'
<1>1. CASE output' = output
  BY <1>1 DEF Responded
<1>2. ASSUME NEW o, Grew(o) PROVE Responded(n)'
  BY <1>2, GrownIndices DEF Responded
<1>3. QED
  BY <1>1, <1>2

\* Every step keeps the responses that are owed.
LEMMA OwedIsInductive ==
    ASSUME TypeOK, FramesInOrder, TakenInOrder, Answering, QueueDrained, [Next]_vars
    PROVE  Owed'
<1> DEFINE Settled(n) == \/ outQueue = <<Response(n)>>
                         \/ Responded(n)
                         \/ stream[n].kind = "registered" /\ n \in unwritten
<1>0. /\ Len(dispatched) \in Nat
      /\ \A i \in 1 .. Len(dispatched) : dispatched[i].message \in 1 .. Len(stream)
      /\ \A n \in 1 .. Len(stream) : stream'[n] = stream[n]
      /\ \A i \in 1 .. Len(dispatched) : ResponseFor(i) => Settled(dispatched[i].message)
      /\ Len(output) \in Nat
  BY AnswerTypes, HistoryGrows DEF Answering, Owed
<1>1. ASSUME dispatched' = dispatched,
             \A n \in 1 .. Len(stream) : Settled(n) => Settled(n)'
      PROVE  Owed'
  BY <1>0, <1>1 DEF Owed, ResponseFor
<1>2. CASE Quiet
  <2>1. output' = output \/ \E o : Grew(o)
    BY <1>2, StepGrows DEF Quiet, Codes
  <2>2. UNCHANGED <<outQueue, unwritten, dispatched>>
    BY <1>2 DEF Quiet
  <2>3. QED
    BY <1>0, <1>1, <2>1, <2>2, WrittenStays
<1>3. CASE Drain /\ WriteNext /\ UNCHANGED <<dispatched, initialized, stream, result>>
  <2>1. \/ outQueue = <<Own>> /\ UNCHANGED unwritten /\ (Grew(Own) \/ output' = output)
        \/ /\ outQueue = <<Response(LastTaken)>>
           /\ \/ Grew(Response(LastTaken)) /\ UNCHANGED unwritten
              \/ /\ output' = output /\ stream[LastTaken].kind = "registered"
                 /\ unwritten' = unwritten \cup {LastTaken}
    BY <1>3, WriteStep
  <2>2. \A n : Responded(n) => Responded(n)'
    BY <2>1, WrittenStays
  <2>3. \A n : n = LastTaken /\ Grew(Response(n)) => Responded(n)'
    BY GrownIndices DEF Responded
  <2>4. ASSUME NEW n \in 1 .. Len(stream), Settled(n) PROVE Settled(n)'
    <3>1. CASE outQueue = <<Response(n)>>
      <4>1. n = LastTaken
        BY <2>1, <3>1, MessagesDiffer
      <4>2. QED
        <5>1. Grew(Response(LastTaken)) \/ (stream[n].kind = "registered" /\ n \in unwritten')
          BY <2>1, <3>1, <4>1, MessagesDiffer
        <5>2. QED
          BY <1>3, <2>3, <4>1, <5>1
    <3>2. CASE Responded(n)
      BY <2>2, <3>2
    <3>3. CASE stream[n].kind = "registered" /\ n \in unwritten
      BY <1>3, <2>1, <3>3
    <3>4. QED
      BY <2>4, <3>1, <3>2, <3>3
  <2>5. QED
    BY <1>1, <1>3, <2>4
<1>4. CASE Consumed
  <2>1. PICK n, k : n = char.message /\ k = Len(dispatched) + 1
    OBVIOUS
  <2>2. /\ outQueue = <<>> /\ Len(dispatched') = k /\ dispatched'[k].message = n
        /\ \A i \in 1 .. Len(dispatched) : dispatched'[i] = dispatched[i]
        /\ dispatched'[k].to = "response" => outQueue' = <<Response(n)>>
        /\ output' = output \/ \E o : Grew(o)
    BY <1>4, <2>1, DispatchStep
  <2>3. UNCHANGED <<stream, unwritten>>
    BY <1>4 DEF Consumed
  <2>4. ASSUME NEW i \in 1 .. Len(dispatched'), ResponseFor(i)',
               NEW m, m = dispatched'[i].message
        PROVE  Settled(m)'
    <3>1. CASE i = k
      BY <2>2, <2>4, <3>1 DEF ResponseFor
    <3>2. CASE i \in 1 .. Len(dispatched)
      <4>1. m = dispatched[i].message /\ ResponseFor(i)
        BY <2>2, <2>4, <3>2 DEF ResponseFor
      <4>2. Settled(m) /\ outQueue # <<Response(m)>>
        BY <1>0, <2>2, <3>2, <4>1, MessagesDiffer
      <4>3. Responded(m) => Responded(m)'
        BY <2>2, WrittenStays
      <4>4. QED
        BY <2>3, <4>2, <4>3
    <3>3. QED
      BY <1>0, <2>1, <2>2, <3>1, <3>2
  <2>5. QED
    BY <2>4 DEF Owed
<1>5. QED
  BY <1>2, <1>3, <1>4, AnswerStep

\* So all three are invariants.
LEMMA AnsweringHolds == Spec => []Answering
<1>1. Init => Answering
  BY EmptySeq, MessagesDiffer DEF Init, Answering, InTurn, Warranted, Owed
<1>2. TypeOK /\ FramesInOrder /\ TakenInOrder /\ QueueDrained /\ Answering /\ [Next]_vars => Answering'
  BY InTurnIsInductive, WarrantedIsInductive, OwedIsInductive DEF Answering
<1>3. QED
  BY <1>1, <1>2, TypeCorrect, FramesInOrderHolds, TakenInOrderHolds, QueueDrainedHolds, PTL DEF Spec

\* Responses are written in the order of the requests, one for each whose handler
\* queued one and for no other, and none is late: when the server waits for input
\* only those are missing that Write could not dump.  So it is whatever was sent,
\* however malformed, and however the steps interleave.
THEOREM ResponsesAreWrittenOnce == Spec => []AnsweredOnce
<1>1. TypeOK /\ QueueDrained /\ Answering => AnsweredOnce
  <2> SUFFICES ASSUME TypeOK, QueueDrained, Answering PROVE AnsweredOnce
    OBVIOUS
  <2>1. DOMAIN dispatched = 1 .. Len(dispatched) /\ DOMAIN output = 1 .. Len(output)
    BY DEF TypeOK
  <2>2. \A i \in 1 .. Len(output) : output[i].type = "response" =>
          /\ \E k \in 1 .. Len(dispatched) : ResponseFor(k) /\ dispatched[k].message = output[i].id
          /\ \A j \in 1 .. i - 1 : output[j].type = "response" => output[j].id < output[i].id
    BY DEF Answering, InTurn, Warranted, Respondent
  <2>3. \A k \in 1 .. Len(dispatched) : pc = "read" /\ ResponseFor(k) =>
          \/ Responded(dispatched[k].message)
          \/ /\ stream[dispatched[k].message].kind = "registered"
             /\ dispatched[k].message \in unwritten
    BY MessagesDiffer DEF Answering, Owed, QueueDrained
  <2>4. QED
    BY <2>1, <2>2, <2>3 DEF AnsweredOnce, Responded
<1>2. QED
  BY <1>1, TypeCorrect, QueueDrainedHolds, AnsweringHolds, PTL

-----------------------------------------------------------------------------
(* The session begins with initialize. *)

\* An initialize was taken up whose response, if its handler queued one, is among
\* the first i messages written.
Greeted(i) ==
    \E k \in 1 .. Len(dispatched) :
      /\ Initialize(k)
      /\ ResponseFor(k) => \E j \in 1 .. i : output[j] = Response(dispatched[k].message)

Begun ==
    /\ initialized => \E k \in 1 .. Len(dispatched) : Initialize(k)
    /\ ~initialized => /\ outQueue = <<>>
                       /\ \A i \in 1 .. Len(output) : output[i] \in ProtocolErrors
    /\ \A i \in 1 .. Len(output) : output[i] \notin ProtocolErrors => Greeted(i)
    /\ \A i \in 1 .. Len(output) : \A j \in 1 .. i :
         output[i] = Error("NotInitialized") => output[j] \in ProtocolErrors
    /\ result \in {"EXIT_SUCCESS", "EXIT_FAILURE"} => initialized

\* The codes of errors tell them apart.
LEMMA ErrorsDiffer ==
    \A code, other : Error(code) = Error(other) => code = other
<1>1. \A code : Error(code).error = code
  BY DEF Error
<1>2. QED
  BY <1>1

\* Once the server is initialized and nothing is queued, all that is written is
\* behind the response to an initialize.
LEMMA GreetedBeforehand ==
    ASSUME TypeOK, Begun, Answering, initialized, outQueue \in {<<>>, <<Own>>}
    PROVE  Greeted(Len(output))
<1>1. PICK k \in 1 .. Len(dispatched) : Initialize(k)
  BY DEF Begun
<1>2. ResponseFor(k) => Responded(dispatched[k].message)
  BY <1>1, MessagesDiffer DEF Answering, Owed, Initialize
<1>3. QED
  BY <1>1, <1>2 DEF Greeted, Responded

\* An initialize stays taken up, and its response stays written.
LEMMA GreetedStays ==
    ASSUME TypeOK, [Next]_vars, NEW i \in Nat, i <= Len(output), Greeted(i),
           output' = output \/ \E o : Grew(o), NEW j \in Nat, i <= j
    PROVE  Greeted(j)'
<1>1. PICK k \in 1 .. Len(dispatched) :
        /\ Initialize(k)
        /\ ResponseFor(k) => \E l \in 1 .. i : output[l] = Response(dispatched[k].message)
  BY DEF Greeted
<1>2. Len(dispatched) \in Nat /\ Len(output) \in Nat
  BY DEF TypeOK
<1>3. k \in 1 .. Len(dispatched') /\ dispatched'[k] = dispatched[k]
  BY <1>1, <1>2, HistoryGrows, DispatchAppends
<1>4. stream'[dispatched[k].message] = stream[dispatched[k].message]
  BY <1>1, HistoryGrows
<1>5. \A l \in 1 .. i : l \in 1 .. j /\ output'[l] = output[l]
  BY <1>2, GrownIndices
<1>6. QED
  BY <1>1, <1>3, <1>4, <1>5 DEF Greeted, Initialize, ResponseFor

\* Every step keeps the beginning of the session.
LEMMA BegunIsInductive ==
    ASSUME TypeOK, FramesInOrder, TakenInOrder, QueueDrained, Answering, Begun, [Next]_vars,
           NEW l \in Nat, l = Len(output) + 1
    PROVE  Begun'
<1>0. /\ Len(output) \in Nat /\ Len(dispatched) \in Nat
      /\ \A k \in 1 .. Len(dispatched) : Initialize(k) => Initialize(k)' /\ k \in 1 .. Len(dispatched')
  <2>1. Len(output) \in Nat /\ Len(dispatched) \in Nat
    BY DEF TypeOK
  <2>2. \A k \in 1 .. Len(dispatched) : k \in 1 .. Len(dispatched') /\ dispatched'[k] = dispatched[k]
    BY <2>1, HistoryGrows, DispatchAppends
  <2>3. QED
    BY <2>1, <2>2, HistoryGrows DEF Initialize
\* What is written next is a protocol error, or behind the response to initialize.
<1>1. ASSUME output' = output \/ \E o : Grew(o) /\ (o \in ProtocolErrors \/ Greeted(l)'),
             NEW i \in 1 .. Len(output'), output'[i] \notin ProtocolErrors
      PROVE  Greeted(i)'
  <2>1. CASE i \in 1 .. Len(output) /\ output'[i] = output[i]
    <3>1. Greeted(i) /\ i \in Nat /\ i <= i /\ i <= Len(output)
      BY <1>0, <1>1, <2>1 DEF Begun
    <3>2. QED
      BY <1>1, <3>1, GreetedStays
  <2>2. ASSUME NEW o, Grew(o), i = l, o \in ProtocolErrors \/ Greeted(l)'
        PROVE  Greeted(i)'
    <3>1. Greeted(l)'
      BY <1>1, <2>2, GrownIndices
    <3>2. QED
      BY <2>2, <3>1 DEF Greeted
  <2>3. QED
    BY <1>1, <2>1, <2>2, GrownIndices
\* The refusal is written only while nothing else was.
<1>2. ASSUME \/ output' = output
             \/ \E o : Grew(o) /\ (o = Error("NotInitialized") => ~initialized)
      PROVE  \A i \in 1 .. Len(output') : \A j \in 1 .. i :
               output'[i] = Error("NotInitialized") => output'[j] \in ProtocolErrors
  <2>1. CASE output' = output
    BY <2>1 DEF Begun
  <2>2. ASSUME NEW o, Grew(o), o = Error("NotInitialized") => ~initialized,
               NEW i \in 1 .. Len(output'), NEW j \in 1 .. i, output'[i] = Error("NotInitialized")
        PROVE  output'[j] \in ProtocolErrors
    <3>1. CASE i \in 1 .. Len(output)
      <4>1. j \in 1 .. Len(output) /\ output'[i] = output[i] /\ output'[j] = output[j]
        BY <1>0, <2>2, <3>1, GrownIndices
      <4>2. QED
        BY <2>2, <3>1, <4>1 DEF Begun
    <3>2. CASE i = l
      <4>1. o = Error("NotInitialized") /\ ~initialized
        BY <2>2, <3>2, GrownIndices
      <4>2. CASE j = i
        BY <2>2, <4>2 DEF ProtocolErrors
      <4>3. CASE j \in 1 .. Len(output)
        BY <2>2, <4>1, <4>3, GrownIndices DEF Begun
      <4>4. QED
        BY <1>0, <3>2, <4>2, <4>3
    <3>3. QED
      BY <2>2, <3>1, <3>2, GrownIndices
  <2>3. QED
    BY <1>2, <2>1, <2>2
<1>3. CASE Quiet
  <2>1. output' = output \/ \E o : Grew(o) /\ o \in ProtocolErrors /\ o # Error("NotInitialized")
    BY <1>3, StepGrows, ErrorsDiffer DEF Quiet, Codes, ProtocolErrors
  <2>2. ~initialized => \A i \in 1 .. Len(output') : output'[i] \in ProtocolErrors
    BY <2>1, GrownIndices DEF Begun
  <2>3. UNCHANGED <<outQueue, dispatched, initialized>>
        /\ (result' \in {"EXIT_SUCCESS", "EXIT_FAILURE"} => result' = result)
    BY <1>3 DEF Quiet
  <2>4. \A i \in 1 .. Len(output') : output'[i] \notin ProtocolErrors => Greeted(i)'
    BY <1>1, <2>1
  <2>5. \A i \in 1 .. Len(output') : \A j \in 1 .. i :
          output'[i] = Error("NotInitialized") => output'[j] \in ProtocolErrors
    BY <1>2, <2>1
  <2>6. initialized' => \E k \in 1 .. Len(dispatched') : Initialize(k)'
    BY <1>0, <2>3 DEF Begun
  <2>7. ProtocolErrors' = ProtocolErrors
    BY DEF ProtocolErrors
  <2>8. QED
    BY <2>2, <2>3, <2>4, <2>5, <2>6, <2>7 DEF Begun
<1>4. CASE Drain /\ WriteNext /\ UNCHANGED <<dispatched, initialized, stream, result>>
  <2>1. initialized
    BY <1>4 DEF Begun, WriteNext
  <2>2. output' = output \/ Grew(Own) \/ (outQueue = <<Response(LastTaken)>> /\ Grew(Response(LastTaken)))
    BY <1>4, WriteStep
  <2>3. ASSUME Grew(Own) PROVE Greeted(l)'
    <3>1. outQueue = <<Own>>
      <4>1. output' # output /\ ~Grew(Response(LastTaken))
        BY <1>0, <2>3, MessagesDiffer DEF Grew
      <4>2. QED
        BY <1>4, <4>1, WriteStep
    <3>2. Greeted(Len(output))
      BY <2>1, <3>1, GreetedBeforehand
    <3>3. PICK i \in Nat : i = Len(output)
      BY <1>0
    <3>4. QED
      BY <2>3, <3>2, <3>3, GreetedStays
  <2>4. ASSUME outQueue = <<Response(LastTaken)>>, Grew(Response(LastTaken)) PROVE Greeted(l)'
    <3>1. PICK k \in 1 .. Len(dispatched) : Initialize(k)
      BY <2>1 DEF Begun
    <3>2. ResponseFor(k) => Responded(dispatched[k].message) \/ dispatched[k].message = LastTaken
      BY <2>4, <3>1, MessagesDiffer DEF Answering, Owed, Initialize
    <3>3. /\ l \in 1 .. l /\ output'[l] = Response(LastTaken)
          /\ \A i \in 1 .. Len(output) : i \in 1 .. l /\ output'[i] = output[i]
      BY <1>0, <2>4, GrownIndices
    <3>4. ResponseFor(k) => \E i \in 1 .. l : output'[i] = Response(dispatched[k].message)
      BY <3>2, <3>3 DEF Responded
    <3>5. dispatched' = dispatched /\ Initialize(k)' /\ k \in 1 .. Len(dispatched')
      BY <1>0, <1>4, <3>1
    <3>6. QED
      BY <3>4, <3>5 DEF Greeted, ResponseFor
  <2>5. \A i \in 1 .. Len(output') : output'[i] \notin ProtocolErrors => Greeted(i)'
    BY <1>1, <2>2, <2>3, <2>4
  <2>6. \A i \in 1 .. Len(output') : \A j \in 1 .. i :
          output'[i] = Error("NotInitialized") => output'[j] \in ProtocolErrors
    BY <1>2, <2>2, MessagesDiffer
  <2>7. initialized' => \E k \in 1 .. Len(dispatched') : Initialize(k)'
    BY <1>0, <1>4 DEF Begun
  <2>8. QED
    BY <1>4, <2>1, <2>5, <2>6, <2>7 DEF Begun, ProtocolErrors
<1>5. CASE Consumed
  <2>1. PICK n, k : n = char.message /\ k = Len(dispatched) + 1
    OBVIOUS
  <2>2. /\ outQueue = <<>> /\ Len(dispatched') = k /\ dispatched'[k].message = n /\ k \in Nat
    BY <1>5, <2>1, DispatchStep
  <2>3. \/ Served(n, stream[n], dispatched'[k].to)
        \/ Refused(n, stream[n], dispatched'[k].to)
    BY <1>5, <2>1, DispatchAppends, DispatchAtEnd DEF Consumed
  <2>4. initialized => Greeted(l)' \/ output' = output
    <3>1. SUFFICES ASSUME initialized, output' # output PROVE Greeted(l)'
      OBVIOUS
    <3>2. Greeted(Len(output))
      BY <2>2, <3>1, GreetedBeforehand
    <3>3. \E o : Grew(o)
      BY <1>5, <2>1, <3>1, DispatchStep
    <3>4. PICK i \in Nat : i = Len(output)
      BY <1>0
    <3>5. QED
      BY <3>2, <3>3, <3>4, GreetedStays
  <2>5. /\ \/ output' = output
           \/ initialized /\ Grew(Error("InternalError"))
           \/ initialized /\ Grew(Error("MethodNotFound"))
           \/ ~initialized /\ ~initialized' /\ Grew(Error("NotInitialized"))
        /\ ~initialized' => ~initialized /\ outQueue' = <<>>
    BY <2>2, <2>3, StepGrows DEF Served, Refused, Gate, Codes
  <2>6. initialized' => \E i \in 1 .. Len(dispatched') : Initialize(i)'
    <3>1. CASE stream[n].kind = "initialize"
      <4>1. k \in 1 .. Len(dispatched') /\ stream' = stream
        BY <1>0, <1>5, <2>1, <2>2 DEF Consumed
      <4>2. QED
        BY <2>2, <3>1, <4>1 DEF Initialize
    <3>2. CASE initialized
      BY <1>0, <3>2 DEF Begun
    <3>3. QED
      BY <2>3, <3>1, <3>2 DEF Served, Refused, Gate
  <2>7. Error("NotInitialized") \in ProtocolErrors /\ ProtocolErrors' = ProtocolErrors
    BY DEF ProtocolErrors
  <2>8. \A i \in 1 .. Len(output') : output'[i] \notin ProtocolErrors => Greeted(i)'
    BY <1>1, <2>4, <2>5, <2>7
  <2>9. \A i \in 1 .. Len(output') : \A j \in 1 .. i :
          output'[i] = Error("NotInitialized") => output'[j] \in ProtocolErrors
    BY <1>2, <2>5, ErrorsDiffer
  <2>10. ~initialized' => /\ outQueue' = <<>>
                          /\ \A i \in 1 .. Len(output') : output'[i] \in ProtocolErrors
    BY <2>5, <2>7, GrownIndices DEF Begun
  <2>11. result' \in {"EXIT_SUCCESS", "EXIT_FAILURE"} => initialized'
    BY <2>3 DEF Served, Refused, Begun
  <2>12. QED
    BY <2>6, <2>7, <2>8, <2>9, <2>10, <2>11 DEF Begun
<1>6. QED
  BY <1>3, <1>4, <1>5, AnswerStep

\* Until an initialize was taken up and answered, unless its handler failed, the
\* client gets protocol errors only and no exit is served, and then it is never
\* again told that the server is not initialized, whatever it sends and in whatever
\* order.
THEOREM InitializeComesFirst == Spec => []InitializeAnsweredFirst
<1>1. Init => Begun
  BY EmptySeq DEF Init, Begun
<1>2. TypeOK /\ FramesInOrder /\ TakenInOrder /\ QueueDrained /\ Answering /\ Begun /\ [Next]_vars => Begun'
  <2> SUFFICES ASSUME TypeOK, FramesInOrder, TakenInOrder, QueueDrained, Answering, Begun, [Next]_vars
               PROVE  Begun'
    OBVIOUS
  <2>1. PICK l \in Nat : l = Len(output) + 1
    BY DEF TypeOK
  <2>2. QED
    BY <2>1, BegunIsInductive
<1>3. TypeOK /\ Begun => InitializeAnsweredFirst
  <2> SUFFICES ASSUME TypeOK, Begun PROVE InitializeAnsweredFirst
    OBVIOUS
  <2>1. DOMAIN dispatched = 1 .. Len(dispatched) /\ DOMAIN output = 1 .. Len(output)
    BY DEF TypeOK
  <2>2. QED
    BY <2>1 DEF Begun, Greeted, ResponseFor, InitializeAnsweredFirst
<1>4. QED
  BY <1>1, <1>2, <1>3, TypeCorrect, FramesInOrderHolds, TakenInOrderHolds, QueueDrainedHolds,
     AnsweringHolds, PTL DEF Spec

-----------------------------------------------------------------------------
(* The framing.  A parser that has seen no malformed message is where the       *)
(* client is in its stream.                                                    *)

GoodUpTo(n) == \A i \in 1 .. n : WellFormed(stream[i])

HeaderPending == ~validHeader /\ buffer = <<>>
BodyPending(n, k) ==
    /\ validHeader /\ contentLength = stream[n].size
    /\ buffer = [i \in 1 .. k |-> Piece(n, i, contentLength)]

\* Where the parser is before char is consumed, and after it.
Before ==
    /\ char.type \in {"length", "nonumber"} => HeaderPending
    /\ char.type = "blank" => HeaderPending /\ contentLength = stream[char.message].size
    /\ char.type = "body" => BodyPending(char.message, char.piece - 1)
After ==
    /\ EndsFrame(stream, char) => HeaderPending
    /\ char.type = "length" => HeaderPending /\ contentLength = stream[char.message].size
    /\ char.type = "blank" /\ ~EndsFrame(stream, char) => BodyPending(char.message, 0)
    /\ char.type = "body" /\ ~EndsFrame(stream, char) => BodyPending(char.message, char.piece)

\* The header of the first malformed message still finds the parser in step, and
\* if its length is no number it is the last the server reads.
InSyncAt(n) ==
    /\ GoodUpTo(n) =>
         /\ pc = "consume" => Before
         /\ pc = "read" => After
         /\ pc = "drain" => EndsFrame(stream, char) /\ (isProcessing => HeaderPending)
    /\ GoodUpTo(n - 1) /\ pc = "consume" /\ char.type \in {"length", "nonumber"} => HeaderPending
    /\ n # 0 /\ GoodUpTo(n - 1) /\ stream[n].kind = "unmeasured" =>
         pc = "stopped" \/ (pc = "consume" /\ char.type = "nonumber")
InSync == \A n \in 0 .. Len(stream) : n = char.message => InSyncAt(n)

\* Every message of the well-formed prefix whose last unit is consumed was taken up.
NoneSkipped ==
    \A n \in 1 .. Len(stream) :
        GoodUpTo(n) /\ (n < char.message
                          \/ (n = char.message /\ EndsFrame(stream, char) /\ pc \in {"read", "drain"}))
        => n <= LastTaken

\* In step, the buffer and the piece of a body read last are that body so far.
LEMMA GoodBody ==
    ASSUME TypeOK, FramesInOrder, InSync, pc = "consume", GoodUpTo(char.message), char.type = "body"
    PROVE  /\ validHeader /\ contentLength = char.of /\ Len(content) = char.piece
           /\ char.of = stream[char.message].size
           /\ content = [i \in 1 .. char.piece |-> Piece(char.message, i, contentLength)]
           /\ Len(content) = contentLength => MessageIn(content) = char.message /\ char.message # 0
<1> DEFINE n == char.message
           k == char.piece
           of == char.of
<1>1. /\ n \in 1 .. Len(stream) /\ k \in 1 .. of /\ of \in Nat /\ of = stream[n].size
      /\ char = Piece(n, k, of) /\ stream[n] \in Messages
  BY CharIsUnit, UnitFields, MessagesAssumption DEF TypeOK
<1>2. BodyPending(n, k - 1)
  <2>1. n \in 0 .. Len(stream)
    BY CharIsUnit, UnitFields
  <2>2. QED
    BY <2>1 DEF InSync, InSyncAt, Before
<1> HIDE DEF n, k, of
<1>3. validHeader /\ contentLength = of /\ buffer = [i \in 1 .. k - 1 |-> Piece(n, i, of)]
  BY <1>1, <1>2 DEF BodyPending
<1>4. buffer \in Seq(UnitsUpTo(Len(stream))) /\ Len(buffer) = k - 1
  BY <1>1, <1>3 DEF TypeOK
<1>5. /\ content \in Seq(UnitsUpTo(Len(stream))) /\ Len(content) = k /\ content[k] = char
      /\ \A i \in 1 .. k - 1 : content[i] = Piece(n, i, of)
  <2>1. /\ content \in Seq(UnitsUpTo(Len(stream))) /\ Len(content) = (k - 1) + 1
        /\ content[(k - 1) + 1] = char /\ \A i \in 1 .. k - 1 : content[i] = buffer[i]
    <3>1. char \in UnitsUpTo(Len(stream))
      BY DEF TypeOK
    <3>2. QED
      BY <1>4, <3>1, AppendProperties DEF content
  <2>2. (k - 1) + 1 = k
    BY <1>1
  <2>3. QED
    BY <1>3, <2>1, <2>2
<1> HIDE DEF content
<1>6. content = [i \in 1 .. k |-> Piece(n, i, of)]
  BY <1>1, <1>5
<1>7. ASSUME k = of PROVE MessageIn(content) = n
  <2>1. content[1] = Piece(n, 1, of) /\ content = Body(n, of)
    BY <1>1, <1>6, <1>7 DEF Body
  <2>2. content[1].message = n /\ content[1].type = "body" /\ content[1].of = of
    BY <2>1 DEF Piece
  <2>3. stream[n].kind # "garbage"
    BY <1>1 DEF GoodUpTo, WellFormed, n
  <2>4. QED
    BY <2>1, <2>2, <2>3 DEF MessageIn
<1>8. QED
  BY <1>1, <1>3, <1>5, <1>6, <1>7 DEF n, k, of

\* The parts of a step that the framing depends on.
LEMMA PrefixStays ==
    ASSUME TypeOK, FramesInOrder, [Next]_vars, NEW n \in 0 .. Len(stream)
    PROVE  /\ GoodUpTo(n)' <=> GoodUpTo(n)
           /\ n # 0 => stream'[n] = stream[n] /\ n \in 1 .. Len(stream)
<1>1. \A i \in 1 .. Len(stream) : stream'[i] = stream[i]
  BY HistoryGrows
<1>2. Len(stream) \in Nat
  BY DEF TypeOK
<1>3. \A i \in 1 .. n : i \in 1 .. Len(stream)
  BY <1>2
<1>4. QED
  BY <1>1, <1>2, <1>3 DEF GoodUpTo

\* In a well-formed prefix the buffer holds the units of one frame since its last part.
LEMMA InSyncIsInductive ==
    ASSUME TypeOK, FramesInOrder, TakenInOrder, InSync, [Next]_vars
    PROVE  InSync'
<1>0. PICK n \in 0 .. Len(stream) : n = char.message
  BY CharIsUnit, UnitFields
<1>1. /\ char \in UnitsOf(stream) /\ stream \in Seq(Messages) /\ Len(stream) \in Nat
      /\ char.type \in {"length", "nonumber", "blank", "body"}
      /\ char.type \in {"length", "nonumber"} => n # 0 /\ char = Length(n, stream[n])
      /\ char.type = "blank" => char = Blank(n)
      /\ char.type = "body" => n # 0 /\ char.piece \in 1 .. char.of /\ char.of = stream[n].size
      /\ n # 0 => stream[n] \in Messages /\ stream[n].size \in Nat
  BY <1>0, CharIsUnit, UnitFields, MessagesAssumption DEF TypeOK
<1>2. /\ char.type \in {"length", "nonumber"} =>
           /\ ~EndsFrame(stream, char)
           /\ char.type = "nonumber" <=> stream[n].kind = "unmeasured"
           /\ char.type = "length" => char.value = stream[n].size
      /\ n # 0 /\ GoodUpTo(n) => WellFormed(stream[n])
      /\ n # 0 /\ GoodUpTo(n) => GoodUpTo(n - 1)
  <2>1. \A m : /\ Length(n, m).type = "nonumber" <=> m.kind = "unmeasured"
               /\ Length(n, m).type = "length" => Length(n, m).value = m.size
    BY DEF Length
  <2>2. char.type \in {"length", "nonumber"} => ~EndsFrame(stream, char)
    BY <1>0, <1>1 DEF EndsFrame
  <2>3. n # 0 => n \in 1 .. n /\ \A i \in 1 .. n - 1 : i \in 1 .. n
    BY <1>1
  <2>4. QED
    BY <1>1, <2>1, <2>2, <2>3 DEF GoodUpTo
<1>3. CASE Read
  <2>1. PICK k \in 0 .. Len(stream) : k = char'.message
    <3>1. char'.message \in 0 .. Len(stream)
      BY <1>1, <1>3, CharIsUnit, UnitFields
    <3>2. QED
      BY <3>1
  <2>2. Follows(stream, char, char') /\ char' \in UnitsOf(stream) /\ UNCHANGED <<stream, parser>>
        /\ pc = "read" /\ pc' \in {"consume", "stopped"}
    BY <1>3, CharIsUnit DEF Read
  <2>3. \/ EndsFrame(stream, char) /\ k = n + 1 /\ char' = Length(k, stream[k])
        \/ ~EndsFrame(stream, char) /\ k = n /\ char'.type \in {"blank", "body"} /\ n # 0
    <3>1. ~EndsFrame(stream, char) => n # 0
      BY <1>0 DEF EndsFrame
    <3>2. /\ EndsFrame(stream, char) => k = n + 1 /\ char'.type \in {"length", "nonumber"}
          /\ ~EndsFrame(stream, char) => k = n /\ char'.type \in {"blank", "body"}
      BY <1>0, <1>1, <2>1, <2>2, NextMessage
    <3>3. char'.type \in {"length", "nonumber"} => char' = Length(k, stream[k])
      BY <1>1, <2>1, <2>2, UnitFields
    <3>4. QED
      BY <3>1, <3>2, <3>3
  <2>4. /\ EndsFrame(stream, char) => k = n + 1 /\ k # 0 /\ k - 1 = n
        /\ ~EndsFrame(stream, char) => k = n /\ k # 0
    BY <2>3
  <2>5. InSyncAt(n) /\ \A i \in {n, n - 1, k, k - 1} : GoodUpTo(i)' <=> GoodUpTo(i)
    BY <1>0, <2>2 DEF InSync, GoodUpTo
  <2>6. ASSUME GoodUpTo(k) PROVE GoodUpTo(n) /\ WellFormed(stream[k])
    BY <2>6, <2>4, <1>1 DEF GoodUpTo
  <2>7. ASSUME GoodUpTo(k - 1), char'.type \in {"length", "nonumber"} PROVE HeaderPending'
    <3>1. EndsFrame(stream, char) /\ k - 1 = n
      BY <2>3, <2>4, <2>7
    <3>2. HeaderPending
      BY <2>2, <2>7, <3>1, <2>5 DEF InSyncAt, After
    <3>3. QED
      BY <2>2, <3>2 DEF HeaderPending, parser
  <2>8. ASSUME GoodUpTo(k), pc' = "consume" PROVE Before'
    <3>1. After /\ GoodUpTo(n)
      BY <2>2, <2>5, <2>6, <2>8 DEF InSyncAt
    <3>2. CASE EndsFrame(stream, char)
      <4>1. char'.type \in {"length", "nonumber"} /\ HeaderPending
        BY <2>3, <3>1, <3>2 DEF After, Length
      <4>2. QED
        BY <2>2, <4>1 DEF Before, HeaderPending, parser
    <3>3. CASE ~EndsFrame(stream, char) /\ char.type = "length"
      <4>1. char' = Blank(n) /\ HeaderPending /\ contentLength = stream[n].size
        BY <1>0, <1>1, <2>2, <3>1, <3>3 DEF After, Follows
      <4>2. QED
        BY <2>2, <4>1 DEF Before, HeaderPending, parser, Blank
    <3>4. CASE ~EndsFrame(stream, char) /\ char.type = "blank"
      <4>1. char' = Piece(n, 1, stream[n].size) /\ BodyPending(n, 0)
        BY <1>0, <1>1, <2>2, <3>1, <3>4 DEF After, Follows
      <4>2. QED
        BY <2>2, <4>1 DEF Before, BodyPending, parser, Piece
    <3>5. CASE ~EndsFrame(stream, char) /\ char.type = "body"
      <4>1. char' = Piece(n, char.piece + 1, stream[n].size) /\ BodyPending(n, char.piece)
        BY <1>0, <1>1, <2>2, <3>1, <3>5 DEF After, Follows
      <4>2. /\ char'.piece - 1 = char.piece /\ char'.type = "body" /\ char'.message = n
        BY <1>1, <3>5, <4>1 DEF Piece
      <4>3. QED
        BY <2>2, <4>1, <4>2 DEF Before, BodyPending, parser
    <3>6. char.type # "nonumber"
      BY <1>1, <1>2, <3>1 DEF WellFormed
    <3>7. QED
      BY <1>1, <3>2, <3>3, <3>4, <3>5, <3>6
  <2>9. ASSUME GoodUpTo(k - 1), stream[k].kind = "unmeasured" PROVE char'.type = "nonumber"
    <3>1. EndsFrame(stream, char)
      BY <2>2, <2>3, <2>4, <2>5, <2>9 DEF InSyncAt
    <3>2. QED
      BY <2>3, <2>9, <3>1 DEF Length
  <2>10. InSyncAt(k)'
    BY <2>2, <2>4, <2>5, <2>7, <2>8, <2>9 DEF InSyncAt
  <2>11. QED
    BY <2>1, <2>10 DEF InSync
<1>4. ASSUME UNCHANGED char, InSyncAt(n)' PROVE InSync'
  BY <1>0, <1>4 DEF InSync
<1>5. CASE Consume
  <2>1. /\ UNCHANGED <<char, stream>> /\ pc = "consume"
        /\ n # 0 /\ InSyncAt(n) /\ \A i \in {n, n - 1} : GoodUpTo(i)' <=> GoodUpTo(i)
    <3>1. UNCHANGED <<char, stream>> /\ pc = "consume" /\ InSyncAt(n)
      BY <1>0, <1>5 DEF Consume, InSync
    <3>2. n # 0
      BY <1>0, <1>1, <3>1, LastTakenIsLast DEF TakenInOrder
    <3>3. QED
      BY <3>1, <3>2 DEF GoodUpTo
  <2>2. ASSUME GoodUpTo(n - 1), stream[n].kind = "unmeasured" PROVE pc' = "stopped"
    <3>1. char.type = "nonumber" /\ HeaderPending
      BY <2>1, <2>2 DEF InSyncAt
    <3>2. QED
      BY <1>5, <3>1 DEF HeaderPending, Consume, ProcessBufferHeader, ProcessBufferContent, ReadLength,
                        ReadLengthThrows, EndHeader, BufferHeader
  <2>3. ASSUME GoodUpTo(n), ProcessBufferHeader PROVE pc' \in {"read", "stopped"} /\ (pc' = "read" => After')
    <3>1. Before /\ ~validHeader /\ WellFormed(stream[n])
      BY <1>2, <2>1, <2>3 DEF InSyncAt, ProcessBufferHeader
    <3>2. CASE ReadLength
      <4>1. /\ char.type = "length" /\ ~EndsFrame(stream, char)
            /\ buffer' = <<>> /\ ~validHeader' /\ contentLength' = stream[n].size
        BY <1>2, <3>1, <3>2 DEF ReadLength
      <4>2. After'
        BY <1>0, <2>1, <4>1 DEF After, HeaderPending
      <4>3. QED
        BY <3>2, <4>2 DEF ReadLength
    <3>3. CASE ReadLengthThrows
      BY <3>3 DEF ReadLengthThrows
    <3>4. CASE EndHeader
      <4>1. /\ contentLength = stream[n].size /\ stream[n].size > 0 /\ buffer = <<>>
            /\ char.type = "blank" /\ ~EndsFrame(stream, char)
        BY <1>0, <2>1, <3>1, <3>4 DEF EndHeader, Before, WellFormed, EndsFrame
      <4>2. validHeader' /\ UNCHANGED <<buffer, contentLength>>
        BY <3>4, <4>1 DEF EndHeader
      <4>3. BodyPending(n, 0)'
        BY <2>1, <4>1, <4>2 DEF BodyPending
      <4>4. After'
        BY <1>0, <2>1, <4>1, <4>3 DEF After, BodyPending
      <4>5. QED
        BY <3>4, <4>4 DEF EndHeader
    <3>5. ~BufferHeader
      BY <3>1 DEF BufferHeader, Before, HeaderPending, BodyPending
    <3>6. QED
      BY <2>3, <3>2, <3>3, <3>4, <3>5 DEF ProcessBufferHeader
  <2>4. ASSUME GoodUpTo(n), ProcessBufferContent
        PROVE  /\ pc' \in {"read", "drain", "stopped"} /\ (pc' = "read" => After')
               /\ pc' = "drain" => EndsFrame(stream, char) /\ ~isProcessing'
    <3>1. char.type = "body"
      BY <1>1, <2>1, <2>4 DEF InSyncAt, Before, HeaderPending, ProcessBufferContent
    <3>2. /\ contentLength = stream[n].size /\ Len(content) = char.piece
          /\ content = [i \in 1 .. char.piece |-> Piece(n, i, contentLength)]
          /\ Len(content) = contentLength => MessageIn(content) = n
          /\ char.of = contentLength /\ validHeader
      BY <1>0, <2>1, <2>4, <3>1, GoodBody
    <3>3. EndsFrame(stream, char) <=> Len(content) = contentLength
      BY <1>0, <2>1, <3>1, <3>2 DEF EndsFrame
    <3>4. CASE BufferContent
      <4>1. ~EndsFrame(stream, char) /\ buffer' = content
        BY <3>3, <3>4 DEF BufferContent
      <4>2. BodyPending(char.message, char.piece)'
        BY <1>0, <2>1, <2>4, <3>2, <4>1 DEF BodyPending, ProcessBufferContent
      <4>3. After'
        BY <2>1, <3>1, <4>1, <4>2 DEF After
      <4>4. QED
        BY <3>4, <4>3 DEF BufferContent
    <3>5. ~ParseFails
      BY <2>1, <3>2 DEF ParseFails
    <3>6. CASE Dispatch
      BY <3>3, <3>6 DEF Dispatch
    <3>7. QED
      BY <2>4, <3>4, <3>5, <3>6 DEF ProcessBufferContent
  <2>5. pc' # "consume"
    BY <1>5 DEF Consume, ProcessBufferHeader, ReadLength, ReadLengthThrows, EndHeader, BufferHeader,
                ProcessBufferContent, BufferContent, ParseFails, Dispatch
  <2>6. InSyncAt(n)'
    BY <1>5, <2>1, <2>2, <2>3, <2>4, <2>5 DEF InSyncAt, Consume
  <2>7. QED
    BY <1>4, <2>1, <2>6
<1>6. CASE Reset \/ Drain
  <2>1. /\ UNCHANGED <<char, stream>> /\ pc = "drain" /\ pc' \in {"drain", "read"}
        /\ InSyncAt(n) /\ \A i \in {n, n - 1} : GoodUpTo(i)' <=> GoodUpTo(i)
    BY <1>0, <1>6 DEF Reset, Drain, WriteNext, InSync, GoodUpTo
  <2>2. ASSUME GoodUpTo(n)
        PROVE  /\ pc' = "drain" => EndsFrame(stream, char) /\ (isProcessing' => HeaderPending')
               /\ pc' = "read" => After'
    <3>1. EndsFrame(stream, char) /\ (isProcessing => HeaderPending)
      BY <2>1, <2>2 DEF InSyncAt
    <3>2. char.type # "length"
      BY <1>2, <3>1
    <3>3. CASE Reset
      BY <2>1, <3>1, <3>3 DEF Reset, HeaderPending
    <3>4. CASE Drain
      BY <2>1, <3>1, <3>2, <3>4 DEF Drain, HeaderPending, After, parser
    <3>5. QED
      BY <1>6, <3>3, <3>4
  <2>3. InSyncAt(n)'
    BY <2>1, <2>2 DEF InSyncAt
  <2>4. QED
    BY <1>4, <2>1, <2>3
<1>7. CASE UNCHANGED <<parser, char>> /\ pc' \in {pc, "stopped"}
  <2>1. /\ InSyncAt(n) /\ (GoodUpTo(n)' <=> GoodUpTo(n))
        /\ n # 0 => stream'[n] = stream[n] /\ (GoodUpTo(n - 1)' <=> GoodUpTo(n - 1))
        /\ EndsFrame(stream', char) <=> EndsFrame(stream, char)
    <3>1. n # 0 => n - 1 \in 0 .. Len(stream)
      BY <1>1
    <3>2. QED
      BY <1>0, <3>1, PrefixStays, EndsFrameStays DEF InSync
  <2>2. /\ UNCHANGED <<buffer, validHeader, contentLength, isProcessing, char>>
        /\ HeaderPending' <=> HeaderPending
    BY <1>7 DEF parser, HeaderPending
  <2>3. n # 0 => (Before => Before')
    BY <1>0, <2>1, <2>2 DEF Before, BodyPending
  <2>4. After => After'
    <3>1. ~EndsFrame(stream, char) => n # 0
      BY <1>0 DEF EndsFrame
    <3>2. QED
      BY <1>0, <1>1, <2>1, <2>2, <3>1 DEF After, BodyPending
  <2>5. pc = "consume" => n # 0
    BY <1>0, <1>1, LastTakenIsLast DEF TakenInOrder
  <2>6. InSyncAt(n)'
    BY <1>7, <2>1, <2>2, <2>3, <2>4, <2>5 DEF InSyncAt
  <2>7. QED
    BY <1>4, <1>7, <2>6
<1>8. QED
  BY <1>3, <1>5, <1>6, <1>7 DEF Next, Server, EndOfInput, Send, Close, Interrupt, vars

\* In a well-formed prefix every message before the one being read was taken up.
LEMMA NoneSkippedIsInductive ==
    ASSUME TypeOK, FramesInOrder, TakenInOrder, InSync, NoneSkipped, [Next]_vars
    PROVE  NoneSkipped'
<1>0. /\ char \in UnitsOf(stream) /\ char.message \in 0 .. Len(stream) /\ Len(stream) \in Nat
      /\ LastTaken \in 0 .. Len(stream) /\ LastTaken <= LastTaken' /\ LastTaken' \in 0 .. Len(stream)
      /\ stream \in Seq(Messages)
  <2>1. /\ char \in UnitsOf(stream) /\ char.message \in 0 .. Len(stream) /\ Len(stream) \in Nat
        /\ LastTaken \in 0 .. Len(stream) /\ LastTaken <= char.message /\ stream \in Seq(Messages)
    BY CharIsUnit, UnitFields, LastTakenIsLast DEF TypeOK, TakenInOrder
  <2>2. QED
    BY <2>1, LastTakenNext
<1>1. SUFFICES ASSUME NEW n \in 1 .. Len(stream'), GoodUpTo(n)',
                      \/ n < char'.message
                      \/ n = char'.message /\ EndsFrame(stream', char') /\ pc' \in {"read", "drain"}
               PROVE  n <= LastTaken'
  BY DEF NoneSkipped
<1>2. CASE Read
  <2>1. /\ UNCHANGED stream /\ pc' \in {"consume", "stopped"} /\ pc = "read"
        /\ \/ char'.message = char.message + 1 /\ EndsFrame(stream, char)
           \/ char'.message = char.message
    BY <1>0, <1>2, CharIsUnit, NextMessage DEF Read
  <2>2. n \in 1 .. Len(stream) /\ GoodUpTo(n)
    BY <1>1, <2>1 DEF GoodUpTo
  <2>3. n < char.message \/ (n = char.message /\ EndsFrame(stream, char))
    BY <1>0, <1>1, <2>1, <2>2
  <2>4. QED
    BY <1>0, <2>1, <2>2, <2>3 DEF NoneSkipped
<1>3. CASE ~Read
  <2>1. char' = char
    BY <1>3 DEF Next, Server, EndOfInput, Reset, Drain, Send, Close, Interrupt, vars, Consume
  <2>2. n \in 1 .. Len(stream) /\ n \in 0 .. Len(stream)
    BY <1>0, <1>1, <2>1
  <2>3. GoodUpTo(n) /\ (EndsFrame(stream', char) <=> EndsFrame(stream, char))
    BY <1>1, <2>2, PrefixStays, EndsFrameStays
  <2>4. CASE n < char.message \/ pc \in {"read", "drain"}
    BY <1>0, <1>1, <2>1, <2>2, <2>3, <2>4 DEF NoneSkipped
  <2>5. CASE n = char.message /\ EndsFrame(stream, char) /\ pc' \in {"read", "drain"}
                /\ pc \notin {"read", "drain"}
    <3>1. Consume /\ pc = "consume"
      BY <2>5 DEF Next, Server, Read, EndOfInput, Reset, Drain, Send, Close, Interrupt, vars, Consume
    <3>2. n \in 1 .. n /\ stream[n].size > 0 /\ Before
      BY <2>2, <2>3, <2>5, <3>1 DEF InSync, InSyncAt, GoodUpTo, WellFormed
    <3>3. char.type = "body" /\ char.piece = char.of
      BY <2>2, <2>5, <3>2 DEF EndsFrame
    <3>4. validHeader /\ Len(content) = contentLength /\ MessageIn(content) # 0
      BY <2>3, <2>5, <3>1, <3>3, GoodBody
    <3>5. Dispatch /\ ProcessBufferContent
      BY <3>1, <3>4 DEF Consume, ProcessBufferHeader, ProcessBufferContent, BufferContent, ParseFails
    <3>6. dispatched' # dispatched
      BY <3>5, DispatchAppends DEF TypeOK
    <3>7. QED
      BY <2>5, <3>6, LastTakenNext
  <2>6. QED
    BY <1>1, <2>1, <2>3, <2>4, <2>5
<1>4. QED
  BY <1>2, <1>3

\* So both are invariants.
LEMMA InSyncHolds == Spec => [](InSync /\ NoneSkipped)
<1>1. Init => InSync /\ NoneSkipped
  <2> SUFFICES ASSUME Init PROVE InSync /\ NoneSkipped
    OBVIOUS
  <2>1. Len(stream) = 0 /\ char.type = "blank" /\ char.message = 0 /\ EndsFrame(stream, char)
    BY EmptySeq DEF Init, Nothing, Blank, EndsFrame
  <2>2. InSyncAt(0)
    BY <2>1 DEF Init, InSyncAt, After, HeaderPending
  <2>3. QED
    BY <2>1, <2>2 DEF InSync, NoneSkipped
<1>2. QED
  BY <1>1, InSyncIsInductive, NoneSkippedIsInductive, TypeCorrect, FramesInOrderHolds,
     TakenInOrderHolds, PTL DEF Spec

-----------------------------------------------------------------------------
(* JsonRpc implements Delivery. *)

\* At the dispatch of a message, every message skipped is behind a malformed one,
\* or malformed itself; and so is the one taken up, unless it is well-formed.
LEMMA DispatchDelivers ==
    ASSUME TypeOK, FramesInOrder, TakenInOrder, InSync, NoneSkipped, Dispatch, Consume
    PROVE  /\ char.message \in LastTaken + 1 .. Len(stream)
           /\ \A i \in LastTaken + 1 .. char.message - 1 : ~GoodUpTo(i)
           /\ WellFormed(stream[char.message]) \/ ~GoodUpTo(char.message - 1)
<1>1. PICK n \in 0 .. Len(stream) : n = char.message
  BY CharIsUnit, UnitFields
<1>2. /\ n \in 1 .. Len(stream) /\ LastTaken < n /\ LastTaken \in Nat /\ Len(stream) \in Nat
      /\ char.type = "body" /\ stream[n].kind # "garbage"
  BY <1>1, LastTakenIsLast, DispatchAtEnd DEF TakenInOrder, Consume, TypeOK
<1>3. stream[n].size > 0
  <2>1. stream[n].size \in Nat
    BY <1>2, MessagesAssumption DEF TypeOK
  <2>2. char.piece \in 1 .. stream[n].size
    BY <1>1, <1>2, CharIsUnit, UnitFields
  <2>3. QED
    BY <2>1, <2>2
<1>4. GoodUpTo(n - 1) => stream[n].kind # "unmeasured"
  BY <1>1, <1>2 DEF InSync, InSyncAt, Consume
<1>5. \A i \in LastTaken + 1 .. n - 1 : ~GoodUpTo(i)
  BY <1>1, <1>2 DEF NoneSkipped
<1>6. QED
  BY <1>1, <1>2, <1>3, <1>4, <1>5 DEF WellFormed

\* However the client's messages are cut into characters and whatever they are,
\* the server takes up each message of a well-formed prefix once, in order; only
\* behind a malformed one may others be lost or a malformed one be taken up.
THEOREM MessagesAreDelivered == Spec => DeliverySpec
<1> DEFINE sent == [n \in DOMAIN stream |-> WellFormed(stream[n])]
           delivered == [i \in DOMAIN dispatched |-> dispatched[i].message]
<1>1. Init => InOrder!Init
  BY DEF Init, InOrder!Init
<1>2. ASSUME TypeOK, TypeOK', FramesInOrder, TakenInOrder, InSync, NoneSkipped, [Next]_vars
      PROVE  [InOrder!Send \/ InOrder!Deliver]_InOrder!vars
  <2>1. CASE UNCHANGED <<stream, dispatched>>
    BY <2>1 DEF InOrder!vars
  <2>2. ASSUME NEW m \in Messages, Send(m) PROVE InOrder!Send
    <3>1. PICK w \in BOOLEAN : w = WellFormed(m)
      BY DEF WellFormed
    <3>2. stream \in Seq(Messages) /\ Len(stream) \in Nat /\ stream' = Append(stream, m) /\ UNCHANGED dispatched
      BY <1>2, <2>2 DEF Send, TypeOK
    <3>3. /\ stream' \in Seq(Messages) /\ Len(stream') = Len(stream) + 1 /\ stream'[Len(stream) + 1] = m
          /\ \A n \in 1 .. Len(stream) : stream'[n] = stream[n]
      BY <3>2, AppendProperties
    <3>4. /\ sent \in Seq(BOOLEAN) /\ Len(sent) = Len(stream)
          /\ \A n \in 1 .. Len(stream) : sent[n] = WellFormed(stream[n])
      <4>1. DOMAIN stream = 1 .. Len(stream)
        BY <3>2
      <4>2. \A n \in 1 .. Len(stream) : WellFormed(stream[n]) \in BOOLEAN
        BY DEF WellFormed
      <4>3. QED
        BY <3>2, <4>1, <4>2
    <3>5. /\ sent' \in Seq(BOOLEAN) /\ Len(sent') = Len(stream) + 1
          /\ \A n \in 1 .. Len(stream) + 1 : sent'[n] = WellFormed(stream'[n])
      BY <3>2, <3>3 DEF WellFormed
    <3> HIDE DEF sent
    <3>6. /\ Append(sent, w) \in Seq(BOOLEAN) /\ Len(Append(sent, w)) = Len(stream) + 1
          /\ Append(sent, w)[Len(stream) + 1] = w
          /\ \A n \in 1 .. Len(stream) : Append(sent, w)[n] = sent[n]
      BY <3>4, AppendProperties
    <3>7. \A n \in 1 .. Len(stream) + 1 : sent'[n] = Append(sent, w)[n]
      <4>1. \A n \in 1 .. Len(stream) + 1 : n \in 1 .. Len(stream) \/ n = Len(stream) + 1
        BY <3>2
      <4>2. \A n \in 1 .. Len(stream) : sent'[n] = Append(sent, w)[n]
        <5>1. \A n \in 1 .. Len(stream) : n \in 1 .. Len(stream) + 1
          BY <3>2
        <5>2. QED
          BY <3>3, <3>4, <3>5, <3>6, <5>1
      <4>3. sent'[Len(stream) + 1] = w
        BY <3>1, <3>2, <3>3, <3>5
      <4>4. QED
        BY <3>6, <4>1, <4>2, <4>3
    <3>8. sent' = Append(sent, w)
      BY <3>5, <3>6, <3>7, SeqEqual
    <3>9. QED
      BY <3>2, <3>8 DEF InOrder!Send, sent
  <2>3. CASE Consume /\ ProcessBufferContent /\ Dispatch
    <3>1. PICK n \in 1 .. Len(stream) : n = char.message
      BY <1>2, <2>3, DispatchAtEnd, MessageInIsSent DEF Dispatch
    <3>2. /\ n \in LastTaken + 1 .. Len(stream) /\ UNCHANGED stream /\ Len(stream) \in Nat
          /\ \A i \in LastTaken + 1 .. n - 1 : ~GoodUpTo(i)
          /\ WellFormed(stream[n]) \/ ~GoodUpTo(n - 1)
          /\ LastTaken \in Nat /\ Len(dispatched) \in Nat
      <4>1. Len(stream) \in Nat /\ Len(dispatched) \in Nat /\ UNCHANGED stream
        BY <1>2, <2>3 DEF Consume, TypeOK
      <4>2. LastTaken \in Nat
        BY <1>2, <4>1, LastTakenIsLast
      <4>3. /\ n \in LastTaken + 1 .. Len(stream)
            /\ \A i \in LastTaken + 1 .. n - 1 : ~GoodUpTo(i)
            /\ WellFormed(stream[n]) \/ ~GoodUpTo(n - 1)
        BY <1>2, <2>3, <3>1, DispatchDelivers
      <4>4. QED
        BY <4>1, <4>2, <4>3
    <3>3. /\ delivered \in Seq(Nat) /\ Len(delivered) = Len(dispatched)
          /\ \A i \in 1 .. Len(dispatched) : delivered[i] = dispatched[i].message
      <4>1. \A i \in 1 .. Len(dispatched) : dispatched[i].message \in Nat
        BY <1>2, <3>2, DispatchedWereSent
      <4>2. DOMAIN dispatched = 1 .. Len(dispatched)
        BY <1>2 DEF TypeOK
      <4>3. QED
        BY <3>2, <4>1, <4>2
    <3>4. InOrder!LastDelivered = LastTaken
      <4>1. delivered = <<>> <=> dispatched = <<>>
        BY <1>2, <3>3, EmptySeq DEF TypeOK
      <4>2. Len(dispatched) # 0 => delivered[Len(delivered)] = dispatched[Len(dispatched)].message
        BY <3>2, <3>3
      <4>3. dispatched # <<>> => Len(dispatched) # 0
        BY <1>2, EmptySeq DEF TypeOK
      <4>4. QED
        BY <4>1, <4>2, <4>3 DEF InOrder!LastDelivered, LastTaken
    <3>5. delivered' = Append(delivered, n)
      <4>1. /\ Len(dispatched') = Len(dispatched) + 1
            /\ dispatched'[Len(dispatched) + 1].message = n
            /\ \A i \in 1 .. Len(dispatched) : dispatched'[i] = dispatched[i]
        BY <1>2, <2>3, <3>1, DispatchAppends, DispatchAtEnd
      <4>2. DOMAIN dispatched' = 1 .. Len(dispatched) + 1
        BY <1>2, <4>1 DEF TypeOK
      <4>3. \A i \in 1 .. Len(dispatched) + 1 :
              (i \in 1 .. Len(dispatched) /\ i # Len(dispatched) + 1) \/ i = Len(dispatched) + 1
        BY <3>2
      <4>4. /\ delivered' \in Seq(Nat) /\ Len(delivered') = Len(dispatched) + 1
            /\ \A i \in 1 .. Len(dispatched) : delivered'[i] = delivered[i]
            /\ delivered'[Len(dispatched) + 1] = n
        <5>1. /\ n \in Nat /\ Len(dispatched) + 1 \in Nat
              /\ \A i \in 1 .. Len(dispatched) : dispatched[i].message \in Nat
          BY <1>2, <3>2, DispatchedWereSent
        <5>2. /\ \A i \in 1 .. Len(dispatched) + 1 : dispatched'[i].message \in Nat
              /\ \A i \in 1 .. Len(dispatched) : i \in 1 .. Len(dispatched) + 1
              /\ Len(dispatched) + 1 \in 1 .. Len(dispatched) + 1
          BY <3>2, <4>1, <4>3, <5>1
        <5>3. delivered' = [i \in 1 .. Len(dispatched) + 1 |-> dispatched'[i].message]
          BY <4>2
        <5>4. delivered' \in Seq(Nat) /\ Len(delivered') = Len(dispatched) + 1
          BY <5>1, <5>2, <5>3
        <5>5. QED
          BY <3>3, <4>1, <5>2, <5>3, <5>4
      <4> HIDE DEF delivered
      <4>5. /\ Append(delivered, n) \in Seq(Nat) /\ Len(Append(delivered, n)) = Len(dispatched) + 1
            /\ Append(delivered, n)[Len(dispatched) + 1] = n
            /\ \A i \in 1 .. Len(dispatched) : Append(delivered, n)[i] = delivered[i]
        BY <3>3, AppendProperties
      <4>6. \A i \in 1 .. Len(dispatched) + 1 : delivered'[i] = Append(delivered, n)[i]
        BY <4>3, <4>4, <4>5
      <4>7. QED
        BY <4>4, <4>5, <4>6, SeqEqual
    <3>6. \A i \in 0 .. Len(stream) : ~GoodUpTo(i) => \E j \in 1 .. i : ~sent[j]
      <4>1. \A j \in 1 .. Len(stream) : sent[j] <=> WellFormed(stream[j])
        BY <1>2 DEF TypeOK
      <4> HIDE DEF sent
      <4>2. \A i \in 0 .. Len(stream) : \A j \in 1 .. i : j \in 1 .. Len(stream)
        BY <3>2
      <4>3. QED
        BY <4>1, <4>2 DEF GoodUpTo
    <3>7. \A i \in 1 .. Len(stream) : ~GoodUpTo(i) => ~sent[i] \/ InOrder!BehindMalformed(i)
      BY <3>6 DEF InOrder!BehindMalformed
    <3>8. ~GoodUpTo(n - 1) => InOrder!BehindMalformed(n)
      BY <3>2, <3>6 DEF InOrder!BehindMalformed
    <3>9. InOrder!Deliver
      <4>1. Len(sent) = Len(stream) /\ \A i \in 1 .. Len(stream) : sent[i] <=> WellFormed(stream[i])
        BY <1>2 DEF TypeOK
      <4>2. sent[n] \/ InOrder!BehindMalformed(n)
        BY <3>1, <3>2, <3>8, <4>1
      <4>3. \A i \in LastTaken + 1 .. n - 1 : ~sent[i] \/ InOrder!BehindMalformed(i)
        BY <3>2, <3>7
      <4>4. UNCHANGED sent
        BY <3>2
      <4>5. n \in InOrder!LastDelivered + 1 .. Len(sent)
        BY <3>2, <3>4, <4>1
      <4>6. \A i \in InOrder!LastDelivered + 1 .. n - 1 : ~sent[i] \/ InOrder!BehindMalformed(i)
        BY <3>4, <4>3
      <4>7. QED
        BY <3>5, <4>2, <4>4, <4>5, <4>6, Zenon DEF InOrder!Deliver
    <3>10. QED
      BY <3>9
  <2>4. \/ UNCHANGED <<stream, dispatched>>
        \/ \E m \in Messages : Send(m)
        \/ Consume /\ ProcessBufferContent /\ Dispatch
    BY <1>2
       DEF Next, Server, Read, EndOfInput, Reset, Drain, Close, Interrupt, vars, Consume,
           ProcessBufferHeader, ProcessBufferContent, BufferContent, ParseFails
  <2>5. QED
    BY <2>1, <2>2, <2>3, <2>4
<1>3. QED
  BY <1>1, <1>2, TypeCorrect, FramesInOrderHolds, TakenInOrderHolds, InSyncHolds, PTL
     DEF Spec, DeliverySpec, InOrder!Spec

=============================================================================
