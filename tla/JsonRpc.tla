------------------------------ MODULE JsonRpc ------------------------------
(***************************************************************************)
(* The server's standard input, from bytes to handlers: the framing and    *)
(* dispatch of src/src/jsonrpc.cpp inside the loop of LSPServer::Run in    *)
(* src/src/lsp.cpp, which reads a character, has it consumed, and, when    *)
(* that completed a message, resets the parser and writes the responses    *)
(* the handlers queued.  A signal handler may interrupt the loop.          *)
(*                                                                         *)
(* A unit of input stands for a run of bytes that belong together: a       *)
(* Content-Length line, the blank line that ends a header, or a piece of a *)
(* message's body; lengths count units.  Bodies are opaque: a buffer is a  *)
(* valid JSON object exactly when it is the whole body of one message that *)
(* is not garbage.  A handler queues a response or does not, as its        *)
(* parameters, libclang and the drivers let it, and a queued message whose *)
(* text is not UTF-8 is never written; which of them are, and what else    *)
(* handlers do, is in the other modules.                                   *)
(***************************************************************************)
EXTENDS Integers, SequencesExt, FiniteSetsExt

CONSTANTS
    Messages,     \* records [kind, request, size] the client may send
    MaxMessages   \* bound: messages the client sends

Registered == {"initialize", "registered", "shutdown", "exit"}
Kinds == Registered \cup {"setTrace", "unregistered", "$/unregistered", "response", "garbage", "unmeasured"}

\* Only requests carry an id, which OnInitialize and OnShutdown read unchecked, and
\* a response is none; size 0 stands for a missing or zero Content-Length, and an
\* unmeasured message has one that is not a number of 64 bits.
ASSUME MessagesAssumption ==
    /\ Messages \subseteq [kind : Kinds, request : BOOLEAN, size : Nat]
    /\ \A m \in Messages : /\ m.kind \in {"initialize", "shutdown"} => m.request
                           /\ m.kind = "response" => ~m.request
ASSUME BoundAssumption == MaxMessages \in Nat

VARIABLES
    \* JsonRPC.
    buffer,         \* m_buffer
    validHeader,    \* m_validHeader
    contentLength,  \* m_contentLength
    isProcessing,   \* m_isProcessing
    initialized,    \* m_initialized
    \* LSPServer::Run and LSPServerEventsHandler.
    pc,             \* where the loop is
    char,           \* the unit it has read
    interrupted,    \* m_interrupted
    shutdown,       \* m_shutdown
    outQueue,       \* m_outQueue
    result,         \* what the process ends with
    \* The pipes.
    stream,         \* the messages the client has written
    input,          \* the units of them that the server has not read
    closed,         \* the client has closed its end
    output,         \* what the server wrote
    \* History.
    dispatched,     \* [message, to]: the messages taken up, and where they went
    unwritten       \* the messages whose queued response could not be written

parser == <<buffer, validHeader, contentLength, isProcessing>>
vars == <<parser, initialized, pc, char, interrupted, shutdown, outQueue, result,
          stream, input, closed, output, dispatched, unwritten>>

\* The units of message n of a stream.  A unit names its message and, in a body,
\* its place in it: only that of bodies is ever asked for.
Piece(n, i, size) == [type |-> "body", message |-> n, piece |-> i, of |-> size]
Body(n, size) == [i \in 1 .. size |-> Piece(n, i, size)]
Blank(n) == [type |-> "blank", message |-> n]
Length(n, m) ==
    IF m.kind = "unmeasured" THEN [type |-> "nonumber", message |-> n]
    ELSE [type |-> "length", message |-> n, value |-> m.size]
Frame(n, m) == <<Length(n, m), Blank(n)>> \o Body(n, m.size)

\* The units of the first n messages.
UnitsUpTo(n) ==
    [type : {"length"}, message : 1 .. n, value : Nat]
      \cup [type : {"blank", "nonumber"}, message : 0 .. n]
      \cup [type : {"body"}, message : 1 .. n, piece : Nat, of : Nat]

Nothing == Blank(0)
Codes == {"ParseError", "InvalidRequest", "MethodNotFound", "NotInitialized", "InternalError"}

\* What the server writes: the response to the request in message n, which carries
\* its id; a request or notification of its own; an error, which carries no id.
Response(n) == [type |-> "response", id |-> n]
Own == [type |-> "own"]
Error(code) == [type |-> "error", error |-> code]

\* What may be queued, be written, and become of, the first n messages: a handler
\* queued a response ("response") or none ("callback"), or they went elsewhere.
Queueable(n) == {Response(i) : i \in 1 .. n} \cup {Own}
Written(n) == Queueable(n) \cup {Error(code) : code \in Codes}
TakenUp(n) ==
    [message : 1 .. n,
     to : {"response", "callback", "respond", "nobody", "MethodNotFound", "NotInitialized"}]

TypeOK ==
    /\ buffer \in Seq(UnitsUpTo(Len(stream))) /\ contentLength \in Nat
    /\ validHeader \in BOOLEAN /\ (validHeader => contentLength > 0)
    /\ isProcessing \in BOOLEAN /\ initialized \in BOOLEAN
    /\ pc \in {"read", "consume", "drain", "stopped"}
    /\ char \in UnitsUpTo(Len(stream)) /\ input \in Seq(UnitsUpTo(Len(stream)))
    /\ interrupted \in BOOLEAN /\ shutdown \in BOOLEAN /\ closed \in BOOLEAN
    /\ outQueue \in Seq(Queueable(Len(stream)))
    /\ result \in {"none", "EINTR", "EndOfInput", "EXIT_SUCCESS", "EXIT_FAILURE", "aborted"}
    /\ stream \in Seq(Messages) /\ Len(stream) <= MaxMessages
    /\ output \in Seq(Written(Len(stream))) /\ dispatched \in Seq(TakenUp(Len(stream)))
    /\ unwritten \in SUBSET (1 .. Len(stream))

Init ==
    /\ buffer = <<>> /\ validHeader = FALSE /\ contentLength = 0 /\ isProcessing = TRUE
    /\ initialized = FALSE
    /\ pc = "read" /\ char = Nothing
    /\ interrupted = FALSE /\ shutdown = FALSE /\ outQueue = <<>> /\ result = "none"
    /\ stream = <<>> /\ input = <<>> /\ closed = FALSE /\ output = <<>> /\ dispatched = <<>>
    /\ unwritten = {}

-----------------------------------------------------------------------------
(* JsonRPC::Consume, once a header is being read. *)

WriteError(code) == output' = Append(output, Error(code))

\* ReadHeader finds a header line at the end of the buffer, and clears it.
ReadLength ==
    /\ char.type = "length"
    /\ contentLength' = char.value
    /\ buffer' = <<>>
    /\ pc' = "read"
    /\ UNCHANGED <<validHeader, result, output>>

\* std::stoul throws, and nobody up to main catches: the process is aborted.
ReadLengthThrows ==
    /\ char.type = "nonumber"
    /\ pc' = "stopped" /\ result' = "aborted"
    /\ UNCHANGED <<buffer, validHeader, contentLength, output>>

\* Fault: a header without a content length is taken for a valid one.
EndHeaderUnchecked ==
    /\ char.type = "blank" /\ buffer = <<>>
    /\ validHeader' = TRUE
    /\ pc' = "read"
    /\ UNCHANGED <<buffer, contentLength, result, output>>

EndHeader ==
    /\ char.type = "blank" /\ buffer = <<>>
    /\ validHeader' = (contentLength > 0)
    /\ IF contentLength > 0 THEN UNCHANGED output ELSE WriteError("InvalidRequest")
    /\ pc' = "read"
    /\ UNCHANGED <<buffer, contentLength, result>>

\* Neither a header line nor a blank one.
BufferHeader ==
    /\ char.type = "body" \/ (char.type = "blank" /\ buffer # <<>>)
    /\ buffer' = Append(buffer, char)
    /\ pc' = "read"
    /\ UNCHANGED <<validHeader, contentLength, result, output>>

ProcessBufferHeader ==
    /\ ~validHeader
    /\ ReadLength \/ ReadLengthThrows \/ EndHeader \/ BufferHeader
    /\ UNCHANGED <<isProcessing, initialized, shutdown, outQueue, dispatched>>

-----------------------------------------------------------------------------
(* JsonRPC::Consume, once a body is being read, and the dispatch of it. *)

content == Append(buffer, char)

\* The message whose body the buffer is, or 0.
MessageIn(b) ==
    LET n == b[1].message IN
    IF b[1].type = "body" /\ b = Body(n, b[1].of) /\ stream[n].kind # "garbage" THEN n ELSE 0

BufferContent ==
    /\ Len(content) # contentLength
    /\ buffer' = content
    /\ pc' = "read"
    /\ UNCHANGED <<isProcessing, initialized, shutdown, outQueue, result, output, dispatched>>

\* LogAndHandleParseError forgets the buffer, and nothing else.
ParseFails ==
    /\ Len(content) = contentLength
    /\ MessageIn(content) = 0
    /\ buffer' = <<>>
    /\ WriteError("ParseError")
    /\ pc' = "read"
    /\ UNCHANGED <<isProcessing, initialized, shutdown, outQueue, result, dispatched>>

\* Fault: the handlers that end a session may run before it begins.
GateOpenToStops(m) == m.kind \in {"initialize", "shutdown", "exit"} \/ initialized
Gate(m) == m.kind = "initialize" \/ initialized

\* Fault: a handler that fails late queues an empty response behind its own.
MayQueueTwice(n, m) ==
    CASE m.kind = "shutdown" -> {<<Response(n)>>}
      [] m.kind = "exit" -> {<<>>}
      [] m.kind = "registered" /\ m.request -> {<<>>, <<Response(n)>>, <<Response(n), Response(n)>>}
      [] OTHER -> {<<>>, <<IF m.request THEN Response(n) ELSE Own>>}

\* What the handler of message n queues: OnShutdown its response, OnExit nothing.
\* The others may fail, which leaves a request without a response.
MayQueue(n, m) ==
    CASE m.kind = "shutdown" -> {<<Response(n)>>}
      [] m.kind = "exit" -> {<<>>}
      [] OTHER -> {<<>>, <<IF m.request THEN Response(n) ELSE Own>>}

\* A handler that catches what went wrong reports it; the location handlers queue
\* their response all the same.
MayReport(m) == IF m.kind = "registered" THEN {<<>>, <<Error("InternalError")>>} ELSE {<<>>}

\* FireMethodCallback for a registered method, whose exceptions end in its catch.
\* OnExit ends the process.
FireCallback(n, m) ==
    /\ m.kind \in Registered /\ Gate(m)
    /\ initialized' = TRUE
    /\ shutdown' = (shutdown \/ m.kind = "shutdown")
    /\ \E queued \in MayQueue(n, m), reported \in MayReport(m) :
         /\ m.request \/ queued = <<>> \/ reported = <<>>
         /\ outQueue' = outQueue \o queued
         /\ output' = output \o reported
         /\ dispatched' = Append(dispatched,
              [message |-> n, to |-> IF queued = <<Response(n)>> THEN "response" ELSE "callback"])
    /\ result' = CASE m.kind # "exit" -> "none"
                   [] m.kind = "exit" /\ shutdown -> "EXIT_SUCCESS"
                   [] m.kind = "exit" /\ ~shutdown -> "EXIT_FAILURE"

\* FireMethodCallback otherwise: "$/" notifications may be ignored.
MustRespond(m) == m.request \/ m.kind \notin {"setTrace", "$/unregistered"}
RejectMethod(n, m) ==
    /\ m.kind \in {"setTrace", "unregistered", "$/unregistered", "unmeasured"} /\ Gate(m)
    /\ IF MustRespond(m) THEN WriteError("MethodNotFound") ELSE UNCHANGED output
    /\ dispatched' = Append(dispatched,
         [message |-> n, to |-> IF MustRespond(m) THEN "MethodNotFound" ELSE "nobody"])
    /\ UNCHANGED <<initialized, shutdown, outQueue, result>>

RejectEarly(n, m) ==
    /\ m.kind # "response" /\ ~Gate(m)
    /\ WriteError("NotInitialized")
    /\ dispatched' = Append(dispatched, [message |-> n, to |-> "NotInitialized"])
    /\ UNCHANGED <<initialized, shutdown, outQueue, result>>

FireRespondCallback(n, m) ==
    /\ m.kind = "response"
    /\ dispatched' = Append(dispatched, [message |-> n, to |-> "respond"])
    /\ UNCHANGED <<initialized, shutdown, outQueue, result, output>>

Dispatch ==
    LET n == MessageIn(content)
        m == stream[n]
    IN  /\ Len(content) = contentLength
        /\ n # 0
        /\ FireCallback(n, m) \/ RejectMethod(n, m) \/ RejectEarly(n, m) \/ FireRespondCallback(n, m)
        /\ buffer' = content
        /\ isProcessing' = FALSE
        /\ pc' = IF result' = "none" THEN "drain" ELSE "stopped"

ProcessBufferContent ==
    /\ validHeader
    /\ BufferContent \/ ParseFails \/ Dispatch
    /\ UNCHANGED <<validHeader, contentLength>>

-----------------------------------------------------------------------------
(* LSPServer::Run. *)

\* Fault: nobody reads m_interrupted.
ReadUninterrupted ==
    /\ pc = "read"
    /\ input # <<>>
    /\ char' = Head(input)
    /\ input' = Tail(input)
    /\ pc' = "consume"
    /\ UNCHANGED <<parser, initialized, interrupted, shutdown, outQueue, result, stream,
                   closed, output, dispatched, unwritten>>

\* std::cin.get, then the check of m_interrupted.
Read ==
    /\ pc = "read"
    /\ input # <<>>
    /\ char' = Head(input)
    /\ input' = Tail(input)
    /\ pc' = IF interrupted THEN "stopped" ELSE "consume"
    /\ result' = IF interrupted THEN "EINTR" ELSE result
    /\ UNCHANGED <<parser, initialized, interrupted, shutdown, outQueue, stream, closed,
                   output, dispatched, unwritten>>

EndOfInput ==
    /\ pc = "read"
    /\ input = <<>> /\ closed
    /\ pc' = "stopped"
    /\ result' = "EndOfInput"
    /\ UNCHANGED <<parser, initialized, char, interrupted, shutdown, outQueue, stream,
                   input, closed, output, dispatched, unwritten>>

Consume ==
    /\ pc = "consume"
    /\ ProcessBufferHeader \/ ProcessBufferContent
    /\ UNCHANGED <<char, interrupted, stream, input, closed, unwritten>>

\* Faults: the next message begins where a body is still expected, of the same
\* length, or of none.
ResetKeepingHeader ==
    /\ pc = "drain" /\ ~isProcessing
    /\ buffer' = <<>> /\ isProcessing' = TRUE
    /\ UNCHANGED <<validHeader, contentLength, initialized, pc, char, interrupted, shutdown,
                   outQueue, result, stream, input, closed, output, dispatched, unwritten>>
ResetKeepingValidity ==
    /\ pc = "drain" /\ ~isProcessing
    /\ buffer' = <<>> /\ contentLength' = 0 /\ isProcessing' = TRUE
    /\ UNCHANGED <<validHeader, initialized, pc, char, interrupted, shutdown, outQueue,
                   result, stream, input, closed, output, dispatched, unwritten>>

\* Reset, when IsReady.
Reset ==
    /\ pc = "drain" /\ ~isProcessing
    /\ buffer' = <<>> /\ validHeader' = FALSE /\ contentLength' = 0 /\ isProcessing' = TRUE
    /\ UNCHANGED <<initialized, pc, char, interrupted, shutdown, outQueue, result, stream,
                   input, closed, output, dispatched, unwritten>>

\* Write: what is not UTF-8 cannot be dumped, and is only logged.  The responses to
\* initialize and shutdown hold nothing but ASCII and an id from parsed JSON.
Write(o) == output' = Append(output, o) /\ UNCHANGED unwritten
WriteFails(o) ==
    /\ o.type = "response" => stream[o.id].kind = "registered"
    /\ unwritten' = IF o.type = "response" THEN unwritten \cup {o.id} ELSE unwritten
    /\ UNCHANGED output

WriteNext ==
    /\ outQueue # <<>>
    /\ Write(Head(outQueue)) \/ WriteFails(Head(outQueue))
    /\ outQueue' = Tail(outQueue)
    /\ UNCHANGED pc

\* Fault: an interrupt is noticed before the queue is empty.
DrainUntilInterrupt ==
    /\ pc = "drain" /\ isProcessing
    /\ \/ WriteNext
       \/ (outQueue = <<>> \/ interrupted) /\ pc' = "read" /\ UNCHANGED <<outQueue, output, unwritten>>
    /\ UNCHANGED <<parser, initialized, char, interrupted, shutdown, result, stream, input,
                   closed, dispatched>>

\* GetNextResponse and Write, until the queue is empty.
Drain ==
    /\ pc = "drain" /\ isProcessing
    /\ \/ WriteNext
       \/ outQueue = <<>> /\ pc' = "read" /\ UNCHANGED <<outQueue, output, unwritten>>
    /\ UNCHANGED <<parser, initialized, char, interrupted, shutdown, result, stream, input,
                   closed, dispatched>>

-----------------------------------------------------------------------------
(* The client, and the signal handler of main.cpp. *)

Send(m) ==
    /\ Len(stream) < MaxMessages /\ ~closed
    /\ stream' = Append(stream, m)
    /\ input' = input \o Frame(Len(stream'), m)
    /\ UNCHANGED <<parser, initialized, pc, char, interrupted, shutdown, outQueue, result,
                   closed, output, dispatched, unwritten>>

Close ==
    /\ ~closed
    /\ closed' = TRUE
    /\ UNCHANGED <<parser, initialized, pc, char, interrupted, shutdown, outQueue, result,
                   stream, input, output, dispatched, unwritten>>

Interrupt ==
    /\ ~interrupted
    /\ interrupted' = TRUE
    /\ UNCHANGED <<parser, initialized, pc, char, shutdown, outQueue, result, stream, input,
                   closed, output, dispatched, unwritten>>

Server == Read \/ EndOfInput \/ Consume \/ Reset \/ Drain
Next == Server \/ (\E m \in Messages : Send(m)) \/ Close \/ Interrupt

Spec == Init /\ [][Next]_vars

\* The process runs: the loop takes its next step whenever it has one.
FairSpec == Spec /\ WF_vars(Server)
-----------------------------------------------------------------------------
(* Properties. *)

\* A client that frames its messages well has each of them taken up once, in
\* order, whatever the messages are and however they are cut into characters.  Only
\* behind a malformed one may others be lost or a malformed one be taken up.
WellFormed(m) == m.kind \notin {"garbage", "unmeasured"} /\ m.size > 0
InOrder == INSTANCE Delivery WITH
    sent <- [n \in DOMAIN stream |-> WellFormed(stream[n])],
    delivered <- [i \in DOMAIN dispatched |-> dispatched[i].message]
DeliverySpec == InOrder!Spec

\* The body of a message is complete when the buffer is exactly as long as the
\* header said (jsonrpc.cpp:199), so the buffer must never outgrow that length:
\* the server would wait for the end of that body for ever.
BodyCanEnd == validHeader /\ pc = "read" => Len(buffer) < contentLength

\* The session begins with initialize (JRPCErrorCode::NotInitialized): until the
\* handler of an initialize has its response written, or has failed, the client is
\* sent protocol errors only and no exit is served; afterwards it is never told
\* again that the server is not initialized.  A response of the client reaches
\* OnRespond before that too (jsonrpc.cpp:215), but no request is outstanding then,
\* and OnRespond writes nothing.
Initialize(k) == stream[dispatched[k].message].kind = "initialize"
ProtocolErrors == {Error("ParseError"), Error("InvalidRequest"), Error("NotInitialized")}
InitializeAnsweredFirst ==
    /\ \A i \in DOMAIN output :
         output[i] \notin ProtocolErrors =>
           \E k \in DOMAIN dispatched :
             /\ Initialize(k)
             /\ dispatched[k].to = "response" =>
                  \E j \in 1 .. i : output[j] = Response(dispatched[k].message)
    /\ \A i \in DOMAIN output : \A j \in 1 .. i :
         output[i] = Error("NotInitialized") => output[j] \in ProtocolErrors
    /\ result \in {"EXIT_SUCCESS", "EXIT_FAILURE"} => \E k \in DOMAIN dispatched : Initialize(k)

\* Responses are written in the order of the requests, at most one for each, and
\* only for a request whose handler queued one.  Whenever the server waits for
\* input, each such request has its response, unless Write could not dump it, which
\* never befalls initialize and shutdown.  A request that was refused, or whose
\* handler failed, has no response: the errors sent instead carry no id.
ResponseFor(k) == dispatched[k].to = "response"
AnsweredOnce ==
    /\ \A i \in DOMAIN output :
         output[i].type = "response" =>
           /\ \E k \in DOMAIN dispatched : ResponseFor(k) /\ dispatched[k].message = output[i].id
           /\ \A j \in 1 .. i - 1 : output[j].type = "response" => output[j].id < output[i].id
    /\ \A k \in DOMAIN dispatched :
         pc = "read" /\ ResponseFor(k) =>
           \/ \E i \in DOMAIN output : output[i] = Response(dispatched[k].message)
           \/ /\ stream[dispatched[k].message].kind = "registered"
              /\ dispatched[k].message \in unwritten

\* The process never ends with responses that are queued but not written, and it
\* ends successfully only after a shutdown request.
CleanStop ==
    pc = "stopped" =>
        /\ outQueue = <<>>
        /\ result = "EXIT_SUCCESS" =>
             \E i \in DOMAIN dispatched :
                 stream[dispatched[i].message].kind = "shutdown" /\ dispatched[i].to = "response"

\* main.cpp:78: "Stop the server by sending an interrupt signal followed by any
\* character sent to standard input."
InterruptStops == (interrupted /\ input # <<>>) ~> pc = "stopped"

\* A message is taken up, unless one up to it is malformed or the server stops.
EventuallyTakenUp ==
    \A n \in 1 .. MaxMessages :
        Len(stream) >= n /\ (\A i \in 1 .. n : WellFormed(stream[i])) ~> (Len(dispatched) >= n \/ pc = "stopped")

\* jsonrpc.hpp:23, ParseError: "Invalid JSON was received by the server."  There
\* are no more parse errors than bodies that are not JSON.
ParseErrorsAreForInvalidJson ==
    Cardinality({i \in DOMAIN output : output[i] = Error("ParseError")})
      <= Cardinality({n \in DOMAIN stream : stream[n].kind = "garbage"})
=============================================================================
