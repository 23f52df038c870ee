------------------------- MODULE LspHandlersProofs -------------------------
(* Proofs about LspHandlers, for any documents, edits and requests. *)
EXTENDS LspHandlers, SequenceTheorems, FiniteSetTheorems, WellFoundedInduction, TLAPS

-----------------------------------------------------------------------------
(* Sequences. *)

\* The elements of a sequence without its first.
LEMMA TailElements ==
    ASSUME NEW S, NEW s \in Seq(S), s # <<>>
    PROVE  /\ Len(s) \in Nat /\ 1 \in 1 .. Len(s) /\ Head(s) = s[1] /\ Head(s) \in S
           /\ Tail(s) \in Seq(S) /\ Len(Tail(s)) = Len(s) - 1
           /\ \A i \in 1 .. Len(s) - 1 : i + 1 \in 1 .. Len(s) /\ Tail(s)[i] = s[i + 1]
           /\ \A i \in 1 .. Len(s) : i = 1 \/ (i - 1 \in 1 .. Len(s) - 1 /\ Tail(s)[i - 1] = s[i])
<1>1. Len(s) \in Nat /\ Len(s) # 0
  BY EmptySeq
<1>2. /\ Head(s) = s[1] /\ Len(Tail(s)) = Len(s) - 1 /\ Tail(s) \in Seq(S)
      /\ \A i \in 1 .. Len(s) - 1 : Tail(s)[i] = s[i + 1]
  BY HeadTailProperties
<1>3. ASSUME NEW i \in 1 .. Len(s), i # 1
      PROVE  i - 1 \in 1 .. Len(s) - 1 /\ Tail(s)[i - 1] = s[i]
  <2>1. PICK j \in 1 .. Len(s) - 1 : j = i - 1 /\ j + 1 = i
    BY <1>1, <1>3
  <2>2. QED
    BY <1>2, <2>1
<1>4. 1 \in 1 .. Len(s)
  BY <1>1
<1>5. QED
  BY <1>1, <1>2, <1>3, <1>4, ElementOfSeq

\* The elements of a sequence with one more.
LEMMA AppendElements ==
    ASSUME NEW S, NEW s \in Seq(S), NEW e \in S
    PROVE  /\ Append(s, e) \in Seq(S)
           /\ Len(s) \in Nat /\ Len(Append(s, e)) = Len(s) + 1
           /\ Append(s, e)[Len(s) + 1] = e /\ Len(s) + 1 \in 1 .. Len(s) + 1
           /\ \A i \in 1 .. Len(s) : Append(s, e)[i] = s[i] /\ i \in 1 .. Len(s) + 1
           /\ \A i \in 1 .. Len(s) + 1 : (i \in 1 .. Len(s) /\ i < Len(s) + 1) \/ i = Len(s) + 1
  BY AppendProperties

-----------------------------------------------------------------------------
(* The shape of the state. *)

ServerMessages ==
    [type : {"didOpen", "didChange"}, file : Files, content : Contents]
      \cup [type : {"didClose"}, file : Files]
      \cup [type : {"configuration"}, options : Options]
      \cup [type : {"request"}, id : Nat]

\* The store, and what a reader finds in it.
StoreShape ==
    /\ document \in [Files -> Contents \cup {NoContent}] /\ options \in Options
    /\ view = [f \in Files |-> view[f]]
    /\ \A f \in Files : view[f] \in {NoParse, Store!Parsed(f, document[f], options)}

\* What the editor has sent.
SentShape ==
    /\ toServer \in Seq(ServerMessages)
    /\ \A i \in 1 .. Len(toServer) : toServer[i].type = "request" => toServer[i].id \in 1 .. Len(asked)
    /\ text \in [Files -> Contents \cup {NoContent}] /\ edits \in 0 .. MaxEdits
    /\ asked \in Seq(Requests) /\ shown \in SUBSET Items
    /\ \A n \in 1 .. Len(asked) : asked[n].kind # "resolve" => asked[n].content \in Contents

\* What the server has sent, and the items it remembers.
ReceivedShape ==
    /\ toClient \in Seq(Messages) /\ answers \in Seq(Answers)
    /\ diagnostics \in [Files -> Contents \cup {NoContent}]
    /\ failedBuilds \in SUBSET Contents
    /\ \A k \in DOMAIN completionCache : completionCache[k] \in Items

Shape == StoreShape /\ SentShape /\ ReceivedShape

\* The fields of the messages that the editor sends.
LEMMA ServerMessageFields ==
    \A m \in ServerMessages :
      /\ m.type \in {"didOpen", "didChange", "didClose", "configuration", "request"}
      /\ m.type \in {"didOpen", "didChange"} => m.file \in Files /\ m.content \in Contents
      /\ m.type = "didClose" => m.file \in Files
      /\ m.type = "configuration" => m.options \in Options
      /\ m.type = "request" => m.id \in Nat
  BY DEF ServerMessages

-----------------------------------------------------------------------------
(* The steps, as the proofs distinguish them. *)

\* Message m gives document f another text.
About(m, f) == m.type \in {"didOpen", "didChange", "didClose"} /\ m.file = f
TextOf(m) == IF m.type = "didClose" THEN NoContent ELSE m.content

\* The server takes a message that is not a request, or a request.
TakesMessage ==
    /\ OnText \/ OnTextClose \/ OnRespond
    /\ toServer # <<>> /\ Head(toServer).type # "request"
    /\ toServer' = Tail(toServer)
    /\ \A f \in Files : document'[f] = IF About(Head(toServer), f) THEN TextOf(Head(toServer))
                                       ELSE document[f]
    /\ UNCHANGED <<editorVars, answers, unwritten, completionCache>>
TakesRequest ==
    /\ OnLocation \/ OnCompletion \/ OnResolveCompletion
    /\ toServer # <<>> /\ Head(toServer).type = "request"
    /\ toServer' = Tail(toServer)
    /\ UNCHANGED <<editorVars, storeVars, failedBuilds>>
\* The editor sends a message, or a request r.
Sends(m) ==
    /\ toServer' = Append(toServer, m) /\ m.type # "request"
    /\ \A f \in Files : text'[f] = IF About(m, f) THEN TextOf(m) ELSE text[f]
    /\ UNCHANGED <<serverVars, toClient, answers, unwritten, failedBuilds, asked, shown, diagnostics>>
Asks(r) ==
    /\ toServer' = Append(toServer, [type |-> "request", id |-> Len(asked) + 1])
    /\ asked' = Append(asked, r)
    /\ r.kind # "resolve" => r.content = text[r.file] /\ r.content \in Contents
    /\ UNCHANGED <<serverVars, toClient, answers, unwritten, failedBuilds, text, edits, shown,
                   diagnostics>>
Rests ==
    /\ EditorReceives \/ UNCHANGED vars
    /\ UNCHANGED <<serverVars, toServer, asked, answers, unwritten, text, edits, failedBuilds>>

\* A step takes a message or a request, sends one, asks, or leaves the pipe to the server alone.
LEMMA StepKinds ==
    ASSUME Shape, [Next]_vars
    PROVE  \/ TakesMessage
           \/ TakesRequest
           \/ \E m \in ServerMessages : Sends(m)
           \/ \E r \in Requests : Asks(r)
           \/ Rests
<1>0. toServer # <<>> => Head(toServer) \in ServerMessages
  BY TailElements DEF Shape, SentShape
<1>1. CASE OnText \/ OnTextClose \/ OnRespond
  <2> DEFINE m == Head(toServer)
  <2>1. m \in ServerMessages
    BY <1>0, <1>1 DEF OnText, OnTextClose, OnRespond, Receive
  <2>2. ASSUME NEW f \in Files
        PROVE  document'[f] = IF About(m, f) THEN TextOf(m) ELSE document[f]
    <3>1. CASE OnText
      <4>1. m.file \in Files /\ document' = [document EXCEPT ![m.file] = m.content]
            /\ m.type \in {"didOpen", "didChange"}
        BY <2>1, <3>1, ServerMessageFields DEF OnText, Receive, Store!Edit
      <4> HIDE DEF m
      <4>2. QED
        BY <4>1 DEF About, TextOf, Shape, StoreShape
    <3>2. CASE OnTextClose
      <4>1. m.file \in Files /\ document' = [document EXCEPT ![m.file] = NoContent]
            /\ m.type = "didClose"
        BY <2>1, <3>2, ServerMessageFields DEF OnTextClose, Receive, Store!Close
      <4> HIDE DEF m
      <4>2. QED
        BY <4>1 DEF About, TextOf, Shape, StoreShape
    <3>3. CASE OnRespond
      <4>1. document' = document /\ m.type = "configuration"
        BY <3>3 DEF OnRespond, Receive, Store!Configure
      <4>2. QED
        BY <4>1 DEF About
    <3>4. QED
      BY <1>1, <3>1, <3>2, <3>3
  <2>3. QED
    BY <1>1, <2>2 DEF OnText, OnTextClose, OnRespond, Receive, TakesMessage
<1>2. CASE OnLocation \/ OnCompletion \/ OnResolveCompletion
  BY <1>2 DEF OnLocation, OnCompletion, OnResolveCompletion, Receive, TakesRequest, serverVars
<1>3. ASSUME NEW f \in Files, Edit(f)
      PROVE  \E m \in ServerMessages : Sends(m)
  <2> DEFINE m == [type |-> IF text[f] = NoContent THEN "didOpen" ELSE "didChange",
                   file |-> f, content |-> edits']
  <2>1. edits' \in Contents
    BY <1>3, BoundsAssumption DEF Edit, Contents, Shape, SentShape
  <2>2. m \in ServerMessages /\ m.type \in {"didOpen", "didChange"} /\ m.file = f /\ m.content = edits'
    BY <2>1 DEF ServerMessages
  <2>3. text' = [text EXCEPT ![f] = edits'] /\ Send(m) /\ UNCHANGED <<asked, shown, diagnostics>>
    BY <1>3 DEF Edit
  <2> HIDE DEF m
  <2>4. \A g \in Files : text'[g] = IF About(m, g) THEN TextOf(m) ELSE text[g]
    BY <2>2, <2>3 DEF About, TextOf, Shape, SentShape
  <2>5. Sends(m)
    BY <2>2, <2>3, <2>4 DEF Send, Sends
  <2>6. QED
    BY <2>2, <2>5
<1>4. ASSUME NEW f \in Files, Close(f)
      PROVE  \E m \in ServerMessages : Sends(m)
  <2> DEFINE m == [type |-> "didClose", file |-> f]
  <2>1. m \in ServerMessages /\ m.type = "didClose" /\ m.file = f
    BY DEF ServerMessages
  <2>2. text' = [text EXCEPT ![f] = NoContent] /\ Send(m) /\ UNCHANGED <<asked, shown, diagnostics>>
    BY <1>4 DEF Close
  <2> HIDE DEF m
  <2>3. \A g \in Files : text'[g] = IF About(m, g) THEN TextOf(m) ELSE text[g]
    BY <2>1, <2>2 DEF About, TextOf, Shape, SentShape
  <2>4. Sends(m)
    BY <2>1, <2>2, <2>3 DEF Send, Sends
  <2>5. QED
    BY <2>1, <2>4
<1>5. ASSUME NEW o \in Options, ChangeSettings(o)
      PROVE  \E m \in ServerMessages : Sends(m)
  <2> DEFINE m == [type |-> "configuration", options |-> o]
  <2>1. m \in ServerMessages /\ m.type = "configuration"
    BY DEF ServerMessages
  <2>2. Send(m) /\ UNCHANGED editorVars
    BY <1>5 DEF ChangeSettings
  <2> HIDE DEF m
  <2>3. Sends(m)
    BY <2>1, <2>2 DEF Send, Sends, About, editorVars
  <2>4. QED
    BY <2>1, <2>3
<1>6. ASSUME NEW r \in Requests, Request(r),
             r.kind # "resolve" => r.content = text[r.file] /\ r.content \in Contents
      PROVE  Asks(r)
  <2>1. Len(asked') = Len(asked) + 1
    BY <1>6, AppendProperties DEF Request, Shape, SentShape
  <2>2. QED
    BY <1>6, <2>1 DEF Request, Send, Asks
<1>7. ASSUME NEW kind \in {"location", "completion"}, NEW f \in Files, NEW valid \in BOOLEAN,
             Ask(kind, f, valid)
      PROVE  \E r \in Requests : Asks(r)
  <2> DEFINE r == [kind |-> kind, file |-> f, content |-> text[f], valid |-> valid]
  <2>1. text[f] \in Contents
    BY <1>7 DEF Ask, Shape, SentShape
  <2>2. r \in Requests /\ r.content = text[r.file] /\ r.content \in Contents
    BY <2>1 DEF Requests
  <2>3. Request(r)
    BY <1>7 DEF Ask
  <2>4. QED
    BY <1>6, <2>2, <2>3
<1>8. ASSUME NEW item \in shown, NEW valid \in BOOLEAN, Resolve(item, valid)
      PROVE  \E r \in Requests : Asks(r)
  <2> DEFINE r == [kind |-> "resolve", item |-> item, valid |-> valid]
  <2>1. r \in Requests /\ r.kind = "resolve"
    BY DEF Requests, Shape, SentShape
  <2>2. Request(r)
    BY <1>8 DEF Resolve
  <2>3. QED
    BY <1>6, <2>1, <2>2
<1>9. CASE EditorReceives \/ UNCHANGED vars
  BY <1>9 DEF EditorReceives, vars, editorVars, serverVars, Rests
<1>10. QED
  BY <1>1, <1>2, <1>3, <1>4, <1>5, <1>7, <1>8, <1>9, Zenon DEF Next, Server, Editor

-----------------------------------------------------------------------------
(* Requests on the way to the server. *)

InServer(n) == \E i \in 1 .. Len(toServer) : toServer[i].type = "request" /\ toServer[i].id = n

\* They are on the way in the order in which they were sent, and all that were
\* sent after one that is on the way are.
Increasing ==
    \A i, j \in 1 .. Len(toServer) :
        i < j /\ toServer[i].type = "request" /\ toServer[j].type = "request"
        => toServer[i].id < toServer[j].id
NoneSkipped == \A m, n \in 1 .. Len(asked) : m <= n /\ InServer(m) => InServer(n)

\* A request on the way is one that was asked.
LEMMA InServerIsAsked ==
    ASSUME Shape
    PROVE  /\ Len(asked) \in Nat /\ Len(answers) \in Nat /\ Len(toServer) \in Nat /\ Len(toClient) \in Nat
           /\ \A n : InServer(n) => n \in 1 .. Len(asked)
  BY LenProperties DEF Shape, SentShape, ReceivedShape, InServer

\* The requests behind the first message are in order.
LEMMA TailKeepsOrder ==
    ASSUME Shape, Increasing, toServer # <<>>, toServer' = Tail(toServer)
    PROVE  Increasing'
<1> DEFINE S == Len(toServer)
<1>1. /\ S \in Nat /\ Len(toServer') = S - 1
      /\ \A i \in 1 .. S - 1 : i + 1 \in 1 .. S /\ toServer'[i] = toServer[i + 1]
  BY TailElements DEF Shape, SentShape
<1>2. ASSUME NEW i \in 1 .. S - 1, NEW j \in 1 .. S - 1, i < j,
             toServer'[i].type = "request", toServer'[j].type = "request"
      PROVE  toServer'[i].id < toServer'[j].id
  <2>1. i + 1 \in 1 .. S /\ j + 1 \in 1 .. S /\ i + 1 < j + 1
    BY <1>1, <1>2
  <2>2. toServer'[i] = toServer[i + 1] /\ toServer'[j] = toServer[j + 1]
    BY <1>1
  <2>3. QED
    BY <1>2, <2>1, <2>2 DEF Increasing
<1>3. QED
  BY <1>1, <1>2 DEF Increasing

\* Taking a notification leaves the requests on the way.
LEMMA MessageTaken ==
    ASSUME Shape, Increasing, TakesMessage
    PROVE  Increasing' /\ \A n : (InServer(n)' <=> InServer(n))
<1>1. /\ Len(toServer') = Len(toServer) - 1 /\ toServer[1].type # "request"
      /\ \A i \in 1 .. Len(toServer) - 1 : i + 1 \in 1 .. Len(toServer) /\ toServer'[i] = toServer[i + 1]
      /\ \A i \in 1 .. Len(toServer) :
           i = 1 \/ (i - 1 \in 1 .. Len(toServer) - 1 /\ toServer'[i - 1] = toServer[i])
  BY TailElements DEF Shape, SentShape, TakesMessage
<1>2. ASSUME NEW n, InServer(n) PROVE InServer(n)'
  BY <1>1, <1>2 DEF InServer
<1>3. ASSUME NEW n, InServer(n)' PROVE InServer(n)
  BY <1>1, <1>3 DEF InServer
<1>4. QED
  BY <1>2, <1>3, TailKeepsOrder DEF TakesMessage

\* The request taken is the oldest on the way, and is on the way no more.
LEMMA RequestTaken ==
    ASSUME Shape, Increasing, TakesRequest
    PROVE  /\ Head(toServer).id \in 1 .. Len(asked) /\ InServer(Head(toServer).id)
           /\ \A n : InServer(n) => Head(toServer).id <= n
           /\ Increasing' /\ \A n : (InServer(n)' <=> InServer(n) /\ n # Head(toServer).id)
<1> DEFINE S == Len(toServer)
           h == Head(toServer).id
<1>1. /\ S \in Nat /\ Len(toServer') = S - 1 /\ Head(toServer) = toServer[1] /\ 1 \in 1 .. S
      /\ toServer[1].type = "request"
      /\ \A i \in 1 .. S - 1 : i + 1 \in 1 .. S /\ toServer'[i] = toServer[i + 1]
      /\ \A i \in 1 .. S : i = 1 \/ (i - 1 \in 1 .. S - 1 /\ toServer'[i - 1] = toServer[i])
  BY TailElements DEF Shape, SentShape, TakesRequest
<1>2. h \in 1 .. Len(asked) /\ InServer(h)
  BY <1>1, InServerIsAsked DEF InServer
<1>3. ASSUME NEW i \in 2 .. S, toServer[i].type = "request"
      PROVE  h < toServer[i].id
  <2>1. 1 < i /\ i \in 1 .. S
    BY <1>1
  <2>2. QED
    BY <1>1, <1>3, <2>1 DEF Increasing
<1>4. \A n : InServer(n) => h <= n
  <2> SUFFICES ASSUME NEW n, InServer(n) PROVE h <= n
    OBVIOUS
  <2>1. PICK i \in 1 .. S : toServer[i].type = "request" /\ toServer[i].id = n
    BY DEF InServer
  <2>2. n \in Nat /\ h \in Nat
    BY <1>2, InServerIsAsked
  <2>3. CASE i = 1
    BY <1>1, <2>1, <2>2, <2>3
  <2>4. CASE i # 1
    BY <1>1, <1>3, <2>1, <2>2, <2>4
  <2>5. QED
    BY <2>3, <2>4
<1>5. ASSUME NEW n, InServer(n)' PROVE InServer(n) /\ n # h
  <2>1. PICK i \in 1 .. S - 1 : toServer'[i].type = "request" /\ toServer'[i].id = n
    BY <1>1, <1>5 DEF InServer
  <2>2. i + 1 \in 2 .. S /\ i + 1 \in 1 .. S /\ toServer'[i] = toServer[i + 1]
    BY <1>1
  <2>3. InServer(n) /\ h < n
    BY <1>3, <2>1, <2>2 DEF InServer
  <2>4. QED
    BY <1>2, <2>3
<1>6. ASSUME NEW n, InServer(n), n # h PROVE InServer(n)'
  BY <1>1, <1>6 DEF InServer
<1>7. QED
  BY <1>2, <1>4, <1>5, <1>6, TailKeepsOrder DEF TakesRequest

\* Sending a notification leaves the requests on the way.
LEMMA MessageSent ==
    ASSUME Shape, Increasing, NEW m \in ServerMessages, Sends(m)
    PROVE  Increasing' /\ \A n : (InServer(n)' <=> InServer(n))
<1>1. /\ Len(toServer) \in Nat /\ Len(toServer') = Len(toServer) + 1 /\ toServer'[Len(toServer) + 1] = m
      /\ \A i \in 1 .. Len(toServer) : toServer'[i] = toServer[i] /\ i \in 1 .. Len(toServer) + 1
      /\ \A i \in 1 .. Len(toServer) + 1 : (i \in 1 .. Len(toServer) /\ i < Len(toServer) + 1)
                                          \/ i = Len(toServer) + 1
  BY AppendElements DEF Shape, SentShape, Sends
<1>2. \A n : (InServer(n)' <=> InServer(n))
  BY <1>1 DEF InServer, Sends
<1>3. Increasing'
  BY <1>1 DEF Increasing, Sends
<1>4. QED
  BY <1>2, <1>3

\* A request asked is the newest on the way.
LEMMA RequestAsked ==
    ASSUME Shape, Increasing, NEW r \in Requests, Asks(r)
    PROVE  /\ Increasing' /\ \A n : (InServer(n)' <=> InServer(n) \/ n = Len(asked) + 1)
           /\ Len(asked') = Len(asked) + 1 /\ asked'[Len(asked) + 1] = r
           /\ \A n \in 1 .. Len(asked) : asked'[n] = asked[n]
<1> DEFINE S == Len(toServer)
           N == Len(asked) + 1
           m == [type |-> "request", id |-> N]
<1>1. N \in Nat /\ m \in ServerMessages /\ m.type = "request" /\ m.id = N
  BY InServerIsAsked DEF ServerMessages
<1> HIDE DEF m
<1>2. /\ S \in Nat /\ Len(toServer') = S + 1 /\ toServer'[S + 1] = m /\ S + 1 \in 1 .. S + 1
      /\ \A i \in 1 .. S : toServer'[i] = toServer[i] /\ i \in 1 .. S + 1
      /\ \A i \in 1 .. S + 1 : (i \in 1 .. S /\ i < S + 1) \/ i = S + 1
  BY <1>1, AppendElements DEF Shape, SentShape, Asks, m
<1>3. \A n : (InServer(n)' <=> InServer(n) \/ n = N)
  BY <1>1, <1>2 DEF InServer
<1>4. ASSUME NEW i \in 1 .. S + 1, NEW j \in 1 .. S + 1, i < j,
             toServer'[i].type = "request", toServer'[j].type = "request"
      PROVE  toServer'[i].id < toServer'[j].id
  <2>1. i \in 1 .. S
    BY <1>2, <1>4
  <2>2. CASE j \in 1 .. S
    BY <1>2, <1>4, <2>1, <2>2 DEF Increasing
  <2>3. CASE j = S + 1
    <3>1. toServer[i].id \in 1 .. Len(asked)
      BY <1>2, <1>4, <2>1 DEF Shape, SentShape
    <3>2. QED
      BY <1>1, <1>2, <2>1, <2>3, <3>1, InServerIsAsked
  <2>4. QED
    BY <1>2, <2>2, <2>3
<1>5. Increasing'
  BY <1>2, <1>4 DEF Increasing
<1>6. /\ Len(asked') = Len(asked) + 1 /\ asked'[Len(asked) + 1] = r
      /\ \A n \in 1 .. Len(asked) : asked'[n] = asked[n]
  BY AppendElements DEF Shape, SentShape, Asks
<1>7. QED
  BY <1>3, <1>5, <1>6

\* Every step keeps the requests on the way in order and without gaps.
LEMMA NumberedStep ==
    ASSUME Shape, Increasing, NoneSkipped, [Next]_vars
    PROVE  Increasing' /\ NoneSkipped'
<1> USE InServerIsAsked
<1>1. CASE TakesMessage
  BY <1>1, MessageTaken DEF TakesMessage, editorVars, NoneSkipped
<1>2. CASE TakesRequest
  <2>1. asked' = asked
    BY <1>2 DEF TakesRequest, editorVars
  <2>2. ASSUME NEW m \in 1 .. Len(asked), NEW n \in 1 .. Len(asked), m <= n, InServer(m)'
        PROVE  InServer(n)'
    <3>1. InServer(m) /\ m # Head(toServer).id /\ Head(toServer).id <= m
          /\ Head(toServer).id \in 1 .. Len(asked)
      BY <1>2, <2>2, RequestTaken
    <3>2. n # Head(toServer).id
      BY <2>2, <3>1
    <3>3. QED
      BY <1>2, <2>2, <3>1, <3>2, RequestTaken DEF NoneSkipped
  <2>3. QED
    BY <1>2, <2>1, <2>2, RequestTaken DEF NoneSkipped
<1>3. ASSUME NEW m \in ServerMessages, Sends(m)
      PROVE  Increasing' /\ NoneSkipped'
  BY <1>3, MessageSent DEF Sends, NoneSkipped
<1>4. ASSUME NEW r \in Requests, Asks(r)
      PROVE  Increasing' /\ NoneSkipped'
  <2>1. ASSUME NEW m \in 1 .. Len(asked) + 1, NEW n \in 1 .. Len(asked) + 1, m <= n, InServer(m)'
        PROVE  InServer(n)'
    <3>1. CASE n = Len(asked) + 1
      BY <1>4, <3>1, RequestAsked
    <3>2. CASE n \in 1 .. Len(asked)
      <4>1. m \in 1 .. Len(asked) /\ m # Len(asked) + 1
        BY <2>1, <3>2
      <4>2. QED
        BY <1>4, <2>1, <3>2, <4>1, RequestAsked DEF NoneSkipped
    <3>3. QED
      BY <3>1, <3>2
  <2>2. QED
    BY <1>4, <2>1, RequestAsked DEF NoneSkipped
<1>5. CASE Rests
  BY <1>5 DEF Rests, Increasing, NoneSkipped, InServer
<1>6. QED
  BY <1>1, <1>2, <1>3, <1>4, <1>5, StepKinds

-----------------------------------------------------------------------------
(* The text that a request finds. *)

\* When the message at i is taken, the server has the text c of document f.
Sees(f, i, c) ==
    \/ \E j \in 1 .. i - 1 : /\ About(toServer[j], f) /\ TextOf(toServer[j]) = c
                             /\ \A k \in j + 1 .. i - 1 : ~About(toServer[k], f)
    \/ (\A k \in 1 .. i - 1 : ~About(toServer[k], f)) /\ document[f] = c

\* It should have what the editor has by then: the text a request was sent for,
\* and in the end the text that is there now.
Expected(f, i, c) ==
    \/ i = Len(toServer) + 1 /\ c = text[f]
    \/ /\ i \in 1 .. Len(toServer) /\ toServer[i].type = "request"
       /\ asked[toServer[i].id].kind # "resolve" /\ asked[toServer[i].id].file = f
       /\ asked[toServer[i].id].content = c

InOrder == \A f \in Files, i \in Nat \ {0} : \A c : Expected(f, i, c) => Sees(f, i, c)

\* What is seen at a place of the pipe is seen there when the first message was handled.
LEMMA SeesTail ==
    ASSUME Shape, toServer # <<>>, toServer' = Tail(toServer),
           NEW f \in Files, NEW c, NEW i \in 1 .. Len(toServer), Sees(f, i + 1, c),
           document'[f] = IF About(Head(toServer), f) THEN TextOf(Head(toServer)) ELSE document[f]
    PROVE  Sees(f, i, c)'
<1> DEFINE S == Len(toServer)
<1>1. /\ S \in Nat /\ Head(toServer) = toServer[1]
      /\ \A j \in 1 .. S - 1 : toServer'[j] = toServer[j + 1]
      /\ \A j \in 1 .. S : j = 1 \/ (j - 1 \in 1 .. S - 1 /\ toServer'[j - 1] = toServer[j])
  BY TailElements DEF Shape, SentShape
<1>2. i + 1 - 1 = i /\ i - 1 \in Nat /\ 1 \in 1 .. i
  BY <1>1
<1>3. ASSUME NEW j \in Nat, \A k \in j + 1 .. i : ~About(toServer[k], f)
      PROVE  \A k \in j .. i - 1 : k \in Nat \ {0} => ~About(toServer'[k], f)
  <2> SUFFICES ASSUME NEW k \in j .. i - 1, k \in Nat \ {0} PROVE ~About(toServer'[k], f)
    OBVIOUS
  <2>1. k \in 1 .. S - 1 /\ k + 1 \in j + 1 .. i
    BY <1>1
  <2>2. toServer'[k] = toServer[k + 1]
    BY <1>1, <2>1
  <2>3. QED
    BY <1>3, <2>1, <2>2
<1>4. CASE (\A k \in 1 .. i : ~About(toServer[k], f)) /\ document[f] = c
  <2>1. \A k \in 0 + 1 .. i : ~About(toServer[k], f)
    BY <1>4
  <2>2. \A k \in 1 .. i - 1 : ~About(toServer'[k], f)
    BY <1>2, <1>3, <2>1
  <2>3. document'[f] = c
    BY <1>1, <1>2, <1>4
  <2>4. QED
    BY <2>2, <2>3 DEF Sees
<1>5. ASSUME NEW j \in 1 .. i, About(toServer[j], f), TextOf(toServer[j]) = c,
             \A k \in j + 1 .. i : ~About(toServer[k], f)
      PROVE  Sees(f, i, c)'
  <2>1. \A k \in j .. i - 1 : k \in Nat \ {0} => ~About(toServer'[k], f)
    BY <1>3, <1>5
  <2>2. CASE j = 1
    <3>1. document'[f] = c
      BY <1>1, <1>5, <2>2
    <3>2. \A k \in 1 .. i - 1 : ~About(toServer'[k], f)
      BY <1>2, <2>1, <2>2
    <3>3. QED
      BY <3>1, <3>2 DEF Sees
  <2>3. CASE j # 1
    <3>1. PICK p \in 1 .. i - 1 : p = j - 1
      BY <1>2, <2>3
    <3>2. toServer'[p] = toServer[j]
      BY <1>1, <2>3, <3>1
    <3>3. \A k \in p + 1 .. i - 1 : ~About(toServer'[k], f)
      <4>1. p + 1 = j /\ \A k \in p + 1 .. i - 1 : k \in j .. i - 1 /\ k \in Nat \ {0}
        BY <3>1
      <4>2. QED
        BY <2>1, <4>1
    <3>4. QED
      BY <1>5, <3>1, <3>2, <3>3 DEF Sees
  <2>4. QED
    BY <2>2, <2>3
<1>6. QED
  BY <1>2, <1>4, <1>5 DEF Sees

\* What is seen at a place of the pipe is still seen there when a message is appended.
LEMMA SeesAppended ==
    ASSUME Shape, NEW m \in ServerMessages, toServer' = Append(toServer, m), document' = document,
           NEW f \in Files, NEW c, NEW i \in 1 .. Len(toServer) + 1
    PROVE  /\ Sees(f, i, c) => Sees(f, i, c)'
           /\ i = Len(toServer) + 1 /\ About(m, f) /\ TextOf(m) = c => Sees(f, i + 1, c)'
           /\ i = Len(toServer) + 1 /\ ~About(m, f) /\ Sees(f, i, c) => Sees(f, i + 1, c)'
<1> DEFINE S == Len(toServer)
<1>1. /\ S \in Nat /\ toServer'[S + 1] = m
      /\ \A j \in 1 .. S : toServer'[j] = toServer[j]
  BY AppendElements DEF Shape, SentShape
<1>2. \A j \in 1 .. i - 1 : j \in 1 .. S /\ toServer'[j] = toServer[j]
  BY <1>1
<1>3. Sees(f, i, c) => Sees(f, i, c)'
  <2>1. \A j \in 1 .. i - 1 : \A k \in j + 1 .. i - 1 : k \in 1 .. i - 1
    BY <1>1
  <2>2. QED
    BY <1>2, <2>1 DEF Sees
<1>4. ASSUME i = S + 1, About(m, f), TextOf(m) = c
      PROVE  Sees(f, i + 1, c)'
  <2>1. i \in 1 .. i + 1 - 1 /\ (\A k \in i + 1 .. i + 1 - 1 : FALSE) /\ toServer'[i] = m
    BY <1>1, <1>4
  <2>2. QED
    BY <1>4, <2>1 DEF Sees
<1>5. ASSUME i = S + 1, ~About(m, f), Sees(f, i, c)'
      PROVE  Sees(f, i + 1, c)'
  <2>1. i + 1 - 1 = i /\ \A k \in 1 .. i : k \in 1 .. i - 1 \/ k = i
    BY <1>1
  <2>2. toServer'[i] = m
    BY <1>1, <1>5
  <2>3. CASE (\A k \in 1 .. i - 1 : ~About(toServer'[k], f)) /\ document'[f] = c
    BY <1>5, <2>1, <2>2, <2>3 DEF Sees
  <2>4. ASSUME NEW j \in 1 .. i - 1, About(toServer'[j], f), TextOf(toServer'[j]) = c,
               \A k \in j + 1 .. i - 1 : ~About(toServer'[k], f)
        PROVE  Sees(f, i + 1, c)'
    <3>1. j \in 1 .. i /\ \A k \in j + 1 .. i : k \in j + 1 .. i - 1 \/ k = i
      BY <1>1
    <3>2. \A k \in j + 1 .. i : ~About(toServer'[k], f)
      BY <1>5, <2>2, <2>4, <3>1
    <3>3. QED
      BY <2>1, <2>4, <3>1, <3>2 DEF Sees
  <2>5. QED
    BY <1>5, <2>3, <2>4 DEF Sees
<1>6. QED
  BY <1>3, <1>4, <1>5

\* Every step keeps the text that a request will be handled in that of its asking.
LEMMA InOrderStep ==
    ASSUME Shape, Shape', Increasing, InOrder, [Next]_vars
    PROVE  InOrder'
<1> DEFINE S == Len(toServer)
<1> SUFFICES ASSUME NEW f \in Files, NEW i \in Nat \ {0}, NEW c, Expected(f, i, c)'
             PROVE  Sees(f, i, c)'
  BY DEF InOrder
<1>0. /\ S \in Nat /\ Len(asked) \in Nat /\ i + 1 \in Nat \ {0}
      /\ \A j \in 1 .. S : toServer[j].type = "request" => toServer[j].id \in 1 .. Len(asked)
  <2>1. S \in Nat /\ Len(asked) \in Nat
    BY InServerIsAsked
  <2>2. i + 1 \in Nat \ {0}
    OBVIOUS
  <2>3. QED
    BY <2>1, <2>2 DEF Shape, SentShape
<1>1. CASE TakesMessage \/ TakesRequest
  <2>1. /\ toServer # <<>> /\ toServer' = Tail(toServer) /\ UNCHANGED editorVars
        /\ document'[f] = IF About(Head(toServer), f) THEN TextOf(Head(toServer)) ELSE document[f]
    BY <1>1 DEF TakesMessage, TakesRequest, storeVars, About
  <2>2. Len(toServer') = S - 1 /\ \A j \in 1 .. S - 1 : j + 1 \in 1 .. S /\ toServer'[j] = toServer[j + 1]
    BY <2>1, TailElements DEF Shape, SentShape
  <2>3. i \in 1 .. S /\ Expected(f, i + 1, c)
    <3>1. CASE i = Len(toServer') + 1 /\ c = text'[f]
      <4>1. i = S /\ i + 1 = S + 1
        BY <1>0, <2>2, <3>1
      <4>2. QED
        BY <2>1, <3>1, <4>1 DEF Expected, editorVars
    <3>2. CASE i \in 1 .. S - 1 /\ toServer'[i] = toServer[i + 1]
      <4>1. i \in 1 .. S /\ i + 1 \in 1 .. S
        BY <1>0, <2>2, <3>2
      <4>2. /\ toServer[i + 1].type = "request" /\ asked[toServer[i + 1].id].kind # "resolve"
            /\ asked[toServer[i + 1].id].file = f /\ asked[toServer[i + 1].id].content = c
        <5>1. i # S
          BY <1>0, <3>2
        <5>2. asked' = asked
          BY <2>1 DEF editorVars
        <5>3. S - 1 + 1 = S
          BY <1>0
        <5>4. i # Len(toServer') + 1
          BY <2>2, <5>1, <5>3
        <5>5. QED
          BY <3>2, <5>2, <5>4 DEF Expected
      <4>3. QED
        BY <4>1, <4>2 DEF Expected
    <3>3. (i = Len(toServer') + 1 /\ c = text'[f]) \/ i \in 1 .. Len(toServer')
      BY DEF Expected
    <3>4. QED
      BY <2>2, <3>1, <3>2, <3>3
  <2>4. QED
    BY <1>0, <2>1, <2>3, SeesTail DEF InOrder
<1>2. ASSUME NEW m \in ServerMessages, Sends(m)
      PROVE  Sees(f, i, c)'
  <2>1. /\ Len(toServer') = S + 1 /\ toServer'[S + 1] = m
        /\ \A j \in 1 .. S : toServer'[j] = toServer[j]
        /\ UNCHANGED <<asked, document>> /\ toServer' = Append(toServer, m)
        /\ text'[f] = IF About(m, f) THEN TextOf(m) ELSE text[f]
        /\ m.type # "request"
    BY <1>2, AppendElements DEF Shape, SentShape, Sends, serverVars, storeVars
  <2>2. CASE i = S + 2 /\ c = text'[f]
    <3>1. PICK p \in 1 .. S + 1 : p = S + 1 /\ i = p + 1 /\ p \in Nat \ {0}
      BY <1>0, <2>2
    <3>2. ~About(m, f) => Sees(f, p, c)
      BY <2>1, <2>2, <3>1 DEF Expected, InOrder
    <3>3. QED
      BY <2>1, <2>2, <3>1, <3>2, SeesAppended
  <2>3. CASE i \in 1 .. S + 1 /\ toServer'[i].type = "request" /\ ~(i = S + 2)
    <3>1. i \in 1 .. S
      BY <1>0, <2>1, <2>3
    <3>2. Expected(f, i, c)
      BY <1>0, <2>1, <2>3, <3>1 DEF Expected
    <3>3. Sees(f, i, c)
      BY <3>2 DEF InOrder
    <3>4. QED
      BY <1>0, <2>1, <3>1, <3>3, SeesAppended
  <2>4. QED
    BY <1>0, <2>1, <2>2, <2>3 DEF Expected
<1>3. ASSUME NEW r \in Requests, Asks(r)
      PROVE  Sees(f, i, c)'
  <2> DEFINE m == [type |-> "request", id |-> Len(asked) + 1]
  <2>0. m \in ServerMessages /\ m.type = "request" /\ m.id = Len(asked) + 1
    BY <1>0 DEF ServerMessages
  <2> HIDE DEF m
  <2>1. /\ Len(toServer') = S + 1 /\ toServer'[S + 1] = m
        /\ \A j \in 1 .. S : toServer'[j] = toServer[j]
        /\ UNCHANGED <<text, document>> /\ toServer' = Append(toServer, m)
    BY <1>3, <2>0, AppendElements DEF Shape, SentShape, Asks, serverVars, storeVars, m
  <2>2. asked'[Len(asked) + 1] = r /\ \A n \in 1 .. Len(asked) : asked'[n] = asked[n]
    BY <1>3, RequestAsked
  <2>3. ~About(m, f)
    BY <2>0 DEF About
  <2>4. CASE i = S + 2 /\ c = text'[f]
    <3>1. PICK p \in 1 .. S + 1 : p = S + 1 /\ i = p + 1 /\ p \in Nat \ {0}
      BY <1>0, <2>4
    <3>2. Sees(f, p, c)
      BY <2>1, <2>4, <3>1 DEF Expected, InOrder
    <3>3. QED
      BY <2>0, <2>1, <2>3, <3>1, <3>2, SeesAppended
  <2>5. CASE i = S + 1 /\ asked'[toServer'[i].id].kind # "resolve"
             /\ asked'[toServer'[i].id].file = f /\ asked'[toServer'[i].id].content = c
    <3>1. r.kind # "resolve" /\ r.file = f /\ r.content = c
      BY <2>0, <2>1, <2>2, <2>5
    <3>2. Sees(f, i, c)
      BY <1>3, <2>5, <3>1 DEF Asks, Expected, InOrder
    <3>3. QED
      BY <1>0, <2>0, <2>1, <2>5, <3>2, SeesAppended
  <2>6. CASE i \in 1 .. S /\ toServer'[i].type = "request" /\ asked'[toServer'[i].id].kind # "resolve"
             /\ asked'[toServer'[i].id].file = f /\ asked'[toServer'[i].id].content = c
    <3>1. Expected(f, i, c)
      BY <1>0, <2>1, <2>2, <2>6 DEF Expected
    <3>2. Sees(f, i, c)
      BY <3>1 DEF InOrder
    <3>3. i \in 1 .. S + 1
      BY <1>0, <2>6
    <3>4. QED
      BY <2>0, <2>1, <3>2, <3>3, SeesAppended
  <2>7. QED
    BY <1>0, <2>1, <2>4, <2>5, <2>6 DEF Expected
<1>4. CASE Rests
  <2>1. Expected(f, i, c) /\ UNCHANGED <<toServer, document>>
    BY <1>4 DEF Rests, Expected, serverVars, storeVars
  <2>2. QED
    BY <2>1 DEF InOrder, Sees
<1>5. QED
  BY <1>1, <1>2, <1>3, <1>4, StepKinds

-----------------------------------------------------------------------------
(* The shape of the state is kept. *)

\* Of numbers that are bounded there is a greatest.
LEMMA Greatest ==
    ASSUME NEW n \in Nat, NEW T \in SUBSET (0 .. n), T # {}
    PROVE  \E x \in T : \A y \in T : y <= x
<1> DEFINE D == {n - x : x \in T}
<1>1. D \subseteq Nat /\ D # {}
  <2>1. \A x \in T : n - x \in Nat
    OBVIOUS
  <2>2. QED
    BY <2>1, Zenon
<1> HIDE DEF D
<1>2. PICK d \in D : \A e \in D : ~(<<e, d>> \in OpToRel(<, Nat))
  BY <1>1, NatLessThanWellFounded, WFMin
<1>3. PICK x \in T : d = n - x
  BY <1>2 DEF D
<1>4. ASSUME NEW y \in T, x < y PROVE FALSE
  <2>1. n - y \in D /\ n - y < d /\ d \in Nat
    BY <1>1, <1>3, <1>4 DEF D
  <2>2. <<n - y, d>> \in OpToRel(<, Nat)
    BY <1>1, <2>1 DEF OpToRel
  <2>3. QED
    BY <1>2, <2>1, <2>2
<1>5. \A y \in T : y <= x
  BY <1>4
<1>6. QED
  BY <1>5

\* What the handlers do to the store.
LEMMA StoreStep ==
    ASSUME Shape, [Next]_vars
    PROVE  StoreShape'
<1>0. toServer # <<>> => Head(toServer) \in ServerMessages
  BY TailElements DEF Shape, SentShape
<1>1. CASE TakesMessage
  <2> DEFINE m == Head(toServer)
  <2>1. m \in ServerMessages
    BY <1>0, <1>1 DEF TakesMessage
  <2>2. CASE OnText
    <3>1. m.file \in Files /\ m.content \in Contents /\ Store!Edit(m.file, m.content)
      BY <2>1, <2>2, ServerMessageFields DEF OnText, Receive
    <3> HIDE DEF m
    <3>2. QED
      BY <3>1 DEF Store!Edit, Store!Parsed, Shape, StoreShape
  <2>3. CASE OnTextClose
    <3>1. m.file \in Files /\ Store!Close(m.file)
      BY <2>1, <2>3, ServerMessageFields DEF OnTextClose, Receive
    <3> HIDE DEF m
    <3>2. QED
      BY <3>1 DEF Store!Close, Store!Parsed, Shape, StoreShape
  <2>4. CASE OnRespond
    <3>1. m.options \in Options /\ Store!Configure(m.options)
      BY <2>1, <2>4, ServerMessageFields DEF OnRespond, Receive
    <3> HIDE DEF m
    <3>2. QED
      BY <3>1 DEF Store!Configure, Store!Parsed, Shape, StoreShape
  <2>5. QED
    BY <1>1, <2>2, <2>3, <2>4 DEF TakesMessage
<1>2. CASE UNCHANGED storeVars
  BY <1>2 DEF storeVars, Shape, StoreShape
<1>3. UNCHANGED storeVars \/ TakesMessage
  BY StepKinds DEF TakesRequest, Sends, Asks, Rests, serverVars
<1>4. QED
  BY <1>1, <1>2, <1>3

\* The messages of the server, of each kind.
LEMMA MessageFields ==
    \A m \in Messages :
      /\ m.type = "completion" => m.items \in SUBSET Items
      /\ m.type = "diagnostics" => m.file \in Files /\ m.content \in Contents
  BY DEF Messages, Answers

\* What the editor sends.
LEMMA SentStep ==
    ASSUME Shape, Increasing, [Next]_vars
    PROVE  SentShape'
<1> USE InServerIsAsked
<1>0. edits' \in 0 .. MaxEdits
  <2>1. CASE UNCHANGED edits
    BY <2>1 DEF Shape, SentShape
  <2>2. ASSUME NEW f \in Files, Edit(f) PROVE edits' \in 0 .. MaxEdits
    BY <2>2, BoundsAssumption DEF Edit, Shape, SentShape
  <2>3. QED
    BY <2>1, <2>2 DEF Next, Server, Editor, OnText, OnTextClose, OnRespond, OnLocation, OnCompletion,
                      OnResolveCompletion, Receive, Close, ChangeSettings, Ask, Resolve, Request,
                      EditorReceives, editorVars, vars
<1>1. CASE TakesMessage \/ TakesRequest
  <2>1. toServer # <<>> /\ toServer' = Tail(toServer) /\ UNCHANGED editorVars
    BY <1>1 DEF TakesMessage, TakesRequest
  <2>2. /\ toServer' \in Seq(ServerMessages) /\ Len(toServer') = Len(toServer) - 1
        /\ \A i \in 1 .. Len(toServer) - 1 : i + 1 \in 1 .. Len(toServer) /\ toServer'[i] = toServer[i + 1]
    BY <2>1, TailElements DEF Shape, SentShape
  <2>3. QED
    BY <1>0, <2>1, <2>2 DEF Shape, SentShape, editorVars
<1>2. ASSUME NEW m \in ServerMessages, Sends(m)
      PROVE  SentShape'
  <2>1. /\ toServer' \in Seq(ServerMessages)
        /\ \A i \in 1 .. Len(toServer') : toServer'[i].type = "request" => toServer'[i].id \in 1 .. Len(asked)
    <3>1. /\ toServer' \in Seq(ServerMessages)
          /\ Len(toServer') = Len(toServer) + 1 /\ toServer'[Len(toServer) + 1] = m /\ m.type # "request"
          /\ \A i \in 1 .. Len(toServer) : toServer'[i] = toServer[i]
          /\ \A i \in 1 .. Len(toServer) + 1 : i \in 1 .. Len(toServer) \/ i = Len(toServer) + 1
      BY <1>2, AppendElements DEF Shape, SentShape, Sends
    <3>2. QED
      BY <3>1 DEF Shape, SentShape
  <2>2. text' \in [Files -> Contents \cup {NoContent}]
    <3>1. text' = [f \in Files |-> text'[f]]
      BY <1>2 DEF Next, Server, Editor, Edit, Close, ChangeSettings, Ask, Resolve, Request, EditorReceives,
                  OnText, OnTextClose, OnRespond, OnLocation, OnCompletion, OnResolveCompletion, Receive,
                  editorVars, vars, Shape, SentShape
    <3>2. \A f \in Files : text'[f] \in Contents \cup {NoContent}
      BY <1>2, ServerMessageFields DEF Sends, About, TextOf, Shape, SentShape
    <3>3. QED
      BY <3>1, <3>2
  <2>3. QED
    BY <1>0, <1>2, <2>1, <2>2 DEF Sends, Shape, SentShape
<1>3. ASSUME NEW r \in Requests, Asks(r)
      PROVE  SentShape'
  <2> DEFINE m == [type |-> "request", id |-> Len(asked) + 1]
  <2>0. m \in ServerMessages /\ m.type = "request" /\ m.id = Len(asked) + 1
    BY DEF ServerMessages
  <2> HIDE DEF m
  <2>1. /\ toServer' \in Seq(ServerMessages)
        /\ Len(toServer') = Len(toServer) + 1 /\ toServer'[Len(toServer) + 1] = m
        /\ \A i \in 1 .. Len(toServer) : toServer'[i] = toServer[i]
        /\ \A i \in 1 .. Len(toServer) + 1 : i \in 1 .. Len(toServer) \/ i = Len(toServer) + 1
    BY <1>3, <2>0, AppendElements DEF Shape, SentShape, Asks, m
  <2>2. /\ asked' \in Seq(Requests) /\ Len(asked') = Len(asked) + 1 /\ asked'[Len(asked) + 1] = r
        /\ \A n \in 1 .. Len(asked) : asked'[n] = asked[n] /\ n \in 1 .. Len(asked) + 1
        /\ Len(asked) + 1 \in 1 .. Len(asked) + 1
        /\ \A n \in 1 .. Len(asked) + 1 : n \in 1 .. Len(asked) \/ n = Len(asked) + 1
    BY <1>3, AppendElements DEF Shape, SentShape, Asks
  <2>3. \A i \in 1 .. Len(toServer') : toServer'[i].type = "request" => toServer'[i].id \in 1 .. Len(asked')
    <3>1. Len(asked) \in Nat /\ Len(toServer) \in Nat
      BY DEF Shape, SentShape
    <3>2. \A i \in 1 .. Len(toServer) : toServer[i].type = "request" => toServer[i].id \in 1 .. Len(asked)
      BY DEF Shape, SentShape
    <3>3. \A i \in 1 .. Len(toServer) :
            toServer'[i].type = "request" => toServer'[i].id \in 1 .. Len(asked) + 1
      BY <2>1, <2>2, <3>2
    <3>4. toServer'[Len(toServer) + 1].id \in 1 .. Len(asked) + 1
      BY <2>0, <2>1, <2>2
    <3>5. QED
      BY <2>1, <2>2, <3>3, <3>4
  <2>4. \A n \in 1 .. Len(asked') : asked'[n].kind # "resolve" => asked'[n].content \in Contents
    BY <1>3, <2>2 DEF Asks, Shape, SentShape
  <2>5. QED
    BY <1>0, <1>3, <2>1, <2>2, <2>3, <2>4 DEF Asks, Shape, SentShape
<1>4. CASE Rests
  <2>1. shown' \in SUBSET Items
    <3>1. CASE EditorReceives
      <4>1. Head(toClient) \in Messages
        BY <3>1, TailElements DEF EditorReceives, Shape, ReceivedShape
      <4>2. QED
        BY <3>1, <4>1, MessageFields DEF EditorReceives, Shape, SentShape
    <3>2. QED
      BY <1>4, <3>1 DEF Rests, vars, editorVars, Shape, SentShape
  <2>2. QED
    BY <1>0, <1>4, <2>1 DEF Rests, Shape, SentShape
<1>5. QED
  BY <1>1, <1>2, <1>3, <1>4, StepKinds

-----------------------------------------------------------------------------
(* What the handler of request h does. *)

Locates(h, c) ==
    /\ asked[h].kind = "location" /\ c \in {NoContent, asked[h].content}
    /\ answers' = Append(answers, [type |-> "location", id |-> h, content |-> c])
    /\ UNCHANGED <<completionCache, unwritten>>
Completes(h, items) ==
    /\ asked[h].kind = "completion" /\ asked[h].valid
    /\ \A i \in items : i.content = asked[h].content
    /\ answers' = Append(answers, [type |-> "completion", id |-> h, items |-> items])
    /\ completionCache' = CacheOf(items) /\ UNCHANGED unwritten
Resolves(h, item) ==
    /\ asked[h].kind = "resolve" /\ asked[h].valid
    /\ LET key == MakeKey(asked[h].item.label, asked[h].item.index)
       IN  item = IF key \in DOMAIN completionCache THEN completionCache[key] ELSE NoItem
    /\ answers' = Append(answers, [type |-> "resolve", id |-> h, item |-> item])
    /\ UNCHANGED <<completionCache, unwritten>>
Fails(h) ==
    /\ asked[h].kind # "location" /\ ~asked[h].valid
    /\ UNCHANGED <<answers, unwritten>>
    /\ completionCache' = IF asked[h].kind = "completion" THEN <<>> ELSE completionCache
Drops(h) ==
    /\ asked[h].valid
    /\ UNCHANGED answers /\ unwritten' = unwritten \cup {h}
    /\ \/ UNCHANGED completionCache
       \/ /\ asked[h].kind = "completion"
          /\ \E items \in SUBSET Items : completionCache' = CacheOf(items)
Handles(h) ==
    \/ \E c \in Contents \cup {NoContent} : Locates(h, c)
    \/ \E items \in SUBSET Items : Completes(h, items)
    \/ \E item \in Items \cup {NoItem} : Resolves(h, item)
    \/ Fails(h) \/ Drops(h)

\* No problems are among what is written.
WritesQuietly ==
  \/ UNCHANGED toClient
  \/ \E m \in Messages :
        /\ m.type # "diagnostics"
        /\ \/ toClient' = Append(toClient, m)
           \/ toClient' = Append(Append(toClient, Error), m)

\* The item behind a key is one with that key.
LEMMA CacheElements ==
    ASSUME NEW items \in SUBSET Items
    PROVE  \A k \in DOMAIN CacheOf(items) :
             /\ CacheOf(items)[k] \in items
             /\ MakeKey(CacheOf(items)[k].label, CacheOf(items)[k].index) = k
<1> SUFFICES ASSUME NEW k \in {MakeKey(i.label, i.index) : i \in items}
             PROVE  /\ CacheOf(items)[k] \in items
                    /\ MakeKey(CacheOf(items)[k].label, CacheOf(items)[k].index) = k
  BY DEF CacheOf
<1> DEFINE Good(i) == /\ MakeKey(i.label, i.index) = k
                      /\ \A j \in items : MakeKey(j.label, j.index) = k => j.index <= i.index
           T == {i.index : i \in {j \in items : MakeKey(j.label, j.index) = k}}
<1>1. PICK last : last \in Nat /\ \A s \in Suggestions : s.index \in 0 .. last
  BY SuggestionsAssumption
<1>2. \A i \in Items : i.index \in 0 .. last
  BY <1>1 DEF Items
<1>3. T \subseteq 0 .. last /\ T # {}
  BY <1>2
<1>4. \E x \in T : \A y \in T : y <= x
  <2> HIDE DEF T
  <2>1. QED
    BY <1>1, <1>3, Greatest
<1>5. \E i \in items : Good(i)
  BY <1>4
<1>6. CacheOf(items)[k] = CHOOSE i \in items : Good(i)
  BY DEF CacheOf
<1>7. CacheOf(items)[k] \in items /\ Good(CacheOf(items)[k])
  <2> HIDE DEF Good
  <2>1. QED
    BY <1>5, <1>6, Zenon
<1>8. QED
  BY <1>7

\* A request that asks about a document finds the text it was sent for.
LEMMA RequestSeesText ==
    ASSUME Shape, InOrder, TakesRequest, asked[Head(toServer).id].kind # "resolve"
    PROVE  LET r == asked[Head(toServer).id]
           IN  r.file \in Files /\ r.content \in Contents /\ document[r.file] = r.content
<1> DEFINE h == Head(toServer).id
<1>1. Head(toServer) = toServer[1] /\ 1 \in 1 .. Len(toServer) /\ toServer[1].type = "request"
      /\ h \in 1 .. Len(asked)
  BY TailElements DEF Shape, SentShape, TakesRequest
<1>2. asked[h] \in Requests
  BY <1>1, ElementOfSeq DEF Shape, SentShape
<1>3. asked[h].file \in Files /\ asked[h].content \in Contents
  BY <1>1, <1>2 DEF Requests, Shape, SentShape
<1>4. Expected(asked[h].file, 1, asked[h].content)
  BY <1>1 DEF Expected
<1>5. Sees(asked[h].file, 1, asked[h].content)
  <2>1. 1 \in Nat \ {0}
    OBVIOUS
  <2>2. QED
    BY <1>3, <1>4, <2>1 DEF InOrder
<1>6. \A k : k \notin 1 .. 1 - 1
  OBVIOUS
<1>7. QED
  BY <1>3, <1>5, <1>6 DEF Sees

\* A request is handled in the text it was asked in, and publishes nothing.
LEMMA RequestHandled ==
    ASSUME Shape, InOrder, Increasing, TakesRequest
    PROVE  Handles(Head(toServer).id) /\ WritesQuietly
<1> DEFINE h == Head(toServer).id
           r == asked[h]
<1>1. h \in 1 .. Len(asked) /\ h \in Nat /\ r \in Requests
  <2>1. h \in 1 .. Len(asked) /\ h \in Nat
    BY RequestTaken, InServerIsAsked
  <2>2. QED
    BY <2>1, ElementOfSeq DEF Shape, SentShape
<1>2. r.kind # "resolve" => r.file \in Files /\ r.content \in Contents /\ document[r.file] = r.content
  BY RequestSeesText
<1>3. ASSUME r.kind # "resolve", view[r.file] # NoParse
      PROVE  view[r.file].content = r.content
  BY <1>2, <1>3 DEF Shape, StoreShape, Store!Parsed
<1>4. CASE OnLocation
  <2> DEFINE m(c) == [type |-> "location", id |-> h, content |-> c]
  <2>1. \A c \in Contents \cup {NoContent} :
          m(c) \in Messages /\ m(c).type # "diagnostics" /\ m(c).id = h
    BY <1>1 DEF Messages, Answers
  <2>2. GetLocations(r.file) \subseteq {NoContent, r.content} /\ r.content \in Contents
    BY <1>2, <1>3, <1>4 DEF GetLocations, OnLocation
  <2>3. r.kind = "location" /\ UNCHANGED completionCache
    BY <1>4 DEF OnLocation, serverVars
  <2>4. \/ \E c \in {NoContent, r.content} :
             /\ answers' = Append(answers, m(c)) /\ UNCHANGED unwritten
             /\ \/ toClient' = Append(toClient, m(c))
                \/ toClient' = Append(Append(toClient, Error), m(c))
        \/ r.valid /\ unwritten' = unwritten \cup {h} /\ UNCHANGED <<toClient, answers>>
    <3>1. CASE r.valid
      <4>1. PICK c \in GetLocations(r.file) : Respond(m(c), c # NoContent)
        BY <1>4, <3>1 DEF OnLocation
      <4>2. c \in {NoContent, r.content}
        BY <2>2, <4>1
      <4>3. \/ /\ toClient' = Append(toClient, m(c)) /\ answers' = Append(answers, m(c))
               /\ UNCHANGED unwritten
            \/ unwritten' = unwritten \cup {h} /\ UNCHANGED <<toClient, answers>>
        <5>1. m(c).id = h
          OBVIOUS
        <5> HIDE DEF m
        <5>2. QED
          BY <4>1, <5>1 DEF Respond, Answer
      <4> HIDE DEF m, r
      <4>4. QED
        BY <3>1, <4>2, <4>3
    <3>2. CASE ~r.valid
      BY <1>4, <3>2 DEF OnLocation
    <3>3. QED
      BY <3>1, <3>2
  <2> HIDE DEF r
  <2>5. CASE r.valid /\ unwritten' = unwritten \cup {h} /\ UNCHANGED <<toClient, answers>>
    BY <2>3, <2>5 DEF Handles, Drops, WritesQuietly, r
  <2>6. ASSUME NEW c \in {NoContent, r.content},
               answers' = Append(answers, m(c)), UNCHANGED unwritten,
               \/ toClient' = Append(toClient, m(c))
               \/ toClient' = Append(Append(toClient, Error), m(c))
        PROVE  Handles(h) /\ WritesQuietly
    <3>1. c \in Contents \cup {NoContent}
      BY <2>2
    <3>2. WritesQuietly
      <4> HIDE DEF m
      <4>1. QED
        BY <2>1, <2>6, <3>1 DEF WritesQuietly
    <3>3. Locates(h, c)
      BY <2>3, <2>6 DEF Locates, r
    <3>4. QED
      BY <3>1, <3>2, <3>3 DEF Handles
  <2>7. QED
    BY <2>4, <2>5, <2>6
<1>5. CASE OnCompletion
  <2> DEFINE m(items) == [type |-> "completion", id |-> h, items |-> items]
  <2>0. r.kind = "completion"
    BY <1>5 DEF OnCompletion
  <2>1. \A items \in SUBSET Items : m(items) \in Messages /\ m(items).type # "diagnostics"
    BY <1>1 DEF Messages, Answers
  <2>2. ASSUME NEW items \in GetCompletions(r.file)
        PROVE  items \in SUBSET Items /\ \A i \in items : i.content = r.content
    <3>1. CASE view[r.file] = NoParse
      BY <2>2, <3>1 DEF GetCompletions
    <3>2. CASE view[r.file] # NoParse
      <4>1. PICK S \in SUBSET Suggestions :
              items = {[label |-> s.label, index |-> s.index, content |-> view[r.file].content] : s \in S}
        BY <2>2, <3>2 DEF GetCompletions
      <4>2. view[r.file].content = r.content /\ r.content \in Contents
        BY <1>2, <1>3, <2>0, <3>2
      <4>3. items = {[label |-> s.label, index |-> s.index, content |-> r.content] : s \in S}
        BY <4>1, <4>2
      <4> HIDE DEF r
      <4>4. QED
        BY <4>2, <4>3 DEF Items
    <3>3. QED
      BY <3>1, <3>2
  <2>3. CASE r.valid
    <3>1. PICK items \in GetCompletions(r.file) :
            completionCache' = CacheOf(items) /\ Respond(m(items), items # {})
      BY <1>5, <2>3 DEF OnCompletion
    <3>2. items \in SUBSET Items /\ \A i \in items : i.content = r.content
      BY <2>2
    <3>3. \/ /\ answers' = Append(answers, m(items)) /\ toClient' = Append(toClient, m(items))
             /\ UNCHANGED unwritten
          \/ unwritten' = unwritten \cup {h} /\ UNCHANGED <<toClient, answers>>
      <4>1. m(items).id = h
        OBVIOUS
      <4> HIDE DEF m
      <4>2. QED
        BY <3>1, <4>1 DEF Respond, Answer
    <3>4. CASE unwritten' = unwritten \cup {h} /\ UNCHANGED <<toClient, answers>>
      BY <2>0, <2>3, <3>1, <3>2, <3>4 DEF Handles, Drops, WritesQuietly
    <3>5. CASE /\ answers' = Append(answers, m(items)) /\ toClient' = Append(toClient, m(items))
               /\ UNCHANGED unwritten
      <4>1. Completes(h, items)
        BY <2>0, <2>3, <3>1, <3>2, <3>5 DEF Completes
      <4>2. WritesQuietly
        <5> HIDE DEF m
        <5>1. QED
          BY <2>1, <3>2, <3>5 DEF WritesQuietly
      <4>3. QED
        BY <3>2, <4>1, <4>2 DEF Handles
    <3>6. QED
      BY <3>3, <3>4, <3>5
  <2>4. CASE ~r.valid
    <3>1. completionCache' = <<>> /\ toClient' = Append(toClient, Error) /\ UNCHANGED <<answers, unwritten>>
      BY <1>5, <2>4 DEF OnCompletion
    <3>2. Error \in Messages /\ Error.type # "diagnostics"
      BY DEF Error, Messages
    <3>3. QED
      BY <2>0, <2>4, <3>1, <3>2 DEF Handles, Fails, WritesQuietly
  <2>5. QED
    BY <2>3, <2>4
<1>6. CASE OnResolveCompletion
  <2> DEFINE key == MakeKey(r.item.label, r.item.index)
             item == IF key \in DOMAIN completionCache THEN completionCache[key] ELSE NoItem
             m == [type |-> "resolve", id |-> h, item |-> item]
  <2>0. r.kind = "resolve" /\ UNCHANGED completionCache
    BY <1>6 DEF OnResolveCompletion, serverVars
  <2>1. item \in Items \cup {NoItem}
    BY DEF Shape, ReceivedShape
  <2>2. CASE r.valid
    <3>1. \E ofSources \in BOOLEAN : Respond(m, ofSources)
      BY <1>6, <2>2 DEF OnResolveCompletion
    <3>2. m \in Messages /\ m.type # "diagnostics" /\ m.id = h
      <4> HIDE DEF item
      <4>1. QED
        BY <1>1, <2>1 DEF Messages, Answers
    <3>3. \/ /\ answers' = Append(answers, m) /\ toClient' = Append(toClient, m)
             /\ UNCHANGED unwritten
          \/ unwritten' = unwritten \cup {h} /\ UNCHANGED <<toClient, answers>>
      <4> HIDE DEF m
      <4>1. QED
        BY <3>1, <3>2 DEF Respond, Answer
    <3>4. CASE unwritten' = unwritten \cup {h} /\ UNCHANGED <<toClient, answers>>
      BY <2>0, <2>2, <3>4 DEF Handles, Drops, WritesQuietly
    <3>5. CASE /\ answers' = Append(answers, m) /\ toClient' = Append(toClient, m)
               /\ UNCHANGED unwritten
      <4>1. Resolves(h, item)
        BY <2>0, <2>2, <3>5 DEF Resolves
      <4>2. WritesQuietly
        <5> HIDE DEF m
        <5>1. QED
          BY <3>2, <3>5 DEF WritesQuietly
      <4>3. QED
        BY <2>1, <4>1, <4>2 DEF Handles
    <3>6. QED
      BY <3>3, <3>4, <3>5
  <2>3. CASE ~r.valid
    <3>1. toClient' = Append(toClient, Error) /\ UNCHANGED <<answers, unwritten>>
      BY <1>6, <2>3 DEF OnResolveCompletion
    <3>2. Error \in Messages /\ Error.type # "diagnostics"
      BY DEF Error, Messages
    <3>3. QED
      BY <2>0, <2>3, <3>1, <3>2 DEF Handles, Fails, WritesQuietly
  <2>4. QED
    BY <2>2, <2>3
<1>7. QED
  BY <1>4, <1>5, <1>6 DEF TakesRequest

-----------------------------------------------------------------------------
(* The problems that the editor shows. *)

IsProblems(m, f) == m.type = "diagnostics" /\ m.file = f

\* Once the messages s are received by an editor that shows the problems of text
\* d of document f, it shows those of text c.
LastProblems(s, d, f, c) ==
    \/ \E j \in 1 .. Len(s) : /\ IsProblems(s[j], f) /\ s[j].content = c
                             /\ \A k \in j + 1 .. Len(s) : ~IsProblems(s[k], f)
    \/ (\A k \in 1 .. Len(s) : ~IsProblems(s[k], f)) /\ d = c

\* A text that is handled has its problems on the way or shown.
ProblemsInOrder ==
    \A f \in Files : \/ document[f] \in {NoContent} \cup failedBuilds
                     \/ LastProblems(toClient, diagnostics[f], f, document[f])

\* What the handler of a message that is not a request does.
Publishes(f, c) ==
    /\ document'[f] = c /\ \A g \in Files \ {f} : document'[g] = document[g]
    /\ \/ /\ toClient' = Append(toClient, [type |-> "diagnostics", file |-> f, content |-> c])
          /\ UNCHANGED failedBuilds
       \/ /\ toClient' \in {Append(toClient, Error), toClient}
          /\ failedBuilds' = failedBuilds \cup {c}
PublishesNothing ==
    /\ \A f \in Files : document'[f] \in {NoContent, document[f]}
    /\ UNCHANGED <<toClient, failedBuilds>>

\* A notification publishes the problems of one file, or nothing.
LEMMA MessageHandled ==
    ASSUME Shape, TakesMessage
    PROVE  PublishesNothing \/ \E f \in Files, c \in Contents : Publishes(f, c)
<1> DEFINE m == Head(toServer)
<1>1. m \in ServerMessages
  BY TailElements DEF Shape, SentShape, TakesMessage
<1>2. CASE OnText
  <2>1. m.file \in Files /\ m.content \in Contents /\ m.type \in {"didOpen", "didChange"}
        /\ BuildDiagnosticsRespond(m.file, m.content)
    BY <1>1, <1>2, ServerMessageFields DEF OnText, Receive
  <2>2. \A g \in Files : document'[g] = IF About(m, g) THEN TextOf(m) ELSE document[g]
    BY DEF TakesMessage
  <2> HIDE DEF m
  <2>3. document'[m.file] = m.content /\ \A g \in Files \ {m.file} : document'[g] = document[g]
    BY <2>1, <2>2 DEF About, TextOf
  <2>4. Publishes(m.file, m.content)
    BY <2>1, <2>3 DEF BuildDiagnosticsRespond, Publishes
  <2>5. QED
    BY <2>1, <2>4
<1>3. CASE OnTextClose \/ OnRespond
  <2>1. UNCHANGED <<toClient, failedBuilds>> /\ m.type \in {"didClose", "configuration"}
    BY <1>3 DEF OnTextClose, OnRespond, Receive
  <2>2. \A f \in Files : document'[f] \in {NoContent, document[f]}
    BY <2>1 DEF TakesMessage, About, TextOf
  <2>3. QED
    BY <2>1, <2>2 DEF PublishesNothing
<1>4. QED
  BY <1>2, <1>3 DEF TakesMessage

\* The messages of the server, and the items it remembers.
LEMMA ReceivedStep ==
    ASSUME Shape, InOrder, Increasing, [Next]_vars
    PROVE  ReceivedShape'
<1>0. Error \in Messages
  BY DEF Error, Messages
<1>1. CASE TakesMessage
  <2>1. UNCHANGED <<answers, completionCache, diagnostics>>
    BY <1>1 DEF TakesMessage, editorVars
  <2>2. CASE PublishesNothing
    BY <2>1, <2>2 DEF PublishesNothing, Shape, ReceivedShape
  <2>3. ASSUME NEW f \in Files, NEW c \in Contents, Publishes(f, c)
        PROVE  ReceivedShape'
    <3> DEFINE m == [type |-> "diagnostics", file |-> f, content |-> c]
    <3>1. m \in Messages
      BY DEF Messages
    <3> HIDE DEF m
    <3>2. toClient' \in {toClient, Append(toClient, m), Append(toClient, Error)}
          /\ failedBuilds' \in {failedBuilds, failedBuilds \cup {c}}
      BY <2>3 DEF Publishes, m
    <3>3. toClient' \in Seq(Messages)
      <4>1. toClient \in Seq(Messages)
        BY DEF Shape, ReceivedShape
      <4>2. Append(toClient, m) \in Seq(Messages) /\ Append(toClient, Error) \in Seq(Messages)
        BY <1>0, <3>1, <4>1, AppendProperties
      <4>3. QED
        BY <3>2, <4>1, <4>2
    <3>4. QED
      BY <2>1, <3>2, <3>3 DEF Shape, ReceivedShape
  <2>4. QED
    BY <1>1, <2>2, <2>3, MessageHandled
<1>2. CASE TakesRequest
  <2> DEFINE h == Head(toServer).id
  <2>0. UNCHANGED <<diagnostics, failedBuilds>> /\ h \in Nat /\ Handles(h) /\ WritesQuietly
    BY <1>2, RequestHandled, RequestTaken, InServerIsAsked DEF TakesRequest, editorVars
  <2>1. toClient' \in Seq(Messages)
    <3>1. UNCHANGED toClient \/ \E m \in Messages : \/ toClient' = Append(toClient, m)
                                                   \/ toClient' = Append(Append(toClient, Error), m)
      BY <2>0 DEF WritesQuietly
    <3>2. toClient \in Seq(Messages) /\ Append(toClient, Error) \in Seq(Messages)
      BY <1>0, AppendProperties DEF Shape, ReceivedShape
    <3>3. QED
      BY <3>1, <3>2, AppendProperties
  <2> HIDE DEF h
  <2>2. CASE \E c \in Contents \cup {NoContent} : Locates(h, c)
    <3>1. PICK c \in Contents \cup {NoContent} : Locates(h, c)
      BY <2>2
    <3>2. [type |-> "location", id |-> h, content |-> c] \in Answers
      BY <2>0 DEF Answers
    <3>3. answers' \in Seq(Answers)
      BY <3>1, <3>2, AppendProperties DEF Locates, Shape, ReceivedShape
    <3>4. QED
      BY <2>0, <2>1, <3>1, <3>3 DEF Locates, Shape, ReceivedShape
  <2>3. CASE \E items \in SUBSET Items : Completes(h, items)
    <3>1. PICK items \in SUBSET Items : Completes(h, items)
      BY <2>3
    <3>2. [type |-> "completion", id |-> h, items |-> items] \in Answers
      BY <2>0 DEF Answers
    <3>3. answers' \in Seq(Answers)
      BY <3>1, <3>2, AppendProperties DEF Completes, Shape, ReceivedShape
    <3>4. completionCache' = CacheOf(items)
      BY <3>1 DEF Completes
    <3>5. \A k \in DOMAIN completionCache' : completionCache'[k] \in Items
      BY <3>4, CacheElements
    <3>6. QED
      BY <2>0, <2>1, <3>3, <3>5 DEF Shape, ReceivedShape
  <2>4. CASE \E item \in Items \cup {NoItem} : Resolves(h, item)
    <3>1. PICK item \in Items \cup {NoItem} : Resolves(h, item)
      BY <2>4
    <3>2. [type |-> "resolve", id |-> h, item |-> item] \in Answers
      BY <2>0 DEF Answers
    <3>3. answers' \in Seq(Answers)
      BY <3>1, <3>2, AppendProperties DEF Resolves, Shape, ReceivedShape
    <3>4. QED
      BY <2>0, <2>1, <3>1, <3>3 DEF Resolves, Shape, ReceivedShape
  <2>5. CASE Fails(h) \/ Drops(h)
    <3>1. \/ completionCache' = <<>> \/ completionCache' = completionCache
          \/ \E items \in SUBSET Items : completionCache' = CacheOf(items)
      BY <2>5 DEF Fails, Drops
    <3>2. \A k \in DOMAIN completionCache' : completionCache'[k] \in Items
      BY <3>1, CacheElements DEF Shape, ReceivedShape
    <3>3. QED
      BY <2>0, <2>1, <2>5, <3>2 DEF Fails, Drops, Shape, ReceivedShape
  <2>6. QED
    BY <2>0, <2>2, <2>3, <2>4, <2>5 DEF Handles
<1>3. CASE UNCHANGED <<toClient, answers, diagnostics, failedBuilds, completionCache>>
  BY <1>3 DEF Shape, ReceivedShape
<1>4. CASE EditorReceives
  <2> DEFINE m == Head(toClient)
  <2>1. m \in Messages /\ toClient' \in Seq(Messages)
    BY <1>4, TailElements DEF EditorReceives, Shape, ReceivedShape
  <2>2. diagnostics' \in [Files -> Contents \cup {NoContent}]
    <3>1. diagnostics' = IF m.type = "diagnostics" THEN [diagnostics EXCEPT ![m.file] = m.content]
                         ELSE diagnostics
      BY <1>4 DEF EditorReceives
    <3>2. m.type = "diagnostics" => m.file \in Files /\ m.content \in Contents
      BY <2>1, MessageFields
    <3> HIDE DEF m
    <3>3. QED
      BY <3>1, <3>2 DEF Shape, ReceivedShape
  <2>3. QED
    BY <1>4, <2>1, <2>2 DEF EditorReceives, serverVars, Shape, ReceivedShape
<1>5. TakesMessage \/ TakesRequest \/ EditorReceives
      \/ UNCHANGED <<toClient, answers, diagnostics, failedBuilds, completionCache>>
  BY StepKinds DEF Sends, Asks, Rests, serverVars, editorVars, vars
<1>6. QED
  BY <1>1, <1>2, <1>3, <1>4, <1>5

\* The last problems of a file are those appended, or as before.
LEMMA LastAppended ==
    ASSUME NEW s \in Seq(Messages), NEW m \in Messages, NEW d, NEW f, NEW c
    PROVE  /\ ~IsProblems(m, f) /\ LastProblems(s, d, f, c) => LastProblems(Append(s, m), d, f, c)
           /\ IsProblems(m, f) /\ m.content = c => LastProblems(Append(s, m), d, f, c)
<1> DEFINE S == Len(s)
           t == Append(s, m)
<1>1. /\ S \in Nat /\ Len(t) = S + 1 /\ t[S + 1] = m /\ S + 1 \in 1 .. S + 1
      /\ \A i \in 1 .. S : t[i] = s[i] /\ i \in 1 .. S + 1
      /\ \A i \in 1 .. S + 1 : i \in 1 .. S \/ i = S + 1
  BY AppendElements
<1> HIDE DEF t
<1>2. ASSUME ~IsProblems(m, f), NEW j \in 1 .. S, IsProblems(s[j], f), s[j].content = c,
             \A k \in j + 1 .. S : ~IsProblems(s[k], f)
      PROVE  LastProblems(t, d, f, c)
  <2>1. \A k \in j + 1 .. S + 1 : k = S + 1 \/ (k \in j + 1 .. S /\ k \in 1 .. S)
    BY <1>1
  <2>2. \A k \in j + 1 .. S + 1 : ~IsProblems(t[k], f)
    BY <1>1, <1>2, <2>1
  <2>3. QED
    BY <1>1, <1>2, <2>2 DEF LastProblems
<1>3. ASSUME ~IsProblems(m, f), \A k \in 1 .. S : ~IsProblems(s[k], f), d = c
      PROVE  LastProblems(t, d, f, c)
  BY <1>1, <1>3 DEF LastProblems
<1>4. ASSUME IsProblems(m, f), m.content = c
      PROVE  LastProblems(t, d, f, c)
  <2>1. \A k \in S + 1 + 1 .. S + 1 : FALSE
    BY <1>1
  <2>2. QED
    BY <1>1, <1>4, <2>1 DEF LastProblems
<1>5. QED
  BY <1>2, <1>3, <1>4 DEF LastProblems, t

\* The last problems of a file stay so when the first message is received.
LEMMA LastReceived ==
    ASSUME NEW s \in Seq(Messages), s # <<>>, NEW d, NEW f, NEW c, LastProblems(s, d, f, c)
    PROVE  LastProblems(Tail(s), IF IsProblems(Head(s), f) THEN Head(s).content ELSE d, f, c)
<1> DEFINE S == Len(s)
           t == Tail(s)
           e == IF IsProblems(Head(s), f) THEN Head(s).content ELSE d
<1>1. /\ S \in Nat /\ Len(t) = S - 1 /\ Head(s) = s[1] /\ 1 \in 1 .. S
      /\ \A i \in 1 .. S - 1 : i + 1 \in 1 .. S /\ t[i] = s[i + 1]
      /\ \A i \in 1 .. S : i = 1 \/ (i - 1 \in 1 .. S - 1 /\ t[i - 1] = s[i])
  BY TailElements
<1> HIDE DEF t
<1>2. CASE (\A k \in 1 .. S : ~IsProblems(s[k], f)) /\ d = c
  BY <1>1, <1>2 DEF LastProblems
<1>3. ASSUME NEW j \in 1 .. S, IsProblems(s[j], f), s[j].content = c,
             \A k \in j + 1 .. S : ~IsProblems(s[k], f)
      PROVE  LastProblems(t, e, f, c)
  <2>1. \A k \in 1 .. S - 1 : k \in j .. S - 1 => ~IsProblems(t[k], f)
    <3> SUFFICES ASSUME NEW k \in 1 .. S - 1, k \in j .. S - 1 PROVE ~IsProblems(t[k], f)
      OBVIOUS
    <3>1. k + 1 \in j + 1 .. S /\ t[k] = s[k + 1]
      BY <1>1
    <3>2. QED
      BY <1>3, <3>1
  <2>2. CASE j = 1
    <3>1. e = c /\ \A k \in 1 .. S - 1 : k \in j .. S - 1
      BY <1>1, <1>3, <2>2
    <3>2. QED
      BY <1>1, <2>1, <3>1 DEF LastProblems
  <2>3. CASE j # 1
    <3>1. PICK i \in 1 .. S - 1 : i = j - 1 /\ t[i] = s[j] /\ i + 1 = j
      BY <1>1, <2>3
    <3>2. \A k \in i + 1 .. S - 1 : k \in 1 .. S - 1 /\ k \in j .. S - 1
      BY <1>1, <3>1
    <3>3. QED
      BY <1>1, <1>3, <2>1, <3>1, <3>2 DEF LastProblems
  <2>4. QED
    BY <2>2, <2>3
<1>4. QED
  BY <1>2, <1>3 DEF LastProblems, t

\* Every step keeps the last problems on the way those of the server's text.
LEMMA ProblemsStep ==
    ASSUME Shape, InOrder, Increasing, ProblemsInOrder, [Next]_vars
    PROVE  ProblemsInOrder'
<1> SUFFICES ASSUME NEW f \in Files, document'[f] \notin {NoContent} \cup failedBuilds'
             PROVE  LastProblems(toClient', diagnostics'[f], f, document'[f])
  BY DEF ProblemsInOrder, LastProblems
<1>0. Error \in Messages /\ Error.type # "diagnostics" /\ ~IsProblems(Error, f)
  BY DEF Error, Messages, IsProblems
<1>1. ASSUME document'[f] = document[f], failedBuilds \subseteq failedBuilds'
      PROVE  LastProblems(toClient, diagnostics[f], f, document'[f])
  BY <1>1 DEF ProblemsInOrder
<1>2. CASE TakesMessage
  <2>1. UNCHANGED diagnostics
    BY <1>2 DEF TakesMessage, editorVars
  <2>2. CASE PublishesNothing
    <3>1. document'[f] = document[f] /\ UNCHANGED <<toClient, failedBuilds>>
      BY <2>2 DEF PublishesNothing
    <3>2. QED
      BY <1>1, <2>1, <3>1
  <2>3. ASSUME NEW g \in Files, NEW c \in Contents, Publishes(g, c)
        PROVE  LastProblems(toClient', diagnostics'[f], f, document'[f])
    <3> DEFINE m == [type |-> "diagnostics", file |-> g, content |-> c]
    <3>1. m \in Messages /\ (IsProblems(m, f) <=> f = g) /\ m.content = c
      BY DEF Messages, IsProblems
    <3> HIDE DEF m
    <3>2. CASE toClient' = Append(toClient, m) /\ UNCHANGED failedBuilds
      <4>1. f = g => LastProblems(Append(toClient, m), diagnostics[f], f, document'[f])
        BY <2>3, <3>1, LastAppended DEF Publishes, Shape, ReceivedShape
      <4>2. f # g => LastProblems(Append(toClient, m), diagnostics[f], f, document'[f])
        BY <1>1, <2>3, <3>1, <3>2, LastAppended DEF Publishes, Shape, ReceivedShape
      <4>3. QED
        BY <2>1, <3>2, <4>1, <4>2
    <3>3. CASE toClient' \in {Append(toClient, Error), toClient} /\ failedBuilds' = failedBuilds \cup {c}
      <4>1. f # g /\ document'[f] = document[f]
        BY <2>3, <3>3 DEF Publishes
      <4>2. LastProblems(toClient, diagnostics[f], f, document'[f])
        BY <1>1, <3>3, <4>1
      <4>3. LastProblems(Append(toClient, Error), diagnostics[f], f, document'[f])
        BY <1>0, <4>2, LastAppended DEF Shape, ReceivedShape
      <4>4. QED
        BY <2>1, <3>3, <4>2, <4>3
    <3>4. QED
      BY <2>3, <3>2, <3>3 DEF Publishes, m
  <2>4. QED
    BY <1>2, <2>2, <2>3, MessageHandled
<1>3. CASE TakesRequest
  <2>1. UNCHANGED <<diagnostics, document, failedBuilds>> /\ WritesQuietly
    BY <1>3, RequestHandled DEF TakesRequest, editorVars, storeVars
  <2>2. LastProblems(toClient, diagnostics[f], f, document'[f])
    BY <1>1, <2>1
  <2>3. ASSUME NEW m \in Messages, ~IsProblems(m, f),
               \/ toClient' = Append(toClient, m)
               \/ toClient' = Append(Append(toClient, Error), m)
        PROVE  LastProblems(toClient', diagnostics[f], f, document'[f])
    <3>1. LastProblems(Append(toClient, m), diagnostics[f], f, document'[f])
      BY <2>2, <2>3, LastAppended DEF Shape, ReceivedShape
    <3>2. LastProblems(Append(Append(toClient, Error), m), diagnostics[f], f, document'[f])
      <4>1. Append(toClient, Error) \in Seq(Messages)
            /\ LastProblems(Append(toClient, Error), diagnostics[f], f, document'[f])
        BY <1>0, <2>2, LastAppended, AppendElements DEF Shape, ReceivedShape
      <4>2. QED
        BY <2>3, <4>1, LastAppended
    <3>3. QED
      BY <2>3, <3>1, <3>2
  <2>4. QED
    BY <2>1, <2>2, <2>3 DEF WritesQuietly, IsProblems
<1>4. CASE EditorReceives
  <2> DEFINE m == Head(toClient)
  <2>1. m \in Messages /\ toClient' = Tail(toClient) /\ toClient # <<>>
        /\ UNCHANGED <<document, failedBuilds>>
    BY <1>4, TailElements DEF EditorReceives, Shape, ReceivedShape, serverVars, storeVars
  <2>2. diagnostics'[f] = IF IsProblems(m, f) THEN m.content ELSE diagnostics[f]
    <3>1. diagnostics' = IF m.type = "diagnostics" THEN [diagnostics EXCEPT ![m.file] = m.content]
                         ELSE diagnostics
      BY <1>4 DEF EditorReceives
    <3>2. m.type = "diagnostics" => m.file \in Files
      BY <2>1, MessageFields
    <3> HIDE DEF m
    <3>3. QED
      BY <3>1, <3>2 DEF IsProblems, Shape, ReceivedShape
  <2>3. LastProblems(Tail(toClient), IF IsProblems(m, f) THEN m.content ELSE diagnostics[f], f, document'[f])
    BY <1>1, <2>1, LastReceived DEF Shape, ReceivedShape
  <2>4. QED
    BY <2>1, <2>2, <2>3
<1>5. CASE UNCHANGED <<toClient, document, diagnostics, failedBuilds>>
  BY <1>1, <1>5
<1>6. TakesMessage \/ TakesRequest \/ EditorReceives
      \/ UNCHANGED <<toClient, document, diagnostics, failedBuilds>>
  BY StepKinds DEF Sends, Asks, Rests, serverVars, storeVars, editorVars, vars
<1>7. QED
  BY <1>2, <1>3, <1>4, <1>5, <1>6

-----------------------------------------------------------------------------
(* The answers. *)

\* A request with parameters that throw is answered when it asks for a location,
\* and any other one unless its answer could not be written.
Answerable(n) == asked[n].valid \/ asked[n].kind = "location"
Replies(n) == Answerable(n) /\ n \notin unwritten

\* Answers that could not be written are to good requests that were handled.
Lost == \A n \in unwritten : n \in 1 .. Len(asked) /\ ~InServer(n) /\ asked[n].valid

\* An answer belongs to a request that was handled, and is of the text it was sent for.
Fits(a, n) ==
    /\ a.id = n /\ ~InServer(n) /\ Replies(n) /\ a.type = asked[n].kind
    /\ a.type = "location" => a.content \in {NoContent, asked[n].content}
    /\ a.type = "completion" => /\ a.items \in SUBSET Items
                                /\ \A i \in a.items : i.content = asked[n].content
AnswersFit == \A j \in 1 .. Len(answers) : \E n \in 1 .. Len(asked) : Fits(answers[j], n)

Once ==
    \A n \in 1 .. Len(asked) :
        ~InServer(n) /\ Replies(n) =>
            \E i \in 1 .. Len(answers) : \A j \in 1 .. Len(answers) : ((answers[j].id = n) <=> (j = i))

\* A request taken is answered once by what fits it, or by nothing if it throws or
\* its answer cannot be written.
LEMMA AnswerWritten ==
    ASSUME Shape, InOrder, Increasing, TakesRequest
    PROVE  LET h == Head(toServer).id
           IN  \/ /\ Answerable(h) /\ UNCHANGED unwritten
                  /\ \E a \in Answers :
                       /\ answers' = Append(answers, a)
                       /\ a.id = h /\ a.type = asked[h].kind
                       /\ a.type = "location" => a.content \in {NoContent, asked[h].content}
                       /\ a.type = "completion" => /\ a.items \in SUBSET Items
                                                   /\ \A i \in a.items : i.content = asked[h].content
               \/ ~Answerable(h) /\ UNCHANGED <<answers, unwritten>>
               \/ asked[h].valid /\ UNCHANGED answers /\ unwritten' = unwritten \cup {h}
<1> DEFINE h == Head(toServer).id
<1>1. h \in Nat /\ Handles(h)
  BY RequestHandled, RequestTaken, InServerIsAsked
<1> HIDE DEF h
<1>2. CASE Fails(h) \/ Drops(h)
  BY <1>2 DEF Fails, Drops, Answerable, h
<1>3. ASSUME NEW c \in Contents \cup {NoContent}, Locates(h, c)
      PROVE  Answerable(h) /\ UNCHANGED unwritten /\ \E a \in Answers :
               /\ answers' = Append(answers, a)
               /\ a.id = h /\ a.type = asked[h].kind
               /\ a.type = "location" => a.content \in {NoContent, asked[h].content}
               /\ a.type # "completion"
  <2> DEFINE a == [type |-> "location", id |-> h, content |-> c]
  <2>1. a \in Answers
    BY <1>1 DEF Answers
  <2>2. a.id = h /\ a.type = "location" /\ a.content = c /\ a.type # "completion"
    OBVIOUS
  <2>3. answers' = Append(answers, a) /\ asked[h].kind = "location" /\ c \in {NoContent, asked[h].content}
        /\ UNCHANGED unwritten
    BY <1>3 DEF Locates
  <2> HIDE DEF a
  <2>4. QED
    BY <2>1, <2>2, <2>3 DEF Answerable
<1>4. ASSUME NEW items \in SUBSET Items, Completes(h, items)
      PROVE  Answerable(h) /\ UNCHANGED unwritten /\ \E a \in Answers :
               /\ answers' = Append(answers, a)
               /\ a.id = h /\ a.type = asked[h].kind /\ a.type # "location"
               /\ a.items \in SUBSET Items /\ \A i \in a.items : i.content = asked[h].content
  <2> DEFINE a == [type |-> "completion", id |-> h, items |-> items]
  <2>1. a \in Answers
    BY <1>1 DEF Answers
  <2>2. a.id = h /\ a.type = "completion" /\ a.items = items /\ a.type # "location"
    OBVIOUS
  <2>3. answers' = Append(answers, a) /\ asked[h].kind = "completion" /\ asked[h].valid
        /\ UNCHANGED unwritten /\ \A i \in items : i.content = asked[h].content
    BY <1>4 DEF Completes
  <2> HIDE DEF a
  <2>4. QED
    BY <2>1, <2>2, <2>3 DEF Answerable
<1>5. ASSUME NEW item \in Items \cup {NoItem}, Resolves(h, item)
      PROVE  Answerable(h) /\ UNCHANGED unwritten /\ \E a \in Answers :
               /\ answers' = Append(answers, a)
               /\ a.id = h /\ a.type = asked[h].kind /\ a.type # "location" /\ a.type # "completion"
  <2> DEFINE a == [type |-> "resolve", id |-> h, item |-> item]
  <2>1. a \in Answers
    BY <1>1 DEF Answers
  <2>2. a.id = h /\ a.type = "resolve" /\ a.type # "location" /\ a.type # "completion"
    OBVIOUS
  <2>3. answers' = Append(answers, a) /\ asked[h].kind = "resolve" /\ asked[h].valid
        /\ UNCHANGED unwritten
    BY <1>5 DEF Resolves
  <2> HIDE DEF a
  <2>4. QED
    BY <2>1, <2>2, <2>3 DEF Answerable
<1>6. QED
  BY <1>1, <1>2, <1>3, <1>4, <1>5, Zenon DEF Handles, h

\* What of the requests and answers a step leaves as it was.
Answerless ==
    UNCHANGED <<asked, answers, unwritten, completionCache>> /\ \A n : (InServer(n)' <=> InServer(n))

\* Only a step that takes a request writes an answer.
LEMMA AnswerKinds ==
    ASSUME Shape, Increasing, [Next]_vars
    PROVE  Answerless \/ TakesRequest \/ \E r \in Requests : Asks(r)
<1>1. CASE TakesMessage
  BY <1>1, MessageTaken DEF TakesMessage, editorVars, Answerless
<1>2. ASSUME NEW m \in ServerMessages, Sends(m) PROVE Answerless
  BY <1>2, MessageSent DEF Sends, serverVars, Answerless
<1>3. CASE Rests
  BY <1>3 DEF Rests, serverVars, Answerless, InServer
<1>4. QED
  BY <1>1, <1>2, <1>3, StepKinds

\* Every step keeps answers of the kind and of the text of their requests.
LEMMA FitStep ==
    ASSUME Shape, InOrder, Increasing, Lost, AnswersFit, [Next]_vars
    PROVE  AnswersFit'
<1> USE InServerIsAsked
<1>1. CASE Answerless
  BY <1>1 DEF Answerless, AnswersFit, Fits, Replies, Answerable
<1>2. ASSUME NEW r \in Requests, Asks(r) PROVE AnswersFit'
  <2>1. UNCHANGED <<answers, unwritten>>
    BY <1>2 DEF Asks
  <2>2. \A n \in 1 .. Len(asked) : /\ n \in 1 .. Len(asked') /\ asked'[n] = asked[n]
                                   /\ n # Len(asked) + 1
    BY <1>2, RequestAsked
  <2>3. \A n \in 1 .. Len(asked) : (InServer(n)' <=> InServer(n))
    BY <1>2, <2>2, RequestAsked
  <2>4. ASSUME NEW j \in 1 .. Len(answers), NEW n \in 1 .. Len(asked), Fits(answers[j], n)
        PROVE  Fits(answers[j], n)'
    BY <2>1, <2>2, <2>3, <2>4 DEF Fits, Replies, Answerable
  <2>5. QED
    BY <2>1, <2>2, <2>4 DEF AnswersFit
<1>3. CASE TakesRequest
  <2> DEFINE h == Head(toServer).id
  <2>1. h \in 1 .. Len(asked) /\ UNCHANGED asked /\ \A n : ~InServer(n) \/ n = h => ~InServer(n)'
    BY <1>3, RequestTaken DEF TakesRequest, editorVars
  <2>2. CASE UNCHANGED answers /\ unwritten' \in {unwritten, unwritten \cup {h}}
    <3>1. InServer(h)
      BY <1>3, RequestTaken
    <3>2. QED
      BY <2>1, <2>2, <3>1 DEF AnswersFit, Fits, Replies, Answerable
  <2>3. ASSUME NEW a \in Answers, answers' = Append(answers, a), Replies(h), UNCHANGED unwritten,
               a.id = h, a.type = asked[h].kind,
               a.type = "location" => a.content \in {NoContent, asked[h].content},
               a.type = "completion" => /\ a.items \in SUBSET Items
                                        /\ \A i \in a.items : i.content = asked[h].content
        PROVE  AnswersFit'
    <3> HIDE DEF h
    <3>1. /\ Len(answers') = Len(answers) + 1 /\ answers'[Len(answers) + 1] = a
          /\ \A i \in 1 .. Len(answers) : answers'[i] = answers[i]
          /\ \A i \in 1 .. Len(answers) + 1 : i \in 1 .. Len(answers) \/ i = Len(answers) + 1
      BY <2>3, AppendElements DEF Shape, ReceivedShape
    <3>2. ASSUME NEW b, NEW n \in 1 .. Len(asked), Fits(b, n)
          PROVE  Fits(b, n)'
      BY <2>1, <2>3, <3>2 DEF Fits, Replies, Answerable
    <3>3. \E n \in 1 .. Len(asked) : Fits(a, n)'
      <4>1. PICK n \in 1 .. Len(asked) : n = h
        BY <2>1
      <4>2. Fits(a, n)'
        BY <2>1, <2>3, <4>1 DEF Fits, Replies, Answerable
      <4>3. QED
        BY <4>2
    <3>4. ASSUME NEW j \in 1 .. Len(answers') PROVE \E n \in 1 .. Len(asked)' : Fits(answers[j], n)'
      <4>1. PICK b : answers'[j] = b /\ \E n \in 1 .. Len(asked) : Fits(b, n)'
        BY <3>1, <3>2, <3>3 DEF AnswersFit
      <4>2. QED
        BY <2>1, <4>1 DEF Fits
    <3>5. QED
      BY <3>4 DEF AnswersFit
  <2>4. Answerable(h) => Replies(h)
    BY <1>3, RequestTaken DEF Lost, Replies
  <2>5. QED
    BY <1>3, <2>2, <2>3, <2>4, AnswerWritten
<1>4. QED
  BY <1>1, <1>2, <1>3, AnswerKinds

\* Every step keeps one answer to each request handled.
LEMMA OnceStep ==
    ASSUME Shape, InOrder, Increasing, Lost, AnswersFit, Once, [Next]_vars
    PROVE  Once'
<1> USE InServerIsAsked
<1>1. CASE Answerless
  BY <1>1 DEF Answerless, Once, Replies, Answerable
<1>2. ASSUME NEW r \in Requests, Asks(r) PROVE Once'
  <2>1. /\ UNCHANGED <<answers, unwritten>> /\ Len(asked') = Len(asked) + 1
        /\ \A n \in 1 .. Len(asked) : asked'[n] = asked[n]
        /\ \A n : (InServer(n)' <=> InServer(n) \/ n = Len(asked) + 1)
    BY <1>2, RequestAsked DEF Asks
  <2>2. \A n \in 1 .. Len(asked') : ~InServer(n)' => n \in 1 .. Len(asked)
    BY <2>1
  <2>3. \A n \in 1 .. Len(asked') :
          ~InServer(n)' /\ Replies(n)' => n \in 1 .. Len(asked) /\ ~InServer(n) /\ Replies(n)
    BY <2>1, <2>2 DEF Replies, Answerable
  <2>4. QED
    BY <2>1, <2>3 DEF Once, Replies, Answerable
<1>3. CASE TakesRequest
  <2> DEFINE h == Head(toServer).id
             N == Len(answers)
  <2>1. /\ h \in 1 .. Len(asked) /\ InServer(h) /\ UNCHANGED asked
        /\ \A n : (InServer(n)' <=> InServer(n) /\ n # h)
        /\ \A n : (Answerable(n)' <=> Answerable(n))
    <3>1. /\ h \in 1 .. Len(asked) /\ InServer(h) /\ UNCHANGED asked
          /\ \A n : (InServer(n)' <=> InServer(n) /\ n # h)
      BY <1>3, RequestTaken DEF TakesRequest, editorVars
    <3>2. QED
      BY <3>1 DEF Answerable
  <2>2. \A j \in 1 .. N : answers[j].id # h
    <3>1. \A j \in 1 .. N : ~InServer(answers[j].id)
      BY DEF AnswersFit, Fits
    <3>2. QED
      BY <2>1, <3>1
  <2>3. CASE /\ UNCHANGED answers
             /\ \/ ~Answerable(h) /\ UNCHANGED unwritten
                \/ unwritten' = unwritten \cup {h}
    <3>1. \A n : ~InServer(n)' /\ Replies(n)' => ~InServer(n) /\ Replies(n)
      BY <2>1, <2>3 DEF Replies
    <3>2. QED
      BY <2>1, <2>3, <3>1 DEF Once
  <2>4. ASSUME NEW a \in Answers, answers' = Append(answers, a), a.id = h, UNCHANGED unwritten
        PROVE  Once'
    <3> HIDE DEF h
    <3>1. /\ Len(answers') = N + 1 /\ answers'[N + 1] = a /\ N + 1 \in 1 .. N + 1
          /\ \A i \in 1 .. N : answers'[i] = answers[i] /\ i \in 1 .. N + 1 /\ i # N + 1
          /\ \A i \in 1 .. N + 1 : i \in 1 .. N \/ i = N + 1
      BY <2>4, AppendElements DEF Shape, ReceivedShape
    <3>2. ASSUME NEW n \in 1 .. Len(asked), n = h
          PROVE  \E i \in 1 .. N + 1 : \A j \in 1 .. N + 1 : ((answers'[j].id = n) <=> (j = i))
      <4>1. answers'[N + 1].id = n /\ \A j \in 1 .. N : answers'[j].id # n /\ j # N + 1
        BY <2>2, <2>4, <3>1, <3>2
      <4>2. \A j \in 1 .. N + 1 : ((answers'[j].id = n) <=> (j = N + 1))
        BY <3>1, <4>1
      <4>3. QED
        BY <3>1, <4>2
    <3>3. ASSUME NEW n \in 1 .. Len(asked), n # h, ~InServer(n), Replies(n)
          PROVE  \E i \in 1 .. N + 1 : \A j \in 1 .. N + 1 : ((answers'[j].id = n) <=> (j = i))
      <4>1. PICK i \in 1 .. N : \A j \in 1 .. N : ((answers[j].id = n) <=> (j = i))
        BY <3>3 DEF Once
      <4>2. \A j \in 1 .. N + 1 : ((answers'[j].id = n) <=> (j = i))
        BY <2>4, <3>1, <3>3, <4>1
      <4>3. QED
        BY <3>1, <4>1, <4>2
    <3>4. \A n \in 1 .. Len(asked) : ~InServer(n)' /\ Replies(n)' =>
            \E i \in 1 .. N + 1 : \A j \in 1 .. N + 1 : ((answers'[j].id = n) <=> (j = i))
      BY <2>1, <2>4, <3>2, <3>3 DEF Replies
    <3>5. UNCHANGED asked /\ Len(answers') = N + 1
      BY <2>1, <3>1
    <3> HIDE DEF N
    <3>6. QED
      BY <3>4, <3>5 DEF Once, Replies, Answerable
  <2>5. QED
    BY <1>3, <2>3, <2>4, AnswerWritten
<1>4. QED
  BY <1>1, <1>2, <1>3, AnswerKinds

\* Every step keeps the answers that were lost those of requests handled.
LEMMA LostStep ==
    ASSUME Shape, InOrder, Increasing, Lost, [Next]_vars
    PROVE  Lost'
<1> USE InServerIsAsked
<1>1. CASE Answerless
  BY <1>1 DEF Answerless, Lost
<1>2. ASSUME NEW r \in Requests, Asks(r) PROVE Lost'
  <2>1. UNCHANGED unwritten
    BY <1>2 DEF Asks
  <2>2. \A n \in 1 .. Len(asked) : /\ n \in 1 .. Len(asked') /\ asked'[n] = asked[n]
                                   /\ n # Len(asked) + 1 /\ (InServer(n)' <=> InServer(n))
    BY <1>2, RequestAsked
  <2>3. QED
    BY <2>1, <2>2 DEF Lost
<1>3. CASE TakesRequest
  <2> DEFINE h == Head(toServer).id
  <2>1. /\ h \in 1 .. Len(asked) /\ UNCHANGED asked
        /\ \A n : (InServer(n)' <=> InServer(n) /\ n # h)
    BY <1>3, RequestTaken DEF TakesRequest, editorVars
  <2>2. UNCHANGED unwritten \/ (unwritten' = unwritten \cup {h} /\ asked[h].valid)
    BY <1>3, AnswerWritten
  <2>3. QED
    BY <2>1, <2>2 DEF Lost
<1>4. QED
  BY <1>1, <1>2, <1>3, AnswerKinds

-----------------------------------------------------------------------------
(* The items that a resolve request finds. *)

\* No two suggestions share a key.  Without this the cache has one of the two, and
\* a resolve may return the other one's details.
KeysDiffer ==
    \A s, t \in Suggestions :
        MakeKey(s.label, s.index) = MakeKey(t.label, t.index) => s.label = t.label /\ s.index = t.index

\* The server remembers the items of the last completion it handled.
KeysKept ==
    \A k \in DOMAIN completionCache :
        MakeKey(completionCache[k].label, completionCache[k].index) = k
CacheIsLast ==
    \A k \in 1 .. Len(asked) :
        /\ asked[k].kind = "completion" /\ ~InServer(k)
        /\ \A j \in 1 .. Len(asked) : k < j /\ asked[j].kind = "completion" => InServer(j)
        => \A i \in 1 .. Len(answers) : answers[i].id = k => completionCache = CacheOf(answers[i].items)

\* The answer to the resolve request n is right, if that to the last completion
\* asked for before it has its item.
Right(item, n) ==
    /\ item # NoItem => item.label = asked[n].item.label /\ item.index = asked[n].item.index
    /\ \A j \in 1 .. Len(answers), k \in 1 .. n - 1 :
         /\ answers[j].id = k /\ asked[k].kind = "completion"
         /\ \A l \in k + 1 .. n - 1 : asked[l].kind # "completion"
         /\ asked[n].item \in answers[j].items
         => item = asked[n].item
ResolvesRight ==
    \A i \in 1 .. Len(answers), n \in 1 .. Len(asked) :
        answers[i].id = n /\ answers[i].type = "resolve" => Right(answers[i].item, n)

\* Every step keeps each item under its key in the cache, that of the last completion handled.
LEMMA CacheStep ==
    ASSUME Shape, InOrder, Increasing, NoneSkipped, AnswersFit, KeysKept, CacheIsLast, [Next]_vars
    PROVE  KeysKept' /\ CacheIsLast'
<1> USE InServerIsAsked
<1>1. CASE Answerless
  BY <1>1 DEF Answerless, KeysKept, CacheIsLast
<1>2. ASSUME NEW r \in Requests, Asks(r) PROVE KeysKept' /\ CacheIsLast'
  <2> DEFINE N == Len(asked) + 1
  <2>1. /\ UNCHANGED <<answers, completionCache>> /\ Len(asked') = N
        /\ \A n \in 1 .. Len(asked) : asked'[n] = asked[n] /\ n \in 1 .. Len(asked') /\ n # N
        /\ \A n : (InServer(n)' <=> InServer(n) \/ n = N)
        /\ \A n \in 1 .. Len(asked') : n \in 1 .. Len(asked) \/ n = N
    BY <1>2, RequestAsked DEF Asks, serverVars
  <2> HIDE DEF N
  <2>2. KeysKept'
    BY <2>1 DEF KeysKept
  <2>3. CacheIsLast'
    <3> SUFFICES ASSUME NEW k \in 1 .. Len(asked'), asked'[k].kind = "completion", ~InServer(k)',
                        \A j \in 1 .. Len(asked') : k < j /\ asked'[j].kind = "completion" => InServer(j)',
                        NEW i \in 1 .. Len(answers'), answers'[i].id = k
                 PROVE  completionCache' = CacheOf(answers'[i].items)
      BY DEF CacheIsLast, CacheOf, MakeKey
    <3>1. k \in 1 .. Len(asked) /\ ~InServer(k) /\ asked[k].kind = "completion"
      BY <2>1
    <3>2. \A j \in 1 .. Len(asked) : k < j /\ asked[j].kind = "completion" => InServer(j)
      BY <2>1
    <3>3. QED
      BY <2>1, <3>1, <3>2 DEF CacheIsLast
  <2>4. QED
    BY <2>2, <2>3
<1>3. CASE TakesRequest
  <2> DEFINE h == Head(toServer).id
             M == Len(answers)
  <2>1. /\ h \in 1 .. Len(asked) /\ InServer(h) /\ UNCHANGED asked
        /\ \A n : InServer(n) => h <= n
        /\ \A n : (InServer(n)' <=> InServer(n) /\ n # h)
    BY <1>3, RequestTaken DEF TakesRequest, editorVars
  <2>2. Handles(h)
    BY <1>3, RequestHandled
  <2>3. \A j \in 1 .. M : answers[j].id # h
    BY <2>1 DEF AnswersFit, Fits
  <2> HIDE DEF h
  \* A completion that is still the last one that was handled.
  <2>4. ASSUME NEW k \in 1 .. Len(asked), k # h, asked[k].kind = "completion", ~InServer(k)',
               \A j \in 1 .. Len(asked) : k < j /\ asked[j].kind = "completion" => InServer(j)'
        PROVE  /\ asked[h].kind # "completion"
               /\ \A i \in 1 .. M : answers[i].id = k => completionCache = CacheOf(answers[i].items)
    <3>1. ~InServer(k) /\ \A j \in 1 .. Len(asked) : k < j /\ asked[j].kind = "completion" => InServer(j)
      BY <2>1, <2>4
    <3>2. k < h
      <4>1. ~(h <= k)
        BY <2>1, <3>1 DEF NoneSkipped
      <4>2. QED
        BY <2>1, <4>1
    <3>3. QED
      BY <2>1, <2>4, <3>1, <3>2 DEF CacheIsLast
  <2>5. CASE Fails(h)
    <3>1. UNCHANGED answers
          /\ (completionCache' = completionCache \/ (completionCache' = <<>> /\ asked[h].kind = "completion"))
      BY <2>5 DEF Fails
    <3>2. KeysKept'
      BY <3>1 DEF KeysKept
    <3>3. CacheIsLast'
      <4> SUFFICES ASSUME NEW k \in 1 .. Len(asked'), asked'[k].kind = "completion", ~InServer(k)',
                          \A j \in 1 .. Len(asked') : k < j /\ asked'[j].kind = "completion" => InServer(j)',
                          NEW i \in 1 .. Len(answers'), answers'[i].id = k
                   PROVE  completionCache' = CacheOf(answers'[i].items)
        BY DEF CacheIsLast, CacheOf, MakeKey
      <4>0. /\ k \in 1 .. Len(asked) /\ asked[k].kind = "completion" /\ i \in 1 .. M
            /\ \A j \in 1 .. Len(asked) : k < j /\ asked[j].kind = "completion" => InServer(j)'
        BY <2>1, <3>1
      <4>1. k # h /\ answers'[i] = answers[i] /\ answers[i].id = k
        BY <2>3, <3>1, <4>0
      <4>2. QED
        BY <2>4, <3>1, <4>0, <4>1
    <3>4. QED
      BY <3>2, <3>3
  <2>6. ASSUME NEW a, a.id = h, answers' = Append(answers, a), a \in Answers,
               \/ asked[h].kind # "completion" /\ UNCHANGED completionCache
               \/ /\ asked[h].kind = "completion" /\ a.items \in SUBSET Items
                  /\ completionCache' = CacheOf(a.items)
        PROVE  KeysKept' /\ CacheIsLast'
    <3>1. /\ Len(answers') = M + 1 /\ answers'[M + 1] = a
          /\ \A i \in 1 .. M : answers'[i] = answers[i]
          /\ \A i \in 1 .. M + 1 : i \in 1 .. M \/ i = M + 1
      BY <2>6, AppendElements DEF Shape, ReceivedShape
    <3>2. KeysKept'
      <4>1. \A k \in DOMAIN completionCache' :
              MakeKey(completionCache'[k].label, completionCache'[k].index) = k
        BY <2>6, CacheElements DEF KeysKept
      <4>2. QED
        BY <4>1 DEF KeysKept, MakeKey
    <3>3. CacheIsLast'
      <4> SUFFICES ASSUME NEW k \in 1 .. Len(asked'), asked'[k].kind = "completion", ~InServer(k)',
                          \A j \in 1 .. Len(asked') : k < j /\ asked'[j].kind = "completion" => InServer(j)',
                          NEW i \in 1 .. Len(answers'), answers'[i].id = k
                   PROVE  completionCache' = CacheOf(answers'[i].items)
        BY DEF CacheIsLast, CacheOf, MakeKey
      <4>0. /\ k \in 1 .. Len(asked) /\ asked[k].kind = "completion" /\ i \in 1 .. M + 1
            /\ \A j \in 1 .. Len(asked) : k < j /\ asked[j].kind = "completion" => InServer(j)'
        BY <2>1, <3>1
      <4>1. CASE i \in 1 .. M
        <5>1. answers[i].id = k /\ k # h /\ answers'[i] = answers[i]
          BY <2>3, <3>1, <4>1
        <5>2. asked[h].kind # "completion" /\ completionCache = CacheOf(answers[i].items)
          BY <2>4, <4>0, <4>1, <5>1
        <5>3. completionCache' = completionCache
          BY <2>6, <5>2
        <5>4. QED
          BY <5>1, <5>2, <5>3
      <4>2. CASE i = M + 1
        <5>1. answers'[i] = a /\ k = h
          BY <2>6, <3>1, <4>2
        <5>2. QED
          BY <2>6, <4>0, <5>1
      <4>3. QED
        BY <3>1, <4>0, <4>1, <4>2
    <3>4. QED
      BY <3>2, <3>3
  <2>7. h \in Nat
    BY <2>1
  <2>8. ASSUME NEW c \in Contents \cup {NoContent}, Locates(h, c)
        PROVE  KeysKept' /\ CacheIsLast'
    <3> DEFINE a == [type |-> "location", id |-> h, content |-> c]
    <3>1. a \in Answers /\ a.id = h
      BY <2>7 DEF Answers
    <3>2. answers' = Append(answers, a) /\ asked[h].kind = "location" /\ UNCHANGED completionCache
      BY <2>8 DEF Locates
    <3> HIDE DEF a
    <3>3. QED
      BY <2>6, <3>1, <3>2
  <2>9. ASSUME NEW items \in SUBSET Items, Completes(h, items)
        PROVE  KeysKept' /\ CacheIsLast'
    <3> DEFINE a == [type |-> "completion", id |-> h, items |-> items]
    <3>1. a \in Answers /\ a.id = h /\ a.items = items
      BY <2>7 DEF Answers
    <3>2. answers' = Append(answers, a) /\ asked[h].kind = "completion" /\ completionCache' = CacheOf(items)
      BY <2>9 DEF Completes
    <3> HIDE DEF a
    <3>3. QED
      BY <2>6, <3>1, <3>2
  <2>10. ASSUME NEW item \in Items \cup {NoItem}, Resolves(h, item)
         PROVE  KeysKept' /\ CacheIsLast'
    <3> DEFINE a == [type |-> "resolve", id |-> h, item |-> item]
    <3>1. a \in Answers /\ a.id = h
      BY <2>7 DEF Answers
    <3>2. answers' = Append(answers, a) /\ asked[h].kind = "resolve" /\ UNCHANGED completionCache
      BY <2>10 DEF Resolves
    <3> HIDE DEF a
    <3>3. QED
      BY <2>6, <3>1, <3>2
  <2>11. CASE Drops(h)
    <3>1. UNCHANGED answers
          /\ \/ completionCache' = completionCache
             \/ /\ asked[h].kind = "completion"
                /\ \E items \in SUBSET Items : completionCache' = CacheOf(items)
      BY <2>11 DEF Drops
    <3>2. KeysKept'
      <4>1. \A k \in DOMAIN completionCache' :
              MakeKey(completionCache'[k].label, completionCache'[k].index) = k
        BY <3>1, CacheElements DEF KeysKept
      <4>2. QED
        BY <4>1 DEF KeysKept, MakeKey
    <3>3. CacheIsLast'
      <4> SUFFICES ASSUME NEW k \in 1 .. Len(asked'), asked'[k].kind = "completion", ~InServer(k)',
                          \A j \in 1 .. Len(asked') : k < j /\ asked'[j].kind = "completion" => InServer(j)',
                          NEW i \in 1 .. Len(answers'), answers'[i].id = k
                   PROVE  completionCache' = CacheOf(answers'[i].items)
        BY DEF CacheIsLast, CacheOf, MakeKey
      <4>0. /\ k \in 1 .. Len(asked) /\ asked[k].kind = "completion" /\ i \in 1 .. M
            /\ \A j \in 1 .. Len(asked) : k < j /\ asked[j].kind = "completion" => InServer(j)'
        BY <2>1, <3>1
      <4>1. k # h /\ answers'[i] = answers[i] /\ answers[i].id = k
        BY <2>3, <3>1, <4>0
      <4>2. QED
        BY <2>4, <3>1, <4>0, <4>1
    <3>4. QED
      BY <3>2, <3>3
  <2>12. QED
    BY <2>2, <2>5, <2>8, <2>9, <2>10, <2>11, Zenon DEF Handles
<1>4. QED
  BY <1>1, <1>2, <1>3, AnswerKinds

\* Items are equal when their keys and their texts are.
LEMMA SameItem ==
    ASSUME KeysDiffer, NEW a \in Items, NEW b \in Items,
           MakeKey(a.label, a.index) = MakeKey(b.label, b.index)
    PROVE  /\ a.label = b.label /\ a.index = b.index
           /\ a.content = b.content => a = b
<1>1. PICK s \in Suggestions, c \in Contents : a = [label |-> s.label, index |-> s.index, content |-> c]
  BY DEF Items
<1>2. PICK t \in Suggestions, d \in Contents : b = [label |-> t.label, index |-> t.index, content |-> d]
  BY DEF Items
<1>3. a.label = s.label /\ a.index = s.index /\ a.content = c
      /\ b.label = t.label /\ b.index = t.index /\ b.content = d
  BY <1>1, <1>2
<1>4. s.label = t.label /\ s.index = t.index
  BY <1>3 DEF KeysDiffer
<1>5. QED
  BY <1>1, <1>2, <1>3, <1>4

\* What a resolve request finds is right.
LEMMA FindsTheItem ==
    ASSUME KeysDiffer, Shape, Increasing, NoneSkipped, AnswersFit, KeysKept, CacheIsLast, TakesRequest,
           NEW h \in 1 .. Len(asked), h = Head(toServer).id, NEW item, Resolves(h, item)
    PROVE  Right(item, h)
<1> USE InServerIsAsked
<1> DEFINE r == asked[h]
           key == MakeKey(r.item.label, r.item.index)
<1>1. r.item \in Items
  <2>1. r \in Requests
    BY ElementOfSeq DEF Shape, SentShape
  <2>2. QED
    BY <2>1 DEF Resolves, Requests
<1>2. item = IF key \in DOMAIN completionCache THEN completionCache[key] ELSE NoItem
  BY DEF Resolves
<1> HIDE DEF key
<1>3. ASSUME item # NoItem
      PROVE  item.label = r.item.label /\ item.index = r.item.index
  <2>1. item \in Items /\ MakeKey(item.label, item.index) = key
    BY <1>2, <1>3 DEF Shape, ReceivedShape, KeysKept
  <2>2. QED
    BY <1>1, <2>1, SameItem DEF key
<1>4. ASSUME NEW j \in 1 .. Len(answers), NEW k \in 1 .. h - 1, answers[j].id = k,
             asked[k].kind = "completion", \A l \in k + 1 .. h - 1 : asked[l].kind # "completion",
             r.item \in answers[j].items
      PROVE  item = r.item
  <2> DEFINE items == answers[j].items
  <2>1. k \in 1 .. Len(asked) /\ k < h
    OBVIOUS
  <2>2. InServer(h) /\ ~InServer(k)
    BY <2>1, RequestTaken
  <2>3. ASSUME NEW l \in 1 .. Len(asked), k < l, asked[l].kind = "completion"
        PROVE  InServer(l)
    <3>1. h <= l
      BY <1>4, <2>1, <2>3
    <3>2. QED
      BY <2>2, <3>1 DEF NoneSkipped
  <2>4. completionCache = CacheOf(items)
    BY <1>4, <2>1, <2>2, <2>3 DEF CacheIsLast
  <2>5. items \in SUBSET Items /\ \A i \in items : i.content = asked[k].content
    <3>1. PICK n \in 1 .. Len(asked) : Fits(answers[j], n)
      BY DEF AnswersFit
    <3>2. n = k /\ answers[j].type = "completion"
      BY <1>4, <3>1 DEF Fits
    <3>3. QED
      BY <3>1, <3>2 DEF Fits
  <2> HIDE DEF items
  <2>6. key \in DOMAIN CacheOf(items)
    BY <1>4 DEF CacheOf, key, items
  <2>7. item \in items /\ MakeKey(item.label, item.index) = key
    BY <1>2, <2>4, <2>5, <2>6, CacheElements
  <2>8. item.content = r.item.content
    BY <1>4, <2>5, <2>7 DEF items
  <2>9. QED
    BY <1>1, <2>5, <2>7, <2>8, SameItem DEF key
<1>5. QED
  BY <1>3, <1>4 DEF Right

\* Every step keeps the items resolved those that were shown, when keys differ.
LEMMA ResolvesStep ==
    ASSUME KeysDiffer, Shape, InOrder, Increasing, NoneSkipped, AnswersFit, KeysKept, CacheIsLast,
           ResolvesRight, [Next]_vars
    PROVE  ResolvesRight'
<1> USE InServerIsAsked
<1>1. CASE Answerless
  <2>1. UNCHANGED <<asked, answers>>
    BY <1>1 DEF Answerless
  <2>2. \A i \in 1 .. Len(answers), n \in 1 .. Len(asked) :
          Right(answers[i].item, n)' <=> Right(answers[i].item, n)
    BY <2>1 DEF Right
  <2>3. QED
    BY <2>1, <2>2 DEF ResolvesRight
<1>2. ASSUME NEW r \in Requests, Asks(r) PROVE ResolvesRight'
  <2>1. UNCHANGED answers /\ Len(asked') = Len(asked) + 1
        /\ \A n \in 1 .. Len(asked) : asked'[n] = asked[n]
    BY <1>2, RequestAsked DEF Asks
  <2>2. ASSUME NEW i \in 1 .. Len(answers), NEW n \in 1 .. Len(asked'),
               answers[i].id = n, answers[i].type = "resolve"
        PROVE  Right(answers[i].item, n)'
    <3>1. n \in 1 .. Len(asked)
      BY <2>2 DEF AnswersFit, Fits
    <3>2. Right(answers[i].item, n)
      BY <2>2, <3>1 DEF ResolvesRight
    <3>3. asked'[n] = asked[n] /\ \A k \in 1 .. n - 1 : asked'[k] = asked[k]
      BY <2>1, <3>1
    <3>4. \A k \in 1 .. n - 1 : \A l \in k + 1 .. n - 1 : l \in 1 .. n - 1
      BY <3>1
    <3>5. ASSUME NEW j \in 1 .. Len(answers), NEW k \in 1 .. n - 1, answers[j].id = k,
                 asked'[k].kind = "completion", \A l \in k + 1 .. n - 1 : asked'[l].kind # "completion",
                 asked'[n].item \in answers[j].items
          PROVE  answers[i].item = asked'[n].item
      <4>1. /\ answers[j].id = k /\ asked[k].kind = "completion"
            /\ asked[n].item \in answers[j].items
        BY <3>3, <3>5
      <4>2. \A l \in k + 1 .. n - 1 : asked[l].kind # "completion"
        BY <3>3, <3>4, <3>5
      <4>3. answers[i].item = asked[n].item
        BY <3>2, <3>5, <4>1, <4>2 DEF Right
      <4>4. QED
        BY <3>3, <4>3
    <3>6. QED
      BY <2>1, <3>2, <3>3, <3>5 DEF Right
  <2>3. QED
    BY <2>1, <2>2 DEF ResolvesRight
<1>3. CASE TakesRequest
  <2> DEFINE M == Len(answers)
  <2>1. PICK h \in 1 .. Len(asked) : h = Head(toServer).id
    BY <1>3, RequestTaken
  <2>2. InServer(h) /\ UNCHANGED asked
    BY <1>3, <2>1, RequestTaken DEF TakesRequest, editorVars
  <2>3. Handles(h)
    BY <1>3, <2>1, RequestHandled
  <2>4. CASE UNCHANGED answers
    BY <2>2, <2>4 DEF ResolvesRight, Right
  <2>5. ASSUME NEW a \in Answers, a.id = h, answers' = Append(answers, a),
               a.type = "resolve" => Right(a.item, h)
        PROVE  ResolvesRight'
    <3>1. /\ Len(answers') = M + 1 /\ answers'[M + 1] = a
          /\ \A i \in 1 .. M : answers'[i] = answers[i]
          /\ \A i \in 1 .. M + 1 : i \in 1 .. M \/ i = M + 1
      BY <2>5, AppendElements DEF Shape, ReceivedShape
    \* The new answer is to no completion that an answered resolve, or the new one, follows.
    <3>2. ASSUME NEW item, NEW n \in 1 .. Len(asked), Right(item, n), n = h \/ ~InServer(n)
          PROVE  Right(item, n)'
      <4>1. \A k \in 1 .. n - 1 : k # h
        <5>1. ~(h <= n) \/ n = h
          BY <2>2, <3>2 DEF NoneSkipped
        <5>2. QED
          BY <5>1
      <4>2. ASSUME NEW j \in 1 .. M + 1, NEW k \in 1 .. n - 1, answers'[j].id = k,
                   asked[k].kind = "completion", \A l \in k + 1 .. n - 1 : asked[l].kind # "completion",
                   asked[n].item \in answers'[j].items
            PROVE  item = asked[n].item
        <5>1. j \in 1 .. M /\ answers'[j] = answers[j]
          BY <2>5, <3>1, <4>1, <4>2
        <5>2. QED
          BY <3>2, <4>2, <5>1 DEF Right
      <4>3. item # NoItem => item.label = asked[n].item.label /\ item.index = asked[n].item.index
        BY <3>2 DEF Right
      <4>4. QED
        BY <2>2, <3>1, <4>2, <4>3 DEF Right
    <3>3. ASSUME NEW i \in 1 .. M + 1, NEW n \in 1 .. Len(asked),
                 answers'[i].id = n, answers'[i].type = "resolve"
          PROVE  Right(answers[i].item, n)'
      <4>1. PICK b : b = answers'[i]
        OBVIOUS
      <4>2. Right(b.item, n) /\ (n = h \/ ~InServer(n))
        <5>1. CASE i \in 1 .. M
          <6>1. b = answers[i] /\ answers[i].id = n /\ answers[i].type = "resolve"
            BY <3>1, <3>3, <4>1, <5>1
          <6>2. ~InServer(n)
            BY <5>1, <6>1 DEF AnswersFit, Fits
          <6>3. QED
            BY <5>1, <6>1, <6>2 DEF ResolvesRight
        <5>2. CASE i = M + 1
          BY <2>5, <3>1, <3>3, <4>1, <5>2
        <5>3. QED
          BY <3>1, <5>1, <5>2
      <4>3. Right(b.item, n)'
        BY <3>2, <4>2
      <4>4. QED
        BY <4>1, <4>3 DEF Right
    <3>4. QED
      BY <2>2, <3>1, <3>3 DEF ResolvesRight
  <2>6. h \in Nat
    BY <2>1
  <2>7. ASSUME NEW c \in Contents \cup {NoContent}, Locates(h, c)
        PROVE  ResolvesRight'
    <3> DEFINE a == [type |-> "location", id |-> h, content |-> c]
    <3>1. a \in Answers /\ a.id = h /\ a.type # "resolve"
      BY <2>6 DEF Answers
    <3>2. answers' = Append(answers, a)
      BY <2>7 DEF Locates
    <3> HIDE DEF a
    <3>3. QED
      BY <2>5, <3>1, <3>2
  <2>8. ASSUME NEW items \in SUBSET Items, Completes(h, items)
        PROVE  ResolvesRight'
    <3> DEFINE a == [type |-> "completion", id |-> h, items |-> items]
    <3>1. a \in Answers /\ a.id = h /\ a.type # "resolve"
      BY <2>6 DEF Answers
    <3>2. answers' = Append(answers, a)
      BY <2>8 DEF Completes
    <3> HIDE DEF a
    <3>3. QED
      BY <2>5, <3>1, <3>2
  <2>9. ASSUME NEW item \in Items \cup {NoItem}, Resolves(h, item)
        PROVE  ResolvesRight'
    <3> DEFINE a == [type |-> "resolve", id |-> h, item |-> item]
    <3>1. a \in Answers /\ a.id = h /\ a.item = item
      BY <2>6 DEF Answers
    <3>2. answers' = Append(answers, a)
      BY <2>9 DEF Resolves
    <3>3. Right(item, h)
      BY <1>3, <2>1, <2>9, FindsTheItem
    <3> HIDE DEF a
    <3>4. QED
      BY <2>5, <3>1, <3>2, <3>3
  <2>10. QED
    BY <2>3, <2>4, <2>7, <2>8, <2>9, Zenon DEF Handles, Fails, Drops
<1>4. QED
  BY <1>1, <1>2, <1>3, AnswerKinds

-----------------------------------------------------------------------------
(* Theorems. *)

Inv ==
    /\ Shape /\ Increasing /\ NoneSkipped /\ InOrder /\ ProblemsInOrder
    /\ Lost /\ AnswersFit /\ Once /\ KeysKept /\ CacheIsLast

\* The invariant holds at first.
LEMMA InitHolds == Init => Inv /\ ResolvesRight
<1> SUFFICES ASSUME Init PROVE Inv /\ ResolvesRight
  OBVIOUS
<1>1. /\ toServer = <<>> /\ toClient = <<>> /\ answers = <<>> /\ asked = <<>>
      /\ Len(toServer) = 0 /\ Len(toClient) = 0 /\ Len(answers) = 0 /\ Len(asked) = 0
      /\ \A n : n \notin 1 .. 0
  BY DEF Init
<1>2. /\ \A f \in Files : document[f] = NoContent /\ text[f] = NoContent
      /\ text = [f \in Files |-> NoContent] /\ diagnostics = [f \in Files |-> NoContent]
      /\ DOMAIN completionCache = {}
  BY DEF Init, Store!Init
<1>3. Shape
  <2>1. StoreShape
    BY DEF Init, Store!Init, StoreShape
  <2>2. SentShape
    BY <1>1, <1>2, BoundsAssumption DEF Init, SentShape
  <2>3. ReceivedShape
    BY <1>1, <1>2 DEF Init, ReceivedShape
  <2>4. QED
    BY <2>1, <2>2, <2>3 DEF Shape
<1>4. Increasing /\ NoneSkipped
  BY <1>1 DEF Increasing, NoneSkipped
<1>5. InOrder
  <2> SUFFICES ASSUME NEW f \in Files, NEW i \in Nat \ {0}, NEW c, Expected(f, i, c) PROVE Sees(f, i, c)
    BY DEF InOrder
  <2>1. i = 1 /\ c = NoContent
    BY <1>1, <1>2 DEF Expected
  <2>2. \A k : k \notin 1 .. i - 1
    BY <2>1
  <2>3. QED
    BY <1>2, <2>1, <2>2 DEF Sees
<1>6. ProblemsInOrder
  BY <1>2 DEF ProblemsInOrder
<1>7. Lost /\ AnswersFit /\ Once /\ KeysKept /\ CacheIsLast /\ ResolvesRight
  BY <1>1, <1>2 DEF Init, Lost, AnswersFit, Once, KeysKept, CacheIsLast, ResolvesRight
<1>8. QED
  BY <1>3, <1>4, <1>5, <1>6, <1>7 DEF Inv

\* Every step keeps each of its parts.
LEMMA InvStep == Inv /\ [Next]_vars => Inv'
<1> SUFFICES ASSUME Inv, [Next]_vars PROVE Inv'
  OBVIOUS
<1>1. Shape /\ Increasing /\ NoneSkipped /\ InOrder /\ ProblemsInOrder
      /\ Lost /\ AnswersFit /\ Once /\ KeysKept /\ CacheIsLast
  BY DEF Inv
<1>2. Shape'
  BY <1>1, StoreStep, SentStep, ReceivedStep DEF Shape
<1>3. Increasing' /\ NoneSkipped'
  BY <1>1, NumberedStep
<1>4. InOrder'
  BY <1>1, <1>2, InOrderStep
<1>5. ProblemsInOrder'
  BY <1>1, ProblemsStep
<1>6. Lost' /\ AnswersFit' /\ Once'
  BY <1>1, LostStep, FitStep, OnceStep
<1>7. KeysKept' /\ CacheIsLast'
  BY <1>1, CacheStep
<1>8. QED
  BY <1>2, <1>3, <1>4, <1>5, <1>6, <1>7 DEF Inv

\* So it holds always.
LEMMA InvHolds == Spec => []Inv
<1>1. Init => Inv
  BY InitHolds
<1>2. QED
  BY <1>1, InvStep, PTL DEF Spec

\* The state has the types it should have: no handler stores or sends anything else.
THEOREM TypeCorrect == Spec => []TypeOK
<1>1. Inv => TypeOK
  BY DEF Inv, Lost, Shape, StoreShape, SentShape, ReceivedShape, TypeOK
<1>2. QED
  BY <1>1, InvHolds, PTL

\* Every request gets exactly one answer with its id as soon as it is handled, but
\* for completions and resolves whose parameters throw and for answers that could
\* not be written: those requests get none, and only good ones lose their answer.
THEOREM EveryRequestIsAnsweredOnce == Spec => []AnsweredOnce
<1>1. ASSUME Inv PROVE AnsweredOnce
  <2>1. DOMAIN answers = 1 .. Len(answers) /\ DOMAIN asked = 1 .. Len(asked)
        /\ DOMAIN toServer = 1 .. Len(toServer)
    BY <1>1, LenProperties DEF Inv, Shape, SentShape, ReceivedShape
  <2> SUFFICES ASSUME NEW n \in 1 .. Len(asked)
               PROVE  /\ Cardinality(AnswersTo(n)) = IF Handled(n) /\ Replies(n) THEN 1 ELSE 0
                      /\ n \in unwritten => Handled(n) /\ asked[n].valid
    BY <2>1 DEF AnsweredOnce, Replies, Answerable
  <2>2. (Handled(n) <=> ~InServer(n)) /\ (n \in unwritten => ~InServer(n) /\ asked[n].valid)
    BY <1>1, <2>1 DEF Handled, InServer, Inv, Lost
  <2>3. CASE ~InServer(n) /\ Replies(n)
    <3>1. PICK i \in 1 .. Len(answers) : \A j \in 1 .. Len(answers) : ((answers[j].id = n) <=> (j = i))
      BY <1>1, <2>3 DEF Inv, Once
    <3>2. AnswersTo(n) = {i}
      BY <2>1, <3>1 DEF AnswersTo
    <3>3. QED
      BY <2>2, <2>3, <3>2, FS_Singleton
  <2>4. CASE InServer(n) \/ ~Replies(n)
    <3>1. AnswersTo(n) = {}
      BY <1>1, <2>1, <2>4 DEF Inv, AnswersFit, Fits, AnswersTo
    <3>2. QED
      BY <2>2, <2>4, <3>1, FS_EmptySet
  <2>5. QED
    BY <2>3, <2>4
<1>2. QED
  BY <1>1, InvHolds, PTL

\* However many edits and requests are on the way, locations and completions are
\* computed in the text that the editor had when it asked, or there are none.
THEOREM AnswersAreOfTheText == Spec => []AnswersSeeTheText
<1>1. ASSUME Inv PROVE AnswersSeeTheText
  <2>1. DOMAIN answers = 1 .. Len(answers)
    BY <1>1, LenProperties DEF Inv, Shape, ReceivedShape
  <2>2. QED
    BY <1>1, <2>1 DEF Inv, AnswersFit, Fits, AnswersSeeTheText
<1>2. QED
  BY <1>1, InvHolds, PTL

\* When everything sent was received, the problems shown for an open document are
\* those of its text, unless they could not be found or written.
THEOREM ProblemsCatchUp == Spec => []DiagnosticsCatchUp
<1>1. ASSUME Inv PROVE DiagnosticsCatchUp
  <2> SUFFICES ASSUME toServer = <<>>, toClient = <<>>, NEW f \in Files
               PROVE  text[f] \in {NoContent, diagnostics[f]} \cup failedBuilds
    BY DEF DiagnosticsCatchUp
  <2>1. Len(toServer) = 0 /\ Len(toClient) = 0 /\ \A k : k \notin 1 .. 0 /\ k \notin 1 .. 1 - 1
    OBVIOUS
  <2>2. Expected(f, 1, text[f])
    BY <2>1 DEF Expected
  <2>3. Sees(f, 1, text[f])
    <3>1. 1 \in Nat \ {0}
      OBVIOUS
    <3>2. QED
      BY <1>1, <2>2, <3>1 DEF Inv, InOrder
  <2>4. document[f] = text[f]
    BY <2>1, <2>3 DEF Sees
  <2>5. QED
    BY <1>1, <2>1, <2>4 DEF Inv, ProblemsInOrder, LastProblems
<1>2. QED
  BY <1>1, InvHolds, PTL

\* When no two suggestions share a key, a resolve request of an item of the last
\* completion the editor asked for returns that item, details included, whatever
\* was edited, closed or reconfigured since, and of an older item never one with
\* another label or index.
THEOREM ResolvesTheItemShown ==
    ASSUME KeysDiffer PROVE Spec => []ResolvedItemIsTheOneShown
<1>1. ASSUME Inv, ResolvesRight PROVE ResolvedItemIsTheOneShown
  <2> USE InServerIsAsked
  <2>1. DOMAIN answers = 1 .. Len(answers) /\ Shape /\ AnswersFit
    BY <1>1, LenProperties DEF Inv, Shape, ReceivedShape
  <2> SUFFICES ASSUME NEW i \in 1 .. Len(answers), NEW n, n = answers[i].id, answers[i].type = "resolve"
               PROVE  /\ answers[i].item # NoItem => /\ answers[i].item.label = asked[n].item.label
                                                     /\ answers[i].item.index = asked[n].item.index
                      /\ ShowsItemsOf(LastCompletionBefore(n), asked[n].item)
                           => answers[i].item = asked[n].item
    BY <2>1 DEF ResolvedItemIsTheOneShown
  <2>2. n \in 1 .. Len(asked)
    BY <2>1 DEF AnswersFit, Fits
  <2>3. Right(answers[i].item, n)
    BY <1>1, <2>2 DEF ResolvesRight
  <2>4. ASSUME ShowsItemsOf(LastCompletionBefore(n), asked[n].item)
        PROVE  answers[i].item = asked[n].item
    <3> DEFINE C == {k \in 1 .. n - 1 : asked[k].kind = "completion"}
    <3>1. PICK K : K = LastCompletionBefore(n)
      OBVIOUS
    <3>2. PICK j \in 1 .. Len(answers) : answers[j].id = K /\ asked[n].item \in answers[j].items
      BY <2>1, <2>4, <3>1 DEF ShowsItemsOf
    <3>3. K \in 1 .. Len(asked)
      BY <2>1, <3>2 DEF AnswersFit, Fits
    <3>4. K # 0 /\ n - 1 \in Nat /\ C \in SUBSET (0 .. n - 1)
      BY <2>2, <3>3
    <3>5. C # {} /\ K = CHOOSE k \in C : \A l \in C : l <= k
      BY <3>1, <3>4 DEF LastCompletionBefore
    <3>6. K \in C /\ \A l \in C : l <= K
      <4> HIDE DEF C
      <4>1. \E k \in C : \A l \in C : l <= k
        BY <3>4, <3>5, Greatest
      <4>2. QED
        BY <3>5, <4>1, Zenon
    <3>7. \A l \in K + 1 .. n - 1 : asked[l].kind # "completion"
      <4>1. \A l \in K + 1 .. n - 1 : l \in 1 .. n - 1 /\ ~(l <= K)
        BY <2>2, <3>3
      <4>2. QED
        BY <3>6, <4>1
    <3>8. QED
      BY <2>3, <3>2, <3>6, <3>7 DEF Right
  <2>5. QED
    BY <2>3, <2>4 DEF Right
<1>2. Init => Inv /\ ResolvesRight
  BY InitHolds
<1>3. Inv /\ ResolvesRight /\ [Next]_vars => ResolvesRight'
  BY ResolvesStep DEF Inv
<1>4. QED
  BY <1>1, <1>2, <1>3, InvStep, PTL DEF Spec

=============================================================================
