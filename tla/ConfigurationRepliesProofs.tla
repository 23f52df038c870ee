--------------------- MODULE ConfigurationRepliesProofs ---------------------
(* Proofs about the messages of Configuration that are in flight, with a     *)
(* client that answers in the order it was asked.                            *)
EXTENDS ConfigurationProofs

-----------------------------------------------------------------------------
(* Requests and replies in flight, with a client that answers in order. *)

\* The last request the client has answered.
LastAnswered == IF lastReply = NoResult THEN 0 ELSE lastReply.id

RequestOnTheWay(n) ==
    \E i \in 1 .. Len(toClient) : toClient[i].type = "configuration" /\ toClient[i].id = n
ReplyOnTheWay(n) ==
    \E i \in 1 .. Len(toServer) : toServer[i].type = "response" /\ toServer[i].id = n

\* Behind the last request answered come those the client has read, and behind
\* them those on their way to it, in the order they were sent and without gaps.
AskedInOrder ==
    /\ \A i \in 1 .. Len(asked) : asked[i] = LastAnswered + i
    /\ LastAnswered + Len(asked) <= issued
    /\ \A i \in 1 .. Len(toClient) :
         toClient[i].type = "configuration" => LastAnswered + Len(asked) < toClient[i].id
    /\ \A i, j \in 1 .. Len(toClient) :
         i < j /\ toClient[i].type = "configuration" /\ toClient[j].type = "configuration"
         => toClient[i].id < toClient[j].id
    /\ \A n \in 1 .. issued : LastAnswered + Len(asked) < n => RequestOnTheWay(n)

\* The replies arrive in the order of their requests, some twice; no request is
\* retired before it is answered, nor an answered one kept without its reply.
RepliedInOrder ==
    /\ \A i \in 1 .. Len(toServer) :
         toServer[i].type = "response" =>
           /\ toServer[i].id <= LastAnswered
           /\ toServer[i].id = LastAnswered /\ LastAnswered # 0 => toServer[i].result = lastReply.result
    /\ \A i, j \in 1 .. Len(toServer) :
         i < j /\ toServer[i].type = "response" /\ toServer[j].type = "response" /\ toServer[j].id # 0
         => toServer[i].id <= toServer[j].id
    /\ issued - Len(requests) <= LastAnswered
    /\ \A n \in 1 .. LastAnswered : issued - Len(requests) < n => ReplyOnTheWay(n)

\* The elements of a sequence behind its first one.
LEMMA TailElements ==
    ASSUME NEW S, NEW s \in Seq(S), s # <<>>
    PROVE  /\ Len(s) \in Nat /\ 1 \in 1 .. Len(s) /\ Head(s) = s[1] /\ Head(s) \in S
           /\ Len(Tail(s)) = Len(s) - 1
           /\ \A i \in 1 .. Len(Tail(s)) : i + 1 \in 1 .. Len(s) /\ Tail(s)[i] = s[i + 1]
           /\ \A i \in 1 .. Len(s) : i = 1 \/ (i - 1 \in 1 .. Len(Tail(s)) /\ Tail(s)[i - 1] = s[i])
<1>1. Len(s) \in Nat /\ Len(s) # 0
  BY EmptySeq
<1>2. /\ Head(s) = s[1] /\ Len(Tail(s)) = Len(s) - 1
      /\ \A i \in 1 .. Len(s) - 1 : Tail(s)[i] = s[i + 1]
  BY HeadTailProperties
<1>3. ASSUME NEW i \in 1 .. Len(s), i # 1
      PROVE  i - 1 \in 1 .. Len(Tail(s)) /\ Tail(s)[i - 1] = s[i]
  <2>1. PICK j \in 1 .. Len(s) - 1 : j = i - 1 /\ j + 1 = i
    BY <1>1, <1>3
  <2>2. QED
    BY <1>2, <2>1
<1>4. 1 \in 1 .. Len(s)
  BY <1>1
<1>5. QED
  BY <1>1, <1>2, <1>3, <1>4, ElementOfSeq

\* The elements of a sequence with one appended.
LEMMA AppendElements ==
    ASSUME NEW S, NEW s \in Seq(S), NEW e \in S
    PROVE  /\ Len(s) \in Nat /\ Len(Append(s, e)) = Len(s) + 1
           /\ Append(s, e)[Len(s) + 1] = e /\ Len(s) + 1 \in 1 .. Len(s) + 1
           /\ \A i \in 1 .. Len(s) : Append(s, e)[i] = s[i] /\ i \in 1 .. Len(s) + 1
           /\ \A i \in 1 .. Len(s) + 1 : (i \in 1 .. Len(s) /\ i < Len(s) + 1) \/ i = Len(s) + 1
  BY AppendProperties

\* The last request answered has a number, which changes with a reply only.
LEMMA LastAnsweredType ==
    ASSUME Shape
    PROVE  /\ LastAnswered \in Nat /\ issued \in Nat /\ Len(asked) \in Nat
           /\ UNCHANGED lastReply => LastAnswered' = LastAnswered
           /\ \A n, result : lastReply' = Reply(n, result) /\ n \in Nat /\ result \in Settings \cup {NoResult}
                             => LastAnswered' = n
<1>1. \A n \in Nat : \A result \in Settings \cup {NoResult} :
        Reply(n, result) # NoResult /\ Reply(n, result).id = n
  BY ReplyInReplies, NoResultAssumption DEF Reply
<1>2. \A m \in Replies : m.id \in Nat
  BY DEF Replies
<1>3. LastAnswered \in Nat
  BY <1>2 DEF LastAnswered, Shape
<1>4. UNCHANGED lastReply => LastAnswered' = LastAnswered
  BY DEF LastAnswered
<1>5. QED
  BY <1>1, <1>3, <1>4 DEF LastAnswered, Shape

\* Taking the first element out of a sequence leaves its tail.
LEMMA RemoveAtHead ==
    ASSUME NEW S, NEW s \in Seq(S), s # <<>>
    PROVE  RemoveAt(s, 1) = Tail(s)
<1>1. RemoveAt(s, 1) = SubSeq(s, 1, 0) \o SubSeq(s, 2, Len(s))
  BY DEF RemoveAt
<1>2. SubSeq(s, 1, 0) = <<>>
  BY SubSeqEmpty
<1>3. SubSeq(s, 2, Len(s)) = Tail(s) /\ Tail(s) \in Seq(S)
  BY TailIsSubSeq, HeadTailProperties
<1>4. <<>> \o Tail(s) = Tail(s)
  BY <1>3, ConcatEmptySeq
<1>5. QED
  BY <1>1, <1>2, <1>3, <1>4

-----------------------------------------------------------------------------
(* Requests. *)

\* Every step keeps the requests that are not answered in their order.
LEMMA AskedStep ==
    ASSUME InOrderReplies, Shape, Shape', Numbered, AskedInOrder, [Next]_vars
    PROVE  AskedInOrder'
<1> DEFINE L == LastAnswered
           A == Len(asked)
           C == Len(toClient)
<1>0. /\ L \in Nat /\ issued \in Nat /\ A \in Nat /\ C \in Nat
      /\ UNCHANGED lastReply => LastAnswered' = L
  BY LastAnsweredType DEF Shape
<1>1. \A i \in 1 .. C : toClient[i].type = "configuration" => toClient[i].id \in 1 .. issued
  BY DEF Numbered
<1> HIDE DEF L, A, C
<1> USE DEF AskedInOrder, RequestOnTheWay
<1>2. CASE UNCHANGED <<toClient, asked, lastReply, issued>>
  BY <1>0, <1>2 DEF L, A, C
<1>3. ASSUME UNCHANGED <<asked, lastReply, issued>>,
             NEW m \in ToClient, m.type # "configuration", toClient' = Append(toClient, m)
      PROVE  AskedInOrder'
  <2>1. /\ Len(toClient') = C + 1 /\ toClient'[C + 1] = m
        /\ \A i \in 1 .. C : toClient'[i] = toClient[i] /\ i \in 1 .. C + 1
        /\ \A i \in 1 .. C + 1 : i \in 1 .. C \/ i = C + 1
    BY <1>3, AppendElements DEF Shape, C
  <2>2. QED
    BY <1>0, <1>3, <2>1 DEF L, A, C
<1>4. ASSUME UNCHANGED <<asked, lastReply, issued>>,
             toClient # <<>>, Head(toClient).type # "configuration", toClient' = Tail(toClient)
      PROVE  AskedInOrder'
  <2>1. /\ Len(toClient') = C - 1 /\ toClient[1].type # "configuration"
        /\ \A i \in 1 .. C - 1 : i + 1 \in 1 .. C /\ toClient'[i] = toClient[i + 1]
        /\ \A i \in 1 .. C : i = 1 \/ (i - 1 \in 1 .. C - 1 /\ toClient'[i - 1] = toClient[i])
    BY <1>4, TailElements DEF Shape, C
  <2>2. ASSUME NEW i \in 1 .. C - 1, NEW j \in 1 .. C - 1, i < j,
               toClient'[i].type = "configuration", toClient'[j].type = "configuration"
        PROVE  toClient'[i].id < toClient'[j].id
    <3>1. i + 1 \in 1 .. C /\ j + 1 \in 1 .. C /\ i + 1 < j + 1
      BY <1>0, <2>1, <2>2
    <3>2. toClient'[i] = toClient[i + 1] /\ toClient'[j] = toClient[j + 1]
      BY <2>1
    <3>3. QED
      BY <2>2, <3>1, <3>2 DEF C
  <2>3. ASSUME NEW n \in 1 .. issued, L + A < n
        PROVE  \E i \in 1 .. C - 1 : toClient'[i].type = "configuration" /\ toClient'[i].id = n
    <3>1. PICK i \in 1 .. C : toClient[i].type = "configuration" /\ toClient[i].id = n
      BY <2>3 DEF L, A, C
    <3>2. QED
      BY <2>1, <3>1
  <2>4. \A i \in 1 .. C - 1 : toClient'[i].type = "configuration" => L + A < toClient'[i].id
    BY <2>1 DEF L, A, C
  <2>5. LastAnswered' = L /\ Len(asked') = A /\ issued' = issued /\ asked' = asked
    BY <1>0, <1>4 DEF A
  <2>6. \A i \in 1 .. A : asked[i] = L + i
    BY DEF L, A
  <2>7. L + A <= issued
    BY DEF L, A
  <2>8. QED
    BY <2>1, <2>2, <2>3, <2>4, <2>5, <2>6, <2>7
<1>5. CASE OnInitialize \/ OnInitialized
  <2>1. /\ [type |-> "initializeResult"] \in ToClient
        /\ [type |-> "registration", id |-> Registration] \in ToClient
    BY DEF ToClient, Registration
  <2>2. QED
    BY <1>2, <1>3, <1>5, <2>1 DEF OnInitialize, OnInitialized, serverVars, clientVars
<1>6. CASE GetConfiguration
  <2>1. CASE ~hasConfigurationCapability
    BY <1>2, <1>6, <2>1 DEF GetConfiguration, clientVars
  <2>2. CASE hasConfigurationCapability
    <3> DEFINE m == [type |-> "configuration", id |-> issued + 1]
    <3>1. /\ issued' = issued + 1 /\ toClient' = Append(toClient, m) /\ UNCHANGED <<asked, lastReply>>
      BY <1>6, <2>2 DEF GetConfiguration, clientVars
    <3>2. m \in ToClient /\ m.type = "configuration" /\ m.id = issued + 1
      BY <1>0 DEF ToClient
    <3> HIDE DEF m
    <3>3. /\ Len(toClient') = C + 1 /\ toClient'[C + 1] = m /\ C + 1 \in 1 .. C + 1
          /\ \A i \in 1 .. C : toClient'[i] = toClient[i] /\ i \in 1 .. C + 1
          /\ \A i \in 1 .. C + 1 : (i \in 1 .. C /\ i < C + 1) \/ i = C + 1
      BY <3>1, <3>2, AppendElements DEF Shape, C
    <3>4. LastAnswered' = L /\ asked' = asked
      BY <1>0, <3>1
    <3>5. \A i \in 1 .. C + 1 : toClient'[i].type = "configuration" => L + A < toClient'[i].id
      BY <1>0, <1>1, <3>2, <3>3 DEF L, A, C
    <3>6. ASSUME NEW i \in 1 .. C + 1, NEW j \in 1 .. C + 1, i < j,
                 toClient'[i].type = "configuration", toClient'[j].type = "configuration"
          PROVE  toClient'[i].id < toClient'[j].id
      <4>1. i \in 1 .. C
        BY <1>0, <3>6
      <4>2. CASE j \in 1 .. C
        BY <3>3, <3>6, <4>1, <4>2 DEF C
      <4>3. CASE j = C + 1
        <5>1. toClient'[j].id = issued + 1 /\ toClient'[i].id \in 1 .. issued
          BY <1>1, <3>2, <3>3, <3>6, <4>1, <4>3
        <5>2. QED
          BY <1>0, <5>1
      <4>4. QED
        BY <3>3, <4>2, <4>3
    <3>7. \A n \in 1 .. issued + 1 : L + A < n =>
            \E i \in 1 .. C + 1 : toClient'[i].type = "configuration" /\ toClient'[i].id = n
      <4>1. \A n \in 1 .. issued : L + A < n =>
              \E i \in 1 .. C : toClient[i].type = "configuration" /\ toClient[i].id = n
        BY DEF L, A, C
      <4>2. \A n \in 1 .. issued + 1 : n \in 1 .. issued \/ n = issued + 1
        BY <1>0
      <4>3. QED
        BY <3>2, <3>3, <4>1, <4>2
    <3>8. QED
      BY <1>0, <3>1, <3>3, <3>4, <3>5, <3>6, <3>7 DEF L, A, C
  <2>3. QED
    BY <2>1, <2>2
<1>7. CASE OnRespond \/ AnswerTwice \/ ChangeSettings \/ PlatformChange \/ UNCHANGED vars
  BY <1>2, <1>7 DEF OnRespond, AnswerTwice, ChangeSettings, PlatformChange, serverVars, clientVars, vars
<1>8. CASE Initialized \/ Register
  BY <1>4, <1>8 DEF Initialized, Register, ClientReceives, serverVars
<1>9. CASE Asked
  <2> DEFINE h == toClient[1].id
  <2>1. /\ toClient # <<>> /\ toClient[1].type = "configuration" /\ 1 \in 1 .. C
        /\ Len(toClient') = C - 1 /\ UNCHANGED <<issued, lastReply>> /\ LastAnswered' = L
        /\ \A i \in 1 .. C - 1 : i + 1 \in 1 .. C /\ toClient'[i] = toClient[i + 1]
        /\ \A i \in 1 .. C : i = 1 \/ (i - 1 \in 1 .. C - 1 /\ toClient'[i - 1] = toClient[i])
        /\ asked' = Append(asked, h)
    BY <1>0, <1>9, TailElements DEF Asked, ClientReceives, serverVars, Shape, C
  <2>2. h \in 1 .. issued /\ L + A < h
    BY <1>1, <2>1 DEF L, A, C
  <2>3. h = L + A + 1
    <3>1. L + A + 1 \in 1 .. issued
      BY <1>0, <2>2
    <3>2. PICK i \in 1 .. C : toClient[i].type = "configuration" /\ toClient[i].id = L + A + 1
      <4>1. L + A < L + A + 1
        BY <1>0
      <4>2. \A n \in 1 .. issued : L + A < n =>
              \E i \in 1 .. C : toClient[i].type = "configuration" /\ toClient[i].id = n
        BY DEF L, A, C
      <4>3. QED
        BY <3>1, <4>1, <4>2
    <3>3. i # 1 => h < L + A + 1
      <4>1. i # 1 => 1 < i
        BY <1>0, <3>2
      <4>2. QED
        BY <2>1, <3>2, <4>1 DEF C
    <3>4. QED
      BY <1>0, <2>2, <3>2, <3>3
  <2>4. /\ Len(asked') = A + 1 /\ asked'[A + 1] = L + A + 1
        /\ \A i \in 1 .. A : asked'[i] = asked[i]
        /\ \A i \in 1 .. A + 1 : (i \in 1 .. A /\ i < A + 1) \/ i = A + 1
    <3>1. h \in Nat
      BY <2>2, <1>0
    <3> HIDE DEF h
    <3>2. QED
      BY <2>1, <2>3, <3>1, AppendElements DEF Shape, A
  <2>5. \A i \in 1 .. A + 1 : asked'[i] = L + i
    <3>1. \A i \in 1 .. A : asked[i] = L + i
      BY DEF L, A
    <3>2. L + A + 1 = L + (A + 1)
      BY <1>0
    <3>3. QED
      BY <2>4, <3>1, <3>2
  <2>6. \A i \in 1 .. C - 1 : toClient'[i].type = "configuration" => L + (A + 1) < toClient'[i].id
    BY <1>0, <1>1, <2>1, <2>3 DEF C
  <2>7. ASSUME NEW i \in 1 .. C - 1, NEW j \in 1 .. C - 1, i < j,
               toClient'[i].type = "configuration", toClient'[j].type = "configuration"
        PROVE  toClient'[i].id < toClient'[j].id
    <3>1. i + 1 \in 1 .. C /\ j + 1 \in 1 .. C /\ i + 1 < j + 1
      BY <1>0, <2>1, <2>7
    <3>2. toClient'[i] = toClient[i + 1] /\ toClient'[j] = toClient[j + 1]
      BY <2>1
    <3>3. QED
      BY <2>7, <3>1, <3>2 DEF C
  <2>8. ASSUME NEW n \in 1 .. issued, L + (A + 1) < n
        PROVE  \E i \in 1 .. C - 1 : toClient'[i].type = "configuration" /\ toClient'[i].id = n
    <3>1. PICK i \in 1 .. C : toClient[i].type = "configuration" /\ toClient[i].id = n
      <4>1. L + A < n
        BY <1>0, <2>8
      <4>2. QED
        BY <4>1 DEF L, A, C
    <3>2. i # 1
      BY <1>0, <2>3, <2>8, <3>1
    <3>3. QED
      BY <2>1, <3>1, <3>2
  <2>9. L + (A + 1) <= issued
    BY <1>0, <2>2, <2>3
  <2>10. QED
    BY <2>1, <2>4, <2>5, <2>6, <2>7, <2>8, <2>9
<1>10. CASE Answer
  <2>1. PICK result \in Settings \cup {NoResult} :
          lastReply' = Reply(asked[1], result) /\ asked' = RemoveAt(asked, 1)
    BY <1>10 DEF Answer, Shape
  <2>2. /\ asked # <<>> /\ asked' = Tail(asked) /\ UNCHANGED <<toClient, issued>>
    BY <1>10, <2>1, RemoveAtHead DEF Answer, Shape, serverVars
  <2>3. /\ 1 \in 1 .. A /\ asked[1] \in Nat /\ Len(asked') = A - 1
        /\ \A i \in 1 .. A - 1 : i + 1 \in 1 .. A /\ asked'[i] = asked[i + 1]
    BY <2>2, TailElements DEF Shape, A
  <2>4. LastAnswered' = L + 1
    <3>1. asked[1] = L + 1
      BY <2>3 DEF L, A
    <3>2. LastAnswered' = asked[1]
      BY <2>1, <2>3, LastAnsweredType
    <3>3. QED
      BY <3>1, <3>2
  <2>5. \A i \in 1 .. A - 1 : asked'[i] = (L + 1) + i
    <3>1. \A i \in 1 .. A : asked[i] = L + i
      BY DEF L, A
    <3>2. \A i \in 1 .. A - 1 : L + (i + 1) = (L + 1) + i
      BY <1>0
    <3>3. QED
      BY <2>3, <3>1, <3>2
  <2>6. (L + 1) + (A - 1) = L + A
    BY <1>0
  <2>7. QED
    BY <1>0, <2>2, <2>3, <2>4, <2>5, <2>6 DEF L, A, C
<1>11. QED
  BY <1>5, <1>6, <1>7, <1>8, <1>9, <1>10 DEF Next, Server, Client

-----------------------------------------------------------------------------
(* Replies. *)

\* A reply on the way carries a number.
LEMMA ReplyElements ==
    ASSUME Shape
    PROVE  /\ toServer \in Seq(ToServer) /\ Len(toServer) \in Nat
           /\ \A i \in 1 .. Len(toServer) :
                toServer[i].type = "response" => toServer[i].id \in Nat
<1>1. \A m \in ToServer : m.type = "response" => m.id \in Nat
  BY DEF ToServer, Replies
<1>2. QED
  BY <1>1, ElementOfSeq DEF Shape

\* Every step keeps the replies in the order of their requests.
LEMMA RepliedStep ==
    ASSUME InOrderReplies, Shape, Shape', Numbered, Pending, AskedInOrder, RepliedInOrder,
           [Next]_vars
    PROVE  RepliedInOrder'
<1> DEFINE L == LastAnswered
           K == issued - Len(requests)
           S == Len(toServer)
<1>0. /\ L \in Nat /\ issued \in Nat /\ Len(requests) \in Nat /\ K \in Int /\ S \in Nat
      /\ UNCHANGED lastReply => LastAnswered' = L
      /\ L <= issued /\ K <= L
      /\ UNCHANGED <<requests, issued>> => issued' - Len(requests') = K
  <2>1. L \in Nat /\ issued \in Nat /\ Len(asked) \in Nat /\ (UNCHANGED lastReply => LastAnswered' = L)
    BY LastAnsweredType
  <2>2. Len(requests) \in Nat
    BY DEF Pending
  <2>3. L <= issued
    <3>1. L + Len(asked) <= issued
      BY DEF AskedInOrder
    <3> HIDE DEF L
    <3>2. QED
      BY <2>1, <3>1
  <2>4. S \in Nat
    BY ReplyElements
  <2>5. QED
    BY <2>1, <2>2, <2>3, <2>4 DEF RepliedInOrder
<1>1. \A i \in 1 .. S : toServer[i].type = "response" =>
        /\ toServer[i].id \in Nat /\ toServer[i].id <= L
        /\ toServer[i].id = L /\ L # 0 => toServer[i].result = lastReply.result
  BY ReplyElements DEF RepliedInOrder
<1>2. \A i, j \in 1 .. S :
        i < j /\ toServer[i].type = "response" /\ toServer[j].type = "response" /\ toServer[j].id # 0
        => toServer[i].id <= toServer[j].id
  BY DEF RepliedInOrder
<1>3. \A n \in 1 .. L : K < n => ReplyOnTheWay(n)
  BY DEF RepliedInOrder
<1> HIDE DEF L, K, S
<1>4. ASSUME NEW m \in ToServer, toServer' = Append(toServer, m),
             UNCHANGED <<lastReply, issued, requests>>,
             m.type = "response" => /\ m.id \in Nat /\ m.id <= L /\ m.id \in {0, L}
                                    /\ m.id = L /\ L # 0 => m.result = lastReply.result
      PROVE  RepliedInOrder'
  <2>1. /\ Len(toServer') = S + 1 /\ toServer'[S + 1] = m
        /\ \A i \in 1 .. S : toServer'[i] = toServer[i] /\ i \in 1 .. S + 1
        /\ \A i \in 1 .. S + 1 : (i \in 1 .. S /\ i < S + 1) \/ i = S + 1
    <3>1. toServer \in Seq(ToServer)
      BY DEF Shape
    <3>2. QED
      BY <1>4, <3>1, AppendElements DEF S
  <2>2. \A i \in 1 .. S + 1 : toServer'[i].type = "response" =>
          /\ toServer'[i].id <= L
          /\ toServer'[i].id = L /\ L # 0 => toServer'[i].result = lastReply'.result
    BY <1>1, <1>4, <2>1
  <2>3. ASSUME NEW i \in 1 .. S + 1, NEW j \in 1 .. S + 1, i < j,
               toServer'[i].type = "response", toServer'[j].type = "response", toServer'[j].id # 0
        PROVE  toServer'[i].id <= toServer'[j].id
    <3>1. i \in 1 .. S
      BY <1>0, <2>3
    <3>2. CASE j \in 1 .. S
      BY <1>2, <2>1, <2>3, <3>1, <3>2
    <3>3. CASE j = S + 1
      BY <1>1, <1>4, <2>1, <2>3, <3>1, <3>3
    <3>4. QED
      BY <2>1, <3>2, <3>3
  <2>4. \A n \in 1 .. L : K < n => ReplyOnTheWay(n)'
    <3>1. \A n : ReplyOnTheWay(n) => ReplyOnTheWay(n)'
      BY <2>1 DEF ReplyOnTheWay, S
    <3>2. QED
      BY <1>3, <3>1
  <2>5. LastAnswered' = L /\ issued' - Len(requests') = K
    BY <1>0, <1>4
  <2>6. QED
    BY <1>0, <2>1, <2>2, <2>3, <2>4, <2>5 DEF RepliedInOrder
<1>5. ASSUME toServer # <<>>, toServer' = Tail(toServer), UNCHANGED lastReply,
             issued' - Len(requests') <= L,
             \A n \in 1 .. L : issued' - Len(requests') < n =>
               ReplyOnTheWay(n) /\ ~(Head(toServer).type = "response" /\ Head(toServer).id = n)
      PROVE  RepliedInOrder'
  <2>1. /\ Len(toServer') = S - 1 /\ Head(toServer) = toServer[1]
        /\ \A i \in 1 .. S - 1 : i + 1 \in 1 .. S /\ toServer'[i] = toServer[i + 1]
        /\ \A i \in 1 .. S : i = 1 \/ (i - 1 \in 1 .. S - 1 /\ toServer'[i - 1] = toServer[i])
    BY <1>5, TailElements DEF Shape, S
  <2>2. \A i \in 1 .. S - 1 : toServer'[i].type = "response" =>
          /\ toServer'[i].id <= L
          /\ toServer'[i].id = L /\ L # 0 => toServer'[i].result = lastReply'.result
    BY <1>1, <1>5, <2>1
  <2>3. ASSUME NEW i \in 1 .. S - 1, NEW j \in 1 .. S - 1, i < j,
               toServer'[i].type = "response", toServer'[j].type = "response", toServer'[j].id # 0
        PROVE  toServer'[i].id <= toServer'[j].id
    <3>1. i + 1 \in 1 .. S /\ j + 1 \in 1 .. S /\ i + 1 < j + 1
      BY <1>0, <2>1, <2>3
    <3>2. toServer'[i] = toServer[i + 1] /\ toServer'[j] = toServer[j + 1]
      BY <2>1
    <3>3. QED
      BY <1>2, <2>3, <3>1, <3>2
  <2>4. ASSUME NEW n \in 1 .. L, issued' - Len(requests') < n
        PROVE  ReplyOnTheWay(n)'
    <3>1. PICK i \in 1 .. S : toServer[i].type = "response" /\ toServer[i].id = n
      BY <1>5, <2>4 DEF ReplyOnTheWay, S
    <3>2. i # 1
      BY <1>5, <2>1, <2>4, <3>1
    <3>3. QED
      BY <2>1, <3>1, <3>2 DEF ReplyOnTheWay
  <2>5. LastAnswered' = L
    BY <1>0, <1>5
  <2>6. QED
    BY <1>5, <2>1, <2>2, <2>3, <2>4, <2>5 DEF RepliedInOrder
<1>6. CASE UNCHANGED <<toServer, lastReply, issued, requests>>
  BY <1>6 DEF RepliedInOrder, ReplyOnTheWay, LastAnswered
<1>7. CASE OnInitialize \/ OnInitialized
  BY <1>0, <1>3, <1>5, <1>7 DEF OnInitialize, OnInitialized, Receive, serverVars, clientVars
<1>8. CASE GetConfiguration
  <2>1. issued' - Len(requests') = K
    <3>1. CASE UNCHANGED <<requests, issued>>
      BY <1>0, <3>1
    <3>2. CASE requests' = Append(requests, issued') /\ issued' = issued + 1
      <4>1. Len(requests') = Len(requests) + 1
        BY <3>2, AppendProperties, <1>0 DEF Pending
      <4>2. QED
        BY <1>0, <3>2, <4>1 DEF K
    <3>3. QED
      BY <1>8, <3>1, <3>2 DEF GetConfiguration
  <2>2. QED
    BY <1>0, <1>3, <1>5, <1>8, <2>1 DEF GetConfiguration, Receive, clientVars
<1>9. CASE OnRespond
  <2> DEFINE m == Head(toServer)
  <2>1. /\ toServer # <<>> /\ m = toServer[1] /\ 1 \in 1 .. S /\ m.type = "response"
        /\ toServer' = Tail(toServer) /\ UNCHANGED <<lastReply, issued>>
    BY <1>9, TailElements DEF OnRespond, Receive, clientVars, Shape, S
  <2>2. m.id \in Nat /\ m.id <= L
    BY <1>1, <2>1
  <2>3. requests # <<>> => /\ Head(requests) = K + 1 /\ K + 1 \in 1 .. issued
                           /\ Len(Tail(requests)) = Len(requests) - 1
    <3>1. requests # <<>> => /\ Head(requests) = requests[1] /\ 1 \in 1 .. Len(requests)
                             /\ Len(Tail(requests)) = Len(requests) - 1 /\ Head(requests) \in 1 .. issued
      BY TailElements DEF Numbered
    <3>2. requests # <<>> => requests[1] = K + 1
      BY <3>1 DEF Pending, K
    <3>3. QED
      BY <3>1, <3>2
  <2>4. CASE requests # <<>> /\ m.id = Head(requests) /\ requests' = Tail(requests)
    <3>1. issued' - Len(requests') = K + 1 /\ m.id = K + 1
      BY <1>0, <2>1, <2>3, <2>4 DEF K
    <3>2. \A n \in 1 .. L : K + 1 < n => ReplyOnTheWay(n) /\ m.id # n
      BY <1>0, <1>3, <3>1
    <3>3. QED
      BY <1>5, <2>1, <2>2, <3>1, <3>2
  <2>5. CASE ~(requests # <<>> /\ m.id = Head(requests)) /\ UNCHANGED requests
    <3>1. issued' - Len(requests') = K
      BY <1>0, <2>1, <2>5
    <3>2. ASSUME NEW n \in 1 .. L, K < n
          PROVE  ReplyOnTheWay(n) /\ m.id # n
      <4>1. ReplyOnTheWay(n)
        BY <1>3, <3>2
      <4>2. SUFFICES ASSUME m.id = n PROVE FALSE
        BY <4>1
      <4>3. requests # <<>>
        <5>1. requests = <<>> => Len(requests) = 0
          BY EmptySeq
        <5>2. QED
          BY <1>0, <3>2, <5>1 DEF K
      <4>4. K + 1 \in 1 .. L /\ K + 1 < n /\ K < K + 1
        BY <1>0, <2>3, <2>5, <3>2, <4>2, <4>3
      <4>5. PICK j \in 1 .. S : toServer[j].type = "response" /\ toServer[j].id = K + 1
        BY <1>3, <4>4 DEF ReplyOnTheWay, S
      <4>6. 1 < j
        <5>1. j # 1
          BY <1>0, <2>1, <4>2, <4>4, <4>5
        <5>2. QED
          BY <1>0, <5>1
      <4>7. m.id <= K + 1
        BY <1>0, <1>2, <2>1, <4>4, <4>5, <4>6
      <4>8. QED
        BY <1>0, <4>2, <4>4, <4>7
    <3>3. QED
      BY <1>0, <1>5, <2>1, <3>1, <3>2
  <2>6. QED
    BY <1>9, <2>4, <2>5 DEF OnRespond
<1>10. CASE Initialized \/ ChangeSettings
  <2>1. [type |-> "initialized"] \in ToServer /\ [type |-> "didChangeConfiguration"] \in ToServer
    BY DEF ToServer
  <2>2. QED
    BY <1>4, <1>6, <1>10, <2>1 DEF Initialized, ChangeSettings, Send, serverVars
<1>11. CASE Register
  <2>1. /\ Reply(Registration, NoResult) \in ToServer
        /\ Reply(Registration, NoResult).id = 0
    BY ReplyInReplies DEF Registration, Reply
  <2>2. 0 = L /\ L # 0 => FALSE
    OBVIOUS
  <2>3. QED
    BY <1>0, <1>4, <1>11, <2>1, <2>2 DEF Register, Send, serverVars
<1>12. CASE AnswerTwice
  <2>1. lastReply \in ToServer /\ lastReply.id = L /\ lastReply.type = "response"
    BY <1>12 DEF AnswerTwice, Shape, ToServer, Replies, L, LastAnswered
  <2>2. QED
    BY <1>0, <1>4, <1>12, <2>1 DEF AnswerTwice, Send, serverVars
<1>13. CASE Answer
  <2>1. PICK result \in Settings \cup {NoResult} :
          /\ toServer' = Append(toServer, Reply(asked[1], result))
          /\ lastReply' = Reply(asked[1], result)
          /\ asked # <<>> /\ UNCHANGED <<requests, issued>>
    BY <1>13 DEF Answer, Send, serverVars, Shape
  <2>2. asked[1] = L + 1 /\ asked[1] \in Nat
    BY <2>1, TailElements DEF Shape, AskedInOrder, L
  <2> DEFINE m == Reply(L + 1, result)
  <2>3. m \in ToServer /\ m.id = L + 1 /\ m.type = "response"
    BY <1>0, ReplyInReplies DEF Reply
  <2>4. LastAnswered' = L + 1 /\ issued' - Len(requests') = K /\ lastReply' = m
    BY <1>0, <2>1, <2>2, LastAnsweredType
  <2>5. toServer' = Append(toServer, m)
    BY <2>1, <2>2
  <2> HIDE DEF m
  <2>6. /\ Len(toServer') = S + 1 /\ toServer'[S + 1] = m /\ S + 1 \in 1 .. S + 1
        /\ \A i \in 1 .. S : toServer'[i] = toServer[i] /\ i \in 1 .. S + 1
        /\ \A i \in 1 .. S + 1 : (i \in 1 .. S /\ i < S + 1) \/ i = S + 1
    BY <2>3, <2>5, AppendElements DEF Shape, S
  <2>7. \A i \in 1 .. S + 1 : toServer'[i].type = "response" =>
          /\ toServer'[i].id <= L + 1
          /\ toServer'[i].id = L + 1 => toServer'[i].result = lastReply'.result
    BY <1>0, <1>1, <2>3, <2>4, <2>6
  <2>8. ASSUME NEW i \in 1 .. S + 1, NEW j \in 1 .. S + 1, i < j,
               toServer'[i].type = "response", toServer'[j].type = "response", toServer'[j].id # 0
        PROVE  toServer'[i].id <= toServer'[j].id
    <3>1. i \in 1 .. S
      BY <1>0, <2>8
    <3>2. CASE j \in 1 .. S
      BY <1>2, <2>6, <2>8, <3>1, <3>2
    <3>3. CASE j = S + 1
      <4>1. toServer'[j].id = L + 1 /\ toServer'[i].id = toServer[i].id
        BY <2>3, <2>6, <3>1, <3>3
      <4>2. toServer[i].id \in Nat /\ toServer[i].id <= L
        BY <1>1, <2>6, <2>8, <3>1
      <4>3. QED
        BY <1>0, <4>1, <4>2
    <3>4. QED
      BY <2>6, <3>2, <3>3
  <2>9. ASSUME NEW n \in 1 .. L + 1, K < n
        PROVE  ReplyOnTheWay(n)'
    <3>1. CASE n = L + 1
      BY <2>3, <2>6, <3>1 DEF ReplyOnTheWay
    <3>2. CASE n \in 1 .. L
      BY <1>3, <2>6, <2>9, <3>2 DEF ReplyOnTheWay, S
    <3>3. QED
      BY <1>0, <3>1, <3>2
  <2>10. K <= L + 1
    BY <1>0
  <2>11. QED
    BY <2>4, <2>6, <2>7, <2>8, <2>9, <2>10 DEF RepliedInOrder
<1>14. CASE Asked \/ PlatformChange \/ UNCHANGED vars
  BY <1>6, <1>14 DEF Asked, PlatformChange, serverVars, clientVars, vars
<1>15. QED
  BY <1>7, <1>8, <1>9, <1>10, <1>11, <1>12, <1>13, <1>14 DEF Next, Server, Client

InFlight == Shape /\ Numbered /\ Pending /\ AskedInOrder /\ RepliedInOrder

\* So both orders, and Pending, are invariants of a client that answers in order.
LEMMA InFlightHolds == ASSUME InOrderReplies PROVE Spec => []InFlight
<1>1. Init => AskedInOrder /\ RepliedInOrder
  <2> SUFFICES ASSUME Init PROVE AskedInOrder /\ RepliedInOrder
    OBVIOUS
  <2>1. /\ LastAnswered = 0 /\ issued = 0 /\ Len(asked) = 0 /\ Len(toClient) = 0 /\ Len(requests) = 0
    BY EmptySeq DEF Init, LastAnswered
  <2>2. AskedInOrder
    BY <2>1 DEF AskedInOrder
  <2>3. PICK m \in ToServer : toServer = <<m>> /\ m.type # "response"
    BY DEF Init, ToServer
  <2>4. \A i \in 1 .. Len(toServer) : toServer[i].type # "response"
    BY <2>3
  <2>5. QED
    BY <2>1, <2>2, <2>4 DEF RepliedInOrder
<1>2. Shape /\ Shape' /\ Numbered /\ Pending /\ AskedInOrder /\ RepliedInOrder /\ [Next]_vars
      => AskedInOrder' /\ RepliedInOrder'
  BY AskedStep, RepliedStep
<1>3. QED
  BY <1>1, <1>2, TypesHold, PendingHolds, PTL DEF Spec, InFlight

\* With a client that answers in order, no configuration request waits in
\* m_requests for a reply that has been lost: every one is on its way to the
\* client, held by it, or answered by a reply the server has yet to read.
THEOREM NothingIsStuck == ASSUME InOrderReplies PROVE Spec => []NoRequestIsStuck
<1>1. InFlight => NoRequestIsStuck
  <2> SUFFICES ASSUME InFlight, NEW k \in DOMAIN requests PROVE OnTheWay(requests[k])
    BY DEF NoRequestIsStuck
  <2> DEFINE n == requests[k]
  <2>1. /\ LastAnswered \in Nat /\ issued \in Nat /\ Len(asked) \in Nat /\ Len(requests) \in Nat
        /\ DOMAIN asked = 1 .. Len(asked) /\ DOMAIN requests = 1 .. Len(requests)
        /\ DOMAIN toClient = 1 .. Len(toClient) /\ DOMAIN toServer = 1 .. Len(toServer)
    BY LastAnsweredType, LenProperties DEF InFlight, Shape, Pending
  <2>2. n \in 1 .. issued
    BY <2>1, ElementOfSeq DEF InFlight, Numbered
  <2>3. issued - Len(requests) < n
    BY <2>1 DEF InFlight, Pending
  <2>4. CASE n <= LastAnswered
    <3>1. ReplyOnTheWay(n)
      BY <2>1, <2>2, <2>3, <2>4 DEF InFlight, RepliedInOrder
    <3>2. QED
      BY <2>1, <3>1 DEF ReplyOnTheWay, OnTheWay
  <2>5. CASE LastAnswered < n /\ n <= LastAnswered + Len(asked)
    <3>1. PICK i \in 1 .. Len(asked) : i = n - LastAnswered
      BY <2>1, <2>2, <2>5
    <3>2. asked[i] = LastAnswered + i
      BY DEF InFlight, AskedInOrder
    <3>3. asked[i] = n
      BY <2>1, <2>2, <3>1, <3>2
    <3>4. QED
      BY <2>1, <3>3 DEF OnTheWay
  <2>6. CASE LastAnswered + Len(asked) < n
    <3>1. RequestOnTheWay(n)
      BY <2>2, <2>6 DEF InFlight, AskedInOrder
    <3>2. QED
      BY <2>1, <3>1 DEF RequestOnTheWay, OnTheWay
  <2>7. QED
    BY <2>1, <2>2, <2>4, <2>5, <2>6
<1>2. QED
  BY <1>1, InFlightHolds, PTL

-----------------------------------------------------------------------------
(* What the server works with. *)

\* Every settings record the client sends names a device, build options and a
\* limit, the limit within the range of an int.
FullSettings ==
    \A s \in Settings : /\ s.deviceID \notin {Absent, Invalid} /\ s.options \notin {Absent, Invalid}
                        /\ s.limit \notin {Absent, Invalid} /\ ToInt(s.limit) = s.limit

\* The platforms do not change under the server.
StablePlatforms == \E p \in Platforms : Platforms = {p}

\* The server has not read initialize yet; the client waits for its answer.
Starting ==
    /\ \E s \in InitialSettings : /\ toServer = <<[type |-> "initialize", settings |-> s]>>
                                  /\ announced => s = settings
    /\ toClient = <<>> /\ asked = <<>> /\ requests = <<>> /\ issued = 0
    /\ ~notifying /\ lastReply = NoResult

Started ==
    /\ hasConfigurationCapability = capabilities.configuration
    /\ \A i \in 1 .. Len(toServer) : toServer[i].type # "initialize"

ChangeOnTheWay == \E i \in 1 .. Len(toServer) : toServer[i].type = "didChangeConfiguration"

\* What is left to be done before the client's settings are in effect: read the
\* change, answer the last request, apply its answer, or nothing.
Converging ==
    \/ ChangeOnTheWay
    \/ LastAnswered < issued
    \/ LastAnswered = issued /\ requests # <<>> /\ lastReply # NoResult /\ lastReply.result = settings
    \/ requests = <<>> /\ InEffect(settings)

Current == Starting \/ (Started /\ (Settled => Converging))

\* Complete settings that arrive in a reply are in effect at once.
LEMMA ResponseApplied ==
    ASSUME FullSettings, Values, NEW s \in Settings, OnConfiguration(s), UNCHANGED devices
    PROVE  InEffect(s)'
<1>1. /\ s.deviceID # Invalid /\ s.options # Invalid /\ s.limit # Invalid /\ ToInt(s.limit) = s.limit
  BY DEF FullSettings
<1>2. /\ device' = SelectOpenCLDevice(devices, ToIdentifier(s.deviceID), device)
      /\ storeStandard' = StandardOf(device')
      /\ buildOptions' = WithStandard(s.options, device')
      /\ maxNumberOfProblems' = ToProblemsCount(s.limit)
  BY <1>1 DEF OnConfiguration, UseDevice, SetOpenCLDevice, SetBuildOptions, SetMaxProblemsCount
<1>3. SelectOpenCLDevice(devices, ToIdentifier(s.deviceID), device') = device'
  BY <1>2, SelectionFacts, PlatformsAssumption DEF Values
<1>4. ToProblemsCount(s.limit) = ToUnsigned(s.limit, SizeBits)
  BY <1>1 DEF ToProblemsCount
<1>5. QED
  BY <1>2, <1>3, <1>4 DEF InEffect, StandardOf, WithStandard

\* Complete settings that arrive with initialize are in effect at once.
LEMMA InitializeApplied ==
    ASSUME FullSettings, Values, NEW s \in Settings, OnInitialize, Head(toServer).settings = s
    PROVE  InEffect(s)'
<1>1. /\ s # Absent /\ s.deviceID \notin {Absent, Invalid}
      /\ s.options \notin {Absent, Invalid} /\ s.limit \notin {Absent, Invalid}
  BY SettingsAssumption DEF FullSettings
<1>2. /\ device' = SelectOpenCLDevice(devices, ToIdentifier(s.deviceID), device)
      /\ storeStandard' = StandardOf(device')
      /\ buildOptions' = WithStandard(s.options, device')
      /\ maxNumberOfProblems' = ToUnsigned(s.limit, SizeBits) /\ devices' = devices
  BY <1>1 DEF OnInitialize, UseDevice, SetOpenCLDevice, SetBuildOptions, SetMaxProblemsCount
<1>3. SelectOpenCLDevice(devices, ToIdentifier(s.deviceID), device') = device'
  BY <1>2, SelectionFacts, PlatformsAssumption DEF Values
<1>4. QED
  BY <1>2, <1>3 DEF InEffect, StandardOf, WithStandard

\* Until initialize was handled, the settings announced are those it carries.
LEMMA CurrentWhileStarting ==
    ASSUME FullSettings, Shape, Values, Starting, [Next]_vars
    PROVE  Current'
<1>1. PICK s \in InitialSettings : /\ toServer = <<[type |-> "initialize", settings |-> s]>>
                                   /\ announced => s = settings
  BY DEF Starting
<1>2. /\ Head(toServer) = [type |-> "initialize", settings |-> s] /\ Tail(toServer) = <<>>
      /\ toClient = <<>> /\ asked = <<>> /\ requests = <<>> /\ ~notifying /\ lastReply = NoResult
  <2>1. \A m : Head(<<m>>) = m /\ Tail(<<m>>) = <<>>
    OBVIOUS
  <2>2. Head(toServer) = [type |-> "initialize", settings |-> s] /\ Tail(toServer) = <<>>
    BY <1>1, <2>1, Zenon
  <2>3. QED
    BY <2>2, Zenon DEF Starting
<1>3. CASE OnInitialize
  <2>1. toServer' = <<>> /\ UNCHANGED <<clientVars, requests, issued>>
    BY <1>2, <1>3 DEF OnInitialize, Receive
  <2>2. Started'
    BY <1>3, <2>1 DEF OnInitialize, Started, clientVars
  <2>3. ASSUME Settled' PROVE Converging'
    <3>1. s = settings /\ settings' = settings /\ requests' = <<>>
      <4>1. announced /\ UNCHANGED <<settings, requests>>
        BY <2>1, <2>3 DEF Settled, clientVars
      <4>2. s = settings
        BY <1>1, <4>1
      <4>3. QED
        BY <1>2, <4>1, <4>2, Zenon
    <3>2. InEffect(s)'
      BY <1>2, <1>3, <3>1, InitializeApplied DEF Shape
    <3>3. InEffect(settings)'
      BY <3>1, <3>2 DEF InEffect
    <3>4. QED
      BY <3>1, <3>3 DEF Converging
  <2>4. QED
    BY <2>2, <2>3 DEF Current
<1>4. CASE ChangeSettings
  <2>1. UNCHANGED <<toServer, toClient, asked, requests, issued, notifying, lastReply>> /\ ~announced'
    BY <1>2, <1>4 DEF ChangeSettings, serverVars
  <2>2. QED
    BY <2>1, <1>1 DEF Starting, Current
<1>5. CASE PlatformChange \/ UNCHANGED vars
  <2>1. UNCHANGED <<toServer, toClient, asked, requests, issued, notifying, lastReply,
                    announced, settings>>
    BY <1>5 DEF PlatformChange, vars, serverVars, clientVars
  <2>2. QED
    BY <2>1 DEF Starting, Current
<1>6. ~OnInitialized /\ ~GetConfiguration /\ ~OnRespond
  BY <1>2 DEF OnInitialized, GetConfiguration, OnRespond, Receive
<1>7. ~Initialized /\ ~Register /\ ~Asked /\ ~Answer /\ ~AnswerTwice
  BY <1>2 DEF Initialized, Register, Asked, ClientReceives, Answer, AnswerTwice
<1>8. QED
  BY <1>3, <1>4, <1>5, <1>6, <1>7 DEF Next, Server, Client

\* A server that has started does not handle initialize again.
LEMMA StartedStep ==
    ASSUME Shape, Started, [Next]_vars
    PROVE  Started' /\ ~OnInitialize
<1> DEFINE S == Len(toServer)
<1>1. S \in Nat /\ \A i \in 1 .. S : toServer[i].type # "initialize"
  BY ReplyElements DEF Started
<1>2. ASSUME NEW type, Receive(type)
      PROVE  /\ type # "initialize"
             /\ \A i \in 1 .. Len(toServer') : toServer'[i].type # "initialize"
  BY <1>1, <1>2, TailElements DEF Receive, Shape
<1>3. ASSUME NEW m \in ToServer, Send(m), m.type # "initialize"
      PROVE  \A i \in 1 .. Len(toServer') : toServer'[i].type # "initialize"
  BY <1>1, <1>3, AppendElements DEF Send, Shape
<1>4. ~OnInitialize
  BY <1>2 DEF OnInitialize
<1>5. CASE OnInitialized \/ GetConfiguration \/ OnRespond
  <2>1. UNCHANGED <<hasConfigurationCapability, capabilities>>
    BY <1>5 DEF OnInitialized, GetConfiguration, OnRespond, serverVars, clientVars
  <2>2. \A i \in 1 .. Len(toServer') : toServer'[i].type # "initialize"
    BY <1>2, <1>5 DEF OnInitialized, GetConfiguration, OnRespond
  <2>3. QED
    BY <1>4, <2>1, <2>2 DEF Started
<1>6. CASE Initialized \/ Register \/ Answer \/ AnswerTwice
  <2>1. UNCHANGED <<hasConfigurationCapability, capabilities>>
    BY <1>6 DEF Initialized, Register, Answer, AnswerTwice, serverVars
  <2>2. PICK m \in ToServer : Send(m) /\ m.type # "initialize"
    <3>1. CASE Initialized
      <4>1. [type |-> "initialized"] \in ToServer
        BY DEF ToServer
      <4>2. QED
        BY <3>1, <4>1 DEF Initialized
    <3>2. CASE Register
      BY <3>2, ReplyInReplies DEF Register, Registration, Reply
    <3>3. CASE AnswerTwice
      BY <3>3 DEF AnswerTwice, Shape, ToServer, Replies
    <3>4. CASE Answer
      <4>1. PICK i \in 1 .. Len(asked), result \in Settings \cup {NoResult} : Send(Reply(asked[i], result))
        <5>1. asked # <<>> => 1 \in 1 .. Len(asked)
          BY EmptySeq, LenProperties DEF Shape
        <5>2. DOMAIN asked = 1 .. Len(asked)
          BY LenProperties DEF Shape
        <5>3. QED
          BY <3>4, <5>1, <5>2 DEF Answer, Shape
      <4>2. asked[i] \in Nat
        BY ElementOfSeq DEF Shape
      <4>3. QED
        BY <4>1, <4>2, ReplyInReplies DEF Reply
    <3>5. QED
      BY <1>6, <3>1, <3>2, <3>3, <3>4
  <2>3. \A i \in 1 .. Len(toServer') : toServer'[i].type # "initialize"
    BY <1>3, <2>2
  <2>4. QED
    BY <1>4, <2>1, <2>3 DEF Started
<1>7. CASE ChangeSettings
  <2>1. [type |-> "didChangeConfiguration"] \in ToServer
    BY DEF ToServer
  <2>2. \A i \in 1 .. Len(toServer') : toServer'[i].type # "initialize"
    BY <1>1, <1>3, <1>7, <2>1 DEF ChangeSettings
  <2>3. QED
    BY <1>4, <1>7, <2>2 DEF ChangeSettings, serverVars, Started
<1>8. CASE Asked \/ PlatformChange \/ UNCHANGED vars
  BY <1>4, <1>8 DEF Asked, PlatformChange, vars, serverVars, clientVars, Started
<1>9. QED
  BY <1>4, <1>5, <1>6, <1>7, <1>8 DEF Next, Server, Client

\* Afterwards the last reply on the way, or what is in effect, is what was announced.
LEMMA CurrentWhileStarted ==
    ASSUME InOrderReplies, FullSettings, StablePlatforms, InFlight, Values, Started,
           Settled => Converging, [Next]_vars, Settled'
    PROVE  Converging'
<1> DEFINE L == LastAnswered
<1>0. /\ L \in Nat /\ issued \in Nat /\ Len(asked) \in Nat /\ Len(requests) \in Nat /\ L <= issued
      /\ issued - Len(requests) <= L
      /\ UNCHANGED lastReply => LastAnswered' = L
  <2>1. L \in Nat /\ issued \in Nat /\ Len(asked) \in Nat /\ (UNCHANGED lastReply => LastAnswered' = L)
    BY LastAnsweredType DEF InFlight
  <2>2. L + Len(asked) <= issued /\ issued - Len(requests) <= L /\ Len(requests) \in Nat
    BY DEF InFlight, AskedInOrder, RepliedInOrder, Pending
  <2> HIDE DEF L
  <2>3. QED
    BY <2>1, <2>2
<1> HIDE DEF L
<1>1. ASSUME UNCHANGED <<devices, device, storeStandard, buildOptions, maxNumberOfProblems, requests, issued,
                         lastReply, settings, announced, capabilities, failed>>,
             ChangeOnTheWay => ChangeOnTheWay'
      PROVE  Converging'
  <2>1. Converging
    BY <1>1 DEF Settled
  <2>2. InEffect(settings) => InEffect(settings)'
    BY <1>1 DEF InEffect, StandardOf, WithStandard
  <2>3. QED
    BY <1>0, <1>1, <2>1, <2>2 DEF Converging, L
<1>2. ASSUME NEW m \in ToServer, Send(m)
      PROVE  /\ ChangeOnTheWay => ChangeOnTheWay'
             /\ m.type = "didChangeConfiguration" => ChangeOnTheWay'
  <2>1. /\ Len(toServer') = Len(toServer) + 1 /\ toServer'[Len(toServer) + 1] = m
        /\ Len(toServer) + 1 \in 1 .. Len(toServer) + 1
        /\ \A i \in 1 .. Len(toServer) : toServer'[i] = toServer[i] /\ i \in 1 .. Len(toServer) + 1
    BY <1>2, AppendElements DEF Send, InFlight, Shape
  <2>2. QED
    BY <2>1 DEF ChangeOnTheWay
<1>3. ASSUME NEW type, type # "didChangeConfiguration", Receive(type)
      PROVE  ChangeOnTheWay => ChangeOnTheWay'
  <2>1. /\ toServer[1].type = type
        /\ \A i \in 1 .. Len(toServer) :
             i = 1 \/ (i - 1 \in 1 .. Len(toServer') /\ toServer'[i - 1] = toServer[i])
    BY <1>3, TailElements DEF Receive, InFlight, Shape
  <2>2. QED
    BY <1>3, <2>1 DEF ChangeOnTheWay
<1>4. CASE OnInitialized
  BY <1>1, <1>3, <1>4 DEF OnInitialized, serverVars, clientVars
<1>5. CASE GetConfiguration
  <2>1. hasConfigurationCapability
    BY <1>5 DEF GetConfiguration, clientVars, Settled, Started
  <2>2. issued' = issued + 1 /\ LastAnswered' = L
    BY <1>0, <1>5, <2>1 DEF GetConfiguration, clientVars
  <2>3. LastAnswered' < issued'
    BY <1>0, <2>2
  <2>4. QED
    BY <2>3 DEF Converging
<1>6. CASE OnRespond
  <2> DEFINE m == Head(toServer)
             expected == requests # <<>> /\ m.id = Head(requests)
  <2>1. /\ UNCHANGED <<devices, lastReply, issued, settings, announced, capabilities, failed>>
        /\ ChangeOnTheWay => ChangeOnTheWay'
        /\ requests' = IF expected THEN Tail(requests) ELSE requests
        /\ IF expected /\ m.result # NoResult THEN OnConfiguration(m.result)
           ELSE UNCHANGED <<device, storeStandard, buildOptions, maxNumberOfProblems>>
        /\ toServer # <<>> /\ m.type = "response"
    BY <1>3, <1>6 DEF OnRespond, ApplyReply, DropReply, Receive, clientVars
  <2>2. Converging /\ LastAnswered' = L
    BY <1>0, <2>1 DEF Settled
  <2>3. CASE ~expected
    BY <1>1, <2>1, <2>3
  <2>4. CASE ChangeOnTheWay \/ L < issued
    BY <2>1, <2>2, <2>4 DEF Converging
  <2>5. CASE expected /\ L = issued /\ lastReply # NoResult /\ lastReply.result = settings
    <3>1. CASE requests' # <<>>
      BY <2>1, <2>2, <2>5, <3>1 DEF Converging
    <3>2. CASE requests' = <<>>
      <4>1. /\ Len(requests) = 1 /\ Head(requests) = requests[1] /\ requests[1] \in 1 .. issued
        <5>1. /\ Len(Tail(requests)) = Len(requests) - 1 /\ Head(requests) = requests[1]
              /\ Head(requests) \in 1 .. issued
          BY <2>5, TailElements DEF InFlight, Numbered
        <5>2. Len(Tail(requests)) = 0
          BY <2>1, <2>5, <3>2, EmptySeq
        <5>3. QED
          BY <1>0, <5>1, <5>2
      <4>2. m.id = L /\ L # 0
        BY <1>0, <2>5, <4>1 DEF InFlight, Pending
      <4>3. m = toServer[1] /\ 1 \in 1 .. Len(toServer)
        BY <2>1, TailElements DEF InFlight, Shape
      <4>4. m.result = settings
        BY <2>1, <2>5, <4>2, <4>3 DEF InFlight, RepliedInOrder, L
      <4>5. settings \in Settings /\ settings # NoResult
        BY SettingsAssumption DEF InFlight, Shape
      <4>6. OnConfiguration(settings)
        BY <2>1, <2>5, <4>4, <4>5
      <4>7. PICK s \in Settings : s = settings
        BY <4>5
      <4>8. InEffect(s)'
        BY <2>1, <4>6, <4>7, ResponseApplied
      <4>9. QED
        BY <2>1, <3>2, <4>7, <4>8 DEF Converging, InEffect
    <3>3. QED
      BY <3>1, <3>2
  <2>6. QED
    BY <2>2, <2>3, <2>4, <2>5 DEF Converging, L
<1>7. CASE Initialized \/ Register
  <2>1. [type |-> "initialized"] \in ToServer /\ Reply(Registration, NoResult) \in ToServer
    BY ReplyInReplies DEF ToServer, Registration
  <2>2. QED
    BY <1>1, <1>2, <1>7, <2>1 DEF Initialized, Register, serverVars
<1>8. CASE AnswerTwice
  <2>1. lastReply \in ToServer
    BY <1>8 DEF AnswerTwice, InFlight, Shape, ToServer
  <2>2. QED
    BY <1>1, <1>2, <1>8, <2>1 DEF AnswerTwice, serverVars
<1>9. CASE ChangeSettings
  <2>1. [type |-> "didChangeConfiguration"] \in ToServer
    BY DEF ToServer
  <2>2. ChangeOnTheWay'
    BY <1>2, <1>9, <2>1 DEF ChangeSettings, Settled
  <2>3. QED
    BY <2>2 DEF Converging
<1>10. CASE Answer
  <2>1. PICK result \in {settings, NoResult} :
          /\ lastReply' = Reply(asked[1], result) /\ asked # <<>>
          /\ result = NoResult => asked[1] \in failed'
          /\ UNCHANGED <<requests, issued, settings>>
    BY <1>10 DEF Answer, serverVars
  <2>2. asked[1] = L + 1 /\ asked[1] \in 1 .. issued
    <3>1. 1 \in 1 .. Len(asked)
      BY <2>1, TailElements DEF InFlight, Shape
    <3>2. \A i \in 1 .. Len(asked) : asked[i] = L + i
      BY DEF InFlight, AskedInOrder, L
    <3>3. asked[1] \in 1 .. issued
      <4>1. asked \in Seq(1 .. issued)
        BY DEF InFlight, Numbered
      <4>2. QED
        BY <2>1, <4>1, TailElements
    <3>4. QED
      BY <3>1, <3>2, <3>3
  <2>3. settings \in Settings
    BY DEF InFlight, Shape
  <2>4. LastAnswered' = L + 1
    BY <1>0, <2>1, <2>2, <2>3, LastAnsweredType DEF InFlight
  <2>5. CASE L + 1 < issued
    BY <2>1, <2>4, <2>5 DEF Converging
  <2>6. CASE L + 1 = issued
    <3>1. result = settings
      BY <2>1, <2>2, <2>6 DEF Settled
    <3>2. requests # <<>>
      <4>1. requests = <<>> => Len(requests) = 0
        BY EmptySeq
      <4>2. QED
        BY <1>0, <2>6, <4>1
    <3>3. lastReply' # NoResult /\ lastReply'.result = settings
      <4>1. Reply(L + 1, settings) \in Replies
        BY <1>0, <2>3, ReplyInReplies
      <4>2. lastReply' = Reply(L + 1, settings)
        BY <2>1, <2>2, <3>1
      <4>3. QED
        BY <4>1, <4>2, NoResultAssumption DEF Reply
    <3>4. QED
      BY <2>1, <2>4, <2>6, <3>2, <3>3 DEF Converging
  <2>7. QED
    BY <1>0, <2>2, <2>5, <2>6
<1>11. CASE PlatformChange
  <2>1. devices' = devices
    BY <1>11 DEF PlatformChange, PlatformChanges, StablePlatforms, Values
  <2>2. QED
    BY <1>1, <1>11, <2>1 DEF PlatformChange, serverVars, clientVars, ChangeOnTheWay
<1>12. CASE Asked \/ UNCHANGED vars
  BY <1>1, <1>12 DEF Asked, vars, serverVars, clientVars, ChangeOnTheWay
<1>13. QED
  BY <1>4, <1>5, <1>6, <1>7, <1>8, <1>9, <1>10, <1>11, <1>12, StartedStep DEF Next, Server, Client, InFlight

\* Once nothing is in flight the server works with the settings the client last
\* announced, however the changes, requests, replies and repeated replies
\* interleaved, unless the client failed to answer the last request.
THEOREM QuietIsCurrent ==
    ASSUME InOrderReplies, FullSettings, StablePlatforms
    PROVE  Spec => []QuietMeansCurrent
<1>1. Init => Current
  BY DEF Init, Current, Starting
<1>2. InFlight /\ Values /\ Current /\ [Next]_vars => Current'
  <2> SUFFICES ASSUME InFlight, Values, Current, [Next]_vars PROVE Current'
    OBVIOUS
  <2>1. CASE Starting
    BY <2>1, CurrentWhileStarting DEF InFlight
  <2>2. CASE Started /\ (Settled => Converging)
    BY <2>2, StartedStep, CurrentWhileStarted DEF InFlight, Current
  <2>3. QED
    BY <2>1, <2>2 DEF Current
<1>3. InFlight /\ Current => QuietMeansCurrent
  <2> SUFFICES ASSUME InFlight, Current, Quiet, Settled PROVE InEffect(settings)
    BY DEF QuietMeansCurrent, Settled
  <2>1. Len(toServer) = 0 /\ Len(toClient) = 0 /\ Len(asked) = 0 /\ toServer = <<>>
    BY EmptySeq DEF Quiet
  <2>2. ~Starting
    BY <2>1 DEF Starting
  <2>3. Converging
    BY <2>2 DEF Current
  <2>4. /\ LastAnswered \in Nat /\ issued \in Nat /\ Len(requests) \in Nat
        /\ requests # <<>> => Len(requests) # 0
    BY LastAnsweredType, EmptySeq DEF InFlight, Pending
  <2>5. ~ChangeOnTheWay
    BY <2>1 DEF ChangeOnTheWay
  <2>6. ~(LastAnswered < issued)
    <3>1. ~RequestOnTheWay(issued)
      BY <2>1 DEF RequestOnTheWay
    <3>2. LastAnswered + Len(asked) = LastAnswered
      BY <2>1, <2>4
    <3>3. LastAnswered < issued => issued \in 1 .. issued
      BY <2>4
    <3>4. QED
      BY <3>1, <3>2, <3>3 DEF InFlight, AskedInOrder
  <2>7. ~(LastAnswered = issued /\ requests # <<>>)
    <3>1. ~ReplyOnTheWay(issued)
      BY <2>1 DEF ReplyOnTheWay
    <3>2. requests # <<>> => issued \in 1 .. issued /\ issued - Len(requests) < issued
      <4>1. requests # <<>> => Head(requests) \in 1 .. issued
        BY TailElements DEF InFlight, Numbered
      <4>2. QED
        BY <2>4, <4>1
    <3>3. QED
      BY <3>1, <3>2 DEF InFlight, RepliedInOrder
  <2>8. QED
    BY <2>3, <2>5, <2>6, <2>7 DEF Converging
<1>4. QED
  BY <1>1, <1>2, <1>3, InFlightHolds, TypesHold, PTL DEF Spec

=============================================================================
