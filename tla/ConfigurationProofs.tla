------------------------ MODULE ConfigurationProofs ------------------------
(* Proofs about Configuration, for any devices, settings and clients. *)
EXTENDS Configuration, SequenceTheorems, WellFoundedInduction, TLAPS

-----------------------------------------------------------------------------
(* The translation options follow the device. *)

\* Whoever selects a device gives its standard to the store as well.
LEMMA UseDeviceKeepsStore ==
    ASSUME StoreFollowsDevice, NEW id, UseDevice(id) \/ KeepDevice
    PROVE  StoreFollowsDevice'
  BY DEF StoreFollowsDevice, UseDevice, KeepDevice, StandardOf

\* Whatever the client sends, the -cl-std of the translation options is that of
\* the device in use: no path selects a device without reconfiguring the store.
THEOREM StoreFollows == Spec => []StoreFollowsDevice
<1>1. Init => StoreFollowsDevice
  BY DEF Init, StoreFollowsDevice
<1>2. StoreFollowsDevice /\ [Next]_vars => StoreFollowsDevice'
  <2> SUFFICES ASSUME StoreFollowsDevice, [Next]_vars PROVE StoreFollowsDevice'
    OBVIOUS
  <2>1. CASE UNCHANGED <<device, storeStandard>>
    BY <2>1 DEF StoreFollowsDevice, StandardOf
  <2>2. CASE OnInitialize
    BY <2>2, UseDeviceKeepsStore DEF OnInitialize
  <2>3. CASE OnRespond
    <3>1. CASE UNCHANGED <<device, storeStandard>>
      BY <3>1, <2>1
    <3>2. CASE OnConfiguration(Head(toServer).result)
      BY <3>2, UseDeviceKeepsStore DEF OnConfiguration
    <3>3. QED
      BY <2>3, <3>1, <3>2 DEF OnRespond, ApplyReply, DropReply
  <2>4. QED
    BY <2>1, <2>2, <2>3
       DEF Next, Server, Client, OnInitialized, GetConfiguration, Initialized, Register, Asked,
           Answer, AnswerTwice, ChangeSettings, PlatformChange, PlatformChanges, vars, serverVars
<1>3. QED
  BY <1>1, <1>2, PTL DEF Spec

-----------------------------------------------------------------------------
(* The queue of configuration requests. *)

Pending ==
    /\ requests \in Seq(Int)
    /\ issued \in Nat
    /\ \A i \in 1 .. Len(requests) : requests[i] = issued - Len(requests) + i

\* The outstanding requests are the last ones sent, in that order.
LEMMA PendingHolds == Spec => []Pending
<1>1. Init => Pending
  BY DEF Init, Pending
<1>2. Pending /\ [Next]_vars => Pending'
  <2> SUFFICES ASSUME Pending, [Next]_vars PROVE Pending'
    OBVIOUS
  <2>0. Len(requests) \in Nat
    BY DEF Pending
  <2>1. CASE UNCHANGED <<requests, issued>>
    BY <2>1 DEF Pending
  <2>2. CASE GetConfiguration
    <3>1. CASE UNCHANGED <<requests, issued, toClient>>
      BY <3>1, <2>1
    <3>2. CASE requests' = Append(requests, issued') /\ issued' = issued + 1
      <4>1. issued' \in Int /\ issued' \in Nat
        BY <3>2 DEF Pending
      <4>2. requests' \in Seq(Int) /\ Len(requests') = Len(requests) + 1
        BY <3>2, <4>1, AppendProperties DEF Pending
      <4>3. /\ \A i \in 1 .. Len(requests) : requests'[i] = requests[i]
            /\ requests'[Len(requests) + 1] = issued + 1
        BY <3>2, <4>1, AppendProperties DEF Pending
      <4>4. \A i \in 1 .. Len(requests') : requests'[i] = issued' - Len(requests') + i
        BY <2>0, <3>2, <4>2, <4>3 DEF Pending
      <4>5. QED
        BY <4>1, <4>2, <4>4 DEF Pending
    <3>3. QED
      BY <2>2, <3>1, <3>2 DEF GetConfiguration
  <2>3. CASE OnRespond
    <3>1. CASE requests' = requests /\ issued' = issued
      BY <3>1, <2>1
    <3>2. CASE requests # <<>> /\ requests' = Tail(requests) /\ issued' = issued
      <4>1. /\ requests' \in Seq(Int) /\ Len(requests') = Len(requests) - 1
            /\ \A i \in 1 .. Len(requests') : requests'[i] = requests[i + 1]
        BY <3>2, HeadTailProperties DEF Pending
      <4>2. \A i \in 1 .. Len(requests') : requests'[i] = issued' - Len(requests') + i
        BY <2>0, <3>2, <4>1 DEF Pending
      <4>3. QED
        BY <3>2, <4>1, <4>2 DEF Pending
    <3>3. QED
      BY <2>3, <3>1, <3>2 DEF OnRespond
  <2>4. QED
    BY <2>1, <2>2, <2>3
       DEF Next, Server, Client, OnInitialize, OnInitialized, Initialized, Register, Asked,
           Answer, AnswerTwice, ChangeSettings, PlatformChange, PlatformChanges, vars, serverVars
<1>3. QED
  BY <1>1, <1>2, PTL DEF Spec

\* The replies applied are those of earlier requests, in their order.
Applied ==
    /\ applied \in Seq(Int)
    /\ \A i, j \in 1 .. Len(applied) : i < j => applied[i] < applied[j]
    /\ \A i \in 1 .. Len(applied) : applied[i] <= issued - Len(requests)

\* What is applied next is the reply to the oldest request outstanding, which is
\* younger than all those that were retired.
LEMMA AppliedStep == Pending /\ Applied /\ [Next]_vars => Applied'
<1> SUFFICES ASSUME Pending, Applied, [Next]_vars PROVE Applied'
  OBVIOUS
<1>0. Len(requests) \in Nat /\ Len(applied) \in Nat /\ issued \in Nat
  BY DEF Pending, Applied
<1>1. CASE UNCHANGED <<requests, issued, applied>>
  BY <1>1 DEF Applied
<1>2. CASE GetConfiguration
  <2>1. CASE UNCHANGED <<requests, issued, toClient>>
    BY <1>1, <1>2, <2>1 DEF GetConfiguration
  <2>2. CASE requests' = Append(requests, issued') /\ issued' = issued + 1
    <3>1. Len(requests') = Len(requests) + 1
      BY <1>0, <2>2, AppendProperties DEF Pending
    <3>2. UNCHANGED applied
      BY <1>2 DEF GetConfiguration
    <3>3. issued' - Len(requests') = issued - Len(requests)
      BY <1>0, <2>2, <3>1
    <3>4. QED
      BY <3>2, <3>3 DEF Applied
  <2>3. QED
    BY <1>2, <2>1, <2>2 DEF GetConfiguration
<1>3. CASE OnRespond
  <2> DEFINE m == Head(toServer)
  <2>1. CASE requests = <<>> \/ m.id # Head(requests)
    BY <1>1, <1>3, <2>1 DEF OnRespond, DropReply
  <2>2. CASE requests # <<>> /\ m.id = Head(requests)
    <3>1. /\ Len(requests') = Len(requests) - 1 /\ Len(requests) >= 1 /\ UNCHANGED issued
          /\ m.id = issued - Len(requests) + 1
      <4>1. requests' = Tail(requests) /\ UNCHANGED issued
        BY <1>3, <2>2 DEF OnRespond
      <4>2. /\ Len(Tail(requests)) = Len(requests) - 1 /\ Head(requests) = requests[1]
            /\ Len(requests) # 0
        BY <2>2, HeadTailProperties, EmptySeq DEF Pending
      <4>3. Head(requests) = issued - Len(requests) + 1
        BY <1>0, <4>2 DEF Pending
      <4>4. QED
        BY <1>0, <2>2, <4>1, <4>2, <4>3
    <3>2. CASE applied' = applied
      BY <1>0, <3>1, <3>2 DEF Applied
    <3>3. CASE applied' = Append(applied, m.id)
      <4>1. m.id \in Int
        BY <1>0, <3>1
      <4>2. /\ applied' \in Seq(Int) /\ Len(applied') = Len(applied) + 1
            /\ applied'[Len(applied) + 1] = m.id
            /\ \A i \in 1 .. Len(applied) : applied'[i] = applied[i]
        BY <3>3, <4>1, AppendProperties DEF Applied
      <4> DEFINE next == applied'
      <4>3. \A i \in 1 .. Len(applied) : applied[i] \in Int /\ applied[i] < m.id
        <5>1. \A i \in 1 .. Len(applied) : applied[i] \in Int /\ applied[i] <= issued - Len(requests)
          BY ElementOfSeq DEF Applied
        <5>2. QED
          BY <1>0, <3>1, <5>1
      <4>4. \A i \in 1 .. Len(next) : i \in 1 .. Len(applied) \/ i = Len(applied) + 1
        BY <1>0, <4>2
      <4>5. \A i \in 1 .. Len(next) : next[i] <= m.id
        BY <4>1, <4>2, <4>3, <4>4
      <4>6. ASSUME NEW i \in 1 .. Len(next), NEW j \in 1 .. Len(next), i < j
            PROVE  next[i] < next[j]
        <5>1. i \in 1 .. Len(applied)
          BY <1>0, <4>2, <4>6
        <5>2. CASE j \in 1 .. Len(applied)
          <6>1. applied[i] < applied[j]
            BY <4>6, <5>1, <5>2 DEF Applied
          <6>2. QED
            BY <4>2, <5>1, <5>2, <6>1
        <5>3. CASE j = Len(applied) + 1
          BY <4>2, <4>3, <5>1, <5>3
        <5>4. QED
          BY <4>4, <5>2, <5>3
      <4>7. m.id = issued' - Len(requests')
        BY <1>0, <3>1
      <4>8. QED
        BY <4>2, <4>5, <4>6, <4>7 DEF Applied
    <3>4. QED
      BY <1>3, <2>2, <3>2, <3>3 DEF OnRespond, ApplyReply, DropReply
  <2>3. QED
    BY <2>1, <2>2
<1>4. QED
  BY <1>1, <1>2, <1>3
     DEF Next, Server, Client, OnInitialize, OnInitialized, Initialized, Register, Asked,
         Answer, AnswerTwice, ChangeSettings, PlatformChange, PlatformChanges, vars, serverVars

\* Whatever the client answers, in whatever order and however often, the settings
\* in its replies are applied in the order of the requests, each at most once, and
\* never after those of a later request.
THEOREM RepliesApplyInOrder == Spec => []AppliedInOrder
<1>1. Init => Applied
  BY DEF Init, Applied
<1>2. Pending /\ Applied => AppliedInOrder
  <2> SUFFICES ASSUME Pending, Applied PROVE AppliedInOrder
    OBVIOUS
  <2>1. /\ Len(requests) \in Nat /\ Len(applied) \in Nat /\ issued \in Nat
        /\ DOMAIN requests = 1 .. Len(requests) /\ DOMAIN applied = 1 .. Len(applied)
        /\ \A i \in 1 .. Len(applied) : applied[i] \in Int
    BY LenProperties, ElementOfSeq DEF Pending, Applied
  <2>2. \A i \in 1 .. Len(applied), k \in 1 .. Len(requests) : applied[i] < requests[k]
    BY <2>1 DEF Pending, Applied
  <2>3. QED
    BY <2>1, <2>2 DEF Applied, AppliedInOrder
<1>3. QED
  BY <1>1, <1>2, PendingHolds, AppliedStep, PTL DEF Spec

-----------------------------------------------------------------------------
(* The messages in the pipes have the shape the handlers read. *)

Shape ==
    /\ issued \in Nat
    /\ settings \in Settings
    /\ toServer \in Seq(ToServer) /\ toClient \in Seq(ToClient)
    /\ asked \in Seq(Nat) /\ lastReply \in Replies \cup {NoResult}

\* A reply has the type of a reply and of a message to the server.
LEMMA ReplyInReplies ==
    ASSUME NEW n \in Nat, NEW result \in Settings \cup {NoResult}
    PROVE  Reply(n, result) \in Replies /\ Reply(n, result) \in ToServer
  BY DEF Reply, Replies, ToServer

\* A sequence from which an element was removed has the same elements otherwise.
LEMMA RemoveAtType ==
    ASSUME NEW S, NEW s \in Seq(S), NEW i \in 1 .. Len(s)
    PROVE  RemoveAt(s, i) \in Seq(S)
<1>1. Len(s) \in Nat /\ \A j \in 1 .. Len(s) : s[j] \in S
  BY ElementOfSeq
<1>2. SubSeq(s, 1, i - 1) \in Seq(S)
  BY <1>1, SubSeqProperties
<1>3. SubSeq(s, i + 1, Len(s)) \in Seq(S)
  BY <1>1, SubSeqProperties
<1>4. QED
  BY <1>2, <1>3, ConcatProperties DEF RemoveAt

\* The invariant Shape holds at first.
LEMMA ShapeInit == Init => Shape
<1> SUFFICES ASSUME Init PROVE Shape
  OBVIOUS
<1>1. PICK s \in InitialSettings : toServer = <<[type |-> "initialize", settings |-> s]>>
  BY DEF Init
<1>2. [type |-> "initialize", settings |-> s] \in ToServer
  BY DEF ToServer
<1>3. toServer \in Seq(ToServer)
  BY <1>1, <1>2
<1>4. QED
  BY <1>3 DEF Init, Shape

\* Every step keeps Shape: what is sent is a message of its kind.
LEMMA ShapeStep == Shape /\ [Next]_vars => Shape'
<1> SUFFICES ASSUME Shape, [Next]_vars PROVE Shape'
  OBVIOUS
<1>0. ASSUME NEW m \in ToServer
      PROVE  Append(toServer, m) \in Seq(ToServer)
  BY AppendProperties DEF Shape
<1>1. ASSUME NEW m \in ToClient
      PROVE  Append(toClient, m) \in Seq(ToClient)
  BY AppendProperties DEF Shape
<1>2. toServer # <<>> => Tail(toServer) \in Seq(ToServer)
  BY HeadTailProperties DEF Shape
<1>3. toClient # <<>> => Tail(toClient) \in Seq(ToClient) /\ Head(toClient) \in ToClient
  BY HeadTailProperties DEF Shape
<1>4. CASE OnInitialize
  <2>1. [type |-> "initializeResult"] \in ToClient
    BY DEF ToClient
  <2>2. toClient' \in Seq(ToClient)
    BY <1>4, <1>1, <2>1 DEF OnInitialize, Shape
  <2>3. QED
    BY <1>4, <1>2, <2>2 DEF OnInitialize, Receive, clientVars, Shape
<1>5. CASE OnInitialized
  <2>1. [type |-> "registration", id |-> Registration] \in ToClient
    BY DEF ToClient, Registration
  <2>2. toClient' \in Seq(ToClient)
    BY <1>5, <1>1, <2>1 DEF OnInitialized, Shape
  <2>3. QED
    BY <1>5, <1>2, <2>2 DEF OnInitialized, Receive, clientVars, serverVars, Shape
<1>6. CASE GetConfiguration
  <2>1. issued' \in Nat /\ toClient' \in Seq(ToClient)
    <3>1. CASE UNCHANGED <<requests, issued, toClient>>
      BY <3>1 DEF Shape
    <3>2. CASE issued' = issued + 1
               /\ toClient' = Append(toClient, [type |-> "configuration", id |-> issued'])
      <4>1. issued' \in Nat
        BY <3>2 DEF Shape
      <4>2. [type |-> "configuration", id |-> issued'] \in ToClient
        BY <4>1 DEF ToClient
      <4>3. QED
        BY <3>2, <4>1, <4>2, <1>1
    <3>3. QED
      BY <1>6, <3>1, <3>2 DEF GetConfiguration
  <2>2. QED
    BY <1>6, <1>2, <2>1 DEF GetConfiguration, Receive, clientVars, Shape
<1>7. CASE OnRespond
  BY <1>7, <1>2 DEF OnRespond, Receive, clientVars, Shape
<1>8. CASE Initialized
  <2>1. [type |-> "initialized"] \in ToServer
    BY DEF ToServer
  <2>2. QED
    BY <1>8, <1>0, <1>3, <2>1 DEF Initialized, ClientReceives, Send, serverVars, Shape
<1>9. CASE Register
  <2>1. Reply(Registration, NoResult) \in ToServer
    BY ReplyInReplies DEF Registration
  <2>2. QED
    BY <1>9, <1>0, <1>3, <2>1 DEF Register, ClientReceives, Send, serverVars, Shape
<1>10. CASE Asked
  <2>1. Head(toClient).id \in Nat
    <3>1. Head(toClient) \in ToClient /\ Head(toClient).type = "configuration"
      BY <1>10, <1>3 DEF Asked, ClientReceives
    <3>2. QED
      BY <3>1 DEF ToClient
  <2>2. asked' \in Seq(Nat)
    BY <1>10, <2>1, AppendProperties DEF Asked, Shape
  <2>3. QED
    BY <1>10, <1>3, <2>2 DEF Asked, ClientReceives, serverVars, Shape
<1>11. CASE Answer
  <2>1. PICK i \in 1 .. Len(asked), result \in Settings \cup {NoResult} :
          /\ Send(Reply(asked[i], result))
          /\ lastReply' = Reply(asked[i], result)
          /\ asked' = RemoveAt(asked, i)
    <3>1. asked # <<>> => 1 \in 1 .. Len(asked)
      BY EmptySeq, LenProperties DEF Shape
    <3>2. DOMAIN asked = 1 .. Len(asked)
      BY LenProperties DEF Shape
    <3>3. QED
      BY <1>11, <3>1, <3>2 DEF Answer, Shape
  <2>2. asked[i] \in Nat
    BY ElementOfSeq DEF Shape
  <2>3. Reply(asked[i], result) \in Replies /\ Reply(asked[i], result) \in ToServer
    BY <2>2, ReplyInReplies
  <2>4. asked' \in Seq(Nat)
    BY <2>1, RemoveAtType DEF Shape
  <2>5. QED
    BY <1>11, <1>0, <2>1, <2>3, <2>4 DEF Answer, Send, serverVars, Shape
<1>12. CASE AnswerTwice
  <2>1. lastReply \in ToServer
    BY <1>12 DEF AnswerTwice, Shape, ToServer
  <2>2. QED
    BY <1>12, <1>0, <2>1 DEF AnswerTwice, Send, serverVars, Shape
<1>13. CASE ChangeSettings
  <2>1. [type |-> "didChangeConfiguration"] \in ToServer
    BY DEF ToServer
  <2>2. QED
    BY <1>13, <1>0, <2>1 DEF ChangeSettings, Send, serverVars, Shape
<1>14. CASE PlatformChange
  BY <1>14 DEF PlatformChange, clientVars, serverVars, Shape
<1>15. CASE UNCHANGED vars
  BY <1>15 DEF vars, clientVars, serverVars, Shape
<1>16. QED
  BY <1>4, <1>5, <1>6, <1>7, <1>8, <1>9, <1>10, <1>11, <1>12, <1>13, <1>14, <1>15
     DEF Next, Server, Client

-----------------------------------------------------------------------------
(* The build options follow the device. *)

\* Every settings record names a device and a list of build options.
CompleteSettings ==
    /\ \A s \in Settings \cup (InitialSettings \ {Absent}) :
         /\ s.deviceID \notin {Absent, Invalid}
         /\ s.options \in OptionLists \ {Absent, Invalid}

\* Options that are set are completed with the standard of the device.
LEMMA SetBuildOptionsFollows ==
    ASSUME NEW o \in OptionLists, SetBuildOptions(o)
    PROVE  BuildFollowsDevice'
<1>1. CASE o.std # NoStd
  BY <1>1, OptionListsAssumption DEF SetBuildOptions, WithStandard, BuildFollowsDevice
<1>2. CASE o.std = NoStd
  BY <1>2 DEF SetBuildOptions, WithStandard, StandardOf, BuildFollowsDevice
<1>3. QED
  BY <1>1, <1>2

\* Clients that send build options with every device never have a program built
\* with another device's -cl-std, however their replies interleave.
THEOREM BuildFollows == ASSUME CompleteSettings PROVE Spec => []BuildFollowsDevice
<1>1. Init => BuildFollowsDevice
  BY DEF Init, DiagnosticsInit, WithStandard, StandardOf, BuildFollowsDevice
<1>2. Shape /\ BuildFollowsDevice /\ [Next]_vars => BuildFollowsDevice'
  <2> SUFFICES ASSUME Shape, BuildFollowsDevice, [Next]_vars PROVE BuildFollowsDevice'
    OBVIOUS
  <2>0. toServer # <<>> => Head(toServer) \in ToServer
    BY HeadTailProperties DEF Shape
  <2>1. CASE UNCHANGED <<device, buildOptions>>
    BY <2>1 DEF BuildFollowsDevice
  <2>2. CASE OnInitialize
    <3> DEFINE s == Head(toServer).settings
    <3>1. s \in InitialSettings
      BY <2>0, <2>2 DEF OnInitialize, Receive, ToServer, Replies
    <3>2. CASE s = Absent
      BY <3>2, <2>1, <2>2 DEF OnInitialize, KeepDevice
    <3>3. CASE s # Absent
      <4>1. s.deviceID # Invalid /\ s.options \notin {Absent, Invalid} /\ s.options \in OptionLists
        BY <3>1, <3>3 DEF CompleteSettings
      <4>2. SetBuildOptions(s.options)
        BY <2>2, <3>3, <4>1 DEF OnInitialize
      <4>3. QED
        BY <4>1, <4>2, SetBuildOptionsFollows
    <3>4. QED
      BY <3>2, <3>3
  <2>3. CASE OnRespond
    <3> DEFINE m == Head(toServer)
    <3>1. m.result \in Settings \cup {NoResult}
      BY <2>0, <2>3 DEF OnRespond, Receive, ToServer, Replies
    <3>2. CASE UNCHANGED <<device, storeStandard, buildOptions, maxNumberOfProblems>>
      BY <3>2, <2>1
    <3>3. CASE m.result # NoResult /\ OnConfiguration(m.result)
      <4>1. m.result.options # Invalid /\ m.result.options \in OptionLists
        BY <3>1, <3>3 DEF CompleteSettings
      <4>2. SetBuildOptions(m.result.options)
        BY <3>3, <4>1 DEF OnConfiguration
      <4>3. QED
        BY <4>1, <4>2, SetBuildOptionsFollows
    <3>4. QED
      BY <2>3, <3>2, <3>3 DEF OnRespond, ApplyReply, DropReply
  <2>4. QED
    BY <2>1, <2>2, <2>3
       DEF Next, Server, Client, OnInitialized, GetConfiguration, Initialized, Register, Asked,
           Answer, AnswerTwice, ChangeSettings, PlatformChange, PlatformChanges, vars, serverVars
<1>3. QED
  BY <1>1, <1>2, ShapeInit, ShapeStep, PTL DEF Spec

-----------------------------------------------------------------------------
(* Numbers. *)

\* A set of naturals that is not empty has a first element.
LEMMA FirstIsLeast ==
    ASSUME NEW I \in SUBSET Nat, I # {}
    PROVE  First(I) \in I /\ \A j \in I : First(I) <= j
<1>1. PICK x \in I : \A y \in I : ~(<<y, x>> \in OpToRel(<, Nat))
  BY NatLessThanWellFounded, WFMin
<1>2. \A y \in I : x <= y
  <2> SUFFICES ASSUME NEW y \in I, y < x PROVE FALSE
    OBVIOUS
  <2>1. <<y, x>> \in OpToRel(<, Nat)
    BY DEF OpToRel
  <2>2. QED
    BY <1>1, <2>1
<1>3. QED
  BY <1>2 DEF First

\* Whatever number the settings hold, the server keeps one of 64 bits.
LEMMA ToUnsignedFits ==
    ASSUME NEW n \in Int
    PROVE  ToUnsigned(n, SizeBits) \in 0 .. 2 ^ SizeBits - 1
  BY WidthsAssumption DEF ToUnsigned

\* A limit that was converted fits the width of size_t.
LEMMA ToProblemsCountFits ==
    ASSUME NEW n \in Int
    PROVE  ToProblemsCount(n) \in 0 .. 2 ^ SizeBits - 1
<1>1. 2 ^ SizeBits \in Nat \ {0}
  BY WidthsAssumption
<1>2. ToInt(n) \in Int
  BY WidthsAssumption DEF ToInt, ToUnsigned
<1>3. QED
  BY <1>1, <1>2 DEF ToProblemsCount, ToUnsigned


-----------------------------------------------------------------------------
(* Choosing a device. *)

\* std::max_element finds a device, and none is stronger: were it otherwise, take
\* the shortest prefix of the list without a strongest device.
LEMMA StrongestIsStrongest ==
    ASSUME NEW ds \in Seq(Devices), ds # <<>>
    PROVE  LET s == SelectOpenCLDeviceByPowerIndex(ds)
           IN  /\ s \in Range(ds) /\ \A d \in Range(ds) : d.power <= s.power
<1> DEFINE N == Len(ds)
           Top(i, k) == k \in 1 .. i /\ \A j \in 1 .. i : ds[j].power <= ds[k].power
           Bad == {i \in 1 .. N : ~\E k : Top(i, k)}
<1>1. N \in Nat /\ N # 0 /\ DOMAIN ds = 1 .. N /\ \A i \in 1 .. N : ds[i].power \in Nat
  <2>1. \A i \in 1 .. N : ds[i] \in Devices
    OBVIOUS
  <2>2. N # 0
    BY EmptySeq
  <2>3. QED
    BY <2>1, <2>2, DevicesAssumption
<1> HIDE DEF N
<1>2. Bad = {}
  <2> SUFFICES ASSUME Bad # {} PROVE FALSE
    OBVIOUS
  <2>1. Bad \in SUBSET Nat
    BY <1>1
  <2>2. PICK i \in Bad : \A j \in Bad : i <= j
    <3> HIDE DEF Bad
    <3>1. QED
      BY <2>1, FirstIsLeast
  <2>3. CASE i = 1
    <3>1. Top(1, 1)
      BY <1>1, <2>2, <2>3
    <3>2. QED
      BY <2>2, <2>3, <3>1
  <2>4. CASE i # 1
    <3>1. PICK p \in 1 .. N : p = i - 1
      BY <1>1, <2>2, <2>4
    <3>2. PICK k : Top(p, k)
      <4>1. p \notin Bad
        <5> HIDE DEF Bad
        <5>1. QED
          BY <1>1, <2>1, <2>2, <3>1
      <4>2. QED
        BY <3>1, <4>1
    <3>3. Top(i, k) \/ Top(i, i)
      <4>1. \A j \in 1 .. i : j \in 1 .. p \/ j = i
        BY <1>1, <2>2, <3>1
      <4>2. i \in 1 .. N /\ k \in 1 .. N /\ k \in 1 .. i /\ i \in 1 .. i
        BY <1>1, <2>2, <3>1, <3>2
      <4>3. CASE ds[i].power <= ds[k].power
        BY <3>2, <4>1, <4>2, <4>3
      <4>4. CASE ds[k].power <= ds[i].power
        <5>1. \A j \in 1 .. p : j \in 1 .. N
          BY <1>1, <3>1
        <5>2. ASSUME NEW j \in 1 .. p PROVE ds[j].power <= ds[i].power
          <6>1. ds[j].power <= ds[k].power /\ ds[j].power \in Nat /\ ds[k].power \in Nat /\ ds[i].power \in Nat
            BY <1>1, <3>2, <4>2, <5>1
          <6>2. QED
            BY <4>4, <6>1
        <5>4. ds[i].power <= ds[i].power
          BY <1>1, <4>2
        <5>3. QED
          BY <4>1, <4>2, <5>2, <5>4
      <4>5. QED
        BY <1>1, <4>2, <4>3, <4>4
    <3>4. QED
      BY <2>2, <3>3
  <2>5. QED
    BY <2>3, <2>4
<1> DEFINE Strongest == {i \in DOMAIN ds : \A j \in DOMAIN ds : ds[j].power <= ds[i].power}
<1>3. Strongest # {}
  <2>1. N \notin Bad /\ N \in 1 .. N
    <3> HIDE DEF Bad
    <3>1. QED
      BY <1>1, <1>2
  <2>2. PICK k : Top(N, k)
    BY <2>1
  <2>3. k \in Strongest
    BY <1>1, <2>2
  <2>4. QED
    BY <2>3
<1>4. First(Strongest) \in Strongest
  <2>1. Strongest \in SUBSET Nat
    BY <1>1
  <2> HIDE DEF Strongest
  <2>2. QED
    BY <1>3, <2>1, FirstIsLeast
<1>5. QED
  BY <1>4 DEF SelectOpenCLDeviceByPowerIndex, Range

\* What SetOpenCLDevice picks, and that picking again changes nothing.
LEMMA SelectionFacts ==
    ASSUME NEW ds \in Seq(Devices), NEW id, NEW current \in Devices \cup {NoDevice}
    PROVE  LET picked == SelectOpenCLDevice(ds, id, current)
               matching == {d \in Range(ds) : id > 0 /\ d.id = id}
           IN  /\ picked \in Range(ds) \cup {current}
               /\ matching # {} => picked \in matching
               /\ matching = {} =>
                    /\ \A d \in Range(ds) : d.power <= picked.power
                    /\ current # NoDevice => /\ current.power <= picked.power
                                             /\ picked # current => picked.power > current.power
               /\ SelectOpenCLDevice(ds, id, picked) = picked
<1> DEFINE picked == SelectOpenCLDevice(ds, id, current)
           I == {i \in DOMAIN ds : id > 0 /\ ds[i].id = id}
           matching == {d \in Range(ds) : id > 0 /\ d.id = id}
           strongest == SelectOpenCLDeviceByPowerIndex(ds)
<1>1. /\ DOMAIN ds = 1 .. Len(ds) /\ Len(ds) \in Nat
      /\ \A i \in DOMAIN ds : ds[i] \in Devices
      /\ Range(ds) \subseteq Devices
      /\ \A d \in Devices : d.power \in Nat /\ d # NoDevice
  BY DevicesAssumption DEF Range
<1>2. matching = {} <=> I = {}
  BY DEF Range
<1>3. CASE ds = <<>>
  <2>1. \A c : SelectOpenCLDevice(ds, id, c) = c
    BY <1>3 DEF SelectOpenCLDevice
  <2>2. Range(ds) = {}
    BY <1>3 DEF Range
  <2>3. QED
    BY <1>1, <2>1, <2>2
<1>4. CASE ds # <<>> /\ I # {}
  <2>1. \A c : SelectOpenCLDevice(ds, id, c) = ds[First(I)]
    BY <1>4 DEF SelectOpenCLDevice
  <2>2. First(I) \in I
    <3>1. I \in SUBSET Nat
      BY <1>1
    <3> HIDE DEF I
    <3>2. QED
      BY <1>4, <3>1, FirstIsLeast
  <2>3. ds[First(I)] \in matching
    BY <2>2 DEF Range
  <2>4. QED
    BY <2>1, <2>3
<1>5. CASE ds # <<>> /\ I = {}
  <2>1. \A c : SelectOpenCLDevice(ds, id, c) =
                 IF c = NoDevice \/ strongest.power > c.power THEN strongest ELSE c
    BY <1>5 DEF SelectOpenCLDevice
  <2>2. strongest \in Range(ds) /\ \A d \in Range(ds) : d.power <= strongest.power
    BY <1>5, StrongestIsStrongest
  <2>3. matching = {} /\ strongest \in Devices /\ strongest.power \in Nat /\ strongest # NoDevice
    BY <1>1, <1>2, <1>5, <2>2
  <2> HIDE DEF strongest
  <2>4. CASE current = NoDevice \/ strongest.power > current.power
    <3>1. picked = strongest /\ SelectOpenCLDevice(ds, id, strongest) = strongest
      BY <2>1, <2>3, <2>4
    <3>2. current # NoDevice => current.power \in Nat
      BY <1>1
    <3>3. QED
      BY <2>2, <2>3, <2>4, <3>1, <3>2
  <2>5. CASE ~(current = NoDevice \/ strongest.power > current.power)
    <3>1. picked = current /\ current \in Devices /\ current.power \in Nat
      BY <1>1, <2>1, <2>5
    <3>2. \A d \in Range(ds) : d.power <= current.power
      BY <1>1, <2>2, <2>3, <2>5, <3>1
    <3>3. QED
      BY <2>1, <2>3, <2>5, <3>1, <3>2
  <2>6. QED
    BY <2>4, <2>5
<1>6. QED
  BY <1>3, <1>4, <1>5

-----------------------------------------------------------------------------
(* Types. *)

StoreStandards == {StandardOf(d) : d \in Devices \cup {NoDevice}}
BuildStandards == {d.std : d \in Devices} \cup {o.std : o \in OptionLists} \cup {NoStd}

\* What the server works with.
Values ==
    /\ devices \in Platforms /\ device \in Devices \cup {NoDevice}
    /\ buildOptions.std \in BuildStandards
    /\ maxNumberOfProblems \in 0 .. 2 ^ SizeBits - 1
    /\ storeStandard \in StoreStandards

\* Configuration requests are known by the numbers of those that were sent.
Numbered ==
    /\ requests \in Seq(1 .. issued) /\ applied \in Seq(1 .. issued)
    /\ asked \in Seq(1 .. issued) /\ failed \in SUBSET (1 .. issued)
    /\ \A i \in 1 .. Len(toClient) :
         toClient[i].type = "configuration" => toClient[i].id \in 1 .. issued

\* The rest of the state.
Flags ==
    /\ hasConfigurationCapability \in BOOLEAN /\ supportDidChangeConfiguration \in BOOLEAN
    /\ capabilities \in Capabilities /\ notifying \in BOOLEAN /\ announced \in BOOLEAN
    /\ changes \in 0 .. MaxChanges /\ duplicates \in 0 .. MaxDuplicates

\* A selection gives one of the devices, or none.
LEMMA UseDeviceType ==
    ASSUME Values, NEW id, UseDevice(id) \/ KeepDevice
    PROVE  device' \in Devices \cup {NoDevice} /\ storeStandard' \in StoreStandards
<1>1. devices \in Seq(Devices)
  BY PlatformsAssumption DEF Values
<1>2. Range(devices) \subseteq Devices
  BY <1>1 DEF Range
<1>3. device' \in Devices \cup {NoDevice}
  BY <1>1, <1>2, SelectionFacts DEF Values, UseDevice, KeepDevice, SetOpenCLDevice
<1>4. QED
  BY <1>3 DEF Values, UseDevice, KeepDevice, StoreStandards

\* Options that are completed name a standard there is, or none.
LEMMA BuildOptionsType ==
    ASSUME NEW o, o.std \in BuildStandards, NEW d \in Devices \cup {NoDevice}
    PROVE  WithStandard(o, d).std \in BuildStandards
  BY DEF WithStandard, StandardOf, BuildStandards

\* Every step keeps the types of device, options and limit.
LEMMA ValuesStep ==
    ASSUME Shape, Values, [Next]_vars
    PROVE  Values'
<1>0. toServer # <<>> => Head(toServer) \in ToServer
  BY HeadTailProperties DEF Shape
<1>1. \A o \in OptionLists : o.std \in BuildStandards
  BY DEF BuildStandards
<1>2. CASE OnInitialize
  <2> DEFINE s == Head(toServer).settings
  <2>1. s \in InitialSettings /\ UNCHANGED devices
    BY <1>0, <1>2 DEF OnInitialize, Receive, ToServer, Replies
  <2>2. device' \in Devices \cup {NoDevice} /\ storeStandard' \in StoreStandards
    BY <1>2, UseDeviceType DEF OnInitialize
  <2>3. buildOptions'.std \in BuildStandards
    <3>1. CASE UNCHANGED buildOptions
      BY <3>1 DEF Values
    <3>2. CASE s # Absent /\ s.options \notin {Absent, Invalid} /\ SetBuildOptions(s.options)
      <4>1. s.options \in OptionLists
        BY <2>1, <3>2, SettingsAssumption
      <4>2. QED
        BY <1>1, <2>2, <3>2, <4>1, BuildOptionsType DEF SetBuildOptions
    <3>3. QED
      BY <1>2, <3>1, <3>2 DEF OnInitialize
  <2>4. maxNumberOfProblems' \in 0 .. 2 ^ SizeBits - 1
    <3>1. CASE UNCHANGED maxNumberOfProblems
      BY <3>1 DEF Values
    <3>2. CASE s # Absent /\ s.limit \notin {Absent, Invalid}
               /\ SetMaxProblemsCount(ToUnsigned(s.limit, SizeBits))
      <4>1. s.limit \in Int
        BY <2>1, <3>2, SettingsAssumption
      <4>2. QED
        BY <3>2, <4>1, ToUnsignedFits DEF SetMaxProblemsCount
    <3>3. QED
      BY <1>2, <3>1, <3>2 DEF OnInitialize
  <2>5. QED
    BY <2>1, <2>2, <2>3, <2>4 DEF Values
<1>3. CASE OnRespond
  <2> DEFINE s == Head(toServer).result
  <2>1. s \in Settings \cup {NoResult} /\ UNCHANGED devices
    BY <1>0, <1>3 DEF OnRespond, Receive, ToServer, Replies
  <2>2. CASE UNCHANGED <<device, storeStandard, buildOptions, maxNumberOfProblems>>
    BY <2>1, <2>2 DEF Values
  <2>3. CASE s # NoResult /\ OnConfiguration(s)
    <3>1. /\ s.options \in OptionLists \cup {Invalid} /\ s.limit \in Int \cup {Invalid}
      BY <2>1, <2>3, SettingsAssumption
    <3>2. device' \in Devices \cup {NoDevice} /\ storeStandard' \in StoreStandards
      BY <2>3, UseDeviceType DEF OnConfiguration
    <3>3. buildOptions'.std \in BuildStandards
      BY <1>1, <2>3, <3>1, <3>2, BuildOptionsType DEF OnConfiguration, SetBuildOptions, Values
    <3>4. maxNumberOfProblems' \in 0 .. 2 ^ SizeBits - 1
      BY <2>3, <3>1, ToProblemsCountFits DEF OnConfiguration, SetMaxProblemsCount, Values
    <3>5. QED
      BY <2>1, <3>2, <3>3, <3>4 DEF Values
  <2>4. QED
    BY <1>3, <2>2, <2>3 DEF OnRespond, ApplyReply, DropReply
<1>4. CASE PlatformChange
  BY <1>4 DEF PlatformChange, PlatformChanges, Values, serverVars
<1>5. CASE UNCHANGED <<devices, device, buildOptions, maxNumberOfProblems, storeStandard>>
  BY <1>5 DEF Values
<1>6. QED
  BY <1>2, <1>3, <1>4, <1>5
     DEF Next, Server, Client, OnInitialized, GetConfiguration, Initialized, Register, Asked,
         Answer, AnswerTwice, ChangeSettings, vars, serverVars

\* Every step keeps the numbers of requests and replies among those issued.
LEMMA NumberedStep ==
    ASSUME Shape, Numbered, [Next]_vars
    PROVE  Numbered'
<1>0. /\ issued \in Nat /\ Len(toClient) \in Nat
      /\ toClient # <<>> => /\ Head(toClient) = toClient[1] /\ 1 \in 1 .. Len(toClient)
                            /\ Len(Tail(toClient)) = Len(toClient) - 1
                            /\ \A i \in 1 .. Len(toClient) - 1 : Tail(toClient)[i] = toClient[i + 1]
  BY HeadTailProperties, EmptySeq DEF Shape
<1>1. ASSUME UNCHANGED <<requests, issued, applied, asked, failed>>, toClient' = Tail(toClient), toClient # <<>>
      PROVE  Numbered'
  BY <1>0, <1>1 DEF Numbered
<1>2. ASSUME UNCHANGED <<requests, issued, applied, asked, failed>>,
             NEW m \in ToClient, m.type # "configuration", toClient' = Append(toClient, m)
      PROVE  Numbered'
  <2>1. /\ Len(toClient') = Len(toClient) + 1 /\ toClient'[Len(toClient) + 1] = m
        /\ \A i \in 1 .. Len(toClient) : toClient'[i] = toClient[i]
    BY <1>2, AppendProperties DEF Shape
  <2>2. QED
    BY <1>0, <1>2, <2>1 DEF Numbered
<1>3. CASE UNCHANGED <<requests, issued, applied, asked, failed, toClient>>
  BY <1>3 DEF Numbered
<1>4. CASE OnInitialize \/ OnInitialized
  <2>1. /\ [type |-> "initializeResult"] \in ToClient
        /\ [type |-> "registration", id |-> Registration] \in ToClient
    BY DEF ToClient, Registration
  <2>2. QED
    BY <1>2, <1>3, <1>4, <2>1 DEF OnInitialize, OnInitialized, serverVars, clientVars
<1>5. CASE GetConfiguration
  <2>1. CASE hasConfigurationCapability
    <3> DEFINE m == [type |-> "configuration", id |-> issued + 1]
    <3>1. /\ issued' = issued + 1 /\ requests' = Append(requests, issued')
          /\ toClient' = Append(toClient, m) /\ UNCHANGED <<applied, asked, failed>>
      BY <1>5, <2>1 DEF GetConfiguration, clientVars
    <3>2. 1 .. issued \subseteq 1 .. issued' /\ issued' \in 1 .. issued'
      BY <1>0, <3>1
    <3>3. /\ requests \in Seq(1 .. issued') /\ applied \in Seq(1 .. issued')
          /\ asked \in Seq(1 .. issued') /\ failed \in SUBSET (1 .. issued')
      BY <3>2, SeqMonotonic DEF Numbered
    <3>4. requests' \in Seq(1 .. issued')
      BY <3>1, <3>2, <3>3, AppendProperties
    <3>5. m \in ToClient
      BY <1>0 DEF ToClient
    <3>6. /\ Len(toClient') = Len(toClient) + 1 /\ toClient'[Len(toClient) + 1] = m
          /\ \A i \in 1 .. Len(toClient) : toClient'[i] = toClient[i]
      BY <3>1, <3>5, AppendProperties DEF Shape
    <3>7. \A i \in 1 .. Len(toClient') :
            toClient'[i].type = "configuration" => toClient'[i].id \in 1 .. issued'
      BY <1>0, <3>1, <3>2, <3>6 DEF Numbered
    <3>8. QED
      BY <3>1, <3>3, <3>4, <3>7 DEF Numbered
  <2>2. CASE ~hasConfigurationCapability
    BY <1>3, <1>5, <2>2 DEF GetConfiguration, clientVars
  <2>3. QED
    BY <2>1, <2>2
<1>6. CASE OnRespond
  <2>1. requests # <<>> => Tail(requests) \in Seq(1 .. issued)
    BY HeadTailProperties DEF Numbered
  <2>2. requests # <<>> => Head(requests) \in 1 .. issued
    BY HeadTailProperties DEF Numbered
  <2>3. applied' \in Seq(1 .. issued)
    <3>1. CASE applied' = applied
      BY <3>1 DEF Numbered
    <3>2. CASE requests # <<>> /\ applied' = Append(applied, Head(requests))
      BY <2>2, <3>2, AppendProperties DEF Numbered
    <3>3. QED
      BY <1>6, <3>1, <3>2 DEF OnRespond, ApplyReply, DropReply
  <2>4. QED
    BY <1>6, <2>1, <2>3 DEF OnRespond, Numbered, clientVars
<1>7. CASE Initialized \/ Register
  BY <1>1, <1>7 DEF Initialized, Register, ClientReceives, serverVars
<1>8. CASE Asked
  <2>1. Head(toClient).id \in 1 .. issued /\ toClient # <<>> /\ toClient' = Tail(toClient)
    BY <1>0, <1>8 DEF Asked, ClientReceives, Numbered
  <2>2. asked' \in Seq(1 .. issued)
    BY <1>8, <2>1, AppendProperties DEF Asked, Numbered
  <2>3. \A i \in 1 .. Len(toClient') :
          toClient'[i].type = "configuration" => toClient'[i].id \in 1 .. issued
    BY <1>0, <2>1 DEF Numbered
  <2>4. QED
    BY <1>8, <2>2, <2>3 DEF Asked, serverVars, Numbered
<1>9. CASE Answer
  <2>1. PICK i \in 1 .. Len(asked) : /\ asked' = RemoveAt(asked, i)
                                     /\ failed' = failed \/ failed' = failed \cup {asked[i]}
    <3>1. asked # <<>> => 1 \in 1 .. Len(asked)
      BY EmptySeq, LenProperties DEF Shape
    <3>2. DOMAIN asked = 1 .. Len(asked)
      BY LenProperties DEF Shape
    <3>3. QED
      BY <1>9, <3>1, <3>2 DEF Answer
  <2>2. asked[i] \in 1 .. issued /\ asked' \in Seq(1 .. issued)
    BY <2>1, ElementOfSeq, RemoveAtType DEF Numbered
  <2>3. QED
    BY <1>9, <2>1, <2>2 DEF Answer, serverVars, Numbered
<1>10. QED
  BY <1>3, <1>4, <1>5, <1>6, <1>7, <1>8, <1>9
     DEF Next, Server, Client, AnswerTwice, ChangeSettings, PlatformChange, PlatformChanges, vars,
         serverVars, clientVars

\* Every step keeps the flags Booleans and the counters within their bounds.
LEMMA FlagsStep ==
    ASSUME Flags, [Next]_vars
    PROVE  Flags'
<1>0. capabilities.configuration \in BOOLEAN /\ capabilities.dynamicRegistration \in BOOLEAN
  BY CapabilitiesAssumption DEF Flags
<1>1. CASE OnInitialize
  BY <1>0, <1>1 DEF OnInitialize, clientVars, Flags
<1>2. CASE Initialized
  BY <1>0, <1>2 DEF Initialized, serverVars, Flags
<1>3. CASE AnswerTwice
  BY <1>3, BoundsAssumption DEF AnswerTwice, serverVars, Flags
<1>4. CASE ChangeSettings
  BY <1>4, BoundsAssumption DEF ChangeSettings, serverVars, Flags
<1>5. CASE Register
  BY <1>5 DEF Register, serverVars, Flags
<1>6. CASE UNCHANGED <<hasConfigurationCapability, supportDidChangeConfiguration, capabilities,
                       notifying, announced, changes, duplicates>>
  BY <1>6 DEF Flags
<1>7. QED
  BY <1>1, <1>2, <1>3, <1>4, <1>5, <1>6
     DEF Next, Server, Client, OnInitialized, GetConfiguration, OnRespond, Asked, Answer,
         PlatformChange, PlatformChanges, vars, serverVars, clientVars

\* So the four parts of the type invariant hold always.
LEMMA TypesHold == Spec => [](Shape /\ Values /\ Numbered /\ Flags)
<1>1. Init => Values
  <2> SUFFICES ASSUME Init PROVE Values
    OBVIOUS
  <2>1. devices \in Platforms /\ devices \in Seq(Devices)
    BY PlatformsAssumption DEF Init, DiagnosticsInit
  <2>2. Range(devices) \subseteq Devices
    BY <2>1 DEF Range
  <2>3. device \in Devices \cup {NoDevice}
    BY <2>1, <2>2, SelectionFacts DEF Init, DiagnosticsInit
  <2>4. buildOptions.std \in BuildStandards
    BY <2>3, BuildOptionsType DEF Init, DiagnosticsInit, BuildStandards
  <2>5. maxNumberOfProblems \in 0 .. 2 ^ SizeBits - 1
    BY WidthsAssumption DEF Init, DiagnosticsInit
  <2>6. QED
    BY <2>1, <2>3, <2>4, <2>5 DEF Init, Values, StoreStandards
<1>2. Init => Numbered
  BY EmptySeq DEF Init, Numbered
<1>3. Init => Flags
  <2>1. Init => announced \in BOOLEAN
    BY Zenon DEF Init
  <2>2. 0 \in 0 .. MaxChanges /\ 0 \in 0 .. MaxDuplicates
    BY BoundsAssumption
  <2>3. QED
    BY <2>1, <2>2, Zenon DEF Init, Flags
<1>4. QED
  BY <1>1, <1>2, <1>3, ShapeInit, ShapeStep, ValuesStep, NumberedStep, FlagsStep, PTL DEF Spec

\* The settings that arrive, whatever they are, leave the server with a device, a
\* -cl-std and a limit it can work with; requests and replies have known numbers.
THEOREM TypeCorrect == Spec => []TypeOK
<1>1. Shape /\ Values /\ Numbered /\ Flags => TypeOK
  BY DEF Shape, Values, Numbered, Flags, TypeOK, StoreStandards, BuildStandards
<1>2. QED
  BY <1>1, TypesHold, PTL

-----------------------------------------------------------------------------
(* The device the settings ask for. *)

\* SetOpenCLDevice keeps its promise whatever the platforms report and whatever
\* device was in use.
THEOREM SelectionKeepsContract == Spec => SelectionContract
<1> DEFINE Step == \A id \in 0 .. 2 ^ IntBits - 1 :
                     UseDevice(id) /\ UNCHANGED devices => Selects(id)
<1>1. TypeOK => Step
  <2> SUFFICES ASSUME TypeOK, NEW id \in 0 .. 2 ^ IntBits - 1, UseDevice(id), UNCHANGED devices
               PROVE  Selects(id)
    OBVIOUS
  <2>1. devices \in Seq(Devices) /\ device \in Devices \cup {NoDevice}
    BY PlatformsAssumption DEF TypeOK
  <2>2. ToIdentifier(id) = id
    BY WidthsAssumption DEF ToIdentifier, ToUnsigned
  <2>3. device' = SelectOpenCLDevice(devices, id, device)
    BY <2>2 DEF UseDevice, SetOpenCLDevice
  <2> DEFINE matching == {d \in Range(devices) : id > 0 /\ d.id = id}
  <2>4. CASE matching # {}
    <3>1. device' \in matching
      BY <2>1, <2>3, <2>4, SelectionFacts
    <3>2. QED
      BY <2>4, <3>1 DEF Selects
  <2>5. CASE matching = {}
    <3>1. /\ device' \in Range(devices) \cup {device}
          /\ \A d \in Range(devices) : d.power <= device'.power
          /\ device # NoDevice => /\ device.power <= device'.power
                                  /\ device' # device => device'.power > device.power
      BY <2>1, <2>3, <2>5, SelectionFacts
    <3>2. QED
      BY <2>5, <3>1 DEF Selects
  <2>6. QED
    BY <2>4, <2>5
<1>2. TypeOK /\ [Next]_vars => [Step]_vars
  BY <1>1
<1>3. QED
  BY <1>2, TypeCorrect, PTL DEF Spec, SelectionContract
=============================================================================
