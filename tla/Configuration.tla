--------------------------- MODULE Configuration ---------------------------
(***************************************************************************)
(* How the client's settings reach the server (src/src/lsp.cpp): with the  *)
(* initialize request, and later by workspace/configuration requests that  *)
(* the server sends on every didChangeConfiguration.  Their identifiers    *)
(* wait in m_requests for the client's replies; a reply is applied to the  *)
(* diagnostics (module Diagnostics) and to the translation options.        *)
(*                                                                         *)
(* Client and server are connected by two pipes.  The server handles one   *)
(* message at a time and flushes m_outQueue after it, so `toClient` is the *)
(* pipe with m_outQueue in front of it.  The client is outside the         *)
(* repository: it declares its capabilities, tells the server when its     *)
(* settings change, and answers every request, with the settings it has at *)
(* that moment or with an error or an incomplete list.                     *)
(***************************************************************************)
EXTENDS Diagnostics, SequencesExt

CONSTANTS
    Settings,        \* records [deviceID, options, limit]; a field may be Invalid
    InitialSettings, \* the values of initializationOptions.configuration
    Capabilities,    \* records [configuration, dynamicRegistration]
    Invalid,         \* a value of the wrong JSON type
    Absent,          \* a missing field or missing settings
    NoResult,        \* an error reply, or a result that is empty or too short
    InOrderReplies,  \* whether the client answers in the order it was asked
    MaxChanges,      \* bound: changes of the settings
    MaxFailures,     \* bound: replies without settings
    MaxDuplicates    \* bound: replies sent twice

ASSUME OrderAssumption == InOrderReplies \in BOOLEAN
ASSUME CapabilitiesAssumption ==
    Capabilities \subseteq [configuration : BOOLEAN, dynamicRegistration : BOOLEAN]
ASSUME BoundsAssumption == MaxChanges \in Nat /\ MaxFailures \in Nat /\ MaxDuplicates \in Nat

\* A reply has a value for each setting; initialize may have none.
ASSUME SettingsAssumption ==
    /\ \A s \in Settings : /\ s.deviceID \in Int \cup {Invalid}
                          /\ s.options \in OptionLists \cup {Invalid}
                          /\ s.limit \in Int \cup {Invalid}
    /\ \A s \in InitialSettings \ {Absent} : /\ s.deviceID \in Int \cup {Absent, Invalid}
                                            /\ s.options \in OptionLists \cup {Absent, Invalid}
                                            /\ s.limit \in Int \cup {Absent, Invalid}
    /\ Absent \notin Settings /\ NoResult \notin Settings

VARIABLES
    \* The server: LSPServerEventsHandler.
    hasConfigurationCapability,
    supportDidChangeConfiguration,
    requests,      \* m_requests: ids of the configuration requests not yet answered
    issued,        \* how many of them were sent; the n-th has id n
    storeStandard, \* the -cl-std of the store's translation options
    applied,       \* history: the requests whose replies reached OnConfiguration
    \* The pipes.
    toServer, toClient,
    \* The client.
    settings,      \* the user's settings
    capabilities,
    notifying,     \* it sends didChangeConfiguration when the settings change
    announced,     \* the server was told of the settings, or that they changed
    asked,         \* configuration requests it has not answered, oldest first
    lastReply,     \* the last configuration reply it sent
    changes, failed, duplicates \* what the bounds count

serverVars == <<device, buildOptions, maxNumberOfProblems, hasConfigurationCapability,
                supportDidChangeConfiguration, requests, issued, storeStandard, applied>>
clientVars == <<settings, capabilities, notifying, announced, asked, lastReply,
                changes, failed, duplicates>>
vars == <<devices, serverVars, toServer, toClient, clientVars>>

\* An id the server generates; registrations are told apart from requests.
Registration == 0

Reply(n, result) == [type |-> "response", id |-> n, result |-> result]
Replies == [type : {"response"}, id : Nat, result : Settings \cup {NoResult}]
ASSUME NoResultAssumption == NoResult \notin Replies
ToServer == Replies \cup [type : {"initialized", "didChangeConfiguration"}]
              \cup [type : {"initialize"}, settings : InitialSettings]
ToClient == [type : {"initializeResult"}] \cup [type : {"configuration", "registration"}, id : Nat]

TypeOK ==
    /\ devices \in Platforms /\ device \in Devices \cup {NoDevice}
    /\ buildOptions.std \in {d.std : d \in Devices} \cup {o.std : o \in OptionLists} \cup {NoStd}
    /\ maxNumberOfProblems \in 0 .. 2 ^ SizeBits - 1
    /\ hasConfigurationCapability \in BOOLEAN /\ supportDidChangeConfiguration \in BOOLEAN
    /\ requests \in Seq(1 .. issued) /\ issued \in Nat /\ applied \in Seq(1 .. issued)
    /\ storeStandard \in {StandardOf(d) : d \in Devices \cup {NoDevice}}
    /\ toServer \in Seq(ToServer) /\ toClient \in Seq(ToClient)
    /\ settings \in Settings /\ capabilities \in Capabilities
    /\ notifying \in BOOLEAN /\ announced \in BOOLEAN
    /\ asked \in Seq(1 .. issued) /\ lastReply \in Replies \cup {NoResult}
    /\ changes \in 0 .. MaxChanges /\ failed \in SUBSET (1 .. issued) /\ duplicates \in 0 .. MaxDuplicates

\* The client has sent initialize; main.cpp has set the translation options.
Init ==
    /\ DiagnosticsInit
    /\ storeStandard = StandardOf(device)
    /\ hasConfigurationCapability = FALSE
    /\ supportDidChangeConfiguration = FALSE
    /\ requests = <<>> /\ issued = 0 /\ applied = <<>>
    /\ settings \in Settings
    /\ capabilities \in Capabilities
    /\ \E s \in InitialSettings :
         /\ toServer = <<[type |-> "initialize", settings |-> s]>>
         /\ announced = (s = settings)
    /\ toClient = <<>>
    /\ notifying = FALSE
    /\ asked = <<>> /\ lastReply = NoResult
    /\ changes = 0 /\ failed = {} /\ duplicates = 0

-----------------------------------------------------------------------------
(* The server. *)

Receive(type) ==
    /\ toServer # <<>>
    /\ Head(toServer).type = type
    /\ toServer' = Tail(toServer)

\* Fault: the translation options do not follow the device.
UseDeviceForBuilds(id) ==
    /\ SetOpenCLDevice(ToIdentifier(id))
    /\ UNCHANGED storeStandard

\* SetOpenCLDevice and ConfigureCompletion.
UseDevice(id) ==
    /\ SetOpenCLDevice(ToIdentifier(id))
    /\ storeStandard' = StandardOf(device')
KeepDevice == UNCHANGED <<device, storeStandard>>

\* OnInitialize.  A deviceID or a limit of the wrong type throws out of the
\* handler: what follows it is skipped, the reply included.
OnInitialize ==
    LET s == Head(toServer).settings IN
    /\ Receive("initialize")
    /\ hasConfigurationCapability' = capabilities.configuration
    /\ supportDidChangeConfiguration' = capabilities.dynamicRegistration
    /\ IF s = Absent \/ s.deviceID \in {Absent, Invalid} THEN KeepDevice ELSE UseDevice(s.deviceID)
    /\ IF s = Absent \/ s.deviceID = Invalid \/ s.options \in {Absent, Invalid}
       THEN UNCHANGED buildOptions ELSE SetBuildOptions(s.options)
    /\ IF s = Absent \/ s.deviceID = Invalid \/ s.limit \in {Absent, Invalid}
       THEN UNCHANGED maxNumberOfProblems ELSE SetMaxProblemsCount(ToUnsigned(s.limit, SizeBits))
    /\ toClient' = IF s # Absent /\ (s.deviceID = Invalid \/ s.limit = Invalid) THEN toClient
                   ELSE Append(toClient, [type |-> "initializeResult"])
    /\ UNCHANGED <<devices, requests, issued, applied, clientVars>>

OnInitialized ==
    /\ Receive("initialized")
    /\ toClient' = IF ~supportDidChangeConfiguration THEN toClient
                   ELSE Append(toClient, [type |-> "registration", id |-> Registration])
    /\ UNCHANGED <<devices, serverVars, clientVars>>

\* Fault: the outstanding requests are kept in a stack.
GetConfigurationStacked ==
    /\ Receive("didChangeConfiguration")
    /\ hasConfigurationCapability
    /\ issued' = issued + 1
    /\ requests' = <<issued'>> \o requests
    /\ toClient' = Append(toClient, [type |-> "configuration", id |-> issued'])
    /\ UNCHANGED <<devices, device, buildOptions, maxNumberOfProblems, storeStandard, applied,
                   hasConfigurationCapability, supportDidChangeConfiguration, clientVars>>

\* workspace/didChangeConfiguration
GetConfiguration ==
    /\ Receive("didChangeConfiguration")
    /\ IF ~hasConfigurationCapability THEN UNCHANGED <<requests, issued, toClient>>
       ELSE /\ issued' = issued + 1
            /\ requests' = Append(requests, issued')
            /\ toClient' = Append(toClient, [type |-> "configuration", id |-> issued'])
    /\ UNCHANGED <<devices, device, buildOptions, maxNumberOfProblems, storeStandard, applied,
                   hasConfigurationCapability, supportDidChangeConfiguration, clientVars>>

\* What OnConfiguration makes of the settings in a reply.
OnConfiguration(s) ==
    /\ IF s.deviceID = Invalid THEN KeepDevice ELSE UseDevice(s.deviceID)
    /\ IF s.options = Invalid THEN UNCHANGED buildOptions ELSE SetBuildOptions(s.options)
    /\ IF s.limit = Invalid THEN UNCHANGED maxNumberOfProblems
       ELSE SetMaxProblemsCount(ToProblemsCount(s.limit))

\* The settings in a reply are applied, or it is dropped.
ApplyReply(m) ==
    /\ OnConfiguration(m.result)
    /\ applied' = Append(applied, m.id)
DropReply == UNCHANGED <<device, storeStandard, buildOptions, maxNumberOfProblems, applied>>

\* Fault: a reply without settings leaves its request outstanding.
OnRespondWithSettings ==
    LET m == Head(toServer)
        expected == requests # <<>> /\ m.id = Head(requests) /\ m.result # NoResult
    IN  /\ Receive("response")
        /\ requests' = IF expected THEN Tail(requests) ELSE requests
        /\ IF expected THEN ApplyReply(m) ELSE DropReply
        /\ UNCHANGED <<devices, toClient, issued, hasConfigurationCapability,
                       supportDidChangeConfiguration, clientVars>>

\* Fault: a reply is taken for the one to the oldest request, whichever it answers.
OnRespondUnchecked ==
    LET m == Head(toServer)
        expected == requests # <<>>
    IN  /\ Receive("response")
        /\ requests' = IF expected THEN Tail(requests) ELSE requests
        /\ IF expected /\ m.result # NoResult THEN ApplyReply(m) ELSE DropReply
        /\ UNCHANGED <<devices, toClient, issued, hasConfigurationCapability,
                       supportDidChangeConfiguration, clientVars>>

\* Only the reply to the oldest request counts; without settings in it, it
\* still retires that request.
OnRespond ==
    LET m == Head(toServer)
        expected == requests # <<>> /\ m.id = Head(requests)
    IN  /\ Receive("response")
        /\ requests' = IF expected THEN Tail(requests) ELSE requests
        /\ IF expected /\ m.result # NoResult THEN ApplyReply(m) ELSE DropReply
        /\ UNCHANGED <<devices, toClient, issued, hasConfigurationCapability,
                       supportDidChangeConfiguration, clientVars>>

-----------------------------------------------------------------------------
(* The client. *)

Send(m) == toServer' = Append(toServer, m)

ClientReceives(type) ==
    /\ toClient # <<>>
    /\ Head(toClient).type = type
    /\ toClient' = Tail(toClient)

\* A client that cannot register for changes sends them from here on.
Initialized ==
    /\ ClientReceives("initializeResult")
    /\ Send([type |-> "initialized"])
    /\ notifying' = ~capabilities.dynamicRegistration
    /\ UNCHANGED <<devices, serverVars, settings, capabilities, announced, asked,
                   lastReply, changes, failed, duplicates>>

\* client/registerCapability; its reply matches no request of the server's.
Register ==
    /\ ClientReceives("registration")
    /\ Send(Reply(Registration, NoResult))
    /\ notifying' = TRUE
    /\ UNCHANGED <<devices, serverVars, settings, capabilities, announced, asked,
                   lastReply, changes, failed, duplicates>>

Asked ==
    /\ ClientReceives("configuration")
    /\ asked' = Append(asked, Head(toClient).id)
    /\ UNCHANGED <<devices, serverVars, toServer, settings, capabilities, notifying,
                   announced, lastReply, changes, failed, duplicates>>

Answer ==
    /\ asked # <<>>
    /\ \E i \in (IF InOrderReplies THEN {1} ELSE DOMAIN asked),
          result \in {settings} \cup (IF Cardinality(failed) < MaxFailures THEN {NoResult} ELSE {}) :
         /\ Send(Reply(asked[i], result))
         /\ lastReply' = Reply(asked[i], result)
         /\ asked' = RemoveAt(asked, i)
         /\ failed' = IF result = NoResult THEN failed \cup {asked[i]} ELSE failed
    /\ UNCHANGED <<devices, serverVars, toClient, settings, capabilities, notifying,
                   announced, changes, duplicates>>

AnswerTwice ==
    /\ duplicates < MaxDuplicates
    /\ lastReply # NoResult
    /\ Send(lastReply)
    /\ duplicates' = duplicates + 1
    /\ UNCHANGED <<devices, serverVars, toClient, settings, capabilities, notifying,
                   announced, asked, lastReply, changes, failed>>

ChangeSettings ==
    /\ changes < MaxChanges
    /\ settings' \in Settings \ {settings}
    /\ changes' = changes + 1
    /\ announced' = notifying
    /\ IF notifying THEN Send([type |-> "didChangeConfiguration"]) ELSE UNCHANGED toServer
    /\ UNCHANGED <<devices, serverVars, toClient, capabilities, notifying, asked,
                   lastReply, failed, duplicates>>

PlatformChange ==
    /\ PlatformChanges
    /\ UNCHANGED <<serverVars, toServer, toClient, clientVars>>

Server == OnInitialize \/ OnInitialized \/ GetConfiguration \/ OnRespond
Client == Initialized \/ Register \/ Asked \/ Answer
Next == Server \/ Client \/ AnswerTwice \/ ChangeSettings \/ PlatformChange

Spec == Init /\ [][Next]_vars

\* The server reads whenever there is input (LSPServer::Run), and a client
\* reads its input and answers what it is asked.
FairSpec == Spec /\ WF_vars(Server) /\ WF_vars(Initialized \/ Register \/ Asked) /\ WF_vars(Answer)
-----------------------------------------------------------------------------
(* Properties. *)

\* The translation units and the diagnostics are made for the same device: the
\* store's -cl-std is that of the device that builds the programs.
StoreFollowsDevice == storeStandard = StandardOf(device)

\* A program is built with the -cl-std the user asked for, or else with that of
\* the device that builds it.  Needs clients that send a list of build options
\* with every device: see the README for those that do not.
BuildFollowsDevice ==
    \/ \E o \in OptionLists : o.std # NoStd /\ buildOptions = o
    \/ device = NoDevice
    \/ buildOptions.std = device.std

\* SetOpenCLDevice(id) picks a device with that identifier; without one, the
\* device in use remains, or gives way to the strongest if that is stronger.
Selects(id) ==
    LET matching == {d \in Range(devices) : id > 0 /\ d.id = id}
        inUse == {device} \ {NoDevice}
    IN  \/ matching # {} /\ device' \in matching
        \/ /\ matching = {} /\ device' \in Range(devices) \cup {device}
           /\ \A d \in Range(devices) \cup inUse : d.power <= device'.power
           /\ \A d \in inUse : device' # d => device'.power > d.power
SelectionContract ==
    [][\A id \in 0 .. 2 ^ IntBits - 1 :
         UseDevice(id) /\ UNCHANGED devices => Selects(id)]_vars

\* With a client that answers in order, no configuration request is stuck in
\* m_requests: its id, or its reply, is still on the way.
OnTheWay(n) ==
    \/ \E i \in DOMAIN toClient : toClient[i].type = "configuration" /\ toClient[i].id = n
    \/ \E i \in DOMAIN asked : asked[i] = n
    \/ \E i \in DOMAIN toServer : toServer[i].type = "response" /\ toServer[i].id = n
NoRequestIsStuck == \A i \in DOMAIN requests : OnTheWay(requests[i])

\* The settings of replies are applied in the order in which the server sent its
\* requests, each reply at most once: an earlier reply never undoes a later one,
\* whatever order the client answers in and however often.  What is outstanding
\* was sent after all of them.
AppliedInOrder ==
    /\ \A i, j \in DOMAIN applied : i < j => applied[i] < applied[j]
    /\ \A i \in DOMAIN applied, k \in DOMAIN requests : applied[i] < requests[k]

\* The settings s are what the server works with: selecting the device again
\* would change nothing.
InEffect(s) ==
    /\ device = SelectOpenCLDevice(devices, ToIdentifier(s.deviceID), device)
    /\ storeStandard = StandardOf(device)
    /\ buildOptions = WithStandard(s.options, device)
    /\ maxNumberOfProblems = ToUnsigned(s.limit, SizeBits)

\* When nothing is in flight, the settings the client last announced are in
\* effect, unless it failed to answer the last request.
Quiet == toServer = <<>> /\ toClient = <<>> /\ asked = <<>>
QuietMeansCurrent ==
    Quiet /\ announced /\ capabilities.configuration /\ issued \notin failed
    => InEffect(settings)

\* Settings the client announces come into effect.
Settled == announced /\ capabilities.configuration /\ issued \notin failed
Convergence == <>[]Settled => <>[]InEffect(settings)

\* README.md:45, deviceID: "Device ID or 0 (automatic selection) of the OpenCL
\* device to be used for diagnostics."
Wanted == settings.deviceID \in {d.id : d \in Range(devices)}
ConfiguredDeviceIsUsed ==
    <>[](Settled /\ Wanted) => <>[](device.id = settings.deviceID)
=============================================================================
