------------------------------ MODULE Commands ------------------------------
(***************************************************************************)
(* The subcommands of src/src/commands.cpp: clinfo, diagnostics,           *)
(* completion, definition, declaration and typedef.  Each is a process     *)
(* that runs the components once and exits; a user runs one after another, *)
(* typically clinfo for an identifier to give to diagnostics.  Between any *)
(* two steps, those of one process included, drivers and devices may come, *)
(* go and fail.                                                            *)
(*                                                                         *)
(* The components are ClInfo, Diagnostics with DiagnosticsParser,          *)
(* Completion and Locations; what the commands do to the header cache is   *)
(* in HeaderCache.                                                         *)
(***************************************************************************)
EXTENDS ClInfo, DiagnosticsParser, Completion, Locations

CONSTANTS
    Machines,         \* the sequences of platforms the machine may have
    MaxChanges,       \* bound: how often that changes
    Requests,         \* command lines, after CLI11 has accepted them
    BuildLogs,        \* build logs, as sequences of lines
    Unit,             \* the cursors of the kernel
    Names, Members,   \* libclang's completions, at a name and after a dot
    DefaultLimit,     \* INT8_MAX
    NoDevice, NoStd, NoFlags,
    Nothing           \* nothing printed, no request, no log

NoOptions == [flags |-> NoFlags, std |-> NoStd]

ASSUME ChangesAssumption == MaxChanges \in Nat
\* What drivers can answer: identifiers and power indexes are unsigned.
ASSUME MachinesAssumption ==
    /\ Machines \subseteq Seq(PlatformAnswers)
    /\ \A m \in Machines : NoDevice \notin ToSet(GetDevices(m))
\* An identifier on the command line is unsigned; a cursor is one of the unit or null.
ASSUME RequestsAssumption ==
    \A r \in Requests :
        /\ r.command = "diagnostics" =>
             r.deviceID \in Nat /\ r.limit \in Nat /\ r.options = [flags |-> r.options.flags, std |-> r.options.std]
        /\ r.command \in {"definition", "declaration", "typedef"} => r.cursor \in {Null} \cup DOMAIN Unit
        /\ r.command = "completion" => r.line \in Seq(Tokens) /\ r.column \in Nat
\* libclang's side: a use refers to a declaration, and a thing has one definition.
ASSUME UnitAssumption ==
    /\ Unit \in Seq(Cursors)
    /\ \A c \in DOMAIN Unit :
         /\ Unit[c].kind = "use" => /\ ~Unit[c].definition
                                    /\ Unit[c].refers \in {Null} \cup {d \in DOMAIN Unit : Unit[d].kind # "use"}
         /\ Unit[c].type.decl \in {NoDecl} \cup DOMAIN Unit
         /\ \A d \in DOMAIN Unit :
              /\ Unit[c].kind # "use" /\ Unit[d].kind # "use" /\ Unit[c].entity = Unit[d].entity
              /\ Unit[c].definition /\ Unit[d].definition
              => c = d
ASSUME ResultsAssumption == Names \in Seq(Results) /\ Members \in Seq(Results)
ASSUME LogsAssumption == BuildLogs \subseteq Seq(LogLines)
\* Nothing is no command line, and nothing that a command prints.
ASSUME NothingAssumption ==
    /\ Nothing \notin Requests /\ Nothing \notin BuildLogs /\ Nothing # <<>>
    /\ \A m \in Machines : Nothing # Json(m)
    /\ \A r \in Requests :
        /\ r.command = "diagnostics" =>
             \A log \in BuildLogs \cup {<<>>} : Nothing # ParseDiagnostics(log, r.limit)
        /\ r.command = "completion" => Nothing # GetCompletions(r.line, r.column, Names, Members)
        /\ r.command = "definition" => Nothing # GetDefinitions(Unit, r.cursor)
        /\ r.command = "declaration" => Nothing # GetDeclarations(Unit, r.cursor)
        /\ r.command = "typedef" => Nothing # GetTypeDefinitions(Unit, r.cursor)

VARIABLES
    \* The machine and the user.
    machine, changes,
    listing,        \* what the last clinfo printed
    current,        \* history: the machine is as it was then
    \* The process.
    pc, request,
    device, buildOptions, maxNumberOfProblems,   \* those of Diagnostics
    buildLog,
    parsed,         \* libclang made a translation unit of the kernel
    output,         \* what it printed
    exit            \* its exit status

machineVars == <<machine, changes>>
diagnosticsVars == <<device, buildOptions, maxNumberOfProblems>>
vars == <<machineVars, listing, current, pc, request, diagnosticsVars, buildLog, parsed, output, exit>>

Settings == INSTANCE Diagnostics WITH
    devices <- GetDevices(machine), Devices <- {}, Platforms <- {}, OptionLists <- {},
    IntBits <- 32, SizeBits <- 64

TypeOK ==
    /\ machine \in Machines /\ changes \in 0 .. MaxChanges
    /\ listing \in {Nothing} \cup {Json(m) : m \in Machines} /\ current \in BOOLEAN
    /\ pc \in {"idle", "device", "options", "build", "done"} /\ parsed \in BOOLEAN
    /\ request \in Requests \cup {Nothing}
    /\ pc \in {"device", "options", "build"} =>
         (device # NoDevice => device.id \in Nat /\ device.power \in Nat /\ device.std # Throws)
    /\ pc = "done" => (exit = "EXIT_SUCCESS") = (output # Nothing)

Init ==
    /\ machine \in Machines /\ changes = 0
    /\ listing = Nothing /\ current = FALSE
    /\ pc = "idle" /\ request = Nothing
    /\ device = NoDevice /\ buildOptions = NoOptions /\ maxNumberOfProblems = DefaultLimit
    /\ buildLog = Nothing /\ parsed = FALSE /\ output = Nothing /\ exit = "none"

-----------------------------------------------------------------------------

Prints(result) == output' = result /\ exit' = "EXIT_SUCCESS" /\ pc' = "done"
Stops(status) == output' = Nothing /\ exit' = status /\ pc' = "done"

Starts(r, command) ==
    /\ pc = "idle"
    /\ r.command = command
    /\ request' = r
    /\ UNCHANGED machineVars

\* clinfo.  What the listing and its conversion to text throw is caught by nobody.
CLInfo(r) ==
    /\ Starts(r, "clinfo")
    /\ IF JsonThrows(machine) \/ DumpThrows(machine)
       THEN Stops("aborted") /\ UNCHANGED <<listing, current>>
       ELSE Prints(Json(machine)) /\ listing' = output' /\ current' = TRUE
    /\ UNCHANGED <<diagnosticsVars, buildLog, parsed>>

\* diagnostics: the kernel is read, and CreateDiagnostics selects a device and
\* sets the options for it.
StartDiagnostics(r) ==
    /\ Starts(r, "diagnostics")
    /\ IF r.kernel # "readable"
       THEN Stops("EXIT_FAILURE") /\ UNCHANGED diagnosticsVars
       ELSE /\ device' = Settings!SelectOpenCLDevice(GetDevices(machine), 0, NoDevice)
            /\ buildOptions' = Settings!WithStandard(NoOptions, device')
            /\ pc' = "device"
            /\ UNCHANGED <<maxNumberOfProblems, output, exit>>
    /\ UNCHANGED <<listing, current, buildLog, parsed>>

ChooseDevice ==
    /\ pc = "device"
    /\ IF request.deviceID > 0 THEN Settings!SetOpenCLDevice(request.deviceID) ELSE UNCHANGED device
    /\ pc' = "options"
    /\ UNCHANGED <<machineVars, listing, current, request, buildOptions, maxNumberOfProblems,
                   buildLog, parsed, output, exit>>

\* Fault: the options of the command line are used as they are.
ChooseOptionsAsGiven ==
    /\ pc = "options"
    /\ buildOptions' = IF request.options # NoOptions THEN request.options ELSE buildOptions
    /\ maxNumberOfProblems' = request.limit
    /\ pc' = "build"
    /\ UNCHANGED <<machineVars, listing, current, request, device, buildLog, parsed, output, exit>>

ChooseOptions ==
    /\ pc = "options"
    /\ buildOptions' = IF request.options # NoOptions
                       THEN Settings!WithStandard(request.options, device) ELSE buildOptions
    /\ maxNumberOfProblems' = request.limit
    /\ pc' = "build"
    /\ UNCHANGED <<machineVars, listing, current, request, device, buildLog, parsed, output, exit>>

\* BuildSource, when it does not throw.  A log that cannot be fetched is empty.
BuildSource == device # NoDevice /\ buildLog' \in BuildLogs \cup {<<>>}

\* GetDiagnostics or GetBuildLog.
Reported(log) == IF request.json THEN ParseDiagnostics(log, maxNumberOfProblems) ELSE log

\* It throws without a device, when the driver fails otherwise than by refusing
\* the program, and when the log cannot be written as JSON.
Build ==
    /\ pc = "build"
    /\ \/ Stops("EXIT_FAILURE") /\ UNCHANGED buildLog
       \/ BuildSource /\ Prints(Reported(buildLog'))
    /\ UNCHANGED <<machineVars, listing, current, request, diagnosticsVars, parsed>>

\* A query over the kernel's unit: its list is empty when the kernel cannot be
\* parsed, and whatever throws on the way ends the command.
Queries(r, found) ==
    /\ \/ Stops("EXIT_FAILURE") /\ parsed' = FALSE
       \/ /\ r.kernel = "readable"
          /\ parsed' \in BOOLEAN
          /\ Prints(IF parsed' THEN found ELSE <<>>)
    /\ UNCHANGED <<listing, current, diagnosticsVars, buildLog>>

CompletionCommand(r) ==
    /\ Starts(r, "completion")
    /\ Queries(r, GetCompletions(r.line, r.column, Names, Members))

Definition(r) == Starts(r, "definition") /\ Queries(r, GetDefinitions(Unit, r.cursor))
Declaration(r) == Starts(r, "declaration") /\ Queries(r, GetDeclarations(Unit, r.cursor))
TypeDefinition(r) == Starts(r, "typedef") /\ Queries(r, GetTypeDefinitions(Unit, r.cursor))

-----------------------------------------------------------------------------

MachineChanges ==
    /\ changes < MaxChanges
    /\ machine' \in Machines
    /\ changes' = changes + 1
    /\ current' = FALSE
    /\ UNCHANGED <<listing, pc, request, diagnosticsVars, buildLog, parsed, output, exit>>

\* The user runs the next command.
Again ==
    /\ pc = "done"
    /\ pc' = "idle" /\ request' = Nothing
    /\ device' = NoDevice /\ buildOptions' = NoOptions /\ maxNumberOfProblems' = DefaultLimit
    /\ buildLog' = Nothing /\ parsed' = FALSE /\ output' = Nothing /\ exit' = "none"
    /\ UNCHANGED <<machineVars, listing, current>>

Next ==
    \/ \E r \in Requests :
         \/ CLInfo(r) \/ StartDiagnostics(r) \/ CompletionCommand(r)
         \/ Definition(r) \/ Declaration(r) \/ TypeDefinition(r)
    \/ ChooseDevice \/ ChooseOptions \/ Build
    \/ MachineChanges \/ Again

Spec == Init /\ [][Next]_vars
-----------------------------------------------------------------------------
(* Properties of clinfo and diagnostics. *)

\* The device that diagnostics builds with, chosen by the user or by itself, is one
\* that clinfo has shown: a query that fails may cost the listing what it asked for,
\* but no device that is used.
UsedIsListed ==
    pc \in {"device", "options", "build"} /\ current /\ device # NoDevice =>
        \E i \in DOMAIN listing : \E j \in DOMAIN listing[i].devices :
            listing[i].devices[j].id = device.id

\* README.md:45-46: an identifier that clinfo shows for a device makes a device with
\* that identifier the one of the diagnostics.  Only a device whose standard cannot be
\* read, or one behind it on its platform, is listed and not selected.
SelectedIsListed ==
    pc \in {"options", "build"} /\ current /\ request.deviceID > 0 =>
        \A i \in DOMAIN listing : \A j \in DOMAIN listing[i].devices :
            listing[i].devices[j].id = request.deviceID =>
              \/ device # NoDevice /\ device.id = request.deviceID
              \/ \E k \in 1 .. j : GetCLStandard(machine[i].devices[k]) = Throws

\* The kernel is built for the OpenCL version of the device that builds it, or
\* for the one the user names.  A device chosen by its identifier and no options
\* leave the version of the device that would have been selected automatically.
BuiltForItsDevice ==
    pc = "build" /\ device # NoDevice =>
        LET given == request.options IN
        /\ given.std # NoStd => buildOptions = given
        /\ given.std = NoStd /\ (given # NoOptions \/ request.deviceID = 0) =>
             buildOptions.std = device.std

\* The problems reported are those among the first `limit` of the log whose
\* position can be read, in their order, counted from zero.
ProblemsAreTheFirst ==
    pc = "done" /\ buildLog # Nothing /\ request.json =>
        LET problems == {i \in DOMAIN buildLog : buildLog[i].type = "problem"}
            Rank(S, i) == Cardinality({j \in S : j <= i})
            reported == {i \in problems : Rank(problems, i) <= request.limit /\ buildLog[i].line <= MaxLong}
        IN  /\ Len(output) = Cardinality(reported)
            /\ \A i \in reported :
                 LET d == output[Rank(reported, i)] IN
                 /\ d.line + 1 = buildLog[i].line
                 /\ d.severity = "error" <=> buildLog[i].severity \in {"error", "fatal error"}

-----------------------------------------------------------------------------
(* Properties of completion. *)

Answered(command) == pc = "done" /\ parsed /\ request.command = command

\* The token that the cursor is in or behind.
TokenAtCursor == {i \in DOMAIN request.line :
    /\ request.line[i].start <= request.column /\ request.column <= End(request.line[i])
    /\ \A j \in 1 .. i - 1 : End(request.line[j]) < request.column}

\* What libclang has to offer in place of a token.
OfferedFor(token) ==
    IF \E i \in DOMAIN request.line : End(request.line[i]) = token.start /\ request.line[i].text = <<".">>
    THEN Members ELSE Names

\* What is listed is what can stand for the token at the cursor: every available
\* result that has a typed text beginning with it, once, under that text, in
\* libclang's order.  Deprecated results are listed, and marked.
CompletionsMatch ==
    Answered("completion") =>
        \A i \in TokenAtCursor :
            LET token == request.line[i]
                results == OfferedFor(token)
                fits == {k \in DOMAIN results : Available(results[k]) /\
                           \E c \in ToSet(results[k].chunks) : Matches(c, token.text)}
            IN  /\ {output[k].index + 1 : k \in DOMAIN output} = fits
                /\ \A k, l \in DOMAIN output : k < l => output[k].index < output[l].index
                /\ \A k \in DOMAIN output :
                     /\ IsPrefix(token.text, output[k].label)
                     /\ output[k].deprecated <=> results[output[k].index + 1].availability = "Deprecated"

\* The editor goes through an inserted text from parameter to parameter: the n-th
\* stop in it stands for the n-th placeholder of the result that has a text, and has
\* the number n, whatever is between them; behind all of them the cursor ends, at
\* stop 0.  A text without such placeholders has no stops.
TabStops ==
    Answered("completion") =>
        \A i \in TokenAtCursor : \A k \in DOMAIN output :
            LET chunks == OfferedFor(request.line[i])[output[k].index + 1].chunks
                text == output[k].insertText
                parameters == {c \in DOMAIN chunks : chunks[c].kind = "Placeholder" /\ chunks[c].text # NoText}
                stops == {s \in DOMAIN text : text[s].type = "stop"}
                Rank(S, n) == Cardinality({j \in S : j <= n})
            IN  IF parameters = {} THEN stops = {}
                ELSE /\ Cardinality(stops) = Cardinality(parameters) + 1
                     /\ text[Len(text)] = TabStop(0, <<>>)
                     /\ \A c \in parameters, s \in stops :
                          Rank(stops, s) = Rank(parameters, c) =>
                            text[s] = TabStop(Rank(parameters, c), chunks[c].text)

\* lsp.cpp:281 announces, and lsp-event-handler-tests.cpp:148 expects,
\* "triggerCharacters": [".", ":"].  When libclang has members to offer, some are
\* offered directly behind a dot.
OffersMembersAfterTrigger ==
    Answered("completion") /\ Members # <<>> /\ output = <<>> =>
        \A i \in TokenAtCursor :
            End(request.line[i]) = request.column => request.line[i].text # <<".">>

-----------------------------------------------------------------------------
(* Properties of definition, declaration and type definition. *)

Target == Resolved(Unit, request.cursor)
Declares(c, target) ==
    Unit[c].kind # "use" /\ Unit[target].kind # "use" /\ Unit[c].entity = Unit[target].entity

\* Asked on any use or declaration, definition answers with the definition in
\* the unit of what is meant there, wherever it stands, and with nothing else.
DefinitionIsFound ==
    Answered("definition") /\ request.cursor # Null =>
        ToSet(output) =
          {c \in DOMAIN Unit : Declares(c, Target) /\ Unit[c].definition /\ Unit[c].located}

\* Asked on any use or declaration, declaration answers with the first of the
\* declarations of what is meant there (declaration.cpp:71).
DeclarationIsFirst ==
    Answered("declaration") /\ request.cursor # Null =>
        \A c \in DOMAIN Unit :
            Declares(c, Target) /\ Unit[c].located =>
              Len(output) = 1 /\ Declares(output[1], Target) /\ output[1] <= c

\* Whatever pointers are around a type, and behind one typedef of it, type
\* definition answers with the struct, union or enum (typedef.cpp:21, 36).
TypeDefinitionIsTheTag ==
    Answered("typedef") /\ request.cursor # Null =>
        \A tag \in {c \in DOMAIN Unit : Unit[c].kind = "decl" /\ Unit[c].located} :
            LET decl == Unit[request.cursor].type.decl IN
            \/ decl = tag
            \/ decl # NoDecl /\ Unit[decl].kind = "typedef" /\ Unit[decl].type = [layers |-> 0, decl |-> tag]
            => output = <<tag>>
=============================================================================
