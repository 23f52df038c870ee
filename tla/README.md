# Verification of the OpenCL language server

TLA+ models of the language server in this repository, model-checked with TLC.
Their safety properties are also proved with TLAPS. The models are
translated from the code under `src/` and `include/`; a client, libclang, the
OpenCL drivers and the file system are modelled from how that code uses them.

## The system

The server is one process with one thread. It reads standard input a character
at a time, cuts it into JSON-RPC messages, and calls one handler per message.
Handlers call libclang and the OpenCL driver synchronously, queue responses, and
the loop writes the queue after every message. What makes this program hard is
therefore not threads but *order*: which messages have been handled when state
is used, which replies of the client are still on the way, and what remains
after one of several steps has failed.

| Component | State | Operations | Hard behaviour | What makes it correct |
| --- | --- | --- | --- | --- |
| JSON-RPC (`jsonrpc.cpp`) | `m_buffer`, `m_validHeader`, `m_contentLength`, `m_isProcessing`, `m_initialized`, trace flags | `Consume`, `Write`, `WriteError`, `Reset` | messages cut anywhere; bad bodies and lengths; messages before `initialize` | each message is taken up once, in order; each queued response is written once, in order; nothing is served before `initialize` |
| Loop (`LSPServer`, `main.cpp`) | `m_interrupted` | `Run`, `Interrupt` | a signal between two steps; exit with responses queued | an interrupt stops it at the next character; no queued response is lost |
| Event handlers (`lsp.cpp`) | `m_outQueue`, `m_requests`, `m_capabilities`, `m_shutdown`, `m_completionCache` | one handler per method, `OnRespond` | the client's answers come late, twice, in another order, or carry errors | the announced settings come into effect; no reply is applied twice |
| Diagnostics (`diagnostics.cpp`) | `m_device`, `m_buildOptions`, `m_maxNumberOfProblems` | `Set...`, `GetDiagnostics` | devices come and go; options and device change in several calls | the options agree with the device; selection does what was asked |
| Translation units (`translation.cpp`) | `m_fileContents`, `m_translationUnits`, `m_args` | `OnFileOpen/Change/Close`, `SetTranslationOptions` | parses fail half-way; options change under open documents | handles are live and disposed once; a unit belongs to the latest text and options |
| Header cache (`translation.cpp`) | the header directory, shared by all processes | `SaveHeaders`, `DeleteCache` | processes unpack and remove at once, are killed, find the disk full | a process parses with whole headers; damage does not last |
| Completion (`completion.cpp`, `lsp.cpp`) | `m_completionCache` | `GetCompletions`, resolve | the prefix at the cursor decides what is seen; cached items of an older request | the list is what can stand at the cursor; a resolved item is the one that was shown |
| Definition, declaration, type definition | none | `GetDefinitions`, `GetDeclarations`, `GetTypeDefinitions` | one thing has several cursors, and libclang several kinds of no cursor | the location is that of the thing meant |
| OpenCL information (`clinfo.cpp`) | none | `GetDevices`, `json` | drivers that fail in the middle of an enumeration; identical devices | a failure costs what failed and no more; what is listed can be selected |
| Build logs (`diagnostics.cpp`) | none | `ParseDiagnostics` | the limit; numbers that do not fit | the first problems, in order |
| Command line (`commands.cpp`, `main.cpp`) | none | one run of the same components | devices change between one command and the next; shares the header directory | an identifier means the device it was listed for |

The parts call each other directly. The connections that carry state are:
`OnConfiguration` and `OnInitialize` set the device, the build options and the
limit in the diagnostics, and then the translation options in the store, which
destroys its units; the document handlers update the store and then build
diagnostics; the completion and location handlers read unit and text from the
store; everything that is sent goes through `m_outQueue`, except errors, which
are written at once.

## Modules

| Module | Models | |
| --- | --- | --- |
| `UnitCache` | what `ITranslationUnitStore` promises its readers | abstract |
| `TranslationUnitStore` | `translation.cpp` and its callers | implements `UnitCache` |
| `TranslationUnitStoreProofs` | | proofs |
| `Diagnostics` | device, options and limit in `diagnostics.cpp`, and the integer conversions of `lsp.cpp` | |
| `Configuration` | `initialize`, `didChangeConfiguration` and `workspace/configuration` in `lsp.cpp`, with the client | extends `Diagnostics` |
| `ConfigurationProofs`, `ConfigurationRepliesProofs` | state and order; replies in flight | proofs |
| `Delivery` | in-order delivery of messages | abstract |
| `JsonRpc` | `jsonrpc.cpp` in the loop of `LSPServer::Run`, shutdown, exit and the signal handler | implements `Delivery` |
| `JsonRpcProofs` | | proofs |
| `LspHandlers` | the document, location, completion and resolve handlers of `lsp.cpp`, with the editor | over `UnitCache` |
| `LspHandlersProofs` | | proofs |
| `HeaderCache` | the header directory in `translation.cpp`, with several servers and commands | |
| `HeaderCacheProofs` | | proofs |
| `ClInfo` | `clinfo.cpp`: devices, identifiers, versions, the listing | algorithm |
| `DiagnosticsParser` | the parser of build logs in `diagnostics.cpp` | algorithm |
| `Completion` | `completion.cpp`: prefix, filter, inserted text | algorithm |
| `Locations` | `definition.cpp`, `declaration.cpp`, `typedef.cpp`, `location.cpp` | algorithm |
| `Commands` | the subcommands of `commands.cpp` | composes `ClInfo`, `Diagnostics`, `DiagnosticsParser`, `Completion`, `Locations` |
| `CommandsProofs`, `CommandsQueriesProofs` | listing, selection and builds; what is printed | proofs |
| `MC...` | instances for TLC | |

Operators whose comment begins with *Fault* are not part of a specification.
Each is a definition with a plausible mistake in it, that a named property
detects when it takes the place of the original (`mutants` in `PROJECT.json`).

### TranslationUnitStore

`fileContents`, `units`, `args` and `headersDir` are the members of the class;
a member that is a map is a total function with `NoContent` or `NoUnit` for a
missing key. `clangUnits` and `clangIndexes` are libclang's side of the handles:
what a live unit was parsed from, and which indexes are live. A parse succeeds or
fails freely; a path may or may not exist on disk, and that changes at any time.
`document` is the text of each document after the notifications handled so far.
`DidOpen`, `DidChange`, `DidClose` and `Reconfigure` are the handlers of
`lsp.cpp`, each with the whole store operation inside; `SaveHeaders` and
`StartServer` are the start-up in `main.cpp`. `EditorReopens` says whether the
editor may open a document that is open already, which the protocol forbids and
the server does not check: the old handles are then leaked, and the properties
that speak of leaks and freshness assume it does not.

### Diagnostics and Configuration

A device is an identifier, a power index and an OpenCL standard. `Platforms` is
the set of answers `GetDevices` may give; `PlatformChange` replaces the answer at
any time. Build options are reduced to a set of flags and the `-cl-std` among
them, if any. Numbers come from JSON as 64-bit integers and are converted as in
the code, with widths `IntBits` and `SizeBits`.

`toServer` and `toClient` are the two pipes, `requests` is `m_requests`, and the
n-th configuration request has identifier n. `applied` is the history of the
requests whose replies were applied. The handlers of the server are
atomic because the loop writes the queue before it reads again. The client's
actions are everything it may do: announce changes, which it does only after it
has registered, answer with the settings of that moment, answer with an error or
with too few items, repeat an answer, and, with `InOrderReplies = FALSE`, answer
in any order.

### JsonRpc

A unit of input is a run of bytes that belong together: a `Content-Length` line,
the blank line after the headers, or a piece of a body. Lengths count units, so
a body of which the header says two units is complete after two. After a bad
body the parser keeps `validHeader` and `contentLength`, as the code does, and
cuts the next message at the wrong place, wherever that falls. A length that is
no number throws out of `Consume` and `main` and ends the process. `pc` is the place
in the loop of `Run`: waiting for a character, consuming it, or writing the
queue. `Interrupt` may come between any two steps.

What the server writes is a response with the identifier of its request, a
request or notification of its own, or an error. An error has no identifier, so
it answers no request, and a refused request has no answer. A handler queues a
response or fails without one (`MayQueue`), and may report an error as well
(`MayReport`); which handler does what is in `LspHandlers`. A queued message whose
text is not UTF-8 is dropped when it is to be written (`WriteFails`);
`unwritten` is the history of the requests whose response that befell. The
responses to `initialize` and `shutdown` hold no foreign text and are always
written.

### LspHandlers

The composition: `JsonRpc` shows that messages are taken up one by one and in
order, so a handler is one step that takes the head of `toServer`; and
`TranslationUnitStore` implements `UnitCache`, so the store is `UnitCache`, an
instance named `Store` over the variables `document`, `options` and `view`.
`completionCache` is `m_completionCache`. A build of diagnostics succeeds,
throws, or yields text that cannot be written as JSON, freely; libclang suggests
items and the server lists any subset of them (`Completion` says which), and the parameters of a request may be such that
a conversion throws (`valid`). An item is its label, its index and the text its
details describe; texts are numbered, so that an answer shows which text it was
computed in. A handler that throws writes an error without an identifier, which
answers no request: an invalid location request gets that error and an empty
result as well, an invalid completion or resolve gets nothing else. A response
with text of the sources, such as a comment or a path, may not be UTF-8: then it
is dropped (`Respond`), the request gets no answer, and `unwritten` has it. The
editor does not wait: it edits, closes, changes settings and asks while answers
are on the way, and resolves only items of the last completion it received.

### HeaderCache

Every process, server or subcommand, goes through the calls of `SaveHeaders` one
by one: create the directories, test whether the next file exists, open it, write
it. Subcommands then remove the directory file by file as their store is
destroyed; a server never does, because `OnExit` ends the process and the
callbacks registered in the `JsonRPC` object keep the store alive otherwise. A
file is absent, short or whole. `attached` are the writers whose stream still
leads to the file in the directory: a removal detaches them. A kill or a full
disk leaves a file short, and the next process takes it for whole as it exists.
That is what the code does, so the properties speak of processes that nobody has
got in the way of. `disturbed` is the history of the others: a removal ran
during their life, or they started on a file left short.

### ClInfo, DiagnosticsParser, Completion, Locations

These are the pure parts, as operators. A device in `ClInfo` is what its driver
answers, and the queries that fail instead. `GetDevices` loses a device whose
version cannot be read, and those behind it on its platform, because the
exception leaves `std::transform`; what was appended stays. The listing loses a
property that cannot be read, but three failures are caught by nobody and abort
`clinfo`: extensions of a platform that cannot be read, a device of which no
property can be read (a null where the code expects an object), both
`JsonThrows`, and text of a driver that is not UTF-8, `DumpThrows`. A line of a build log
in `DiagnosticsParser` is its form, its severity and its number. `Completion`
has tokens as the lexer cuts them and libclang's results as chunks, whose text may
be missing; texts are sequences of letters, because prefixes are compared. The
inserted text is built chunk by chunk with the counter `placeholderIndex`, as in
the code (`InsertChunk`). `Locations` has the cursors
of a unit in the order they are visited, with what libclang says of each; the
cursor of a type without declaration (`NoDecl`) is not the null cursor, which
`typedef.cpp:50` tests for.

### Commands

One process after another, each a subcommand. `machine` is what the drivers
answer; it may change between any two steps, so the device a diagnostics command
selects automatically, the one it finds by identifier and the listing the
identifier was taken from may all come from different machines. `device`,
`buildOptions` and `maxNumberOfProblems` are those of `Diagnostics`, whose
operators are used through the instance `Settings`; a step stands for each setter
that the command calls. `Build` fails freely or yields any log. The queries parse
the kernel, successfully or not, and print what the algorithms find.

## Runs

| Run | Question | Result |
| --- | --- | --- |
| `store` | Are handles live, disposed once and never leaked; is every unit fresh; does the store implement `UnitCache`? | holds |
| `store_reparse` | Are open documents parsed again when options change, as `translation.cpp:279` says? | no: units and texts are dropped until the next edit |
| `config` | With a client that answers in order: is the queue of requests never stuck, do build options follow the device, and do announced settings come into effect? | holds |
| `config_devices` | While devices come and go, settings are malformed and replies repeated and out of order: does selection do what was asked, do translation options follow the device, is no reply applied twice or out of the order of the requests? | holds |
| `config_out_of_order` | Is the configured device used (`README.md:45`) by a client that answers out of order? | no: of two swapped replies the second is dropped and its request blocks the queue for ever |
| `rpc` | Messages of every kind, malformed ones included: can a body always end, is nothing but protocol errors sent until `initialize` is answered, delivery in order, each queued response written once and in order, none lost at exit or interrupt, progress | holds, but for responses that are not UTF-8 |
| `rpc_parse_error` | Are parse errors reported only for invalid JSON (`jsonrpc.hpp:23`)? | no: well-formed messages after a bad one are refused |
| `handlers` | Requests among edits and changes of settings: one answer each, unless the parameters throw or the answer is not UTF-8, computed in the text of the moment the editor asked; published problems catch up; a resolved item is the one shown | holds when keys differ |
| `handlers_keys` | Does a resolve return the details of the item it names (`lsp.cpp:453`) for any labels? | no: `float4` at 1 and `float` at 41 share a key |
| `headers` | Three processes on one directory: does an undisturbed one parse with headers that are whole or being written, does an undisturbed removal leave nothing? | holds |
| `commands` | Is the device a command works with one that `clinfo` lists, and a listed device the one selected by its identifier, built for with its version; are the first problems reported; are completions, definitions, declarations and type definitions the right ones? | holds, with the exceptions below |
| `commands_trigger` | Does a completion triggered by `.`, as announced, offer members? | no: the dot is taken for the prefix |

`store_reparse` is the consequence a user notices: after a change of
`deviceID`, completion and navigation answer nothing in an open document until it
is edited. `config_out_of_order` needs a client that answers two requests in the
other order, which JSON-RPC allows: the reply to the second request is dropped
because the first is outstanding, the reply to the first is applied, and the
second request then stays at the head of the queue. `rpc_parse_error` can repeat for the rest of
the session, as the length is never reset before a slice of exactly that length
is a message. `commands_trigger` means that members are only offered after the
first letter behind the dot.

The properties of `commands` have exceptions, each of which is what the code does:

* `SelectedIsListed`: a device whose OpenCL version cannot be read, and the
  devices behind it on its platform, are listed by `clinfo` and selected by
  nobody. Devices with equal identifiers are interchangeable.
* `BuiltForItsDevice`: `diagnostics -d` without `-b` completes no options, so
  the kernel is built with the `-cl-std` of the device selected automatically.
* `UsedIsListed`: it compares with a listing that was printed, for the machine as
  it was then. The failures that abort `clinfo` (see `ClInfo` above) print none.
* `TypeDefinitionIsTheTag`: behind a typedef of a typedef the answer is the inner
  typedef, and behind a typedef of a built-in type there is none, although the
  comment at `typedef.cpp:36` follows the typedef only when there is something
  to find; the test at line 50 is never true.

### Bounds

* `store*`: two files, two texts, two option lists, two units and two indexes.
  A file has at most one of each, so a third is never needed; two files are
  enough for an operation on one to disturb another, and to share a handle.
  Handles are interchangeable and reduced by symmetry.
* `config*`: three changes of the settings, so that up to three requests are
  outstanding; one failing and one repeated reply, none of either in
  `config_out_of_order`.
  Integers have 4 bits for `int` and 6 for `uint64_t`; the settings contain a
  negative limit and an identifier that only matches after the cast. Three
  devices, two of them with the same identifier. `config` has complete settings
  and a client of any capabilities; `config_devices` settings with parts of the
  wrong type or missing, for a client that never registers.
* `rpc`: three messages of every kind, bodies of one and two units, garbage of
  one to three, so that the next message is cut inside its header, inside its
  body and exactly at its end; lengths that are zero or no number.
* `handlers*`: two files, so that an answer could come from the other one; two
  texts and three requests, which suffice for a completion, an edit, a second
  completion and a resolve of an item of the first; two messages on the way to
  the server (`MaxInFlight`), so that the editor is ahead of it. The editor has
  read all it was sent when it sends again (`MaxUnread`): sending before an answer
  is read leads to the same states as sending before the server handled the
  request, because the two pipes only meet in the server's step, and that order is
  in the run, up to `MaxInFlight`. One option list, as settings that arrive drop the units even when
  they are the same. One suggestion in `handlers`, two with equal keys in
  `handlers_keys`. So `handlers` is about the
  lifetime of the cache and `handlers_keys` about its keys.
* `headers`: three processes, so that one may remove while another writes and a
  third starts; two headers, so that the directory is incomplete in between; two
  kills or failing writes. A process runs once, a new one takes its place.
* `commands*`: machines of one or two platforms with up to three devices, of which
  each may fail in each kind of query, one fails in all of them, and one has text
  that is not UTF-8, as has one platform; one change of the machine, so that the
  listing, the first selection or the second is out of date. Results with several
  placeholders, among them one without text in front of others. Logs of up to
  five lines with limits of zero, two and more than there are. Every column of a
  line with a name, a dot, a name and a blank, and every cursor of a unit with a
  struct, three typedefs, a prototype, a built-in and their uses.

The deadlock check is off in the `config`, `rpc` and `headers` runs, because the
system may stop there: the client has changed its settings often enough, or the
processes have ended. It is on in the `store`, `handlers` and `commands` runs.

### Fairness

`Configuration!FairSpec` lets the server take the next message whenever there is
one, which `LSPServer::Run` does as nothing else runs in the process, and lets
the client read and answer. No fairness is assumed of changing settings, of the
devices, or of failing and repeating answers. `JsonRpc!FairSpec` lets the process
take its next step; the client need not send and nobody need interrupt. The other
modules have no liveness properties and no fairness.

## Proofs

Every safety invariant and action property that a passing run checks is also a
theorem, for every value of the constants that meets the named assumptions
(`ASSUME`) of the modules: any number of files, devices, messages, processes and
requests, any widths, any logs and lines. The assumptions say what the code can
meet: what a JSON value or a driver's answer can be, that bounds are natural
numbers, that markers such as `NoDevice` are none of the things they mark. Where
a theorem needs more, that is a named hypothesis in its statement, and given here.

### TranslationUnitStore

* `TypeCorrect`, `HandlesAreLive`: the invariant `HandlesLive` is not inductive,
  as an entry could share a handle with a unit that is about to be created; the
  proof strengthens it with the types (`Ownership`) and follows one triple of map,
  units and indexes through the operations (`Sound`, `FullParseSound`,
  `DisposeSound`), because a failed reparse goes through a state between two
  operations that no variable shows.
* `UnitsAreFresh`, `NothingLeaks`, `StoreImplementsCache`: under
  `EditorReopens = FALSE`. An editor that reopens leaks, so the hypothesis is
  needed. The refinement maps each handler to `Edit`, `Close` or `Configure`, or
  to a step that changes nothing a reader sees.

### Configuration

* `TypeCorrect`: from `Shape` (what is on the way has the form of a message),
  `Values` (device, options, limit and translation options), `Numbered` (requests
  and replies carry identifiers that were issued) and `Flags`. The limit is within
  its width because the conversions of `lsp.cpp` are taken modulo theirs.
* `StoreFollows`, `RepliesApplyInOrder`: for every client, also one that repeats
  and swaps replies. `Pending` says that the outstanding requests are the last ones
  issued, in order, and `Applied` that all requests whose replies were applied are
  older: what `OnRespond` applies answers the oldest outstanding request, hence a
  younger one than any applied before.
* `BuildFollows`: for clients whose settings have a list of build options and an
  integer device (`CompleteSettings`). Without that it is false: a device that
  changes without options leaves the old `-cl-std` in them.
* `SelectionKeepsContract`: for any request and any devices, with the numbers
  converted as in the code.
* `NothingIsStuck`: for clients that answer in order (`InOrderReplies`);
  `config_out_of_order` shows that it is needed. The invariant `InFlight` joins
  the requests the client still has to answer (`AskedInOrder`: in order, without
  gaps, behind the last one answered), the replies on the way (`RepliedInOrder`: in
  the order of their requests, some twice) and `m_requests` (`Pending`).
* `QuietIsCurrent`: for such clients, with settings that are complete and whose
  limit fits an `int` (`FullSettings`), and devices that stay (`StablePlatforms`);
  these are the clients of the run `config`. The invariant `Current` says what is
  left to be done until the client's settings are in effect (`Converging`): a
  change to be read, a request to be answered, an answer to be applied, or
  nothing.

### JsonRpc

* `BodiesEnd`: the comparison that ends a body is by equality, so one unit too
  many would never be noticed. `BodyIncomplete` holds in every step of the loop,
  not only while it waits for a character.
* `StopsClean`: by `QueueDrained` and `ShutdownTakenUp`: the queue is empty
  whenever the loop reads, and success is reported only when a `shutdown` was taken
  up.
* `ResponsesAreWrittenOnce`: the invariant `Answering`. At most one message is
  queued, and it responds to the message taken up last, behind all that are
  responded to already (`InTurn`, which needs `TakenInOrder` below); responses are
  to messages whose handler queued one (`Warranted`); and such a message has its
  response queued, written, or lost because it cannot be dumped (`Owed`).
* `InitializeComesFirst`: by `Begun`. Before `m_initialized` is set nothing but
  protocol errors is written and nothing is queued; afterwards every other message
  written has behind it an `initialize` whose response, if it has one, was written
  earlier (`Greeted`). That this response is first rests on `Answering` and on the
  queue being empty when the next message is taken up.
* `MessagesAreDelivered`: the refinement of `Delivery`. `FramesInOrder` says that
  what is left of the input is a well-formed sequence of units; `InSync` says, for
  the message the parser is in, how the parser's state agrees with the units
  consumed, provided all messages before it were good; with it, `TakenInOrder` and
  `NoneSkipped` say that the messages taken up from a good prefix are its first
  ones. Most of the module is the proof that `InSync` is inductive: after a bad
  body the parser may be anywhere, and nothing is claimed.

### LspHandlers

One invariant, `Inv`, has what the five theorems need. Requests on the way are in
order and none is passed over (`Increasing`, `NoneSkipped`); the texts on the way
are those of the editor at the time it asked (`InOrder`: what a handler will see
when it comes to its turn, given all edits in front of it); problems on the way
end in those of the last text handled (`ProblemsInOrder`); answers fit their
requests (`AnswersFit`), are there once (`Once`), and the requests in `unwritten`
were handled, had parameters that convert, and have none (`Lost`); the cache has each item under
its key and is that of the last completion handled (`KeysKept`, `CacheIsLast`).

* `TypeCorrect`, `EveryRequestIsAnsweredOnce`, `AnswersAreOfTheText`,
  `ProblemsCatchUp`: without hypotheses.
* `ResolvesTheItemShown`: if no two suggestions have equal keys (`KeysDiffer`);
  `handlers_keys` shows that the code does not see to that.

### HeaderCache

`EveryHeaderReady` and `RemovalLeavesNothing` rest on one invariant,
`Undisturbed`: beside a process that nobody has got in the way of, nobody
removes, and every short file has a writer that is completing it (`Sheltered`);
every header behind it in the loop is there or about to be created by it
(`Covered`); and a removal that nobody saw has no other process beside it and
every file that is left on its list (`Alone`).

### Commands

* `TypeCorrect`, `UsesWhatIsListed`, `ListedIsSelected`, `BuildsForItsDevice`: the
  invariant `Chosen` says what a diagnostics command has settled at each step, and
  that while the machine is as it was listed, its device is one that `GetDevices`
  returns, and the one given if it is to be had. `UsesWhatIsListed` follows with
  the lemmas that `GetDevices` returns devices of the machine and `Json` lists
  every device of a platform that names its devices; `ListedIsSelected` with the
  lemma that `GetDevices` returns every device in front of the first failing one on
  its platform. `BuildsForItsDevice` claims nothing of `-d` without `-b`.
* `FindsTheDefinition`, `FindsTheFirstDeclaration`, `FindsTheTag`,
  `ReportsTheFirstProblems`, `ListsWhatMatches`, `NumbersTabStops`: the invariant
  `Printed` says that the output is the operator applied to the request, and the
  rest is about the operators. They visit cursors, lines, results and chunks in a
  loop, which the models write as `FlattenSeq` and folds. Induction is not at hand
  as a rule, so these proofs take the least element of a sequence for which a claim
  fails, which well-foundedness of the naturals provides, and find a smaller one.
  `NumbersTabStops` does so with the chunks in front of one: what they have built
  has a stop for each placeholder with text among them, and the counter is one
  more than their number (`InsertTextNumbersParameters`).
* The assumptions are about the other side: identifiers and limits on the command
  line are unsigned, a use of a thing is no definition of it, a thing has at most
  one definition in a unit, `Nothing` is none of the things printed.
* `FindsTheFirstDeclaration` has the hypothesis `LocatedTogether`: either every
  declaration of a thing has a location or none has. What the compiler declares by
  itself and the kernel declares again is the exception: the canonical cursor is
  the compiler's, which has no location, and `declaration` answers nothing.

### Only model-checked

The liveness properties `Convergence`, `EventuallyTakenUp` and `InterruptStops`
are beyond the prover; TLC checks them in `config` and `rpc`. The properties of
the runs that expect a violation have a counterexample instead.

## Plan

All that the runs check and the prover reaches is proved. What can still be
gained is in the hypotheses: `QuietIsCurrent` for devices that come and go, with
the platforms as they were when the settings were applied; `BuildFollows` for
clients that send options with a change of the device only. Each needs a property
that says what then holds, and a run for it first.

## Not modelled, and why

* A second `initialize`, which the code serves like the first, and requests after
  `shutdown`, which it serves as before: no document says what they should do.
* Withdrawing published problems: when a build fails, or its result is not UTF-8,
  the code leaves the problems of an older text in place and
  `DiagnosticsCatchUp` excludes that text. Two processes that unpack headers at
  once without a lock, and a removal beside them, are modelled, and their harm is
  excluded from `HeadersReady` and `RemovalIsComplete`, as is a header found short.
* Whether an unregistered notification should be answered: `jsonrpc.hpp:41` says
  that all are, with `MethodNotFound`, and `jsonrpc.cpp:337` leaves out those whose
  method begins with `$/`. The model does as the code (`MustRespond`); no property
  says which is meant.
* The parts of a message while it is written to standard output, into which the
  signal handler may write.
* What the values of a device's properties are called (`clinfo.cpp` from line 228
  on has a case for each type): a property is shown or not.
* The arithmetic of line and column numbers in `location.cpp`, the tables printed
  without `--json`, the trace flags of `jsonrpc.cpp`, which nothing uses.
* Logging, formatting, URI and path conversion in `utils.cpp`, and the build
  tooling. They are pure functions or pure I/O and keep no state.
