---------------------------- MODULE LspHandlers ----------------------------
(***************************************************************************)
(* The handlers of src/src/lsp.cpp for documents, navigation, completion   *)
(* and resolve, between the two pipes to the editor.  Module JsonRpc shows *)
(* that messages are taken up one by one and in order, and module          *)
(* TranslationUnitStore that the store implements UnitCache, so a handler  *)
(* is one step here and the store is UnitCache: it hands out nothing, or a *)
(* unit of the latest text it was given.                                   *)
(*                                                                         *)
(* The editor does not wait for answers: it edits, changes settings, asks  *)
(* for completions and resolves an item it shows while answers to earlier  *)
(* requests are on the way.                                                *)
(***************************************************************************)
EXTENDS Integers, Sequences, FiniteSets, TLC

CONSTANTS
    Files,
    MaxEdits,     \* bound: texts the editor sends, numbered in that order
    MaxRequests,  \* bound: requests the editor sends
    MaxInFlight,  \* bound: messages the server has not taken, with the one being sent
    MaxUnread,    \* bound: messages the editor has not read when it sends one
    Options,      \* translation options
    Suggestions,  \* the [label, index] that libclang completes every text with
    NoContent, NoParse, NoItem

Contents == 1 .. MaxEdits

ASSUME BoundsAssumption == MaxEdits \in Nat /\ MaxRequests \in Nat /\ MaxInFlight \in Nat
                            /\ MaxUnread \in Nat
ASSUME NothingAssumption == NoContent \notin Contents
\* The index is the position of an item in libclang's result.
ASSUME SuggestionsAssumption ==
    /\ \E last \in {0} \cup {s.index : s \in Suggestions} :
         last \in Nat /\ \A s \in Suggestions : s.index \in 0 .. last
    /\ \A s, t \in Suggestions : s.index = t.index => s = t

VARIABLES
    \* The store, as UnitCache.
    document, options, view,
    \* LSPServerEventsHandler.
    completionCache,  \* m_completionCache: key -> item
    \* The pipes.
    toServer, toClient,
    \* The editor.
    text,         \* each document's text in the editor
    edits,        \* how many texts it sent
    asked,        \* the requests it sent; the n-th has id n
    shown,        \* the items of the last completion it received
    diagnostics,  \* the text of each file that the problems it shows belong to
    \* History.
    answers,      \* the messages the server sent that carry a request's id
    unwritten,    \* the requests whose answers were queued and could not be written
    failedBuilds  \* the texts whose problems could not be found or written

storeVars == <<document, options, view>>
serverVars == <<storeVars, completionCache>>
editorVars == <<text, edits, asked, shown, diagnostics>>
vars == <<serverVars, toServer, toClient, editorVars, answers, unwritten, failedBuilds>>

Store == INSTANCE UnitCache

\* A CompletionResult: what identifies it, and the text its details describe.
Items == {[label |-> s.label, index |-> s.index, content |-> c] : s \in Suggestions, c \in Contents}

Kinds == {"location", "completion", "resolve"}
Requests ==
    [kind : {"location", "completion"}, file : Files, content : Contents \cup {NoContent},
     valid : BOOLEAN]
      \cup [kind : {"resolve"}, item : Items, valid : BOOLEAN]
Answers ==
    [type : {"location"}, id : Nat, content : Contents \cup {NoContent}]
      \cup [type : {"completion"}, id : Nat, items : SUBSET Items]
      \cup [type : {"resolve"}, id : Nat, item : Items \cup {NoItem}]
Messages == Answers \cup [type : {"error"}]
              \cup [type : {"diagnostics"}, file : Files, content : Contents]

TypeOK ==
    /\ document \in [Files -> Contents \cup {NoContent}] /\ options \in Options
    /\ \A f \in Files : view[f] \in {NoParse, Store!Parsed(f, document[f], options)}
    /\ \A k \in DOMAIN completionCache : completionCache[k] \in Items
    /\ toClient \in Seq(Messages) /\ answers \in Seq(Answers)
    /\ text \in [Files -> Contents \cup {NoContent}] /\ edits \in 0 .. MaxEdits
    /\ asked \in Seq(Requests) /\ shown \in SUBSET Items
    /\ diagnostics \in [Files -> Contents \cup {NoContent}]
    /\ unwritten \in SUBSET (1 .. Len(asked)) /\ failedBuilds \in SUBSET Contents

Init ==
    /\ Store!Init
    /\ completionCache = <<>>
    /\ toServer = <<>> /\ toClient = <<>>
    /\ text = [f \in Files |-> NoContent] /\ edits = 0
    /\ asked = <<>> /\ shown = {}
    /\ diagnostics = [f \in Files |-> NoContent]
    /\ answers = <<>> /\ unwritten = {} /\ failedBuilds = {}

-----------------------------------------------------------------------------
(* The server. *)

Receive(type) ==
    /\ toServer # <<>>
    /\ Head(toServer).type = type
    /\ toServer' = Tail(toServer)
    /\ UNCHANGED editorVars

\* An error carries no id.
Error == [type |-> "error"]

Answer(a) ==
    /\ toClient' = Append(toClient, a)
    /\ answers' = Append(answers, a)

\* A response is queued and written, unless it carries text of the sources that is
\* not UTF-8: then dump throws in JsonRPC::Write, and it is logged and dropped.
Respond(a, ofSources) ==
    \/ Answer(a) /\ UNCHANGED unwritten
    \/ /\ ofSources
       /\ unwritten' = unwritten \cup {a.id}
       /\ UNCHANGED <<toClient, answers>>

\* Fault: a text without a translation unit is not built.
BuildDiagnosticsOfUnit(f, c) ==
    /\ toClient' = IF view'[f] = NoParse THEN toClient
                   ELSE Append(toClient, [type |-> "diagnostics", file |-> f, content |-> c])
    /\ UNCHANGED failedBuilds

\* BuildDiagnosticsRespond: the problems of the text in the message, or an error
\* when there is no device or the driver fails.  Problems that are not valid UTF-8
\* cannot be written.
BuildDiagnosticsRespond(f, c) ==
    \/ /\ toClient' = Append(toClient, [type |-> "diagnostics", file |-> f, content |-> c])
       /\ UNCHANGED failedBuilds
    \/ /\ toClient' \in {Append(toClient, Error), toClient}
       /\ failedBuilds' = failedBuilds \cup {c}

\* Fault: a text that replaces another is built and not parsed.
OnTextKeepingUnit ==
    LET m == Head(toServer) IN
    /\ Receive("didOpen") \/ Receive("didChange")
    /\ IF view[m.file] = NoParse THEN Store!Edit(m.file, m.content)
       ELSE /\ document' = [document EXCEPT ![m.file] = m.content]
            /\ UNCHANGED <<options, view>>
    /\ BuildDiagnosticsRespond(m.file, m.content)
    /\ UNCHANGED <<completionCache, answers, unwritten>>

\* OnTextOpen and OnTextChanged.
OnText ==
    LET m == Head(toServer) IN
    /\ Receive("didOpen") \/ Receive("didChange")
    /\ Store!Edit(m.file, m.content)
    /\ BuildDiagnosticsRespond(m.file, m.content)
    /\ UNCHANGED <<completionCache, answers, unwritten>>

OnTextClose ==
    /\ Receive("didClose")
    /\ Store!Close(Head(toServer).file)
    /\ UNCHANGED <<completionCache, toClient, answers, unwritten, failedBuilds>>

\* A reply to workspace/configuration: ConfigureCompletion.
OnRespond ==
    /\ Receive("configuration")
    /\ Store!Configure(Head(toServer).options)
    /\ UNCHANGED <<completionCache, toClient, answers, unwritten, failedBuilds>>

\* Where locations are found: in the text of the unit, or nowhere, as there is
\* no unit or nothing at the cursor.
GetLocations(f) ==
    IF view[f] = NoParse THEN {NoContent} ELSE {NoContent, view[f].content}

\* OnDefinition, OnTypeDefinition, OnDeclaration.  Parameters that cannot be
\* converted throw: an error is written, and then an empty result.  A location
\* names its file as libclang does.
OnLocation ==
    LET n == Head(toServer).id
        r == asked[n]
        Locations(c) == [type |-> "location", id |-> n, content |-> c]
    IN  /\ Receive("request") /\ r.kind = "location"
        /\ IF r.valid
           THEN \E c \in GetLocations(r.file) : Respond(Locations(c), c # NoContent)
           ELSE /\ toClient' = Append(Append(toClient, Error), Locations(NoContent))
                /\ answers' = Append(answers, Locations(NoContent))
                /\ UNCHANGED unwritten
        /\ UNCHANGED <<serverVars, failedBuilds>>

\* CompletionResult::makeKey
MakeKey(label, index) == label \o ToString(index)

\* Completion::GetCompletions: nothing without a unit or a word at the cursor,
\* and otherwise the items libclang suggests that begin with it.
GetCompletions(f) ==
    IF view[f] = NoParse THEN {{}}
    ELSE {{[label |-> s.label, index |-> s.index, content |-> view[f].content] : s \in S} :
            S \in SUBSET Suggestions}

\* Fault: items of earlier completions stay in the cache, and win.
CacheOfAll(items) ==
    completionCache @@
      [k \in {MakeKey(i.label, i.index) : i \in items} |->
         CHOOSE i \in items : MakeKey(i.label, i.index) = k]

\* m_completionCache[key] = item, in the order of the indexes.
CacheOf(items) ==
    [k \in {MakeKey(i.label, i.index) : i \in items} |->
       CHOOSE i \in items :
         /\ MakeKey(i.label, i.index) = k
         /\ \A j \in items : MakeKey(j.label, j.index) = k => j.index <= i.index]

\* Fault: a list that is empty is not worth an answer.
OnCompletionNonEmpty ==
    LET n == Head(toServer).id
        r == asked[n]
    IN  /\ Receive("request") /\ r.kind = "completion"
        /\ \E items \in GetCompletions(r.file) :
             /\ completionCache' = CacheOf(items)
             /\ IF items # {}
                THEN Respond([type |-> "completion", id |-> n, items |-> items], TRUE)
                ELSE UNCHANGED <<toClient, answers, unwritten>>
        /\ UNCHANGED <<storeVars, failedBuilds>>

\* BuildCompletionRespond.  When it throws, the cache is empty and nothing
\* with the id of the request is sent; when the items cannot be written, they
\* are in the cache all the same.
OnCompletion ==
    LET n == Head(toServer).id
        r == asked[n]
    IN  /\ Receive("request") /\ r.kind = "completion"
        /\ IF r.valid
           THEN \E items \in GetCompletions(r.file) :
                  /\ completionCache' = CacheOf(items)
                  /\ Respond([type |-> "completion", id |-> n, items |-> items], items # {})
           ELSE /\ completionCache' = <<>>
                /\ toClient' = Append(toClient, Error)
                /\ UNCHANGED <<answers, unwritten>>
        /\ UNCHANGED <<storeVars, failedBuilds>>

\* ResolveCompletion.  NoItem stands for the item as the editor sent it.  An item
\* of the cache comes with the comment in front of its declaration.
OnResolveCompletion ==
    LET n == Head(toServer).id
        r == asked[n]
        key == MakeKey(r.item.label, r.item.index)
        Resolved(item) == [type |-> "resolve", id |-> n, item |-> item]
    IN  /\ Receive("request") /\ r.kind = "resolve"
        /\ IF r.valid
           THEN IF key \in DOMAIN completionCache
                THEN Respond(Resolved(completionCache[key]), TRUE)
                ELSE Respond(Resolved(NoItem), FALSE)
           ELSE toClient' = Append(toClient, Error) /\ UNCHANGED <<answers, unwritten>>
        /\ UNCHANGED <<serverVars, failedBuilds>>

-----------------------------------------------------------------------------
(* The editor. *)

Send(m) ==
    /\ Len(toServer) < MaxInFlight /\ Len(toClient) <= MaxUnread
    /\ toServer' = Append(toServer, m)
    /\ UNCHANGED <<serverVars, toClient, answers, unwritten, failedBuilds>>

Edit(f) ==
    /\ edits < MaxEdits
    /\ edits' = edits + 1
    /\ text' = [text EXCEPT ![f] = edits']
    /\ Send([type |-> IF text[f] = NoContent THEN "didOpen" ELSE "didChange",
             file |-> f, content |-> edits'])
    /\ UNCHANGED <<asked, shown, diagnostics>>

Close(f) ==
    /\ text[f] # NoContent
    /\ text' = [text EXCEPT ![f] = NoContent]
    /\ Send([type |-> "didClose", file |-> f])
    /\ UNCHANGED <<edits, asked, shown, diagnostics>>

\* The user changes the settings, and the editor replies with them; bound: one
\* such reply at a time.
ChangeSettings(o) ==
    /\ Send([type |-> "configuration", options |-> o])
    /\ \A i \in DOMAIN toServer : toServer[i].type # "configuration"
    /\ UNCHANGED editorVars

Request(r) ==
    /\ Len(asked) < MaxRequests
    /\ asked' = Append(asked, r)
    /\ Send([type |-> "request", id |-> Len(asked')])
    /\ UNCHANGED <<text, edits, shown, diagnostics>>

Ask(kind, f, valid) ==
    /\ text[f] # NoContent
    /\ Request([kind |-> kind, file |-> f, content |-> text[f], valid |-> valid])

Resolve(item, valid) == Request([kind |-> "resolve", item |-> item, valid |-> valid])

EditorReceives ==
    LET m == Head(toClient) IN
    /\ toClient # <<>>
    /\ toClient' = Tail(toClient)
    /\ shown' = IF m.type = "completion" THEN m.items ELSE shown
    /\ diagnostics' = IF m.type = "diagnostics" THEN [diagnostics EXCEPT ![m.file] = m.content]
                      ELSE diagnostics
    /\ UNCHANGED <<serverVars, toServer, text, edits, asked, answers, unwritten, failedBuilds>>

Server == \/ OnText \/ OnTextClose \/ OnRespond
          \/ OnLocation \/ OnCompletion \/ OnResolveCompletion
Editor == \/ \E f \in Files : Edit(f) \/ Close(f)
          \/ \E o \in Options : ChangeSettings(o)
          \/ \E kind \in {"location", "completion"}, f \in Files, valid \in BOOLEAN :
               Ask(kind, f, valid)
          \/ \E item \in shown, valid \in BOOLEAN : Resolve(item, valid)
          \/ EditorReceives
Next == Server \/ Editor

Spec == Init /\ [][Next]_vars
-----------------------------------------------------------------------------
(* Properties. *)

AnswersTo(n) == {i \in DOMAIN answers : answers[i].id = n}
Handled(n) == \A i \in DOMAIN toServer : toServer[i].type = "request" => toServer[i].id # n

\* Every request gets exactly one answer with its id, as soon as it is handled.
\* None is for completions and resolves with parameters that throw (lsp.cpp:433,
\* 462) and for answers, to good requests only, that could not be written
\* (jsonrpc.cpp:152): an editor that waits for those waits for ever.
AnsweredOnce ==
    \A n \in DOMAIN asked :
        /\ Cardinality(AnswersTo(n)) =
             IF Handled(n) /\ n \notin unwritten /\ (asked[n].valid \/ asked[n].kind = "location")
             THEN 1 ELSE 0
        /\ n \in unwritten => Handled(n) /\ asked[n].valid

\* Locations and completions are computed in the text that the editor had when
\* it asked, or there are none: no answer mixes an older or a newer text in.
AnswersSeeTheText ==
    \A i \in DOMAIN answers :
        LET a == answers[i] IN
        /\ a.type = "location" => a.content \in {NoContent, asked[a.id].content}
        /\ a.type = "completion" => \A item \in a.items : item.content = asked[a.id].content

\* When everything sent was received, the problems shown for an open document
\* are those of its text, unless they could not be found or written.
DiagnosticsCatchUp ==
    toServer = <<>> /\ toClient = <<>> =>
        \A f \in Files : text[f] \in {NoContent, diagnostics[f]} \cup failedBuilds

\* The completion whose items the editor showed, if no other one has been asked
\* for since: resolve requests sent after it must find its items.
LastCompletionBefore(n) ==
    LET C == {k \in 1 .. n - 1 : asked[k].kind = "completion"}
    IN  IF C = {} THEN 0 ELSE CHOOSE k \in C : \A j \in C : j <= k
ShowsItemsOf(k, item) ==
    \E i \in DOMAIN answers :
        /\ answers[i].id = k /\ answers[i].type = "completion"
        /\ item \in answers[i].items

\* lsp.cpp:453, in ResolveCompletion: "Return full completion item with all
\* details".  An item of the last completion resolves to that item; an item of an
\* earlier one to itself, or to the item with its label and index in the last.
ResolvedItemIsTheOneShown ==
    \A i \in DOMAIN answers :
        LET a == answers[i]
            item == asked[a.id].item
        IN  a.type = "resolve" =>
              /\ a.item # NoItem => a.item.label = item.label /\ a.item.index = item.index
              /\ ShowsItemsOf(LastCompletionBefore(a.id), item) => a.item = item
=============================================================================
