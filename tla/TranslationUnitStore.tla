----------------------- MODULE TranslationUnitStore -----------------------
(***************************************************************************)
(* src/src/translation.cpp: the store that owns libclang's translation     *)
(* units and the text they were parsed from.  One store serves the         *)
(* language server for its whole life; main.cpp saves the headers and sets *)
(* the options before the first message is read.                           *)
(*                                                                         *)
(* libclang and the editor are outside the repository.  Of libclang the    *)
(* store sees opaque handles it must dispose exactly once, and parses that *)
(* succeed or fail; `clangUnits` and `clangIndexes` are libclang's side of *)
(* those handles.  Of the editor it sees didOpen, didChange and didClose.  *)
(***************************************************************************)
EXTENDS FiniteSets

CONSTANTS
    Files,          \* paths of documents (URIs after UriToFilePath)
    Contents,       \* texts of documents
    OptionLists,    \* lists passed to SetTranslationOptions
    UnitHandles,    \* CXTranslationUnit values
    IndexHandles,   \* CXIndex values
    ParseResults,   \* the outcomes of clang_(re)parseTranslationUnit
    EditorReopens,  \* whether an editor may send didOpen for an open document
    NoContent,      \* a path absent from m_fileContents, a document not open
    NoUnit,         \* a path absent from m_translationUnits
    Disposed        \* a handle libclang has not handed out

ASSUME OutcomesAssumption == ParseResults \subseteq {"success", "failure"}
ASSUME ReopensAssumption == EditorReopens \in BOOLEAN
ASSUME NoContentAssumption == NoContent \notin Contents
ASSUME NoUnitAssumption == NoUnit \notin [tu : UnitHandles, index : IndexHandles]

\* m_args: the list given and whether the flags of the saved headers follow it.
Args == [list : OptionLists \cup {<<>>}, headers : BOOLEAN]

Parses == [file : Files, content : Contents, args : Args]

ASSUME DisposedAssumption == Disposed \notin Parses

VARIABLES
    \* The members of TranslationUnitStore.
    fileContents,   \* m_fileContents
    units,          \* m_translationUnits
    args,           \* m_args
    headersDir,     \* whether m_headersDir has a value
    \* libclang.
    clangUnits,     \* what each live translation unit was parsed from
    clangIndexes,   \* the live indexes
    \* Around the store.
    document,       \* each document's text, from the notifications so far
    onDisk,         \* the paths for which fs::exists holds
    serving         \* LSPServer::Run has been entered

storeVars == <<fileContents, units, args, headersDir>>
clangVars == <<clangUnits, clangIndexes>>
vars == <<fileContents, units, args, headersDir, clangUnits, clangIndexes,
          document, onDisk, serving>>

TypeOK ==
    /\ fileContents \in [Files -> Contents \cup {NoContent}]
    /\ units \in [Files -> [tu : UnitHandles, index : IndexHandles] \cup {NoUnit}]
    /\ args \in Args
    /\ headersDir \in BOOLEAN
    /\ clangUnits \in [UnitHandles -> Parses \cup {Disposed}]
    /\ clangIndexes \in SUBSET IndexHandles
    /\ document \in [Files -> Contents \cup {NoContent}]
    /\ onDisk \in SUBSET Files
    /\ serving \in BOOLEAN

Init ==
    /\ fileContents = [f \in Files |-> NoContent]
    /\ units = [f \in Files |-> NoUnit]
    /\ args = [list |-> <<>>, headers |-> FALSE]
    /\ headersDir = FALSE
    /\ clangUnits = [t \in UnitHandles |-> Disposed]
    /\ clangIndexes = {}
    /\ document = [f \in Files |-> NoContent]
    /\ onDisk \in SUBSET Files
    /\ serving = FALSE

-----------------------------------------------------------------------------
(* The operations of the store. *)

\* The files that have a translation unit, in any value u of `units`.
WithUnit(u) == {f \in Files : u[f] # NoUnit}

\* clang_disposeTranslationUnit and clang_disposeIndex for the entries of fs.
DisposedUnits(fs) ==
    [t \in UnitHandles |-> IF \E f \in fs : units[f].tu = t THEN Disposed ELSE clangUnits[t]]
\* Fault: clang_disposeIndex is forgotten.
DisposedIndexesLeaking(fs) == clangIndexes
DisposedIndexes(fs) == clangIndexes \ {units[f].index : f \in fs}

\* Fault: the error code is not checked, and a null unit enters the map.
FullParseUnchecked(f, c, u, ts, is) ==
    \E i \in IndexHandles \ is :
      /\ units' = [u EXCEPT ![f] = [tu |-> NoUnit, index |-> i]]
      /\ clangUnits' = ts
      /\ clangIndexes' = is \cup {i}

\* A full parse of text c, from the map u and libclang's state ts, is.  A
\* failed parse disposes the index just created; a path that is not on disk is
\* not parsed; either way the map keeps what it had.
FullParse(f, c, u, ts, is) ==
    \/ /\ f \in onDisk
       /\ "success" \in ParseResults
       /\ \E t \in UnitHandles, i \in IndexHandles \ is :
            /\ ts[t] = Disposed
            /\ units' = [u EXCEPT ![f] = [tu |-> t, index |-> i]]
            /\ clangUnits' = [ts EXCEPT ![t] = [file |-> f, content |-> c, args |-> args]]
            /\ clangIndexes' = is \cup {i}
    \/ /\ f \notin onDisk \/ "failure" \in ParseResults
       /\ units' = u
       /\ clangUnits' = ts
       /\ clangIndexes' = is

OnFileOpen(f, c) ==
    /\ fileContents' = IF f \in onDisk THEN [fileContents EXCEPT ![f] = c] ELSE fileContents
    /\ FullParse(f, c, units, clangUnits, clangIndexes)
    /\ UNCHANGED <<args, headersDir>>

\* clang_reparseTranslationUnit: the unit keeps the arguments it was created with.
Reparse(f, c) ==
    /\ "success" \in ParseResults
    /\ clangUnits' = [clangUnits EXCEPT ![units[f].tu].content = c]
    /\ UNCHANGED <<units, clangIndexes>>

\* Fault: the entry of the unit that could not be reparsed stays in the map.
ReparseFailsKeepingEntry(f, c) ==
    /\ "failure" \in ParseResults
    /\ FullParse(f, c, units, DisposedUnits({f}), DisposedIndexes({f}))

\* A failed reparse drops the entry and falls back on a full parse.
ReparseFails(f, c) ==
    /\ "failure" \in ParseResults
    /\ FullParse(f, c, [units EXCEPT ![f] = NoUnit], DisposedUnits({f}), DisposedIndexes({f}))

OnFileChange(f, c) ==
    /\ fileContents' = [fileContents EXCEPT ![f] = c]
    /\ \/ units[f] = NoUnit /\ FullParse(f, c, units, clangUnits, clangIndexes)
       \/ units[f] # NoUnit /\ (Reparse(f, c) \/ ReparseFails(f, c))
    /\ UNCHANGED <<args, headersDir>>

\* Fault: closing a document forgets its text and not its unit.
OnFileCloseKeepingUnit(f) ==
    /\ fileContents' = [fileContents EXCEPT ![f] = NoContent]
    /\ UNCHANGED <<units, clangUnits, clangIndexes, args, headersDir>>

OnFileClose(f) ==
    /\ fileContents' = [fileContents EXCEPT ![f] = NoContent]
    /\ units' = [units EXCEPT ![f] = NoUnit]
    /\ clangUnits' = DisposedUnits({f} \cap WithUnit(units))
    /\ clangIndexes' = DisposedIndexes({f} \cap WithUnit(units))
    /\ UNCHANGED <<args, headersDir>>

DestroyTranslationUnits ==
    LET fs == WithUnit(units) IN
    /\ fileContents' = [f \in Files |-> IF f \in fs THEN NoContent ELSE fileContents[f]]
    /\ units' = [f \in Files |-> NoUnit]
    /\ clangUnits' = DisposedUnits(fs)
    /\ clangIndexes' = DisposedIndexes(fs)

\* Fault: new options leave the units parsed with the old ones in the map.
SetTranslationOptionsOnly(list) ==
    /\ args' = [list |-> list, headers |-> headersDir]
    /\ UNCHANGED <<fileContents, units, clangUnits, clangIndexes, headersDir>>

SetTranslationOptions(list) ==
    /\ args' = [list |-> list, headers |-> headersDir]
    /\ DestroyTranslationUnits
    /\ UNCHANGED headersDir

-----------------------------------------------------------------------------
(* The callers: main.cpp at startup, then the handlers of lsp.cpp. *)

SaveHeaders ==
    /\ ~serving
    /\ headersDir' = TRUE
    /\ UNCHANGED <<fileContents, units, args, clangVars, document, onDisk, serving>>

StartServer(list) ==
    /\ ~serving
    /\ headersDir
    /\ SetTranslationOptions(list)
    /\ serving' = TRUE
    /\ UNCHANGED <<document, onDisk>>

DidOpen(f, c) ==
    /\ serving
    /\ document[f] = NoContent \/ EditorReopens
    /\ document' = [document EXCEPT ![f] = c]
    /\ OnFileOpen(f, c)
    /\ UNCHANGED <<onDisk, serving>>

DidChange(f, c) ==
    /\ serving
    /\ document[f] # NoContent
    /\ document' = [document EXCEPT ![f] = c]
    /\ OnFileChange(f, c)
    /\ UNCHANGED <<onDisk, serving>>

DidClose(f) ==
    /\ serving
    /\ document[f] # NoContent
    /\ document' = [document EXCEPT ![f] = NoContent]
    /\ OnFileClose(f)
    /\ UNCHANGED <<onDisk, serving>>

\* ConfigureCompletion, on the reply to workspace/configuration.
Reconfigure(list) ==
    /\ serving
    /\ SetTranslationOptions(list)
    /\ UNCHANGED <<document, onDisk, serving>>

\* Files appear on and vanish from disk behind the server's back.
DiskChanges ==
    /\ onDisk' \in SUBSET Files
    /\ UNCHANGED <<storeVars, clangVars, document, serving>>

Next ==
    \/ SaveHeaders
    \/ \E list \in OptionLists : StartServer(list) \/ Reconfigure(list)
    \/ \E f \in Files, c \in Contents : DidOpen(f, c) \/ DidChange(f, c)
    \/ \E f \in Files : DidClose(f)
    \/ DiskChanges

Spec == Init /\ [][Next]_vars

-----------------------------------------------------------------------------
(* Properties. *)

\* GetTranslationUnit, with what libclang holds behind the pointer.
Unit(f) == IF units[f] = NoUnit THEN NoUnit ELSE clangUnits[units[f].tu]

\* No use after dispose and no double dispose: every entry of
\* m_translationUnits holds a live unit and a live index, and no two entries
\* share one.  Whatever the editor sends, didOpen of an open document included.
HandlesLive ==
    /\ \A f \in WithUnit(units) :
         clangUnits[units[f].tu] # Disposed /\ units[f].index \in clangIndexes
    /\ \A f, g \in WithUnit(units) :
         (units[f].tu = units[g].tu \/ units[f].index = units[g].index) => f = g

\* No leak: what libclang handed out and was not given back is in the map, so
\* that OnFileClose or DestroyTranslationUnits will dispose it.
NoLeak ==
    /\ \A t \in UnitHandles :
         clangUnits[t] # Disposed => \E f \in WithUnit(units) : units[f].tu = t
    /\ \A i \in clangIndexes : \E f \in WithUnit(units) : units[f].index = i

\* A unit describes the text GetContent returns for the file, that text is the
\* document's latest, and it was parsed with the current arguments: completion
\* and the location handlers combine the three.
Fresh ==
    /\ \A f \in WithUnit(units) :
         Unit(f) = [file |-> f, content |-> fileContents[f], args |-> args]
    /\ \A f \in Files : fileContents[f] \in {document[f], NoContent}

\* The store implements UnitCache: readers see nothing, or the latest.
Cache == INSTANCE UnitCache WITH
    Options <- Args,
    options <- args,
    NoParse <- NoUnit,
    view <- [f \in Files |-> Unit(f)]
CacheSpec == Cache!Spec

\* translation.cpp:279, in SetTranslationOptions: "We need to re-parse sources
\* with new options".  When parsing succeeds, files that had a unit have one
\* after the call.
ReparsedWithNewOptions ==
    [][\A f \in WithUnit(units) : args' # args => units'[f] # NoUnit]_vars
=============================================================================
