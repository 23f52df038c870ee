----------------------------- MODULE UnitCache -----------------------------
(***************************************************************************)
(* What ITranslationUnitStore (translation.hpp) promises its readers, the  *)
(* completion and location handlers: asked for a file, it hands out no     *)
(* translation unit, or one parsed from the latest text of the document    *)
(* with the latest translation options.  Which of the two is left open:    *)
(* libclang may fail to parse, and a store may drop a unit when the        *)
(* options change.  TranslationUnitStore implements this specification.    *)
(***************************************************************************)
CONSTANTS Files, Contents, Options,
          NoContent,  \* the document is not open
          NoParse     \* GetTranslationUnit returns nullptr

VARIABLES
    document,   \* the latest text of each document, as the editor sent it
    options,    \* the latest translation options
    view        \* what a reader finds behind GetTranslationUnit

vars == <<document, options, view>>

\* What libclang made of text c of file f under the options o.
Parsed(f, c, o) == [file |-> f, content |-> c, args |-> o]

Init ==
    /\ document = [f \in Files |-> NoContent]
    /\ options \in Options
    /\ view = [f \in Files |-> NoParse]

\* A new text of a document replaces whatever unit the file had.
Edit(f, c) ==
    /\ document' = [document EXCEPT ![f] = c]
    /\ \E v \in {NoParse, Parsed(f, c, options)} : view' = [view EXCEPT ![f] = v]
    /\ UNCHANGED options

Close(f) ==
    /\ document' = [document EXCEPT ![f] = NoContent]
    /\ view' = [view EXCEPT ![f] = NoParse]
    /\ UNCHANGED options

\* No unit parsed with the old options survives.
Configure(o) ==
    /\ options' = o
    /\ view' \in [Files -> {NoParse} \cup {Parsed(f, document[f], o) : f \in Files}]
    /\ \A f \in Files : view'[f] \in {NoParse, Parsed(f, document[f], o)}
    /\ UNCHANGED document

Next ==
    \/ \E f \in Files, c \in Contents : Edit(f, c)
    \/ \E f \in Files : Close(f)
    \/ \E o \in Options : Configure(o)

Spec == Init /\ [][Next]_vars
=============================================================================
