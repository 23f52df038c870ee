------------------------------ MODULE Locations ------------------------------
(***************************************************************************)
(* Go to definition, declaration and type definition (src/src/             *)
(* definition.cpp, declaration.cpp, typedef.cpp, location.cpp) over the    *)
(* cursors of a translation unit.                                          *)
(*                                                                         *)
(* A unit is the sequence of its cursors in the order libclang visits      *)
(* them.  A cursor is [kind, entity, definition, located, refers, type]:   *)
(* kind is "decl", "typedef" or "use"; the declarations of one thing share *)
(* an entity; refers is the cursor a use refers to, or Null; type is       *)
(* [layers, decl], the pointers and references around the type and the     *)
(* cursor that declares it, its definition if it has one, or NoDecl; the   *)
(* type under a typedef is the type of its cursor.  Built-in macros are    *)
(* not located in any file.                                                *)
(***************************************************************************)
EXTENDS Integers, FiniteSetsExt, SequencesExt

Null == 0     \* clang_getNullCursor
NoDecl == -1  \* CXCursor_NoDeclFound, which is not the null cursor

Cursors == [kind : {"decl", "typedef", "use"}, entity : STRING, definition : BOOLEAN,
            located : BOOLEAN, refers : Nat, type : [layers : Nat, decl : Int]]

\* The libclang calls.
Canonical(unit, c) ==
    IF unit[c].kind = "use" THEN c
    ELSE Min({k \in DOMAIN unit : unit[k].kind # "use" /\ unit[k].entity = unit[c].entity})
Referenced(unit, c) == IF unit[c].kind = "use" THEN unit[c].refers ELSE c
TypeDeclaration(type) == IF type.layers > 0 THEN NoDecl ELSE type.decl

\* A use of something undeclared refers to nothing.
Resolved(unit, c) == IF Referenced(unit, c) = Null THEN c ELSE Referenced(unit, c)

\* MakeLocation: cursors that libclang cannot place in a file have no location.
MakeLocation(unit, c) ==
    IF c \in DOMAIN unit /\ unit[c].located THEN <<c>> ELSE <<>>

-----------------------------------------------------------------------------
(* definition.cpp *)

\* Fault: only the cursor itself counts as its definition.
FindDefinitionsOfCursor(unit, target) ==
    FlattenSeq([c \in DOMAIN unit |-> IF unit[c].definition /\ c = target THEN <<c>> ELSE <<>>])

FindDefinitions(unit, target) ==
    LET same == {c \in DOMAIN unit : unit[c].definition
                                      /\ Canonical(unit, c) = Canonical(unit, target)}
    IN  FlattenSeq([c \in DOMAIN unit |-> IF c \in same THEN <<c>> ELSE <<>>])

GetDefinitions(unit, cursor) ==
    LET target == Resolved(unit, cursor)
        found == CASE cursor = Null -> <<>>
                   [] cursor # Null /\ unit[target].definition -> <<target>>
                   [] cursor # Null /\ ~unit[target].definition -> FindDefinitions(unit, target)
    IN  FlattenSeq([i \in DOMAIN found |-> MakeLocation(unit, found[i])])

-----------------------------------------------------------------------------
(* declaration.cpp *)

\* Fault: the cursor a use is attached to is taken for the declaration.
GetDeclarationsOfReferenced(unit, cursor) ==
    IF cursor = Null THEN <<>> ELSE MakeLocation(unit, Resolved(unit, cursor))

GetDeclarations(unit, cursor) ==
    IF cursor = Null THEN <<>> ELSE MakeLocation(unit, Canonical(unit, Resolved(unit, cursor)))

-----------------------------------------------------------------------------
(* typedef.cpp *)

\* Fault: one layer is taken off.
StripOneLayer(type) == [type EXCEPT !.layers = Max({@ - 1, 0})]

StripIndirection(type) == [type EXCEPT !.layers = 0]

\* A typedef is followed once, whatever it leads to.
ResolveThroughTypedef(unit, decl) ==
    IF decl # NoDecl /\ unit[decl].kind = "typedef" THEN TypeDeclaration(unit[decl].type) ELSE decl

GetTypeDefinitions(unit, cursor) ==
    IF cursor = Null THEN <<>>
    ELSE MakeLocation(unit,
           ResolveThroughTypedef(unit, TypeDeclaration(StripIndirection(unit[cursor].type))))
=============================================================================
