------------------------------ MODULE Completion ------------------------------
(***************************************************************************)
(* src/src/completion.cpp: the completions at a position of a line.  Texts *)
(* are sequences of letters.  The line is the sequence of its tokens       *)
(* [text, start], of libclang's lexer; columns count from one.  libclang's *)
(* results are records [availability, priority, kind, chunks] and a chunk  *)
(* is [kind, text], where the text may be missing.                         *)
(*                                                                         *)
(* Kinds of chunks: "TypedText", "Placeholder", "ResultType"; "Mark",      *)
(* punctuation that is both inserted and part of the detail (parentheses,  *)
(* brackets, comma, colon, semicolon); "Space", inserted only (braces,     *)
(* angles, blanks, and what the code does not name); "Skipped" (Optional,  *)
(* Informative, VerticalSpace).                                            *)
(***************************************************************************)
EXTENDS Integers, FiniteSetsExt, SequencesExt

CONSTANTS NoText  \* clang_getCString returns null

ChunkKinds == {"TypedText", "Placeholder", "ResultType", "Mark", "Space", "Skipped"}
Texts == Seq(STRING)
Tokens == [text : Texts, start : Nat]
Results == [availability : STRING, priority : Nat, kind : STRING,
            chunks : Seq([kind : ChunkKinds, text : Texts \cup {NoText}])]

-----------------------------------------------------------------------------
(* One result. *)

GetCompletionDetail(result) ==
    LET shown == SelectSeq(result.chunks, LAMBDA c :
                   c.kind \in {"ResultType", "Mark", "Placeholder"} /\ c.text # NoText)
    IN  [i \in DOMAIN shown |-> shown[i].text]

\* A piece of the text to insert: plain text, or a tab stop; stop 0 is the last.
Plain(text) == [type |-> "plain", text |-> text]
TabStop(n, text) == [type |-> "stop", stop |-> n, text |-> text]

NothingInserted == [text |-> <<>>, placeholderIndex |-> 1, isSnippet |-> FALSE]

\* Fault: a placeholder is counted before its text is looked at.
InsertChunkCountingAll(built, chunk) ==
    CASE chunk.text = NoText /\ chunk.kind = "Placeholder" ->
           [built EXCEPT !.placeholderIndex = @ + 1]
      [] chunk.text # NoText /\ chunk.kind = "Placeholder" ->
           [text |-> Append(built.text, TabStop(built.placeholderIndex, chunk.text)),
            placeholderIndex |-> built.placeholderIndex + 1, isSnippet |-> TRUE]
      [] chunk.text # NoText /\ chunk.kind \in {"TypedText", "Mark", "Space"} ->
           [built EXCEPT !.text = Append(@, Plain(chunk.text))]
      [] OTHER -> built

\* One round of the loop.
InsertChunk(built, chunk) ==
    CASE chunk.text # NoText /\ chunk.kind = "Placeholder" ->
           [text |-> Append(built.text, TabStop(built.placeholderIndex, chunk.text)),
            placeholderIndex |-> built.placeholderIndex + 1, isSnippet |-> TRUE]
      [] chunk.text # NoText /\ chunk.kind \in {"TypedText", "Mark", "Space"} ->
           [built EXCEPT !.text = Append(@, Plain(chunk.text))]
      [] OTHER -> built

GetCompletionInsertText(result) ==
    LET built == FoldLeft(InsertChunk, NothingInserted, result.chunks)
    IN  IF built.isSnippet THEN Append(built.text, TabStop(0, <<>>)) ELSE built.text

MapCursorKind(kind) ==
    CASE kind \in {"FunctionDecl", "CXXMethod", "FunctionTemplate"} -> "function"
      [] kind \in {"VarDecl", "ParmDecl"} -> "variable"
      [] kind \in {"StructDecl", "UnionDecl"} -> "struct"
      [] kind = "ClassDecl" -> "class"
      [] kind = "EnumDecl" -> "enum"
      [] kind = "EnumConstantDecl" -> "enumMember"
      [] kind = "FieldDecl" -> "field"
      [] kind \in {"TypedefDecl", "TypeAliasDecl"} -> "typeParameter"
      [] kind = "MacroDefinition" -> "snippet"
      [] kind = "Constructor" -> "constructor"
      [] kind = "Namespace" -> "module"
      [] OTHER -> "text"

CommitCharacters(itemKind) ==
    IF itemKind \in {"function", "constructor", "method"} THEN <<"(", ";">> ELSE <<";">>

\* index counts from zero, sortText orders as the priority does.
CompletionResult(results, i, label) ==
    LET r == results[i] IN
    [index |-> i - 1, label |-> label,
     detail |-> GetCompletionDetail(r), insertText |-> GetCompletionInsertText(r),
     itemKind |-> MapCursorKind(r.kind), sortText |-> r.priority,
     deprecated |-> r.availability = "Deprecated",
     commitCharacters |-> CommitCharacters(MapCursorKind(r.kind)),
     preselect |-> r.priority <= 5]

-----------------------------------------------------------------------------
(* GetPrefix. *)

End(token) == token.start + Len(token.text)

\* clang_tokenize lexes until a token reaches the cursor, or to the end.
Tokenize(line, column) ==
    LET reaching == {i \in DOMAIN line : End(line[i]) >= column}
    IN  SubSeq(line, 1, Min(reaching \cup {Len(line)}))

Touches(token, column) == token.start <= column /\ column <= End(token)

\* Scanning back from the cursor: the token that touches it, or none.
GetPrefix(line, column) ==
    LET tokens == Tokenize(line, column)
        last == SelectLastInSeq(tokens, LAMBDA t : Touches(t, column))
    IN  IF last = 0 THEN <<>> ELSE <<tokens[last]>>

-----------------------------------------------------------------------------
(* FilterCompletions, GetCompletions. *)

Available(result) == result.availability \notin {"NotAvailable", "NotAccessible"}
Matches(chunk, prefix) ==
    chunk.kind = "TypedText" /\ chunk.text \notin {NoText, <<>>} /\ IsPrefix(prefix, chunk.text)

\* Fault: the chunks after the first match are looked at as well.
LabelsOfAll(result, prefix) ==
    IF ~Available(result) THEN <<>>
    ELSE LET matching == SelectSeq(result.chunks, LAMBDA c : Matches(c, prefix))
         IN  [i \in DOMAIN matching |-> matching[i].text]

\* The text of the first chunk that matches, if the result is to be shown.
Labels(result, prefix) ==
    LET first == SelectInSeq(result.chunks, LAMBDA c : Matches(c, prefix))
    IN  IF Available(result) /\ first # 0 THEN <<result.chunks[first].text>> ELSE <<>>

FilterCompletions(results, prefix) ==
    FlattenSeq([i \in DOMAIN results |->
                  [k \in DOMAIN Labels(results[i], prefix) |->
                     CompletionResult(results, i, Labels(results[i], prefix)[k])]])

\* What libclang completes at a column: members after a dot, names elsewhere.
CodeCompleteAt(line, column, names, members) ==
    IF \E i \in DOMAIN line : End(line[i]) = column /\ line[i].text = <<".">> THEN members ELSE names

\* Nothing without a token at the cursor.
GetCompletions(line, column, names, members) ==
    LET prefix == GetPrefix(line, column)
    IN  IF prefix = <<>> THEN <<>>
        ELSE FilterCompletions(CodeCompleteAt(line, prefix[1].start, names, members), prefix[1].text)
=============================================================================
