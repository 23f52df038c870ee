----------------------------- MODULE MCCommands -----------------------------
(* Instances of Commands for TLC. *)
EXTENDS Commands

CONSTANTS flags

Device(id, power, versioning, says30, cversion, unreadable) ==
    [id |-> id, power |-> power, versioning |-> versioning, says30 |-> says30,
     cversion |-> cversion, unreadable |-> unreadable, garbled |-> FALSE]
Platform(devices, unreadable) == [devices |-> devices, unreadable |-> unreadable, garbled |-> FALSE]
Garbled(answers) == [answers EXCEPT !.garbled = TRUE]

Gpu(unreadable) == Device(3, 2, TRUE, TRUE, "3.0", unreadable)
Cpu(unreadable) == Device(5, 1, FALSE, FALSE, "2.1", unreadable)
Old == Device(7, 1, TRUE, FALSE, "2.0", {})
Bare == Device(3, 1, FALSE, TRUE, "", {})

\* Pairs in which one device fails, or none.
Pairs == {<<Gpu(q), Cpu({})>> : q \in {{}, {"extensions"}, {"identity"}, {"flag"}}}
           \cup {<<Gpu({}), Cpu(q)>> : q \in {{"cversion"}, {"version"}, {"power"}}}

\* A device that fails before or behind one that does not, on one platform or on
\* two; two devices with one identifier; a platform that fails; what clinfo cannot
\* list: a device that answers nothing, and text that is not UTF-8.
MCMachines ==
    {<<Platform(pair, {})>> : pair \in Pairs}
      \cup {<<Platform(<<pair[1]>>, {}), Platform(<<pair[2], Old>>, {})>> : pair \in Pairs}
      \cup {<<Platform(<<Old>>, {q}), Platform(<<Bare, Gpu({})>>, {})>> : q \in PlatformQueries}
      \cup {<<Platform(<<Old, Gpu(DeviceQueries)>>, {})>>, <<Platform(<<Garbled(Old)>>, {})>>,
            <<Garbled(Platform(<<Old>>, {}))>>}
      \cup {<<>>}

PlainOptions == [flags |-> flags, std |-> NoStd]
WithStd == [flags |-> flags, std |-> "CL2.0"]

Problem(severity, line) == [type |-> "problem", severity |-> severity, line |-> line]
Text == [type |-> "text", severity |-> "", line |-> 0]
\* 9 is too large for a long.
MCBuildLogs ==
    {<<Problem("warning", 9), Text, Problem("fatal error", 3), Problem("note", 1), Problem("error", 2)>>,
     <<Text, Problem("error", 8), Problem("warning", 9)>>}

\* Letters are "a" to "c"; the line reads "a.ab  b".
Dot == <<".">>
MCLine == <<[text |-> <<"a">>, start |-> 1], [text |-> Dot, start |-> 2],
            [text |-> <<"a", "b">>, start |-> 3], [text |-> <<"b">>, start |-> 7]>>
NoMembersLine == <<[text |-> <<"a">>, start |-> 2]>>

Chunk(kind, text) == [kind |-> kind, text |-> text]
Result(availability, priority, kind, chunks) ==
    [availability |-> availability, priority |-> priority, kind |-> kind, chunks |-> chunks]
MCNames ==
    <<Result("Available", 5, "FunctionDecl",
        <<Chunk("ResultType", <<"c">>), Chunk("TypedText", <<"a", "b">>), Chunk("Mark", <<"(">>),
          Chunk("Placeholder", <<"a">>), Chunk("Mark", <<",">>), Chunk("Space", <<" ">>),
          Chunk("Placeholder", <<"c">>), Chunk("Skipped", <<"c">>), Chunk("Mark", <<")">>)>>),
      Result("Available", 50, "CXXMethod",
        <<Chunk("TypedText", <<"a">>), Chunk("Mark", <<"(">>), Chunk("Placeholder", <<"b">>),
          Chunk("Placeholder", NoText), Chunk("Placeholder", <<"c">>), Chunk("Placeholder", <<"b">>)>>),
      Result("NotAvailable", 6, "VarDecl", <<Chunk("TypedText", <<"a", "c">>)>>),
      Result("Deprecated", 50, "MacroDefinition",
        <<Chunk("TypedText", NoText), Chunk("TypedText", <<"a">>), Chunk("TypedText", <<"a", "b">>)>>),
      Result("Available", 40, "StructDecl", <<Chunk("TypedText", <<"b">>), Chunk("Space", NoText)>>),
      Result("Available", 40, "TypedefDecl", <<Chunk("TypedText", <<>>)>>)>>
MCMembers ==
    <<Result("Available", 35, "FieldDecl", <<Chunk("ResultType", <<"c">>), Chunk("TypedText", <<"a", "b", "c">>)>>),
      Result("Available", 35, "FieldDecl", <<Chunk("TypedText", <<"b">>)>>),
      Result("NotAccessible", 35, "CXXMethod", <<Chunk("TypedText", <<"a", "b">>)>>)>>

Cursor(kind, entity, definition, located, refers, layers, decl) ==
    [kind |-> kind, entity |-> entity, definition |-> definition, located |-> located,
     refers |-> refers, type |-> [layers |-> layers, decl |-> decl]]
\* A struct, declared and then defined behind its uses; a typedef of it, one of
\* that typedef, and one of a built-in type; a function with a prototype; a
\* built-in; variables with pointers around these types; their uses.
MCUnit ==
    <<Cursor("decl", "struct", FALSE, TRUE, Null, 0, 16),
      Cursor("typedef", "T", TRUE, TRUE, Null, 0, 16),
      Cursor("typedef", "TT", TRUE, TRUE, Null, 0, 2),
      Cursor("typedef", "uint", TRUE, TRUE, Null, 0, NoDecl),
      Cursor("decl", "function", FALSE, TRUE, Null, 0, NoDecl),
      Cursor("decl", "builtin", TRUE, FALSE, Null, 0, NoDecl),
      Cursor("decl", "p", TRUE, TRUE, Null, 2, 2),
      Cursor("decl", "s", TRUE, TRUE, Null, 1, 16),
      Cursor("decl", "u", TRUE, TRUE, Null, 0, 4),
      Cursor("decl", "q", TRUE, TRUE, Null, 0, 3),
      Cursor("use", "", FALSE, TRUE, 5, 0, NoDecl),
      Cursor("use", "", FALSE, TRUE, 6, 0, NoDecl),
      Cursor("use", "", FALSE, TRUE, 7, 2, 2),
      Cursor("use", "", FALSE, TRUE, Null, 0, NoDecl),
      Cursor("decl", "function", TRUE, TRUE, Null, 0, NoDecl),
      Cursor("decl", "struct", TRUE, TRUE, Null, 0, 16),
      Cursor("use", "", FALSE, TRUE, 15, 0, NoDecl)>>

MCRequests ==
    {[command |-> "clinfo"]}
      \cup {[command |-> "diagnostics", kernel |-> "readable", deviceID |-> id, options |-> options,
             limit |-> limit, json |-> TRUE] :
              id \in {0, 3, 5}, options \in {NoOptions, PlainOptions, WithStd}, limit \in {0, 2}}
      \cup {[command |-> "diagnostics", kernel |-> kernel, deviceID |-> 5, options |-> PlainOptions,
             limit |-> DefaultLimit, json |-> json] :
              kernel \in {"missing", "unreadable", "readable"}, json \in BOOLEAN}
      \cup {[command |-> "completion", kernel |-> "readable", line |-> line, column |-> column] :
              line \in {MCLine, NoMembersLine}, column \in 1 .. 9}
      \cup {[command |-> command, kernel |-> "readable", cursor |-> cursor] :
              command \in {"definition", "declaration", "typedef"}, cursor \in 0 .. 17}
      \cup {[command |-> "completion", kernel |-> "missing", line |-> MCLine, column |-> 1],
            [command |-> "definition", kernel |-> "unreadable", cursor |-> 1]}
=============================================================================
