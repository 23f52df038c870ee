------------------------ MODULE CommandsQueriesProofs ------------------------
(***************************************************************************)
(* What the queries of the command line print: definition, declaration,    *)
(* typedef and completion, over every unit and every list of results, and  *)
(* the problems of the diagnostics, over every log.                        *)
(***************************************************************************)
EXTENDS CommandsProofs

-----------------------------------------------------------------------------
(* What is printed. *)

\* A query that has a unit prints what its operator says of the request; a log is
\* there only behind a build, and printed as the request asks.
Printed ==
    /\ pc \in {"idle", "device", "options", "build"} => buildLog = Nothing /\ ~parsed
    /\ pc = "done" => request \in Requests
    /\ pc = "done" /\ parsed =>
         /\ request.command = "definition" => output = GetDefinitions(Unit, request.cursor)
         /\ request.command = "declaration" => output = GetDeclarations(Unit, request.cursor)
         /\ request.command = "typedef" => output = GetTypeDefinitions(Unit, request.cursor)
         /\ request.command = "completion" =>
              output = GetCompletions(request.line, request.column, Names, Members)
    /\ pc = "done" /\ buildLog # Nothing =>
         /\ request.command = "diagnostics" /\ buildLog \in BuildLogs \cup {<<>>}
         /\ request.json => output = ParseDiagnostics(buildLog, request.limit)

\* What is printed answers the request, from the start and through every step.
LEMMA PrintedHolds == Spec => []Printed
<1>1. Init => Printed
  BY DEF Init, Printed
<1>2. Chosen /\ Printed /\ [Next]_vars => Printed'
  <2> SUFFICES ASSUME Chosen, Printed, [Next]_vars PROVE Printed'
    OBVIOUS
  <2> USE DEF machineVars, diagnosticsVars
  <2>1. CASE UNCHANGED vars \/ MachineChanges
    BY <2>1 DEF vars, MachineChanges, Printed
  <2>2. CASE Again
    BY <2>2 DEF Again, Printed
  <2>3. ASSUME NEW r \in Requests, CLInfo(r) PROVE Printed'
    BY <2>3 DEF CLInfo, Starts, Stops, Prints, Printed
  <2>4. ASSUME NEW r \in Requests, StartDiagnostics(r) PROVE Printed'
    <3>1. /\ pc = "idle" /\ pc' \in {"done", "device"} /\ request' = r /\ UNCHANGED <<buildLog, parsed>>
      BY <2>4 DEF StartDiagnostics, Starts, Stops
    <3>2. QED
      BY <3>1 DEF Printed
  <2>5. CASE ChooseDevice \/ ChooseOptions
    <3>1. /\ pc \in {"device", "options"} /\ pc' \in {"options", "build"} /\ UNCHANGED <<buildLog, parsed>>
      BY <2>5 DEF ChooseDevice, ChooseOptions
    <3>2. QED
      BY <3>1 DEF Printed
  <2>6. CASE Build
    <3>1. /\ pc = "build" /\ pc' = "done" /\ UNCHANGED <<request, parsed>>
          /\ \/ UNCHANGED buildLog
             \/ buildLog' \in BuildLogs \cup {<<>>} /\ output' = Reported(buildLog')
      BY <2>6 DEF Build, BuildSource, Stops, Prints
    <3>2. /\ request \in Requests /\ request.command = "diagnostics"
          /\ maxNumberOfProblems = request.limit
      BY <3>1 DEF Chosen
    <3>3. QED
      BY <3>1, <3>2 DEF Printed, Reported
  <2>7. ASSUME NEW r \in Requests, CompletionCommand(r) PROVE Printed'
    BY <2>7 DEF CompletionCommand, Starts, Queries, Stops, Prints, Printed
  <2>8. ASSUME NEW r \in Requests, Definition(r) PROVE Printed'
    BY <2>8 DEF Definition, Starts, Queries, Stops, Prints, Printed
  <2>9. ASSUME NEW r \in Requests, Declaration(r) PROVE Printed'
    BY <2>9 DEF Declaration, Starts, Queries, Stops, Prints, Printed
  <2>10. ASSUME NEW r \in Requests, TypeDefinition(r) PROVE Printed'
    BY <2>10 DEF TypeDefinition, Starts, Queries, Stops, Prints, Printed
  <2>11. QED
    BY <2>1, <2>2, <2>3, <2>4, <2>5, <2>6, <2>7, <2>8, <2>9, <2>10 DEF Next
<1>3. QED
  BY <1>1, <1>2, ChosenHolds, PTL DEF Spec

-----------------------------------------------------------------------------
(* Definition, declaration, type definition. *)

\* The canonical cursor is the first declaration of the same thing.
LEMMA CanonicalIsFirst ==
    ASSUME NEW c \in DOMAIN Unit, Unit[c].kind # "use"
    PROVE  /\ Canonical(Unit, c) \in DOMAIN Unit
           /\ Unit[Canonical(Unit, c)].kind # "use"
           /\ Unit[Canonical(Unit, c)].entity = Unit[c].entity
           /\ \A k \in DOMAIN Unit :
                Unit[k].kind # "use" /\ Unit[k].entity = Unit[c].entity => Canonical(Unit, c) <= k
<1> DEFINE same == {k \in DOMAIN Unit : Unit[k].kind # "use" /\ Unit[k].entity = Unit[c].entity}
<1>1. same \in SUBSET Nat /\ same # {}
  BY UnitAssumption
<1>2. Canonical(Unit, c) = Min(same)
  BY DEF Canonical
<1>3. Canonical(Unit, c) \in same /\ \A k \in same : Canonical(Unit, c) <= k
  <2> HIDE DEF same
  <2>1. QED
    BY <1>1, <1>2, LeastIsMin
<1>4. QED
  BY <1>3

\* Declarations have one canonical cursor when they declare one thing, and only then.
LEMMA SameCanonical ==
    ASSUME NEW c \in DOMAIN Unit, NEW d \in DOMAIN Unit, Unit[c].kind # "use"
    PROVE  (Canonical(Unit, c) = Canonical(Unit, d)) <=> Declares(c, d)
<1>1. /\ Unit[Canonical(Unit, c)].kind # "use"
      /\ Unit[Canonical(Unit, c)].entity = Unit[c].entity
  BY CanonicalIsFirst
<1>2. CASE Unit[d].kind = "use"
  <2>1. Canonical(Unit, d) = d
    BY <1>2 DEF Canonical
  <2>2. QED
    BY <1>1, <1>2, <2>1 DEF Declares
<1>3. CASE Unit[d].kind # "use"
  <2>1. Unit[Canonical(Unit, d)].entity = Unit[d].entity
    BY <1>3, CanonicalIsFirst
  <2>2. Unit[c].entity = Unit[d].entity => Canonical(Unit, c) = Canonical(Unit, d)
    BY <1>3 DEF Canonical
  <2>3. QED
    BY <1>1, <1>3, <2>1, <2>2 DEF Declares
<1>4. QED
  BY <1>2, <1>3

\* What is meant at a cursor is a cursor of the unit.
LEMMA ResolvedIsInUnit ==
    ASSUME NEW c \in DOMAIN Unit
    PROVE  Resolved(Unit, c) \in DOMAIN Unit
  BY UnitAssumption DEF Resolved, Referenced, Null

\* A sequence that is filtered keeps exactly the elements that pass.
Kept(s, Keeps) == FlattenSeq([i \in DOMAIN s |-> IF s[i] \in Keeps THEN <<s[i]>> ELSE <<>>])

\* What is in a sequence that was filtered is what passes.
LEMMA KeptElements ==
    ASSUME NEW S, NEW s \in Seq(S), NEW Keeps \in SUBSET S
    PROVE  Kept(s, Keeps) \in Seq(S) /\ ToSet(Kept(s, Keeps)) = ToSet(s) \cap Keeps
<1> DEFINE seqs == [i \in DOMAIN s |-> IF s[i] \in Keeps THEN <<s[i]>> ELSE <<>>]
<1>1. Len(s) \in Nat /\ DOMAIN s = 1 .. Len(s) /\ \A i \in 1 .. Len(s) : s[i] \in S
  OBVIOUS
<1>2. seqs \in Seq(Seq(S)) /\ DOMAIN seqs = DOMAIN s
  BY <1>1
<1>3. /\ FlattenSeq(seqs) \in Seq(S)
      /\ \A e : (e \in ToSet(FlattenSeq(seqs)) <=> \E i \in DOMAIN seqs : e \in ToSet(seqs[i]))
  BY <1>2, FlattenElements
<1>4. \A e : ToSet(<<e>>) = {e}
  BY DEF ToSet
<1>5. ToSet(<<>>) = {}
  BY DEF ToSet
<1>6. \A i \in DOMAIN seqs : ToSet(seqs[i]) = IF s[i] \in Keeps THEN {s[i]} ELSE {}
  BY <1>2, <1>4, <1>5
<1>7. \A e : (e \in ToSet(s) <=> \E i \in DOMAIN s : e = s[i])
  BY DEF ToSet
<1>8. \A e : (e \in ToSet(FlattenSeq(seqs)) <=> e \in ToSet(s) /\ e \in Keeps)
  <2> SUFFICES ASSUME NEW e
               PROVE  e \in ToSet(FlattenSeq(seqs)) <=> e \in ToSet(s) /\ e \in Keeps
    OBVIOUS
  <2>1. (e \in ToSet(FlattenSeq(seqs))) <=> \E i \in DOMAIN s : e \in ToSet(seqs[i])
    BY <1>2, <1>3
  <2>2. \A i \in DOMAIN s : (e \in ToSet(seqs[i]) <=> s[i] \in Keeps /\ e = s[i])
    BY <1>2, <1>6
  <2>3. (e \in ToSet(s)) <=> \E i \in DOMAIN s : e = s[i]
    BY <1>7
  <2>4. (\E i \in DOMAIN s : s[i] \in Keeps /\ e = s[i]) <=> (e \in Keeps /\ \E i \in DOMAIN s : e = s[i])
    OBVIOUS
  <2>5. (e \in ToSet(FlattenSeq(seqs))) <=> \E i \in DOMAIN s : s[i] \in Keeps /\ e = s[i]
    BY <2>1, <2>2
  <2>6. QED
    BY <2>3, <2>4, <2>5, Zenon
<1>9. Kept(s, Keeps) = FlattenSeq(seqs)
  BY DEF Kept
<1> HIDE DEF seqs
<1>10. QED
  BY <1>3, <1>8, <1>9

\* Definition answers with the definition of what is meant at the cursor, wherever
\* it stands in the unit, and with nothing else.
THEOREM FindsTheDefinition == Spec => []DefinitionIsFound
<1>1. Printed => DefinitionIsFound
  <2> SUFFICES ASSUME Printed, Answered("definition"), request.cursor # Null
               PROVE  ToSet(output) =
                        {c \in DOMAIN Unit : Declares(c, Target) /\ Unit[c].definition /\ Unit[c].located}
    BY DEF DefinitionIsFound
  <2> DEFINE D == DOMAIN Unit
             t == Target
             located == {c \in D : Unit[c].located}
             same == {c \in D : Unit[c].definition /\ Canonical(Unit, c) = Canonical(Unit, t)}
             found == IF Unit[t].definition THEN <<t>> ELSE FindDefinitions(Unit, t)
             answer == [i \in DOMAIN found |-> MakeLocation(Unit, found[i])]
  <2>1. request.cursor \in D /\ output = GetDefinitions(Unit, request.cursor)
    BY RequestsAssumption DEF Printed, Answered
  <2>2. t \in D
    BY <2>1, ResolvedIsInUnit DEF Target
  <2>3. output = FlattenSeq(answer)
    BY <2>1 DEF GetDefinitions, Target
  <2>4. \A c \in D : Unit[c].definition => Unit[c].kind # "use"
    BY UnitAssumption
  <2>5. found \in Seq(D) /\ ToSet(found) = {c \in D : Declares(c, t) /\ Unit[c].definition}
    <3>1. CASE Unit[t].definition
      <4>1. found = <<t>> /\ ToSet(found) = {t}
        BY <3>1 DEF ToSet
      <4>2. \A c \in D : (Declares(c, t) /\ Unit[c].definition) <=> c = t
        BY <2>2, <2>4, <3>1, UnitAssumption DEF Declares
      <4> HIDE DEF found, D
      <4>3. found \in Seq(D)
        BY <2>2, <4>1
      <4>4. QED
        BY <2>2, <4>1, <4>2, <4>3
    <3>2. CASE ~Unit[t].definition
      <4> DEFINE all == [c \in D |-> c]
                 seqs == [c \in D |-> IF c \in same THEN <<c>> ELSE <<>>]
      <4>1. found = FlattenSeq(seqs)
        BY <3>2 DEF FindDefinitions
      <4>2. all \in Seq(D) /\ ToSet(all) = D /\ DOMAIN all = D
        <5>1. Len(Unit) \in Nat /\ D = 1 .. Len(Unit)
          BY UnitAssumption
        <5> HIDE DEF D
        <5>2. QED
          BY <5>1 DEF ToSet
      <4>3. found = Kept(all, same)
        <5>1. seqs = [i \in DOMAIN all |-> IF all[i] \in same THEN <<all[i]>> ELSE <<>>]
          BY <4>2
        <5>2. QED
          BY <4>1, <5>1 DEF Kept
      <4>4. same \in SUBSET D
        OBVIOUS
      <4>5. \A c \in D : c \in same <=> Declares(c, t) /\ Unit[c].definition
        BY <2>2, <2>4, SameCanonical
      <4> HIDE DEF all, seqs, same, found, D
      <4>6. found \in Seq(D) /\ ToSet(found) = D \cap same
        BY <4>2, <4>3, <4>4, KeptElements
      <4>7. QED
        BY <4>4, <4>5, <4>6
    <3>3. QED
      BY <3>1, <3>2
  <2>6. \A i \in DOMAIN found : found[i] \in D
    BY <2>5
  <2>7. output = Kept(found, located)
    <3>1. answer = [i \in DOMAIN found |-> IF found[i] \in located THEN <<found[i]>> ELSE <<>>]
      BY <2>6 DEF MakeLocation
    <3>2. QED
      BY <2>3, <3>1 DEF Kept
  <2>8. located \in SUBSET D
    OBVIOUS
  <2> HIDE DEF found, answer, located, t
  <2>9. ToSet(output) = ToSet(found) \cap located
    BY <2>5, <2>7, <2>8, KeptElements
  <2>10. QED
    BY <2>5, <2>9 DEF located, t
<1>2. QED
  BY <1>1, PrintedHolds, PTL

\* The declarations of one thing have a location together.  (libclang gives none to
\* what the compiler declares by itself.)
LocatedTogether ==
    \A c, d \in DOMAIN Unit : Declares(c, d) => Unit[c].located = Unit[d].located

\* Declaration answers with the first of the declarations, if what the compiler
\* declares by itself is declared by it alone.
THEOREM FindsTheFirstDeclaration ==
    ASSUME LocatedTogether
    PROVE  Spec => []DeclarationIsFirst
<1>1. Printed => DeclarationIsFirst
  <2> SUFFICES ASSUME Printed, Answered("declaration"), request.cursor # Null,
                      NEW c \in DOMAIN Unit, Declares(c, Target), Unit[c].located
               PROVE  Len(output) = 1 /\ Declares(output[1], Target) /\ output[1] <= c
    BY DEF DeclarationIsFirst
  <2> DEFINE first == Canonical(Unit, Target)
  <2>1. request.cursor \in DOMAIN Unit /\ output = GetDeclarations(Unit, request.cursor)
    BY RequestsAssumption DEF Printed, Answered
  <2>2. Target \in DOMAIN Unit /\ Unit[Target].kind # "use"
    BY <2>1, ResolvedIsInUnit DEF Target, Declares
  <2>3. /\ first \in DOMAIN Unit /\ Unit[first].kind # "use" /\ Unit[first].entity = Unit[Target].entity
        /\ first <= c
    BY <2>2, CanonicalIsFirst DEF Declares
  <2>4. Declares(first, Target) /\ Declares(first, c)
    BY <2>2, <2>3 DEF Declares
  <2>5. Unit[first].located
    BY <2>3, <2>4, UnitAssumption DEF LocatedTogether
  <2>6. output = MakeLocation(Unit, first)
    BY <2>1 DEF GetDeclarations, Target
  <2>7. output = <<first>>
    BY <2>3, <2>5, <2>6 DEF MakeLocation
  <2>8. QED
    BY <2>3, <2>4, <2>7
<1>2. QED
  BY <1>1, PrintedHolds, PTL

\* Type definition answers with the struct, union or enum, whatever pointers are
\* around its type and behind one typedef.
THEOREM FindsTheTag == Spec => []TypeDefinitionIsTheTag
<1>1. Printed => TypeDefinitionIsTheTag
  <2> DEFINE decl == Unit[request.cursor].type.decl
  <2> SUFFICES ASSUME Printed, Answered("typedef"), request.cursor # Null,
                      NEW tag \in DOMAIN Unit, Unit[tag].kind = "decl", Unit[tag].located,
                      \/ decl = tag
                      \/ decl # NoDecl /\ Unit[decl].kind = "typedef"
                         /\ Unit[decl].type = [layers |-> 0, decl |-> tag]
               PROVE  output = <<tag>>
    BY DEF TypeDefinitionIsTheTag
  <2>1. request.cursor \in DOMAIN Unit /\ output = GetTypeDefinitions(Unit, request.cursor)
    BY RequestsAssumption DEF Printed, Answered
  <2>2. Unit[request.cursor].type \in [layers : Nat, decl : Int]
    <3>1. Unit[request.cursor] \in Cursors
      BY <2>1, UnitAssumption
    <3>2. QED
      BY <3>1 DEF Cursors
  <2>3. TypeDeclaration(StripIndirection(Unit[request.cursor].type)) = decl
    BY <2>2 DEF TypeDeclaration, StripIndirection
  <2>4. ResolveThroughTypedef(Unit, decl) = tag
    BY DEF ResolveThroughTypedef, TypeDeclaration
  <2>5. output = MakeLocation(Unit, tag)
    BY <2>1, <2>3, <2>4 DEF GetTypeDefinitions
  <2>6. QED
    BY <2>5 DEF MakeLocation
<1>2. QED
  BY <1>1, PrintedHolds, PTL

-----------------------------------------------------------------------------
(* The problems of a log. *)

NothingParsed == [count |-> 0, diagnostics |-> <<>>]

\* The recursive function behind ParseDiagnostics, over the first k lines.
Parses(log, limit, k, f) ==
    f = [s \in SUBSET (1 .. k) |->
           IF s = {} THEN NothingParsed ELSE ParseLine(f[s \ {Max(s)}], log[Max(s)], limit)]

\* A set of numbers that holds a greatest one has it as its maximum.
LEMMA MaxIsGreatest ==
    ASSUME NEW S \in SUBSET Nat, NEW n \in S, \A m \in S : m <= n
    PROVE  Max(S) = n
<1>1. n \in Nat /\ \A m \in S : n >= m /\ m \in Nat
  OBVIOUS
<1>2. Max(S) \in S /\ \A m \in S : Max(S) >= m
  BY <1>1, Zenon DEF Max
<1>3. \A m : m \in S => m \in Nat /\ m <= n
  OBVIOUS
<1>4. PICK x \in Nat : x = Max(S)
  BY <1>2, <1>3
<1>5. x <= n /\ x >= n
  BY <1>2, <1>3, <1>4
<1>6. QED
  BY <1>3, <1>4, <1>5

\* Every number of lines can be parsed.
LEMMA ParsesExists ==
    ASSUME NEW log, NEW limit, NEW n \in Nat
    PROVE  \E f : Parses(log, limit, n, f)
<1> DEFINE Bad == {i \in Nat : ~\E f : Parses(log, limit, i, f)}
<1>1. Bad = {}
  <2> SUFFICES ASSUME Bad # {} PROVE FALSE
    OBVIOUS
  <2>1. PICK k \in Bad : \A j \in Bad : k <= j
    <3>1. Bad \in SUBSET Nat
      OBVIOUS
    <3> HIDE DEF Bad
    <3>2. QED
      BY <3>1, LeastOf
  <2>2. k \in Nat /\ ~\E f : Parses(log, limit, k, f)
    OBVIOUS
  <2>3. k # 0
    <3> DEFINE f == [s \in SUBSET (1 .. 0) |-> NothingParsed]
    <3>1. \A s \in SUBSET (1 .. 0) : s = {}
      OBVIOUS
    <3>2. Parses(log, limit, 0, f)
      BY <3>1 DEF Parses
    <3>3. QED
      BY <2>2, <3>2
  <2>4. PICK p \in Nat : p = k - 1 /\ p < k
    BY <2>2, <2>3
  <2>5. PICK f : Parses(log, limit, p, f)
    <3>1. p \notin Bad
      <4> HIDE DEF Bad
      <4>1. QED
        BY <2>1, <2>2, <2>4
    <3>2. QED
      BY <3>1
  <2> DEFINE Value(h, s) == IF s = {} THEN NothingParsed ELSE ParseLine(h[s \ {Max(s)}], log[Max(s)], limit)
             g == [s \in SUBSET (1 .. k) |-> IF k \in s THEN Value(f, s) ELSE f[s]]
  <2>6. \A s \in SUBSET (1 .. p) : f[s] = Value(f, s)
    BY <2>5 DEF Parses
  <2>7. \A s \in SUBSET (1 .. p) : s \in SUBSET (1 .. k) /\ k \notin s
    BY <2>2, <2>4
  <2>8. \A s \in SUBSET (1 .. k) : k \notin s => s \in SUBSET (1 .. p)
    BY <2>2, <2>4
  <2>9. \A s \in SUBSET (1 .. p) : g[s] = f[s]
    <3> HIDE DEF Value
    <3>1. QED
      BY <2>7
  <2>10. ASSUME NEW s \in SUBSET (1 .. k), s # {}
         PROVE  s \ {Max(s)} \in SUBSET (1 .. p)
    <3>1. CASE k \in s
      <4>1. Max(s) = k
        <5>1. s \in SUBSET Nat /\ \A m \in s : m <= k
          BY <2>2
        <5>2. QED
          BY <3>1, <5>1, MaxIsGreatest
      <4>2. QED
        BY <2>8, <4>1
    <3>2. CASE k \notin s
      BY <2>8, <3>2
    <3>3. QED
      BY <3>1, <3>2
  <2>11. \A s \in SUBSET (1 .. k) : Value(g, s) = Value(f, s)
    <3> HIDE DEF g
    <3>1. QED
      BY <2>9, <2>10
  <2>12. \A s \in SUBSET (1 .. k) : g[s] = Value(g, s)
    <3> SUFFICES ASSUME NEW s \in SUBSET (1 .. k) PROVE g[s] = Value(f, s)
      BY <2>11
    <3> HIDE DEF Value
    <3>1. CASE k \in s
      BY <3>1
    <3>2. CASE k \notin s
      BY <2>6, <2>8, <3>2
    <3>3. QED
      BY <3>1, <3>2
  <2>13. Parses(log, limit, k, g)
    <3>1. g = [s \in SUBSET (1 .. k) |-> g[s]]
      OBVIOUS
    <3> HIDE DEF g
    <3>2. QED
      BY <2>12, <3>1 DEF Parses
  <2>14. QED
    BY <2>2, <2>13
<1>2. QED
  BY <1>1

\* The log is parsed line by line.
LEMMA ParsedByLines ==
    ASSUME NEW log, NEW limit, Len(log) \in Nat, DOMAIN log = 1 .. Len(log)
    PROVE  \E F : /\ F[0] = NothingParsed
                  /\ \A i \in 1 .. Len(log) : F[i] = ParseLine(F[i - 1], log[i], limit)
                  /\ ParseDiagnostics(log, limit) = F[Len(log)].diagnostics
<1> DEFINE N == Len(log)
           f == CHOOSE f : f = [s \in SUBSET (1 .. N) |->
                                  IF s = {} THEN NothingParsed
                                  ELSE ParseLine(f[s \ {Max(s)}], log[Max(s)], limit)]
           F == [i \in 0 .. N |-> f[1 .. i]]
<1>1. f = [s \in SUBSET (1 .. N) |->
             IF s = {} THEN NothingParsed ELSE ParseLine(f[s \ {Max(s)}], log[Max(s)], limit)]
  <2>1. \E h : Parses(log, limit, N, h)
    BY ParsesExists
  <2>2. \E h : h = [s \in SUBSET (1 .. N) |->
                     IF s = {} THEN NothingParsed ELSE ParseLine(h[s \ {Max(s)}], log[Max(s)], limit)]
    BY <2>1 DEF Parses
  <2> HIDE DEF N
  <2>3. QED
    BY <2>2, Zenon
<1>2. ParseDiagnostics(log, limit) = f[1 .. N].diagnostics
  BY DEF ParseDiagnostics, FoldLeft, MapThenFoldSet, NothingParsed
<1> HIDE DEF f, N
<1>3. N \in Nat
  BY DEF N
<1>4. F[0] = NothingParsed
  <2>1. 1 .. 0 = {} /\ 1 .. 0 \in SUBSET (1 .. N) /\ 0 \in 0 .. N
    BY <1>3
  <2>2. QED
    BY <1>1, <2>1
<1>5. ASSUME NEW i \in 1 .. N PROVE F[i] = ParseLine(F[i - 1], log[i], limit)
  <2>1. 1 .. i \in SUBSET (1 .. N) /\ 1 .. i # {} /\ i \in 0 .. N /\ i - 1 \in 0 .. N
    <3>1. i \in 1 .. i /\ i \in 0 .. N /\ i - 1 \in 0 .. N
      BY <1>3
    <3>2. \A m \in 1 .. i : m \in 1 .. N
      BY <1>3
    <3>3. 1 .. i # {}
      BY <3>1
    <3>4. QED
      BY <3>1, <3>2, <3>3
  <2>2. Max(1 .. i) = i
    <3>1. 1 .. i \in SUBSET Nat /\ i \in 1 .. i /\ \A m \in 1 .. i : m <= i
      BY <1>3
    <3>2. QED
      BY <3>1, MaxIsGreatest
  <2>3. (1 .. i) \ {i} = 1 .. i - 1
    BY <1>3
  <2>4. f[1 .. i] = ParseLine(f[1 .. i - 1], log[i], limit)
    BY <1>1, <2>1, <2>2, <2>3
  <2>5. QED
    BY <2>1, <2>4
<1>6. F[N] = f[1 .. N]
  BY <1>3
<1>7. QED
  BY <1>2, <1>4, <1>5, <1>6 DEF N

\* How many members of a set of line numbers are not behind line i.
RankIn(S, i) == Cardinality({j \in S : j <= i})

\* From line to line the rank grows with every member, and by one.
LEMMA RankGrows ==
    ASSUME NEW n \in Nat, NEW S \in SUBSET (1 .. n)
    PROVE  /\ \A i \in 0 .. n : RankIn(S, i) \in Nat
           /\ RankIn(S, 0) = 0 /\ RankIn(S, n) = Cardinality(S)
           /\ \A i \in 1 .. n : RankIn(S, i) = IF i \in S THEN RankIn(S, i - 1) + 1 ELSE RankIn(S, i - 1)
           /\ \A i, j \in 0 .. n : i <= j => RankIn(S, i) <= RankIn(S, j)
           /\ \A i \in S : RankIn(S, i) >= 1
<1> DEFINE Upto(i) == {j \in S : j <= i}
<1>1. IsFiniteSet(S) /\ \A i : Upto(i) \in SUBSET S
  <2>1. IsFiniteSet(1 .. n)
    BY FS_Interval
  <2>2. QED
    BY <2>1, FS_Subset
<1>2. \A j \in S : j \in 1 .. n
  OBVIOUS
<1>3. \A i : IsFiniteSet(Upto(i)) /\ Cardinality(Upto(i)) \in Nat /\ RankIn(S, i) = Cardinality(Upto(i))
  <2> SUFFICES ASSUME NEW i
               PROVE  IsFiniteSet(Upto(i)) /\ Cardinality(Upto(i)) \in Nat /\ RankIn(S, i) = Cardinality(Upto(i))
    OBVIOUS
  <2>1. IsFiniteSet(Upto(i))
    BY <1>1, FS_Subset
  <2>2. Cardinality(Upto(i)) \in Nat
    BY <2>1, FS_CardinalityType
  <2>3. QED
    BY <2>1, <2>2 DEF RankIn
<1>4. Upto(0) = {} /\ Upto(n) = S
  <2>1. \A j \in S : j <= n /\ ~(j <= 0)
    BY <1>2
  <2>2. QED
    BY <2>1
<1>5. RankIn(S, 0) = 0 /\ RankIn(S, n) = Cardinality(S)
  BY <1>3, <1>4, FS_EmptySet
<1>6. ASSUME NEW i \in 1 .. n
      PROVE  RankIn(S, i) = IF i \in S THEN RankIn(S, i - 1) + 1 ELSE RankIn(S, i - 1)
  <2>1. \A j \in S : (j <= i <=> j <= i - 1 \/ j = i)
    BY <1>2
  <2>2. i \notin Upto(i - 1)
    OBVIOUS
  <2>3. CASE i \in S
    <3>1. Upto(i) = Upto(i - 1) \cup {i}
      BY <2>1, <2>3
    <3> HIDE DEF Upto
    <3>2. Cardinality(Upto(i - 1) \cup {i}) = Cardinality(Upto(i - 1)) + 1
      BY <1>3, <2>2, FS_AddElement
    <3>3. QED
      BY <1>3, <2>3, <3>1, <3>2
  <2>4. CASE i \notin S
    <3>1. Upto(i) = Upto(i - 1)
      BY <2>1, <2>4
    <3> HIDE DEF Upto
    <3>2. QED
      BY <1>3, <2>4, <3>1
  <2>5. QED
    BY <2>3, <2>4
<1>7. ASSUME NEW i \in 0 .. n, NEW j \in 0 .. n, i <= j PROVE RankIn(S, i) <= RankIn(S, j)
  <2>1. Upto(i) \in SUBSET Upto(j)
    <3>1. \A k \in S : k <= i => k <= j
      BY <1>2, <1>7
    <3>2. QED
      BY <3>1
  <2> HIDE DEF Upto
  <2>2. QED
    BY <1>3, <2>1, FS_Subset
<1>8. ASSUME NEW i \in S PROVE RankIn(S, i) >= 1
  <2>1. i \in Upto(i)
    BY <1>2
  <2>2. Upto(i) # {}
    BY <2>1
  <2> HIDE DEF Upto
  <2>3. Cardinality(Upto(i)) # 0
    BY <1>3, <2>2, FS_EmptySet
  <2>4. QED
    BY <1>3, <2>3
<1> HIDE DEF Upto
<1>9. QED
  BY <1>3, <1>5, <1>6, <1>7, <1>8

\* The problems of a log, and those that ProblemsAreTheFirst expects to be reported.
Problems(log) == {i \in DOMAIN log : log[i].type = "problem"}
Reportable(log, limit) ==
    {i \in Problems(log) : RankIn(Problems(log), i) <= limit /\ log[i].line <= MaxLong}

\* The parser reports the first problems of the log whose position can be read.
LEMMA ParserReportsTheFirst ==
    ASSUME NEW log \in Seq(LogLines), NEW limit \in Nat
    PROVE  LET listed == ParseDiagnostics(log, limit)
               reported == Reportable(log, limit)
           IN  /\ Len(listed) = Cardinality(reported)
               /\ \A i \in reported : listed[RankIn(reported, i)] = CreateDiagnostic(log[i])
<1> DEFINE N == Len(log)
           P == Problems(log)
           R == Reportable(log, limit)
           D == {CreateDiagnostic(l) : l \in LogLines}
<1>1. N \in Nat /\ DOMAIN log = 1 .. N /\ \A i \in 1 .. N : log[i] \in LogLines
  OBVIOUS
<1> HIDE DEF N
<1>2. PICK F : /\ F[0] = NothingParsed
               /\ \A i \in 1 .. N : F[i] = ParseLine(F[i - 1], log[i], limit)
               /\ ParseDiagnostics(log, limit) = F[N].diagnostics
  BY <1>1, ParsedByLines DEF N
<1>3. P \in SUBSET (1 .. N) /\ R \in SUBSET (1 .. N)
  BY <1>1 DEF Problems, Reportable
<1>4. \A i \in 1 .. N : (i \in P <=> log[i].type = "problem")
                        /\ (i \in R <=> i \in P /\ RankIn(P, i) <= limit /\ log[i].line <= MaxLong)
  BY <1>1 DEF Problems, Reportable
<1> HIDE DEF P, R, D
<1>5. /\ \A i \in 0 .. N : RankIn(P, i) \in Nat
      /\ RankIn(P, 0) = 0
      /\ \A i \in 1 .. N : RankIn(P, i) = IF i \in P THEN RankIn(P, i - 1) + 1 ELSE RankIn(P, i - 1)
  BY <1>1, <1>3, RankGrows
<1>6. /\ \A i \in 0 .. N : RankIn(R, i) \in Nat
      /\ RankIn(R, 0) = 0 /\ RankIn(R, N) = Cardinality(R)
      /\ \A i \in 1 .. N : RankIn(R, i) = IF i \in R THEN RankIn(R, i - 1) + 1 ELSE RankIn(R, i - 1)
      /\ \A i, j \in 0 .. N : i <= j => RankIn(R, i) <= RankIn(R, j)
      /\ \A i \in R : RankIn(R, i) >= 1
  BY <1>1, <1>3, RankGrows
<1> DEFINE Counted(i) == F[i].count = IF RankIn(P, i) <= limit THEN RankIn(P, i) ELSE limit
           Listed(i) == /\ F[i].diagnostics \in Seq(D)
                        /\ Len(F[i].diagnostics) = RankIn(R, i)
                        /\ \A j \in R : j <= i =>
                             F[i].diagnostics[RankIn(R, j)] = CreateDiagnostic(log[j])
           Good(i) == Counted(i) /\ Listed(i)
<1>7. Good(0)
  <2>1. F[0].count = 0 /\ F[0].diagnostics = <<>>
    BY <1>2 DEF NothingParsed
  <2>2. \A j \in R : ~(j <= 0)
    BY <1>3
  <2>3. <<>> \in Seq(D) /\ Len(<<>>) = 0
    OBVIOUS
  <2>4. QED
    BY <1>5, <1>6, <2>1, <2>2, <2>3
<1>8. ASSUME NEW i \in 1 .. N, Good(i - 1) PROVE Good(i)
  <2>1. PICK p \in 0 .. N : p = i - 1
    BY <1>1
  <2>2. /\ F[i] = ParseLine(F[p], log[i], limit)
        /\ Counted(p) /\ Listed(p)
    BY <1>2, <1>8, <2>1
  <2>3. /\ RankIn(P, p) \in Nat /\ RankIn(R, p) \in Nat
        /\ RankIn(P, i) = (IF i \in P THEN RankIn(P, p) + 1 ELSE RankIn(P, p))
        /\ RankIn(R, i) = (IF i \in R THEN RankIn(R, p) + 1 ELSE RankIn(R, p))
    BY <1>5, <1>6, <2>1
  <2>4. \A j \in R : j <= i => j <= p \/ j = i
    BY <1>1, <1>3, <2>1
  <2>5. CASE i \in P /\ RankIn(P, p) < limit
    <3>1. /\ F[p].count = RankIn(P, p) /\ F[p].count < limit
          /\ log[i].type = "problem"
      BY <1>4, <2>2, <2>3, <2>5
    <3>2. F[i].count = RankIn(P, p) + 1
      BY <2>2, <3>1 DEF ParseLine
    <3>3. RankIn(P, i) = RankIn(P, p) + 1 /\ RankIn(P, i) <= limit
      BY <2>3, <2>5
    <3>4. Counted(i)
      BY <3>2, <3>3
    <3>5. i \in R <=> Converts(log[i])
      BY <1>4, <2>5, <3>3 DEF Converts
    <3>6. CASE Converts(log[i])
      <4>1. F[i].diagnostics = Append(F[p].diagnostics, CreateDiagnostic(log[i]))
        BY <2>2, <3>1, <3>6 DEF ParseLine
      <4>2. CreateDiagnostic(log[i]) \in D
        BY <1>1 DEF D
      <4>3. i \in R /\ RankIn(R, i) = RankIn(R, p) + 1
        BY <2>3, <3>5, <3>6
      <4>4. F[i].diagnostics \in Seq(D) /\ Len(F[i].diagnostics) = RankIn(R, i)
        BY <2>2, <2>3, <4>1, <4>2, <4>3
      <4>5. F[i].diagnostics[RankIn(R, i)] = CreateDiagnostic(log[i])
        BY <2>2, <2>3, <4>1, <4>2, <4>3
      <4>6. ASSUME NEW j \in R, j <= p
            PROVE  F[i].diagnostics[RankIn(R, j)] = CreateDiagnostic(log[j])
        <5>1. j \in 0 .. N
          BY <1>1, <1>3
        <5>2. RankIn(R, j) \in 1 .. RankIn(R, p)
          BY <1>6, <2>3, <4>6, <5>1
        <5>3. F[i].diagnostics[RankIn(R, j)] = F[p].diagnostics[RankIn(R, j)]
          BY <2>2, <2>3, <4>1, <4>2, <5>2
        <5>4. QED
          BY <2>2, <4>6, <5>3
      <4>7. QED
        BY <2>4, <3>4, <4>4, <4>5, <4>6
    <3>7. CASE ~Converts(log[i])
      <4>1. F[i].diagnostics = F[p].diagnostics
        BY <2>2, <3>1, <3>7 DEF ParseLine
      <4>2. i \notin R /\ RankIn(R, i) = RankIn(R, p)
        BY <2>3, <3>5, <3>7
      <4>3. QED
        BY <2>2, <2>4, <3>4, <4>1, <4>2
    <3>8. QED
      BY <3>6, <3>7
  <2>6. CASE ~(i \in P /\ RankIn(P, p) < limit)
    <3>1. ~(log[i].type = "problem" /\ F[p].count < limit)
      BY <1>4, <2>2, <2>3, <2>6
    <3>2. F[i] = F[p]
      BY <2>2, <3>1 DEF ParseLine
    <3>3. i \notin R
      BY <1>4, <2>3, <2>6
    <3>4. RankIn(R, i) = RankIn(R, p)
      BY <2>3, <3>3
    <3>5. Counted(i)
      BY <2>2, <2>3, <2>6, <3>2
    <3>6. Listed(i)
      BY <2>2, <2>4, <3>2, <3>3, <3>4
    <3>7. QED
      BY <3>5, <3>6
  <2>7. QED
    BY <2>5, <2>6
<1> HIDE DEF Good
<1>9. Good(N)
  <2> DEFINE Bad == {i \in 0 .. N : ~Good(i)}
  <2>1. Bad = {}
    <3> SUFFICES ASSUME Bad # {} PROVE FALSE
      OBVIOUS
    <3>1. PICK k \in Bad : \A j \in Bad : k <= j
      <4>1. Bad \in SUBSET Nat
        BY <1>1
      <4> HIDE DEF Bad
      <4>2. QED
        BY <4>1, LeastOf
    <3>2. k \in 0 .. N /\ ~Good(k)
      OBVIOUS
    <3>3. k # 0
      BY <1>7, <3>2
    <3>4. k \in 1 .. N /\ k - 1 \in 0 .. N /\ k - 1 < k
      BY <1>1, <3>2, <3>3
    <3>5. Good(k - 1)
      <4>1. k - 1 \notin Bad
        <5> HIDE DEF Bad
        <5>1. QED
          BY <3>1, <3>4
      <4>2. QED
        BY <3>4, <4>1
    <3>6. QED
      BY <1>8, <3>2, <3>4, <3>5
  <2>2. N \in 0 .. N
    BY <1>1
  <2>3. QED
    BY <2>1, <2>2
<1>10. \A j \in R : j <= N
  BY <1>1, <1>3
<1>11. QED
  BY <1>2, <1>6, <1>9, <1>10 DEF Good, R

\* The problems reported are the first of the log, up to the limit, less those whose
\* position cannot be read, and in the order of the log.
THEOREM ReportsTheFirstProblems == Spec => []ProblemsAreTheFirst
<1>1. Printed => ProblemsAreTheFirst
  <2> SUFFICES ASSUME Printed, pc = "done", buildLog # Nothing, request.json
               PROVE  LET problems == {i \in DOMAIN buildLog : buildLog[i].type = "problem"}
                          Rank(S, i) == Cardinality({j \in S : j <= i})
                          reported == {i \in problems : Rank(problems, i) <= request.limit
                                                        /\ buildLog[i].line <= MaxLong}
                      IN  /\ Len(output) = Cardinality(reported)
                          /\ \A i \in reported :
                               LET d == output[Rank(reported, i)] IN
                               /\ d.line + 1 = buildLog[i].line
                               /\ d.severity = "error" <=> buildLog[i].severity \in {"error", "fatal error"}
    BY DEF ProblemsAreTheFirst
  <2> DEFINE reported == Reportable(buildLog, request.limit)
  <2>1. /\ buildLog \in Seq(LogLines) /\ request.limit \in Nat
        /\ output = ParseDiagnostics(buildLog, request.limit)
    <3>1. /\ request \in Requests /\ request.command = "diagnostics"
          /\ buildLog \in BuildLogs \/ buildLog = <<>>
          /\ output = ParseDiagnostics(buildLog, request.limit)
      BY DEF Printed
    <3>2. request.limit \in Nat
      BY <3>1, RequestsAssumption
    <3>3. <<>> \in Seq(LogLines)
      OBVIOUS
    <3>4. QED
      BY <3>1, <3>2, <3>3, LogsAssumption
  <2>2. /\ Len(output) = Cardinality(reported)
        /\ \A i \in reported : output[RankIn(reported, i)] = CreateDiagnostic(buildLog[i])
    BY <2>1, ParserReportsTheFirst
  <2>3. ASSUME NEW i \in reported
        PROVE  /\ output[RankIn(reported, i)].line + 1 = buildLog[i].line
               /\ (output[RankIn(reported, i)].severity = "error")
                    <=> (buildLog[i].severity \in {"error", "fatal error"})
    <3>1. buildLog[i] \in LogLines /\ buildLog[i].type = "problem"
      BY <2>1 DEF Reportable, Problems
    <3>2. buildLog[i].line \in Nat /\ buildLog[i].severity \in Severities
      BY <3>1 DEF LogLines
    <3>3. output[RankIn(reported, i)] =
            [line |-> buildLog[i].line - 1, severity |-> ParseSeverity(buildLog[i].severity)]
      BY <2>2 DEF CreateDiagnostic
    <3>4. (ParseSeverity(buildLog[i].severity) = "error")
             <=> (buildLog[i].severity \in {"error", "fatal error"})
      BY <3>2 DEF ParseSeverity, Severities
    <3>5. /\ output[RankIn(reported, i)].line = buildLog[i].line - 1
          /\ output[RankIn(reported, i)].severity = ParseSeverity(buildLog[i].severity)
      BY <3>3
    <3>6. \A n, m : m \in Nat /\ n = m - 1 => n + 1 = m
      OBVIOUS
    <3> HIDE DEF reported
    <3>7. output[RankIn(reported, i)].line + 1 = buildLog[i].line
      BY <3>2, <3>5, <3>6
    <3>8. QED
      BY <3>4, <3>5, <3>7
  <2>4. QED
    BY <2>2, <2>3 DEF Reportable, Problems, RankIn
<1>2. QED
  BY <1>1, PrintedHolds, PTL

-----------------------------------------------------------------------------
(* Completion. *)

\* Pieces of at most one element each, that tells which piece it is, are flattened in
\* the order of the pieces.
LEMMA FlattenKeepsOrder ==
    ASSUME NEW S, NEW seqs \in Seq(Seq(S)), NEW K \in [S -> Int],
           \A i \in DOMAIN seqs : Len(seqs[i]) <= 1 /\ \A e \in ToSet(seqs[i]) : K[e] = i
    PROVE  LET flat == FlattenSeq(seqs)
           IN  \A k, l \in DOMAIN flat : k < l => K[flat[k]] < K[flat[l]]
<1> DEFINE N == Len(seqs)
<1>1. N \in Nat /\ DOMAIN seqs = 1 .. N /\ \A i \in 1 .. N : seqs[i] \in Seq(S)
  OBVIOUS
<1>2. CASE N = 0
  <2>1. FlattenSeq(seqs) = seqs /\ DOMAIN seqs = {}
    BY <1>1, <1>2 DEF FlattenSeq
  <2>2. QED
    BY <2>1
<1>3. CASE N # 0
  <2>1. PICK f : Flattens(seqs, f, N) /\ FlattenSeq(seqs) = f[N]
    BY <1>1, <1>3, FlattenIsLast
  <2> HIDE DEF N
  <2>2. \A i \in 1 .. N : f[i] = IF i = 1 THEN seqs[i] ELSE f[i - 1] \o seqs[i]
    BY <2>1 DEF Flattens
  <2>3. ASSUME NEW i \in 1 .. N
        PROVE  /\ Len(seqs[i]) \in 0 .. 1
               /\ \A k \in 1 .. Len(seqs[i]) : k = 1 /\ seqs[i][k] \in S /\ K[seqs[i][k]] = i
    <3>1. seqs[i] \in Seq(S) /\ Len(seqs[i]) <= 1
      BY <1>1
    <3>2. PICK b \in Seq(S) : b = seqs[i]
      BY <3>1
    <3>3. Len(b) \in Nat /\ DOMAIN b = 1 .. Len(b) /\ \A k \in 1 .. Len(b) : b[k] \in S
      OBVIOUS
    <3>4. \A k \in 1 .. Len(b) : b[k] \in ToSet(b)
      BY <3>3 DEF ToSet
    <3>5. \A e \in ToSet(b) : K[e] = i
      BY <1>1, <3>2
    <3>6. PICK n \in Nat : n = Len(b) /\ n <= 1
      <4>1. Len(b) <= 1
        BY <3>1, <3>2
      <4>2. QED
        BY <3>3, <4>1
    <3>7. n \in 0 .. 1 /\ \A k \in 1 .. n : k = 1
      BY <3>6
    <3>8. QED
      BY <3>2, <3>3, <3>4, <3>5, <3>6, <3>7, Zenon
  <2> DEFINE Good(i) == /\ f[i] \in Seq(S)
                        /\ \A k \in 1 .. Len(f[i]) : K[f[i][k]] <= i
                        /\ \A k, l \in 1 .. Len(f[i]) : k < l => K[f[i][k]] < K[f[i][l]]
             Bad == {i \in 1 .. N : ~Good(i)}
  <2>4. Good(1)
    <3>1. 1 \in 1 .. N
      BY <1>1, <1>3
    <3>2. f[1] = seqs[1]
      BY <2>2, <3>1
    <3>3. QED
      BY <1>1, <2>3, <3>1, <3>2
  <2>5. ASSUME NEW p \in 1 .. N, NEW i \in 1 .. N, i = p + 1, Good(p) PROVE Good(i)
    <3> DEFINE a == f[p]
               b == seqs[i]
               w == a \o b
    <3>1. f[i] = w
      <4>1. i # 1 /\ i - 1 = p
        BY <1>1, <2>5
      <4>2. QED
        BY <2>2, <4>1
    <3>2. a \in Seq(S) /\ b \in Seq(S)
      BY <1>1, <2>5
    <3> HIDE DEF a, b, w
    <3>3. /\ w \in Seq(S) /\ Len(w) = Len(a) + Len(b) /\ Len(a) \in Nat /\ Len(b) \in Nat
          /\ \A k \in 1 .. Len(a) + Len(b) : w[k] = IF k <= Len(a) THEN a[k] ELSE b[k - Len(a)]
      BY <3>2, ConcatProperties DEF w
    <3>4. Len(b) \in 0 .. 1 /\ \A k \in 1 .. Len(b) : k = 1 /\ b[k] \in S /\ K[b[k]] = i
      BY <2>3 DEF b
    <3>5. /\ \A k \in 1 .. Len(a) : K[a[k]] <= p /\ K[a[k]] \in Int
          /\ \A k, l \in 1 .. Len(a) : k < l => K[a[k]] < K[a[l]]
      <4>1. \A k \in 1 .. Len(a) : a[k] \in S
        BY <3>2
      <4>2. QED
        BY <2>5, <4>1 DEF a
    <3>6. \A k \in 1 .. Len(w) : \/ k \in 1 .. Len(a) /\ w[k] = a[k]
                                 \/ k = Len(a) + 1 /\ K[w[k]] = i
      <4> SUFFICES ASSUME NEW k \in 1 .. Len(w), ~(k <= Len(a))
                   PROVE  k = Len(a) + 1 /\ K[w[k]] = i
        BY <3>3
      <4>1. k - Len(a) \in 1 .. Len(b)
        BY <3>3
      <4>2. w[k] = b[k - Len(a)]
        BY <3>3
      <4>3. k - Len(a) = 1 /\ K[b[k - Len(a)]] = i
        BY <3>4, <4>1
      <4>4. k = Len(a) + 1
        BY <3>3, <4>3
      <4>5. QED
        BY <4>2, <4>3, <4>4
    <3>7. ASSUME NEW k \in 1 .. Len(w) PROVE K[w[k]] <= i
      <4>1. CASE k \in 1 .. Len(a) /\ w[k] = a[k]
        <5>1. K[w[k]] \in Int /\ K[w[k]] <= p
          BY <3>5, <4>1
        <5>2. QED
          BY <1>1, <2>5, <5>1
      <4>2. CASE K[w[k]] = i
        BY <1>1, <4>2
      <4>3. QED
        BY <3>6, <4>1, <4>2
    <3>8. ASSUME NEW k \in 1 .. Len(w), NEW l \in 1 .. Len(w), k < l PROVE K[w[k]] < K[w[l]]
      <4>1. k \in 1 .. Len(a) /\ w[k] = a[k]
        BY <3>3, <3>4, <3>6, <3>8
      <4>2. CASE l \in 1 .. Len(a) /\ w[l] = a[l]
        BY <3>5, <3>8, <4>1, <4>2
      <4>3. CASE K[w[l]] = i
        BY <1>1, <2>5, <3>5, <4>1, <4>3
      <4>4. QED
        BY <3>6, <4>2, <4>3
    <3>9. QED
      BY <3>1, <3>3, <3>7, <3>8
  <2> HIDE DEF Good
  <2>6. Bad = {}
    <3> SUFFICES ASSUME Bad # {} PROVE FALSE
      OBVIOUS
    <3>1. PICK k \in Bad : \A j \in Bad : k <= j
      <4>1. Bad \in SUBSET Nat
        BY <1>1
      <4> HIDE DEF Bad
      <4>2. QED
        BY <4>1, LeastOf
    <3>2. k \in 1 .. N /\ ~Good(k)
      OBVIOUS
    <3>3. k # 1
      BY <2>4, <3>2
    <3>4. PICK p \in 1 .. N : k = p + 1
      <4>1. k - 1 \in 1 .. N /\ k = (k - 1) + 1
        BY <1>1, <3>2, <3>3
      <4>2. QED
        BY <4>1
    <3>5. p \notin Bad
      <4> HIDE DEF Bad
      <4>1. QED
        BY <1>1, <3>1, <3>2, <3>4
    <3>6. Good(p)
      BY <3>5
    <3>7. QED
      BY <2>5, <3>2, <3>4, <3>6
  <2>7. Good(N)
    <3>1. N \in 1 .. N
      BY <1>1, <1>3
    <3>2. QED
      BY <2>6, <3>1
  <2>8. f[N] \in Seq(S) /\ \A k, l \in 1 .. Len(f[N]) : k < l => K[f[N][k]] < K[f[N][l]]
    BY <2>7 DEF Good
  <2>9. DOMAIN f[N] = 1 .. Len(f[N])
    BY <2>8
  <2>10. QED
    BY <2>1, <2>8, <2>9
<1>4. QED
  BY <1>2, <1>3

\* The prefix is the token that the cursor is in or behind.
LEMMA PrefixIsTheToken ==
    ASSUME NEW line \in Seq(Tokens), NEW column \in Nat, NEW i \in DOMAIN line,
           line[i].start <= column, column <= End(line[i]),
           \A j \in 1 .. i - 1 : End(line[j]) < column
    PROVE  GetPrefix(line, column) = <<line[i]>>
<1> DEFINE N == Len(line)
           reaching == {j \in DOMAIN line : End(line[j]) >= column}
           tokens == Tokenize(line, column)
<1>1. N \in Nat /\ DOMAIN line = 1 .. N /\ \A j \in 1 .. N : line[j] \in Tokens
  OBVIOUS
<1> HIDE DEF N
<1>2. ASSUME NEW j \in 1 .. N PROVE End(line[j]) \in Nat
  <2>1. line[j].start \in Nat /\ line[j].text \in Seq(STRING)
    BY <1>1 DEF Tokens, Texts
  <2>2. QED
    BY <2>1 DEF End
<1>3. i \in 1 .. N /\ i \in reaching
  BY <1>1, <1>2
<1>4. \A j \in reaching \cup {N} : i <= j /\ j \in Nat
  <2>1. ASSUME NEW j \in reaching PROVE i <= j /\ j \in Nat
    <3>1. j \in 1 .. N /\ ~(End(line[j]) < column)
      BY <1>1, <1>2
    <3>2. j \notin 1 .. i - 1
      BY <3>1
    <3> HIDE DEF reaching
    <3>3. QED
      BY <1>1, <1>3, <3>1, <3>2
  <2> HIDE DEF reaching
  <2>2. QED
    BY <1>1, <1>3, <2>1
<1>5. Min(reaching \cup {N}) = i
  <2> DEFINE T == reaching \cup {N}
  <2>1. T \in SUBSET Nat /\ T # {} /\ i \in T /\ \A j \in T : i <= j
    BY <1>3, <1>4
  <2> HIDE DEF T
  <2>2. Min(T) \in T /\ Min(T) \in Nat /\ Min(T) <= i /\ i <= Min(T)
    BY <2>1, LeastIsMin
  <2>3. Min(T) = i
    BY <1>3, <2>2
  <2>4. QED
    BY <2>3 DEF T
<1>6. tokens = SubSeq(line, 1, i)
  BY <1>5 DEF Tokenize, N
<1>7. Len(tokens) = i /\ \A j \in 1 .. i : tokens[j] = line[j]
  BY <1>1, <1>3, <1>6
<1> HIDE DEF tokens, reaching
<1> DEFINE I == {j \in 1 .. Len(tokens) : Touches(tokens[j], column)}
<1>8. i \in I
  BY <1>1, <1>3, <1>7 DEF Touches
<1>9. I \in SUBSET Nat /\ \A j \in I : j <= i
  BY <1>1, <1>3, <1>7
<1>10. SelectLastInSeq(tokens, LAMBDA t : Touches(t, column)) = IF I # {} THEN Max(I) ELSE 0
  BY DEF SelectLastInSeq
<1> HIDE DEF I
<1>11. SelectLastInSeq(tokens, LAMBDA t : Touches(t, column)) = i
  BY <1>8, <1>9, <1>10, MaxIsGreatest
<1>12. GetPrefix(line, column) =
         IF SelectLastInSeq(tokens, LAMBDA t : Touches(t, column)) = 0 THEN <<>>
         ELSE <<tokens[SelectLastInSeq(tokens, LAMBDA t : Touches(t, column))]>>
  BY DEF GetPrefix, tokens
<1>13. i # 0 /\ tokens[i] = line[i]
  BY <1>1, <1>3, <1>7
<1>14. QED
  BY <1>11, <1>12, <1>13

\* A result has a typed text that begins with the prefix.
Fits(r, prefix) == Available(r) /\ \E c \in ToSet(r.chunks) : Matches(c, prefix)

\* A result that fits is shown under one of its texts that match, and no other is shown.
LEMMA LabelsFit ==
    ASSUME NEW r \in Results, NEW prefix
    PROVE  IF Fits(r, prefix)
           THEN \E text \in Texts : Labels(r, prefix) = <<text>> /\ IsPrefix(prefix, text)
           ELSE Labels(r, prefix) = <<>>
<1> DEFINE I == {i \in 1 .. Len(r.chunks) : Matches(r.chunks[i], prefix)}
           first == SelectInSeq(r.chunks, LAMBDA c : Matches(c, prefix))
<1>1. /\ Len(r.chunks) \in Nat /\ DOMAIN r.chunks = 1 .. Len(r.chunks)
      /\ \A i \in 1 .. Len(r.chunks) : r.chunks[i].text \in Texts \cup {NoText}
  <2>1. r.chunks \in Seq([kind : ChunkKinds, text : Texts \cup {NoText}])
    BY DEF Results
  <2> DEFINE C == [kind : ChunkKinds, text : Texts \cup {NoText}]
  <2>2. \A c \in C : c.text \in Texts \cup {NoText}
    OBVIOUS
  <2> HIDE DEF C
  <2>3. r.chunks \in Seq(C)
    BY <2>1 DEF C
  <2>4. QED
    BY <2>2, <2>3
<1>2. (\E c \in ToSet(r.chunks) : Matches(c, prefix)) <=> I # {}
  BY <1>1 DEF ToSet
<1>3. first = IF I # {} THEN Min(I) ELSE 0
  BY DEF SelectInSeq
<1>4. Labels(r, prefix) = IF Available(r) /\ first # 0 THEN <<r.chunks[first].text>> ELSE <<>>
  BY DEF Labels
<1>5. CASE Fits(r, prefix)
  <2>1. I # {} /\ I \in SUBSET Nat /\ Available(r)
    BY <1>1, <1>2, <1>5 DEF Fits
  <2> HIDE DEF I, first
  <2>2. first \in I
    BY <1>3, <2>1, LeastIsMin
  <2>3. first \in 1 .. Len(r.chunks) /\ Matches(r.chunks[first], prefix)
    BY <2>2 DEF I
  <2>4. first # 0
    BY <1>1, <2>3
  <2>5. r.chunks[first].text \in Texts /\ IsPrefix(prefix, r.chunks[first].text)
    BY <1>1, <2>3 DEF Matches
  <2>6. QED
    BY <1>4, <1>5, <2>1, <2>4, <2>5
<1>6. CASE ~Fits(r, prefix)
  <2> HIDE DEF I, first
  <2>1. Labels(r, prefix) = <<>>
    BY <1>2, <1>3, <1>4, <1>6 DEF Fits
  <2>2. QED
    BY <1>6, <2>1
<1>7. QED
  BY <1>5, <1>6

\* What is listed are the results that fit, in libclang's order.
LEMMA FilterKeepsWhatFits ==
    ASSUME NEW results \in Seq(Results), NEW prefix
    PROVE  LET out == FilterCompletions(results, prefix)
               fits == {k \in DOMAIN results : Fits(results[k], prefix)}
           IN  /\ {out[k].index + 1 : k \in DOMAIN out} = fits
               /\ \A k, l \in DOMAIN out : k < l => out[k].index < out[l].index
               /\ \A k \in DOMAIN out :
                    /\ IsPrefix(prefix, out[k].label)
                    /\ out[k].deprecated <=> results[out[k].index + 1].availability = "Deprecated"
                    /\ out[k].insertText = GetCompletionInsertText(results[out[k].index + 1])
<1> DEFINE N == Len(results)
           out == FilterCompletions(results, prefix)
           Shown(i, text) == CompletionResult(results, i, text)
           S == {Shown(i, text) : i \in 1 .. N, text \in Texts}
           seqs == [i \in DOMAIN results |->
                      [k \in DOMAIN Labels(results[i], prefix) |->
                         Shown(i, Labels(results[i], prefix)[k])]]
           K == [e \in S |-> e.index + 1]
<1>1. N \in Nat /\ DOMAIN results = 1 .. N /\ \A i \in 1 .. N : results[i] \in Results
  OBVIOUS
<1>2. out = FlattenSeq(seqs)
  BY DEF FilterCompletions
<1>3. ASSUME NEW i \in 1 .. N, NEW text
      PROVE  /\ Shown(i, text).index = i - 1 /\ Shown(i, text).index + 1 = i
             /\ Shown(i, text).label = text
             /\ Shown(i, text).deprecated = (results[i].availability = "Deprecated")
             /\ Shown(i, text).insertText = GetCompletionInsertText(results[i])
  <2>1. /\ Shown(i, text).index = i - 1 /\ Shown(i, text).label = text
        /\ Shown(i, text).deprecated = (results[i].availability = "Deprecated")
        /\ Shown(i, text).insertText = GetCompletionInsertText(results[i])
    BY DEF CompletionResult
  <2>2. (i - 1) + 1 = i
    BY <1>1
  <2>3. QED
    BY <2>1, <2>2
<1> HIDE DEF Shown, N
<1>4. ASSUME NEW i \in 1 .. N
      PROVE  IF Fits(results[i], prefix)
             THEN \E text \in Texts : seqs[i] = <<Shown(i, text)>> /\ IsPrefix(prefix, text)
             ELSE seqs[i] = <<>>
  <2> DEFINE labels == Labels(results[i], prefix)
  <2>1. IF Fits(results[i], prefix)
        THEN \E text \in Texts : labels = <<text>> /\ IsPrefix(prefix, text)
        ELSE labels = <<>>
    BY <1>1, LabelsFit
  <2>2. seqs[i] = [k \in DOMAIN labels |-> Shown(i, labels[k])]
    BY <1>1
  <2> HIDE DEF labels
  <2>3. CASE Fits(results[i], prefix)
    <3>1. PICK text \in Texts : labels = <<text>> /\ IsPrefix(prefix, text)
      BY <2>1, <2>3
    <3>2. DOMAIN labels = 1 .. 1 /\ labels[1] = text
      BY <3>1
    <3>3. seqs[i] = <<Shown(i, text)>>
      BY <2>2, <3>2
    <3>4. QED
      BY <2>3, <3>1, <3>3
  <2>4. CASE ~Fits(results[i], prefix)
    <3>1. labels = <<>>
      BY <2>1, <2>4
    <3>2. seqs[i] = <<>>
      BY <2>2, <3>1
    <3>3. QED
      BY <2>4, <3>2
  <2>5. QED
    BY <2>3, <2>4
<1>5. DOMAIN seqs = 1 .. N /\ seqs = [i \in 1 .. N |-> seqs[i]]
  BY <1>1
<1> HIDE DEF seqs
<1>6. ASSUME NEW i \in 1 .. N
      PROVE  /\ seqs[i] \in Seq(S) /\ Len(seqs[i]) <= 1
             /\ \A e \in ToSet(seqs[i]) :
                  /\ e.index + 1 = i /\ e.index = i - 1 /\ IsPrefix(prefix, e.label)
                  /\ e.deprecated = (results[i].availability = "Deprecated")
                  /\ e.insertText = GetCompletionInsertText(results[i])
             /\ (\E e : e \in ToSet(seqs[i])) <=> Fits(results[i], prefix)
  <2>1. CASE Fits(results[i], prefix)
    <3>1. PICK text \in Texts : seqs[i] = <<Shown(i, text)>> /\ IsPrefix(prefix, text)
      BY <1>4, <2>1
    <3>2. ToSet(seqs[i]) = {Shown(i, text)} /\ Len(seqs[i]) = 1
      BY <3>1 DEF ToSet
    <3>3. Shown(i, text) \in S
      OBVIOUS
    <3> HIDE DEF S
    <3>4. seqs[i] \in Seq(S)
      BY <3>1, <3>3
    <3>5. \A e \in ToSet(seqs[i]) : e = Shown(i, text)
      BY <3>2
    <3>6. /\ Shown(i, text).index + 1 = i /\ Shown(i, text).index = i - 1
          /\ IsPrefix(prefix, Shown(i, text).label)
          /\ Shown(i, text).deprecated = (results[i].availability = "Deprecated")
          /\ Shown(i, text).insertText = GetCompletionInsertText(results[i])
      BY <1>3, <3>1
    <3>7. \E e : e \in ToSet(seqs[i])
      BY <3>2
    <3>8. Len(seqs[i]) <= 1
      BY <3>2
    <3>9. QED
      BY <2>1, <3>4, <3>5, <3>6, <3>7, <3>8, Zenon
  <2>2. CASE ~Fits(results[i], prefix)
    <3>1. seqs[i] = <<>>
      BY <1>4, <2>2
    <3>2. ToSet(seqs[i]) = {} /\ Len(seqs[i]) = 0
      BY <3>1 DEF ToSet
    <3> HIDE DEF S
    <3>3. seqs[i] \in Seq(S)
      BY <3>1
    <3>4. QED
      BY <2>2, <3>2, <3>3
  <2>3. QED
    BY <2>1, <2>2
<1>7. seqs \in Seq(Seq(S))
  <2> HIDE DEF S
  <2>1. QED
    BY <1>1, <1>5, <1>6
<1>8. K \in [S -> Int] /\ \A e \in S : K[e] = e.index + 1 /\ e.index \in Int
  <2>1. ASSUME NEW e \in S PROVE e.index \in Int /\ e.index + 1 \in Int
    <3>1. PICK i \in 1 .. N, text \in Texts : e = Shown(i, text)
      OBVIOUS
    <3>2. e.index = i - 1
      BY <1>3, <3>1
    <3>3. QED
      BY <1>1, <3>2
  <2> HIDE DEF S
  <2>2. QED
    BY <2>1
<1> HIDE DEF S, K
<1>9. /\ out \in Seq(S)
      /\ \A e : (e \in ToSet(out) <=> \E i \in 1 .. N : e \in ToSet(seqs[i]))
  BY <1>2, <1>5, <1>7, FlattenElements
<1>10. \A k, l \in DOMAIN out : k < l => K[out[k]] < K[out[l]]
  <2>1. \A i \in 1 .. N : \A e \in ToSet(seqs[i]) : e \in S
    BY <1>6 DEF ToSet
  <2>2. \A i \in DOMAIN seqs : Len(seqs[i]) <= 1 /\ \A e \in ToSet(seqs[i]) : K[e] = i
    BY <1>5, <1>6, <1>8, <2>1
  <2>3. QED
    BY <1>2, <1>7, <1>8, <2>2, FlattenKeepsOrder
<1> HIDE DEF out
<1>11. \A k \in DOMAIN out : out[k] \in S /\ out[k] \in ToSet(out)
  BY <1>9 DEF ToSet
<1>12. ASSUME NEW k \in DOMAIN out, NEW l \in DOMAIN out, k < l PROVE out[k].index < out[l].index
  <2>1. /\ out[k].index \in Int /\ out[l].index \in Int
        /\ out[k].index + 1 < out[l].index + 1
    BY <1>8, <1>10, <1>11, <1>12
  <2>2. QED
    BY <2>1
<1>13. ASSUME NEW k \in DOMAIN out
       PROVE  /\ out[k].index + 1 \in DOMAIN results /\ Fits(results[out[k].index + 1], prefix)
              /\ IsPrefix(prefix, out[k].label)
              /\ (out[k].deprecated <=> results[out[k].index + 1].availability = "Deprecated")
              /\ out[k].insertText = GetCompletionInsertText(results[out[k].index + 1])
  <2>1. PICK i \in 1 .. N : out[k] \in ToSet(seqs[i])
    BY <1>9, <1>11
  <2>2. PICK e : e = out[k] /\ e \in ToSet(seqs[i])
    BY <2>1
  <2>3. /\ e.index + 1 = i /\ IsPrefix(prefix, e.label)
        /\ e.deprecated = (results[i].availability = "Deprecated")
        /\ e.insertText = GetCompletionInsertText(results[i])
    BY <1>6, <2>2
  <2>4. Fits(results[i], prefix)
    BY <1>6, <2>2
  <2>5. QED
    BY <1>1, <2>2, <2>3, <2>4
<1>14. ASSUME NEW i \in DOMAIN results, Fits(results[i], prefix)
       PROVE  \E k \in DOMAIN out : out[k].index + 1 = i
  <2>1. PICK e : e \in ToSet(seqs[i])
    BY <1>1, <1>6, <1>14
  <2>2. e \in ToSet(out) /\ e.index + 1 = i
    BY <1>1, <1>6, <1>9, <2>1
  <2>3. QED
    BY <2>2 DEF ToSet
<1>15. {out[k].index + 1 : k \in DOMAIN out} = {k \in DOMAIN results : Fits(results[k], prefix)}
  BY <1>13, <1>14
<1>16. QED
  BY <1>12, <1>13, <1>15 DEF out

\* What is listed is what can stand for the token at the cursor, once each, under a
\* text that begins with it, and in libclang's order.
THEOREM ListsWhatMatches == Spec => []CompletionsMatch
<1>1. Printed => CompletionsMatch
  <2> DEFINE line == request.line
             results(i) == CodeCompleteAt(line, line[i].start, Names, Members)
             fits(i) == {k \in DOMAIN results(i) : Fits(results(i)[k], line[i].text)}
  <2>1. ASSUME Printed, Answered("completion"), NEW i \in TokenAtCursor
        PROVE  /\ {output[k].index + 1 : k \in DOMAIN output} = fits(i)
               /\ \A k, l \in DOMAIN output : k < l => output[k].index < output[l].index
               /\ \A k \in DOMAIN output :
                    /\ IsPrefix(line[i].text, output[k].label)
                    /\ (output[k].deprecated <=> results(i)[output[k].index + 1].availability = "Deprecated")
    <3>1. /\ line \in Seq(Tokens) /\ request.column \in Nat
          /\ output = GetCompletions(line, request.column, Names, Members)
      BY <2>1, RequestsAssumption DEF Printed, Answered
    <3>2. GetPrefix(line, request.column) = <<line[i]>>
      BY <2>1, <3>1, PrefixIsTheToken DEF TokenAtCursor
    <3>3. output = FilterCompletions(results(i), line[i].text)
      BY <3>1, <3>2 DEF GetCompletions
    <3>4. results(i) \in Seq(Results)
      BY ResultsAssumption DEF CodeCompleteAt
    <3> HIDE DEF results
    <3>5. QED
      BY <3>3, <3>4, FilterKeepsWhatFits
  <2>2. QED
    BY <2>1 DEF CompletionsMatch, OfferedFor, CodeCompleteAt, Fits
<1>2. QED
  BY <1>1, PrintedHolds, PTL

-----------------------------------------------------------------------------
(* The text that is inserted. *)

\* The recursive function behind GetCompletionInsertText, over the first k chunks.
Inserts(chunks, k, f) ==
    f = [s \in SUBSET (1 .. k) |->
           IF s = {} THEN NothingInserted ELSE InsertChunk(f[s \ {Max(s)}], chunks[Max(s)])]

\* Every number of chunks can be inserted.
LEMMA InsertsExists ==
    ASSUME NEW chunks, NEW n \in Nat
    PROVE  \E f : Inserts(chunks, n, f)
<1> DEFINE Bad == {i \in Nat : ~\E f : Inserts(chunks, i, f)}
<1>1. Bad = {}
  <2> SUFFICES ASSUME Bad # {} PROVE FALSE
    OBVIOUS
  <2>1. PICK k \in Bad : \A j \in Bad : k <= j
    <3>1. Bad \in SUBSET Nat
      OBVIOUS
    <3> HIDE DEF Bad
    <3>2. QED
      BY <3>1, LeastOf
  <2>2. k \in Nat /\ ~\E f : Inserts(chunks, k, f)
    OBVIOUS
  <2>3. k # 0
    <3> DEFINE f == [s \in SUBSET (1 .. 0) |-> NothingInserted]
    <3>1. \A s \in SUBSET (1 .. 0) : s = {}
      OBVIOUS
    <3>2. Inserts(chunks, 0, f)
      BY <3>1 DEF Inserts
    <3>3. QED
      BY <2>2, <3>2
  <2>4. PICK p \in Nat : p = k - 1 /\ p < k
    BY <2>2, <2>3
  <2>5. PICK f : Inserts(chunks, p, f)
    <3>1. p \notin Bad
      <4> HIDE DEF Bad
      <4>1. QED
        BY <2>1, <2>2, <2>4
    <3>2. QED
      BY <3>1
  <2> DEFINE Value(h, s) == IF s = {} THEN NothingInserted ELSE InsertChunk(h[s \ {Max(s)}], chunks[Max(s)])
             g == [s \in SUBSET (1 .. k) |-> IF k \in s THEN Value(f, s) ELSE f[s]]
  <2>6. \A s \in SUBSET (1 .. p) : f[s] = Value(f, s)
    BY <2>5 DEF Inserts
  <2>7. \A s \in SUBSET (1 .. p) : s \in SUBSET (1 .. k) /\ k \notin s
    BY <2>2, <2>4
  <2>8. \A s \in SUBSET (1 .. k) : k \notin s => s \in SUBSET (1 .. p)
    BY <2>2, <2>4
  <2>9. \A s \in SUBSET (1 .. p) : g[s] = f[s]
    <3> HIDE DEF Value
    <3>1. QED
      BY <2>7
  <2>10. ASSUME NEW s \in SUBSET (1 .. k), s # {}
         PROVE  s \ {Max(s)} \in SUBSET (1 .. p)
    <3>1. CASE k \in s
      <4>1. Max(s) = k
        <5>1. s \in SUBSET Nat /\ \A m \in s : m <= k
          BY <2>2
        <5>2. QED
          BY <3>1, <5>1, MaxIsGreatest
      <4>2. QED
        BY <2>8, <4>1
    <3>2. CASE k \notin s
      BY <2>8, <3>2
    <3>3. QED
      BY <3>1, <3>2
  <2>11. \A s \in SUBSET (1 .. k) : Value(g, s) = Value(f, s)
    <3> HIDE DEF g
    <3>1. QED
      BY <2>9, <2>10
  <2>12. \A s \in SUBSET (1 .. k) : g[s] = Value(g, s)
    <3> SUFFICES ASSUME NEW s \in SUBSET (1 .. k) PROVE g[s] = Value(f, s)
      BY <2>11
    <3> HIDE DEF Value
    <3>1. CASE k \in s
      BY <3>1
    <3>2. CASE k \notin s
      BY <2>6, <2>8, <3>2
    <3>3. QED
      BY <3>1, <3>2
  <2>13. Inserts(chunks, k, g)
    <3>1. g = [s \in SUBSET (1 .. k) |-> g[s]]
      OBVIOUS
    <3> HIDE DEF g
    <3>2. QED
      BY <2>12, <3>1 DEF Inserts
  <2>14. QED
    BY <2>2, <2>13
<1>2. QED
  BY <1>1

\* The text is built chunk by chunk.
LEMMA InsertedByChunks ==
    ASSUME NEW r, Len(r.chunks) \in Nat, DOMAIN r.chunks = 1 .. Len(r.chunks)
    PROVE  \E F : /\ F[0] = NothingInserted
                  /\ \A i \in 1 .. Len(r.chunks) : F[i] = InsertChunk(F[i - 1], r.chunks[i])
                  /\ GetCompletionInsertText(r) =
                       IF F[Len(r.chunks)].isSnippet
                       THEN Append(F[Len(r.chunks)].text, TabStop(0, <<>>)) ELSE F[Len(r.chunks)].text
<1> DEFINE chunks == r.chunks
           N == Len(chunks)
           f == CHOOSE f : f = [s \in SUBSET (1 .. N) |->
                                  IF s = {} THEN NothingInserted
                                  ELSE InsertChunk(f[s \ {Max(s)}], chunks[Max(s)])]
           F == [i \in 0 .. N |-> f[1 .. i]]
<1>1. f = [s \in SUBSET (1 .. N) |->
             IF s = {} THEN NothingInserted ELSE InsertChunk(f[s \ {Max(s)}], chunks[Max(s)])]
  <2>1. \E h : Inserts(chunks, N, h)
    BY InsertsExists
  <2>2. \E h : h = [s \in SUBSET (1 .. N) |->
                     IF s = {} THEN NothingInserted ELSE InsertChunk(h[s \ {Max(s)}], chunks[Max(s)])]
    BY <2>1 DEF Inserts
  <2> HIDE DEF N, chunks
  <2>3. QED
    BY <2>2, Zenon
<1>2. FoldLeft(InsertChunk, NothingInserted, chunks) = f[1 .. N]
  BY DEF FoldLeft, MapThenFoldSet
<1>20. GetCompletionInsertText(r) =
         IF f[1 .. N].isSnippet THEN Append(f[1 .. N].text, TabStop(0, <<>>)) ELSE f[1 .. N].text
  BY <1>2 DEF GetCompletionInsertText
<1> HIDE DEF f, N, chunks
<1>3. N \in Nat
  BY DEF N, chunks
<1>4. F[0] = NothingInserted
  <2>1. 1 .. 0 = {} /\ 1 .. 0 \in SUBSET (1 .. N) /\ 0 \in 0 .. N
    BY <1>3
  <2>2. QED
    BY <1>1, <2>1
<1>5. ASSUME NEW i \in 1 .. N PROVE F[i] = InsertChunk(F[i - 1], chunks[i])
  <2>1. 1 .. i \in SUBSET (1 .. N) /\ 1 .. i # {} /\ i \in 0 .. N /\ i - 1 \in 0 .. N
    <3>1. i \in 1 .. i /\ i \in 0 .. N /\ i - 1 \in 0 .. N
      BY <1>3
    <3>2. \A m \in 1 .. i : m \in 1 .. N
      BY <1>3
    <3>3. 1 .. i # {}
      BY <3>1
    <3>4. QED
      BY <3>1, <3>2, <3>3
  <2>2. Max(1 .. i) = i
    <3>1. 1 .. i \in SUBSET Nat /\ i \in 1 .. i /\ \A m \in 1 .. i : m <= i
      BY <1>3
    <3>2. QED
      BY <3>1, MaxIsGreatest
  <2>3. (1 .. i) \ {i} = 1 .. i - 1
    BY <1>3
  <2>4. f[1 .. i] = InsertChunk(f[1 .. i - 1], chunks[i])
    BY <1>1, <2>1, <2>2, <2>3
  <2>5. QED
    BY <2>1, <2>4
<1>6. F[N] = f[1 .. N]
  BY <1>3
<1>7. QED
  BY <1>4, <1>5, <1>6, <1>20 DEF N, chunks

\* The stops of a text.
StopsIn(text) == {s \in DOMAIN text : text[s].type = "stop"}

\* A text that is longer by one piece has that piece as its last stop, or no other stops.
Lengthens(longer, text, piece) ==
    LET S == StopsIn(text)
        last == Len(text) + 1
    IN  /\ Len(longer) = last /\ longer[last] = piece
        /\ Cardinality(S) \in Nat
        /\ \A s \in S : longer[s] = text[s] /\ RankIn(S, s) \in 1 .. Cardinality(S)
        /\ piece.type # "stop" => StopsIn(longer) = S
        /\ piece.type = "stop" =>
             /\ StopsIn(longer) = S \cup {last}
             /\ Cardinality(StopsIn(longer)) = Cardinality(S) + 1
             /\ \A s \in S : RankIn(StopsIn(longer), s) = RankIn(S, s)
             /\ RankIn(StopsIn(longer), last) = Cardinality(S) + 1

\* So does a text to which a piece is appended.
LEMMA AppendLengthens ==
    ASSUME NEW X, NEW text \in Seq(X), NEW piece \in X, NEW longer, longer = Append(text, piece)
    PROVE  longer \in Seq(X) /\ Lengthens(longer, text, piece)
<1> DEFINE L == Len(text)
           S == StopsIn(text)
           S2 == StopsIn(longer)
<1>1. /\ L \in Nat /\ DOMAIN text = 1 .. L
      /\ longer \in Seq(X) /\ Len(longer) = L + 1 /\ DOMAIN longer = 1 .. L + 1
      /\ longer[L + 1] = piece /\ \A i \in 1 .. L : longer[i] = text[i]
  OBVIOUS
<1>2. S \in SUBSET (1 .. L) /\ \A i \in 1 .. L : (i \in S <=> text[i].type = "stop")
  BY <1>1 DEF StopsIn
<1>3. S2 \in SUBSET (1 .. L + 1) /\ \A i \in 1 .. L + 1 : (i \in S2 <=> longer[i].type = "stop")
  <2>1. DOMAIN longer = 1 .. L + 1
    BY <1>1
  <2>2. QED
    BY <2>1 DEF StopsIn
<1> HIDE DEF L, S, S2
<1>4. \A i \in 1 .. L + 1 : i \in 1 .. L \/ i = L + 1
  BY <1>1
<1>5. \A i \in 1 .. L : i \in 1 .. L + 1 /\ i # L + 1 /\ i <= L
  BY <1>1
<1>6. L + 1 \in 1 .. L + 1
  BY <1>1
<1>7. \A i : (i \in S2 <=> i \in S \/ (i = L + 1 /\ piece.type = "stop"))
  BY <1>1, <1>2, <1>3, <1>4, <1>5, <1>6
<1>8. /\ IsFiniteSet(S) /\ Cardinality(S) \in Nat
      /\ \A s \in S : RankIn(S, s) \in 1 .. Cardinality(S)
  <2>1. IsFiniteSet(S)
    <3>1. IsFiniteSet(1 .. L)
      BY <1>1, FS_Interval
    <3>2. QED
      BY <1>2, <3>1, FS_Subset
  <2>2. Cardinality(S) \in Nat
    BY <2>1, FS_CardinalityType
  <2>3. /\ \A i \in 0 .. L : RankIn(S, i) \in Nat
        /\ RankIn(S, L) = Cardinality(S)
        /\ \A i, j \in 0 .. L : i <= j => RankIn(S, i) <= RankIn(S, j)
        /\ \A i \in S : RankIn(S, i) >= 1
    BY <1>1, <1>2, RankGrows
  <2>4. ASSUME NEW s \in S PROVE RankIn(S, s) \in 1 .. Cardinality(S)
    <3>1. s \in 0 .. L /\ L \in 0 .. L /\ s <= L
      BY <1>1, <1>2
    <3>2. QED
      BY <2>2, <2>3, <3>1
  <2>5. QED
    BY <2>1, <2>2, <2>4
<1>9. piece.type # "stop" => S2 = S
  BY <1>7
<1>10. ASSUME piece.type = "stop"
       PROVE  /\ S2 = S \cup {L + 1}
              /\ Cardinality(S2) = Cardinality(S) + 1
              /\ \A s \in S : RankIn(S2, s) = RankIn(S, s)
              /\ RankIn(S2, L + 1) = Cardinality(S) + 1
  <2>1. S2 = S \cup {L + 1}
    BY <1>7, <1>10
  <2>2. L + 1 \notin S
    BY <1>2, <1>5
  <2>3. Cardinality(S2) = Cardinality(S) + 1
    BY <1>8, <2>1, <2>2, FS_AddElement
  <2>4. ASSUME NEW s \in S PROVE RankIn(S2, s) = RankIn(S, s)
    <3>1. s <= L /\ s \in Nat /\ ~(L + 1 <= s)
      BY <1>1, <1>2
    <3>2. {j \in S2 : j <= s} = {j \in S : j <= s}
      BY <2>1, <3>1
    <3>3. QED
      BY <3>2 DEF RankIn
  <2>5. {j \in S2 : j <= L + 1} = S2
    <3>1. \A j \in 1 .. L + 1 : j <= L + 1
      OBVIOUS
    <3>2. QED
      BY <1>3, <3>1
  <2>6. QED
    BY <2>1, <2>3, <2>4, <2>5 DEF RankIn
<1>11. \A s \in S : longer[s] = text[s]
  BY <1>1, <1>2
<1>12. QED
  BY <1>1, <1>8, <1>9, <1>10, <1>11 DEF Lengthens, L, S, S2

\* What TabStops says of a text.
Parameters(chunks) == {c \in DOMAIN chunks : chunks[c].kind = "Placeholder" /\ chunks[c].text # NoText}
StopsAre(text, chunks) ==
    LET P == Parameters(chunks)
        S == StopsIn(text)
    IN  IF P = {} THEN S = {}
        ELSE /\ Cardinality(S) = Cardinality(P) + 1
             /\ text[Len(text)] = TabStop(0, <<>>)
             /\ \A c \in P, s \in S :
                  RankIn(S, s) = RankIn(P, c) => text[s] = TabStop(RankIn(P, c), chunks[c].text)

\* In the text inserted for a result, its n-th placeholder that has a text is stop n.
LEMMA InsertTextNumbersParameters ==
    ASSUME NEW r \in Results
    PROVE  StopsAre(GetCompletionInsertText(r), r.chunks)
<1> DEFINE chunks == r.chunks
           N == Len(chunks)
           P == Parameters(chunks)
           Pieces == {Plain(t) : t \in Texts} \cup {TabStop(n, t) : n \in Nat, t \in Texts}
           Built == [text : Seq(Pieces), placeholderIndex : Nat, isSnippet : BOOLEAN]
<1>1. N \in Nat /\ DOMAIN chunks = 1 .. N /\ \A i \in 1 .. N : chunks[i].text \in Texts \cup {NoText}
  <2> DEFINE C == [kind : ChunkKinds, text : Texts \cup {NoText}]
  <2>1. chunks \in Seq(C)
    BY DEF Results
  <2>2. \A c \in C : c.text \in Texts \cup {NoText}
    OBVIOUS
  <2> HIDE DEF C, chunks
  <2>3. QED
    BY <2>1, <2>2
<1>2. PICK F : /\ F[0] = NothingInserted
               /\ \A i \in 1 .. N : F[i] = InsertChunk(F[i - 1], chunks[i])
               /\ GetCompletionInsertText(r) =
                    IF F[N].isSnippet THEN Append(F[N].text, TabStop(0, <<>>)) ELSE F[N].text
  BY <1>1, InsertedByChunks
<1>3. P \in SUBSET (1 .. N)
      /\ \A i \in 1 .. N : (i \in P <=> chunks[i].kind = "Placeholder" /\ chunks[i].text # NoText)
  BY <1>1 DEF Parameters
<1> HIDE DEF N, P, chunks
<1>4. /\ \A i \in 0 .. N : RankIn(P, i) \in Nat
      /\ RankIn(P, 0) = 0 /\ RankIn(P, N) = Cardinality(P)
      /\ \A i \in 1 .. N : RankIn(P, i) = IF i \in P THEN RankIn(P, i - 1) + 1 ELSE RankIn(P, i - 1)
      /\ \A i, j \in 0 .. N : i <= j => RankIn(P, i) <= RankIn(P, j)
      /\ \A i \in P : RankIn(P, i) >= 1
  BY <1>1, <1>3, RankGrows
<1>5. /\ \A t \in Texts : Plain(t) \in Pieces /\ Plain(t).type # "stop"
      /\ \A n \in Nat, t \in Texts : TabStop(n, t) \in Pieces /\ TabStop(n, t).type = "stop"
      /\ <<>> \in Texts
  <2>1. \A t \in Texts : Plain(t) \in Pieces /\ Plain(t).type # "stop"
    <3>1. \A t : Plain(t).type # "stop"
      BY DEF Plain
    <3>2. QED
      BY <3>1
  <2>2. \A n \in Nat, t \in Texts : TabStop(n, t) \in Pieces /\ TabStop(n, t).type = "stop"
    <3>1. \A n, t : TabStop(n, t).type = "stop"
      BY DEF TabStop
    <3>2. QED
      BY <3>1
  <2>3. QED
    BY <2>1, <2>2 DEF Texts
<1> HIDE DEF Pieces
<1> DEFINE Numbered(text, i) ==
             /\ Cardinality(StopsIn(text)) = RankIn(P, i)
             /\ \A c \in P, s \in StopsIn(text) :
                  c <= i /\ RankIn(StopsIn(text), s) = RankIn(P, c) =>
                    text[s] = TabStop(RankIn(P, c), chunks[c].text)
           Good(i) ==
             /\ F[i] \in Built
             /\ F[i].placeholderIndex = RankIn(P, i) + 1
             /\ F[i].isSnippet <=> RankIn(P, i) # 0
             /\ Numbered(F[i].text, i)
<1>6. Good(0)
  <2>1. <<>> \in Seq(Pieces) /\ StopsIn(<<>>) = {}
    BY DEF StopsIn
  <2>2. Cardinality({}) = 0
    BY FS_EmptySet
  <2>3. F[0].text = <<>> /\ F[0].placeholderIndex = 1 /\ F[0].isSnippet = FALSE /\ F[0] \in Built
    BY <1>2, <2>1 DEF NothingInserted
  <2>4. Numbered(F[0].text, 0)
    BY <1>4, <2>1, <2>2, <2>3
  <2> HIDE DEF Numbered, Built
  <2>5. QED
    BY <1>4, <2>3, <2>4
<1>7. ASSUME NEW i \in 1 .. N, Good(i - 1) PROVE Good(i)
  <2>1. PICK p \in 0 .. N : p = i - 1
    BY <1>1
  <2> DEFINE old == F[p].text
  <2>2. /\ F[i] = InsertChunk(F[p], chunks[i]) /\ Good(p)
    BY <1>2, <1>7, <2>1
  <2>3. /\ RankIn(P, p) \in Nat
        /\ RankIn(P, i) = (IF i \in P THEN RankIn(P, p) + 1 ELSE RankIn(P, p))
    BY <1>4, <2>1
  <2>4. \A c \in P : c <= i => c \in 0 .. N /\ (c <= p \/ c = i)
    BY <1>1, <1>3, <2>1
  <2>5. F[p] = [text |-> old, placeholderIndex |-> RankIn(P, p) + 1, isSnippet |-> F[p].isSnippet]
        /\ old \in Seq(Pieces) /\ F[p].isSnippet \in BOOLEAN
    BY <2>2
  <2>6. CASE i \in P
    <3> DEFINE stop == TabStop(RankIn(P, p) + 1, chunks[i].text)
               new == Append(old, stop)
    <3>1. stop \in Pieces /\ stop.type = "stop"
      BY <1>1, <1>3, <1>5, <2>3, <2>6
    <3>2. F[i] = [text |-> new, placeholderIndex |-> RankIn(P, p) + 2, isSnippet |-> TRUE]
      <4>1. F[i] = [text |-> new, placeholderIndex |-> (RankIn(P, p) + 1) + 1, isSnippet |-> TRUE]
        BY <1>3, <2>2, <2>5, <2>6 DEF InsertChunk
      <4>2. (RankIn(P, p) + 1) + 1 = RankIn(P, p) + 2
        BY <2>3
      <4>3. QED
        BY <4>1, <4>2
    <3> DEFINE S == StopsIn(old)
               last == Len(old) + 1
    <3>10. old \in Seq(Pieces) /\ new = Append(old, stop)
      BY <2>5
    <3> HIDE DEF stop, old, new
    <3>3. /\ new \in Seq(Pieces) /\ new[last] = stop
          /\ \A s \in S : new[s] = old[s] /\ RankIn(S, s) \in 1 .. Cardinality(S)
          /\ StopsIn(new) = S \cup {last}
          /\ Cardinality(StopsIn(new)) = Cardinality(S) + 1
          /\ \A s \in S : RankIn(StopsIn(new), s) = RankIn(S, s)
          /\ RankIn(StopsIn(new), last) = Cardinality(S) + 1
      <4>1. new \in Seq(Pieces) /\ Lengthens(new, old, stop)
        BY <3>1, <3>10, AppendLengthens
      <4>2. QED
        BY <3>1, <4>1 DEF Lengthens
    <3>4. Cardinality(S) = RankIn(P, p)
      BY <2>2 DEF old
    <3> HIDE DEF S, last
    <3>5. ASSUME NEW c \in P, NEW s \in StopsIn(new), c <= i, RankIn(StopsIn(new), s) = RankIn(P, c)
          PROVE  new[s] = TabStop(RankIn(P, c), chunks[c].text)
      <4>1. CASE c = i
        <5>1. RankIn(P, c) = RankIn(P, p) + 1
          BY <2>3, <2>6, <4>1
        <5>2. s \notin S
          BY <2>3, <3>3, <3>4, <3>5, <5>1
        <5>3. s = last
          BY <3>3, <5>2
        <5>4. QED
          BY <3>3, <4>1, <5>1, <5>3 DEF stop
      <4>2. CASE c <= p
        <5>1. RankIn(P, c) <= RankIn(P, p) /\ RankIn(P, c) \in Nat
          BY <1>4, <2>4, <3>5, <4>2
        <5>2. s \in S /\ RankIn(S, s) = RankIn(P, c)
          BY <2>3, <3>3, <3>4, <3>5, <5>1
        <5>3. old[s] = TabStop(RankIn(P, c), chunks[c].text)
          BY <2>2, <4>2, <5>2 DEF S, old
        <5>4. QED
          BY <3>3, <5>2, <5>3
      <4>3. QED
        BY <2>4, <3>5, <4>1, <4>2
    <3>6. Numbered(new, i)
      BY <2>3, <2>6, <3>3, <3>4, <3>5
    <3>7. F[i].text = new /\ F[i].placeholderIndex = RankIn(P, p) + 2 /\ F[i].isSnippet = TRUE
      BY <3>2
    <3>8. F[i] \in Built /\ F[i].placeholderIndex = RankIn(P, i) + 1 /\ RankIn(P, i) # 0
      BY <2>3, <2>6, <3>2, <3>3
    <3> HIDE DEF Numbered, Built
    <3>9. QED
      BY <3>6, <3>7, <3>8
  <2>7. CASE i \notin P
    <3>1. RankIn(P, i) = RankIn(P, p)
      BY <2>3, <2>7
    <3>2. \A c \in P : c <= i => c <= p
      BY <2>4, <2>7
    <3>3. \/ F[i] = F[p]
          \/ /\ chunks[i].text # NoText
             /\ F[i] = [F[p] EXCEPT !.text = Append(@, Plain(chunks[i].text))]
      BY <1>3, <2>2, <2>7 DEF InsertChunk
    <3>4. CASE F[i] = F[p]
      BY <2>2, <3>1, <3>2, <3>4
    <3>5. CASE /\ chunks[i].text # NoText
               /\ F[i] = [F[p] EXCEPT !.text = Append(@, Plain(chunks[i].text))]
      <4> DEFINE piece == Plain(chunks[i].text)
                 new == Append(old, piece)
      <4>1. piece \in Pieces /\ piece.type # "stop"
        BY <1>1, <1>5, <3>5
      <4>3. F[i] = [text |-> new, placeholderIndex |-> RankIn(P, p) + 1, isSnippet |-> F[p].isSnippet]
        <5> HIDE DEF piece
        <5>1. F[i] = [F[p] EXCEPT !.text = Append(old, piece)]
          BY <3>5 DEF piece
        <5> DEFINE q == F[p]
                   m == RankIn(P, p) + 1
        <5>2. q = [text |-> old, placeholderIndex |-> m, isSnippet |-> q.isSnippet]
          BY <2>5
        <5>3. F[i] = [q EXCEPT !.text = new]
          BY <5>1
        <5> HIDE DEF old, new, q, m
        <5>4. [q EXCEPT !.text = new] = [text |-> new, placeholderIndex |-> m, isSnippet |-> q.isSnippet]
          BY <5>2
        <5>5. QED
          BY <5>3, <5>4 DEF q, m
      <4>9. old \in Seq(Pieces) /\ new = Append(old, piece)
        BY <2>5
      <4> HIDE DEF piece, old, new
      <4>2. /\ new \in Seq(Pieces) /\ StopsIn(new) = StopsIn(old)
            /\ \A s \in StopsIn(old) : new[s] = old[s]
        <5>1. new \in Seq(Pieces) /\ Lengthens(new, old, piece)
          BY <4>1, <4>9, AppendLengthens
        <5>2. QED
          BY <4>1, <5>1 DEF Lengthens
      <4>4. Numbered(new, i)
        BY <2>2, <3>1, <3>2, <4>2 DEF old
      <4>5. F[i].text = new /\ F[i].placeholderIndex = RankIn(P, i) + 1 /\ F[i].isSnippet = F[p].isSnippet
        BY <3>1, <4>3
      <4>6. F[i] \in Built
        BY <2>3, <2>5, <4>2, <4>3
      <4>7. F[p].isSnippet <=> RankIn(P, p) # 0
        BY <2>2
      <4> HIDE DEF Numbered, Built
      <4>8. QED
        BY <3>1, <4>4, <4>5, <4>6, <4>7
    <3>6. QED
      BY <3>3, <3>4, <3>5
  <2>8. QED
    BY <2>6, <2>7
<1> HIDE DEF Good
<1>8. Good(N)
  <2> DEFINE Bad == {i \in 0 .. N : ~Good(i)}
  <2>1. Bad = {}
    <3> SUFFICES ASSUME Bad # {} PROVE FALSE
      OBVIOUS
    <3>1. PICK k \in Bad : \A j \in Bad : k <= j
      <4>1. Bad \in SUBSET Nat
        BY <1>1
      <4> HIDE DEF Bad
      <4>2. QED
        BY <4>1, LeastOf
    <3>2. k \in 0 .. N /\ ~Good(k)
      OBVIOUS
    <3>3. k # 0
      BY <1>6, <3>2
    <3>4. k \in 1 .. N /\ k - 1 \in 0 .. N /\ k - 1 < k
      BY <1>1, <3>2, <3>3
    <3>5. Good(k - 1)
      <4>1. k - 1 \notin Bad
        <5> HIDE DEF Bad
        <5>1. QED
          BY <3>1, <3>4
      <4>2. QED
        BY <3>4, <4>1
    <3>6. QED
      BY <1>7, <3>2, <3>4, <3>5
  <2>2. N \in 0 .. N
    BY <1>1
  <2>3. QED
    BY <2>1, <2>2
<1> DEFINE built == F[N].text
           S == StopsIn(built)
<1>9. /\ built \in Seq(Pieces) /\ (F[N].isSnippet <=> Cardinality(P) # 0)
      /\ Cardinality(S) = Cardinality(P)
      /\ \A c \in P, s \in S : RankIn(S, s) = RankIn(P, c) => built[s] = TabStop(RankIn(P, c), chunks[c].text)
  <2>1. \A c \in P : c <= N
    BY <1>1, <1>3
  <2>2. QED
    BY <1>4, <1>8, <2>1 DEF Good
<1>10. IsFiniteSet(P) /\ IsFiniteSet(S)
  <2>1. IsFiniteSet(1 .. N) /\ IsFiniteSet(1 .. Len(built))
    <3>1. Len(built) \in Nat
      BY <1>9
    <3> HIDE DEF built
    <3>2. QED
      BY <1>1, <3>1, FS_Interval
  <2>2. S \in SUBSET (1 .. Len(built))
    BY <1>9 DEF StopsIn
  <2>3. QED
    BY <1>3, <2>1, <2>2, FS_Subset
<1>11. CASE P = {}
  <2>1. Cardinality(P) = 0
    BY <1>11, FS_EmptySet
  <2>2. S = {}
    BY <1>9, <1>10, <2>1, FS_EmptySet
  <2>3. GetCompletionInsertText(r) = built
    BY <1>2, <1>9, <2>1
  <2>4. QED
    BY <1>11, <2>2, <2>3 DEF StopsAre, P, chunks
<1>12. CASE P # {}
  <2> DEFINE end == TabStop(0, <<>>)
             text == Append(built, end)
             last == Len(built) + 1
             T == StopsIn(text)
  <2>1. Cardinality(P) # 0 /\ Cardinality(P) \in Nat
    BY <1>10, <1>12, FS_EmptySet, FS_CardinalityType
  <2>2. GetCompletionInsertText(r) = text
    BY <1>2, <1>9, <2>1
  <2>3. end \in Pieces /\ end.type = "stop"
    BY <1>5
  <2>9. built \in Seq(Pieces) /\ text = Append(built, end)
    BY <1>9
  <2> HIDE DEF end, built, text
  <2>4. /\ Len(text) = last /\ text[last] = end
        /\ \A s \in S : text[s] = built[s]
        /\ T = S \cup {last} /\ Cardinality(T) = Cardinality(S) + 1
        /\ \A s \in S : RankIn(T, s) = RankIn(S, s)
        /\ RankIn(T, last) = Cardinality(S) + 1
    <3>1. Lengthens(text, built, end)
      BY <2>3, <2>9, AppendLengthens
    <3>2. QED
      BY <2>3, <3>1 DEF Lengthens
  <2> HIDE DEF T, last, S
  <2>5. ASSUME NEW c \in P, NEW s \in T, RankIn(T, s) = RankIn(P, c)
        PROVE  text[s] = TabStop(RankIn(P, c), chunks[c].text)
    <3>1. RankIn(P, c) <= Cardinality(P) /\ RankIn(P, c) \in Nat
      <4>1. c \in 0 .. N /\ N \in 0 .. N /\ c <= N
        BY <1>1, <1>3
      <4>2. QED
        BY <1>4, <4>1
    <3>2. s \in S
      BY <1>9, <2>1, <2>4, <2>5, <3>1
    <3>3. QED
      BY <1>9, <2>4, <2>5, <3>2
  <2>6. Cardinality(T) = Cardinality(P) + 1 /\ text[Len(text)] = TabStop(0, <<>>)
    BY <1>9, <2>4 DEF end
  <2>7. StopsAre(text, chunks)
    BY <1>12, <2>5, <2>6 DEF StopsAre, T, P
  <2>8. QED
    BY <2>2, <2>7 DEF chunks
<1>13. QED
  BY <1>11, <1>12

\* The n-th stop in an inserted text stands for the n-th parameter of the result and
\* has the number n, and the cursor ends behind them, whatever is completed.
THEOREM NumbersTabStops == Spec => []TabStops
<1>1. Printed => TabStops
  <2> DEFINE line == request.line
             results(i) == CodeCompleteAt(line, line[i].start, Names, Members)
  <2>1. ASSUME Printed, Answered("completion"), NEW i \in TokenAtCursor, NEW k \in DOMAIN output
        PROVE  StopsAre(output[k].insertText, results(i)[output[k].index + 1].chunks)
    <3>1. /\ line \in Seq(Tokens) /\ request.column \in Nat
          /\ output = GetCompletions(line, request.column, Names, Members)
      BY <2>1, RequestsAssumption DEF Printed, Answered
    <3>2. GetPrefix(line, request.column) = <<line[i]>>
      BY <2>1, <3>1, PrefixIsTheToken DEF TokenAtCursor
    <3>3. output = FilterCompletions(results(i), line[i].text)
      BY <3>1, <3>2 DEF GetCompletions
    <3>4. results(i) \in Seq(Results)
      BY ResultsAssumption DEF CodeCompleteAt
    <3> DEFINE r == results(i)[output[k].index + 1]
    <3> HIDE DEF results
    <3>5. output[k].index + 1 \in DOMAIN results(i) /\ output[k].insertText = GetCompletionInsertText(r)
      BY <2>1, <3>3, <3>4, FilterKeepsWhatFits
    <3>6. r \in Results
      BY <3>4, <3>5
    <3>7. QED
      BY <3>5, <3>6, InsertTextNumbersParameters
  <2>2. QED
    BY <2>1 DEF TabStops, OfferedFor, CodeCompleteAt, StopsAre, StopsIn, Parameters, RankIn
<1>2. QED
  BY <1>1, PrintedHolds, PTL
=============================================================================
