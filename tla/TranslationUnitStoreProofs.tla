-------------------- MODULE TranslationUnitStoreProofs --------------------
(***************************************************************************)
(* Proofs about TranslationUnitStore, for any files, texts, options and    *)
(* libclang handles.  The ownership facts are stated over the triple       *)
(* (map of entries, live units, live indexes), because a didChange goes    *)
(* through an intermediate triple: the failed unit's entry is dropped, and *)
(* a full parse starts from what is left.                                  *)
(***************************************************************************)
EXTENDS TranslationUnitStore, TLAPS

Entries == [tu : UnitHandles, index : IndexHandles]
EntryMaps == [Files -> Entries \cup {NoUnit}]
UnitStates == [UnitHandles -> Parses \cup {Disposed}]

\* The entries u hold live handles, no two of them the same one.
Sound(u, ts, is) ==
    /\ u \in EntryMaps /\ ts \in UnitStates /\ is \in SUBSET IndexHandles
    /\ \A f \in Files : u[f] # NoUnit => ts[u[f].tu] # Disposed /\ u[f].index \in is
    /\ \A f, g \in Files :
         /\ u[f] # NoUnit /\ u[g] # NoUnit
         /\ u[f].tu = u[g].tu \/ u[f].index = u[g].index
         => f = g

\* The entries that remain when those of fs are dropped.
Without(fs) == [f \in Files |-> IF f \in fs THEN NoUnit ELSE units[f]]

\* An entry of the map is a unit and an index.
LEMMA EntryInMap ==
    ASSUME NEW u \in EntryMaps, NEW f \in Files, u[f] # NoUnit
    PROVE  u[f] \in Entries /\ u[f].tu \in UnitHandles /\ u[f].index \in IndexHandles
  BY DEF EntryMaps, Entries

-----------------------------------------------------------------------------
(* The two ways in which the triple changes. *)

\* A full parse, successful or not, leaves handles that are live and not shared.
LEMMA FullParseSound ==
    ASSUME NEW f \in Files, NEW c \in Contents, args \in Args,
           NEW u, NEW ts, NEW is, Sound(u, ts, is), FullParse(f, c, u, ts, is)
    PROVE  Sound(units', clangUnits', clangIndexes')
<1>1. CASE units' = u /\ clangUnits' = ts /\ clangIndexes' = is
  BY <1>1
<1>2. ASSUME NEW t \in UnitHandles, NEW i \in IndexHandles \ is,
             ts[t] = Disposed,
             units' = [u EXCEPT ![f] = [tu |-> t, index |-> i]],
             clangUnits' = [ts EXCEPT ![t] = [file |-> f, content |-> c, args |-> args]],
             clangIndexes' = is \cup {i}
      PROVE  Sound(units', clangUnits', clangIndexes')
  <2> DEFINE e == [tu |-> t, index |-> i]
             p == [file |-> f, content |-> c, args |-> args]
  <2>1. e \in Entries /\ e.tu = t /\ e.index = i /\ p \in Parses
    BY DEF Entries, Parses
  <2> HIDE DEF e, p
  <2>2. e # NoUnit /\ p # Disposed
    BY <2>1, NoUnitAssumption, DisposedAssumption DEF Entries
  <2>3. /\ units' \in EntryMaps /\ clangUnits' \in UnitStates
        /\ clangIndexes' \in SUBSET IndexHandles
    BY <1>2, <2>1 DEF Sound, EntryMaps, UnitStates, e, p
  <2>4. /\ \A g \in Files : units'[g] = IF g = f THEN e ELSE u[g]
        /\ \A s \in UnitHandles : clangUnits'[s] = IF s = t THEN p ELSE ts[s]
    BY <1>2 DEF Sound, EntryMaps, UnitStates, e, p
  <2>5. \A g \in Files : u[g] # NoUnit =>
          u[g].tu \in UnitHandles /\ u[g].tu # t /\ u[g].index \in is /\ u[g].index # i
    BY <1>2, EntryInMap DEF Sound
  <2>6. \A g \in Files : units'[g] # NoUnit =>
          clangUnits'[units'[g].tu] # Disposed /\ units'[g].index \in clangIndexes'
    BY <1>2, <2>1, <2>2, <2>4, <2>5 DEF Sound
  <2>7. \A g, h \in Files :
          /\ units'[g] # NoUnit /\ units'[h] # NoUnit
          /\ units'[g].tu = units'[h].tu \/ units'[g].index = units'[h].index
          => g = h
    BY <2>1, <2>4, <2>5 DEF Sound
  <2>8. QED
    BY <2>3, <2>6, <2>7 DEF Sound
<1>3. QED
  BY <1>1, <1>2 DEF FullParse

\* Disposing the units of any files leaves the others live.
LEMMA DisposeSound ==
    ASSUME Sound(units, clangUnits, clangIndexes), NEW fs \in SUBSET Files,
           \A f \in fs : units[f] # NoUnit
    PROVE  Sound(Without(fs), DisposedUnits(fs), DisposedIndexes(fs))
<1>1. /\ Without(fs) \in EntryMaps /\ DisposedUnits(fs) \in UnitStates
      /\ DisposedIndexes(fs) \in SUBSET IndexHandles
  BY DEF Sound, Without, DisposedUnits, DisposedIndexes, EntryMaps, UnitStates
<1>2. \A g \in Files : Without(fs)[g] # NoUnit => g \notin fs /\ Without(fs)[g] = units[g]
  BY DEF Without
<1>3. \A g \in Files : Without(fs)[g] # NoUnit =>
        /\ DisposedUnits(fs)[units[g].tu] = clangUnits[units[g].tu]
        /\ units[g].index \in DisposedIndexes(fs)
  <2> SUFFICES ASSUME NEW g \in Files, Without(fs)[g] # NoUnit
               PROVE  /\ DisposedUnits(fs)[units[g].tu] = clangUnits[units[g].tu]
                      /\ units[g].index \in DisposedIndexes(fs)
    OBVIOUS
  <2>1. units[g] # NoUnit /\ g \notin fs /\ units[g].tu \in UnitHandles
    BY <1>2, EntryInMap DEF Sound
  <2>2. \A f \in fs : units[f].tu # units[g].tu /\ units[f].index # units[g].index
    BY <2>1 DEF Sound
  <2>3. QED
    BY <2>1, <2>2 DEF DisposedUnits, DisposedIndexes, Sound
<1>4. QED
  BY <1>1, <1>2, <1>3 DEF Sound

-----------------------------------------------------------------------------
(* Type correctness and handle ownership, which need each other: a reparse *)
(* rewrites the parse behind an entry's handle, so it has to be live.      *)

Ownership == TypeOK /\ Sound(units, clangUnits, clangIndexes)

\* The invariant holds at first.
LEMMA OwnershipInit == Init => Ownership
<1> SUFFICES ASSUME Init PROVE Ownership
  OBVIOUS
<1>1. args \in Args
  BY Zenon DEF Init, Args
<1>2. TypeOK
  BY <1>1 DEF Init, TypeOK
<1>3. Sound(units, clangUnits, clangIndexes)
  BY DEF Init, Sound, EntryMaps, UnitStates
<1>4. QED
  BY <1>2, <1>3 DEF Ownership

\* Every handler leaves the triple sound.
LEMMA SoundStep ==
    ASSUME Ownership, [Next]_vars
    PROVE  Sound(units', clangUnits', clangIndexes')
<1>0. TypeOK /\ args \in Args /\ Sound(units, clangUnits, clangIndexes)
  BY DEF Ownership, TypeOK
<1>1. CASE UNCHANGED <<units, clangUnits, clangIndexes>>
  BY <1>0, <1>1
<1>2. ASSUME NEW list \in OptionLists, SetTranslationOptions(list)
      PROVE  Sound(units', clangUnits', clangIndexes')
  <2>1. WithUnit(units) \in SUBSET Files /\ \A f \in WithUnit(units) : units[f] # NoUnit
    BY DEF WithUnit
  <2>2. Without(WithUnit(units)) = [f \in Files |-> NoUnit]
    BY DEF WithUnit, Without
  <2>3. QED
    BY <1>0, <1>2, <2>1, <2>2, DisposeSound DEF SetTranslationOptions, DestroyTranslationUnits
<1>3. ASSUME NEW f \in Files, NEW c \in Contents, DidOpen(f, c)
      PROVE  Sound(units', clangUnits', clangIndexes')
  BY <1>0, <1>3, FullParseSound DEF DidOpen, OnFileOpen
<1>4. ASSUME NEW f \in Files, NEW c \in Contents, DidChange(f, c)
      PROVE  Sound(units', clangUnits', clangIndexes')
  <2>1. CASE FullParse(f, c, units, clangUnits, clangIndexes)
    BY <1>0, <2>1, FullParseSound
  <2>2. CASE units[f] # NoUnit /\ Reparse(f, c)
    <3>1. /\ units[f].tu \in UnitHandles /\ clangUnits[units[f].tu] \in Parses
      BY <1>0, <2>2, EntryInMap DEF Sound, UnitStates
    <3>2. [clangUnits[units[f].tu] EXCEPT !.content = c] \in Parses
      BY <3>1 DEF Parses
    <3>3. clangUnits' \in UnitStates
          /\ \A t \in UnitHandles : clangUnits'[t] = Disposed => clangUnits[t] = Disposed
      BY <1>0, <2>2, <3>1, <3>2, DisposedAssumption DEF Reparse, Sound, UnitStates
    <3>4. QED
      BY <1>0, <2>2, <3>3, EntryInMap DEF Reparse, Sound
  <2>3. CASE units[f] # NoUnit /\ ReparseFails(f, c)
    <3>1. Without({f}) = [units EXCEPT ![f] = NoUnit]
      BY <1>0 DEF Sound, EntryMaps, Without
    <3>2. Sound(Without({f}), DisposedUnits({f}), DisposedIndexes({f}))
      BY <1>0, <2>3, DisposeSound
    <3>3. QED
      BY <1>0, <2>3, <3>1, <3>2, FullParseSound DEF ReparseFails
  <2>4. QED
    BY <1>4, <2>1, <2>2, <2>3 DEF DidChange, OnFileChange
<1>5. ASSUME NEW f \in Files, DidClose(f)
      PROVE  Sound(units', clangUnits', clangIndexes')
  <2> DEFINE fs == {f} \cap WithUnit(units)
  <2>1. fs \in SUBSET Files /\ \A g \in fs : units[g] # NoUnit
    BY DEF WithUnit
  <2>2. Without(fs) = [units EXCEPT ![f] = NoUnit]
    BY <1>0 DEF Sound, EntryMaps, Without, WithUnit
  <2>3. QED
    BY <1>0, <1>5, <2>1, <2>2, DisposeSound DEF DidClose, OnFileClose
<1>6. QED
  BY <1>1, <1>2, <1>3, <1>4, <1>5
     DEF Next, StartServer, Reconfigure, SaveHeaders, DiskChanges, vars, storeVars, clangVars

\* A step that leaves the handles sound leaves the rest of the state of its types.
LEMMA TypeStep ==
    ASSUME Ownership, [Next]_vars, Sound(units', clangUnits', clangIndexes')
    PROVE  TypeOK'
<1>0. TypeOK
  BY DEF Ownership
<1>1. /\ units' \in [Files -> [tu : UnitHandles, index : IndexHandles] \cup {NoUnit}]
      /\ clangUnits' \in [UnitHandles -> Parses \cup {Disposed}]
      /\ clangIndexes' \in SUBSET IndexHandles
  BY DEF Sound, EntryMaps, Entries, UnitStates
<1> DEFINE RestOK ==
      /\ fileContents \in [Files -> Contents \cup {NoContent}]
      /\ args \in Args /\ headersDir \in BOOLEAN
      /\ document \in [Files -> Contents \cup {NoContent}]
      /\ onDisk \in SUBSET Files /\ serving \in BOOLEAN
<1>2. RestOK'
  <2>1. CASE SaveHeaders
    BY <1>0, <2>1 DEF SaveHeaders, TypeOK
  <2>2. ASSUME NEW list \in OptionLists, StartServer(list) \/ Reconfigure(list)
        PROVE  RestOK'
    <3>1. headersDir \in BOOLEAN /\ args' = [list |-> list, headers |-> headersDir]
      BY <1>0, <2>2 DEF StartServer, Reconfigure, SetTranslationOptions, TypeOK
    <3>2. args' \in Args
      BY <3>1, Zenon DEF Args
    <3>3. QED
      BY <1>0, <2>2, <3>2 DEF StartServer, Reconfigure, SetTranslationOptions,
                              DestroyTranslationUnits, TypeOK
  <2>3. ASSUME NEW f \in Files, NEW c \in Contents, DidOpen(f, c) \/ DidChange(f, c)
        PROVE  RestOK'
    BY <1>0, <2>3 DEF DidOpen, DidChange, OnFileOpen, OnFileChange, TypeOK
  <2>4. ASSUME NEW f \in Files, DidClose(f)
        PROVE  RestOK'
    BY <1>0, <2>4 DEF DidClose, OnFileClose, TypeOK
  <2>5. CASE DiskChanges
    BY <1>0, <2>5 DEF DiskChanges, storeVars, TypeOK
  <2>6. CASE UNCHANGED vars
    BY <1>0, <2>6 DEF vars, TypeOK
  <2>7. QED
    BY <2>1, <2>2, <2>3, <2>4, <2>5, <2>6 DEF Next
<1>3. QED
  BY <1>1, <1>2 DEF TypeOK

\* Every handler keeps the invariant, also when its parses fail.
LEMMA OwnershipStep == Ownership /\ [Next]_vars => Ownership'
  BY SoundStep, TypeStep DEF Ownership

\* So it is an invariant.
LEMMA OwnershipAlways == Spec => []Ownership
  BY OwnershipInit, OwnershipStep, PTL DEF Spec

\* The state of the store and of libclang always has the shape that
\* translation.cpp declares.
THEOREM TypeCorrect == Spec => []TypeOK
<1>1. Ownership => TypeOK
  BY DEF Ownership
<1>2. QED
  BY <1>1, OwnershipAlways, PTL

\* The store never disposes a handle twice nor hands out a disposed unit,
\* whatever an editor sends and whatever libclang answers.
THEOREM HandlesAreLive == Spec => []HandlesLive
<1>1. Ownership => HandlesLive
  BY DEF Ownership, Sound, HandlesLive, WithUnit
<1>2. QED
  BY <1>1, OwnershipAlways, PTL

-----------------------------------------------------------------------------
(* What a reader finds behind the entries u: the parses of a file. *)

ViewOf(u, ts, f) == IF u[f] = NoUnit THEN NoUnit ELSE ts[u[f].tu]

\* A full parse of f changes no other file's unit, and f's entry, if it is not
\* the old one, leads to the new parse.
LEMMA FullParseView ==
    ASSUME NEW f \in Files, NEW c \in Contents,
           NEW u, NEW ts, NEW is, Sound(u, ts, is), FullParse(f, c, u, ts, is)
    PROVE  /\ \A g \in Files \ {f} : /\ (units'[g] = NoUnit) <=> (u[g] = NoUnit)
                                     /\ ViewOf(units', clangUnits', g) = ViewOf(u, ts, g)
           /\ \/ units'[f] = u[f]
              \/ ViewOf(units', clangUnits', f) = [file |-> f, content |-> c, args |-> args]
<1>1. CASE units' = u /\ clangUnits' = ts /\ clangIndexes' = is
  BY <1>1
<1>2. ASSUME NEW t \in UnitHandles, NEW i \in IndexHandles \ is,
             ts[t] = Disposed,
             units' = [u EXCEPT ![f] = [tu |-> t, index |-> i]],
             clangUnits' = [ts EXCEPT ![t] = [file |-> f, content |-> c, args |-> args]]
      PROVE  /\ \A g \in Files \ {f} : /\ (units'[g] = NoUnit) <=> (u[g] = NoUnit)
                                       /\ ViewOf(units', clangUnits', g) = ViewOf(u, ts, g)
             /\ ViewOf(units', clangUnits', f) = [file |-> f, content |-> c, args |-> args]
  <2>1. units'[f] # NoUnit /\ units'[f].tu = t
    BY <1>2, NoUnitAssumption DEF Sound, EntryMaps
  <2>2. \A g \in Files \ {f} : units'[g] = u[g]
    BY <1>2 DEF Sound, EntryMaps
  <2>3. \A g \in Files : u[g] # NoUnit => u[g].tu \in UnitHandles /\ u[g].tu # t
    BY <1>2, EntryInMap DEF Sound
  <2>4. clangUnits'[t] = [file |-> f, content |-> c, args |-> args]
    BY <1>2 DEF Sound, UnitStates
  <2>5. \A s \in UnitHandles \ {t} : clangUnits'[s] = ts[s]
    BY <1>2 DEF Sound, UnitStates
  <2>6. QED
    BY <2>1, <2>2, <2>3, <2>4, <2>5 DEF ViewOf
<1>3. QED
  BY <1>1, <1>2 DEF FullParse

\* Disposing the entries of fs changes no other file's unit.
LEMMA DisposeView ==
    ASSUME Sound(units, clangUnits, clangIndexes), NEW fs \in SUBSET Files,
           \A f \in fs : units[f] # NoUnit, NEW g \in Files \ fs
    PROVE  /\ Without(fs)[g] = units[g]
           /\ ViewOf(Without(fs), DisposedUnits(fs), g) = ViewOf(units, clangUnits, g)
<1>1. Without(fs)[g] = units[g]
  BY DEF Without
<1>2. ASSUME units[g] # NoUnit
      PROVE  DisposedUnits(fs)[units[g].tu] = clangUnits[units[g].tu]
  <2>1. units[g].tu \in UnitHandles
    BY <1>2, EntryInMap DEF Sound
  <2>2. \A f \in fs : units[f].tu # units[g].tu
    BY <1>2 DEF Sound
  <2>3. QED
    BY <2>1, <2>2 DEF DisposedUnits
<1>3. QED
  BY <1>1, <1>2 DEF ViewOf

-----------------------------------------------------------------------------
(* Freshness, when the editor opens a document once before it closes it.   *)
(* The extra conjunct says that closed documents have no unit, which is    *)
(* what makes didOpen start from an absent entry.                          *)

Coherent ==
    /\ \A f \in Files : units[f] # NoUnit =>
         Unit(f) = [file |-> f, content |-> fileContents[f], args |-> args]
    /\ \A f \in Files : fileContents[f] \in {document[f], NoContent}
    /\ \A f \in Files : document[f] = NoContent => units[f] = NoUnit

\* What an edit of f, by didOpen or didChange, does to the units.
LEMMA EditView ==
    ASSUME Ownership, Coherent, EditorReopens = FALSE,
           NEW f \in Files, NEW c \in Contents, DidOpen(f, c) \/ DidChange(f, c)
    PROVE  /\ \A g \in Files \ {f} : /\ (units'[g] = NoUnit) <=> (units[g] = NoUnit)
                                     /\ Unit(g)' = Unit(g)
           /\ units'[f] # NoUnit =>
                /\ Unit(f)' = [file |-> f, content |-> c, args |-> args]
                /\ fileContents'[f] = c
<1> USE DEF Ownership
<1>0. \A g \in Files : Unit(g) = ViewOf(units, clangUnits, g)
                        /\ Unit(g)' = ViewOf(units', clangUnits', g)
  BY DEF Unit, ViewOf
<1>1. CASE DidOpen(f, c)
  <2>1. units[f] = NoUnit /\ FullParse(f, c, units, clangUnits, clangIndexes)
    BY <1>1 DEF DidOpen, OnFileOpen, Coherent
  <2>2. units'[f] # NoUnit => fileContents'[f] = c
    <3>1. CASE f \in onDisk
      BY <1>1, <3>1 DEF DidOpen, OnFileOpen, TypeOK
    <3>2. CASE f \notin onDisk
      BY <2>1, <3>2 DEF FullParse
    <3>3. QED
      BY <3>1, <3>2
  <2>3. QED
    BY <1>0, <2>1, <2>2, FullParseView
<1>2. CASE DidChange(f, c)
  <2>0. fileContents'[f] = c
    BY <1>2 DEF DidChange, OnFileChange, TypeOK
  <2>1. CASE units[f] = NoUnit /\ FullParse(f, c, units, clangUnits, clangIndexes)
    BY <1>0, <2>0, <2>1, FullParseView
  <2>2. CASE units[f] # NoUnit /\ Reparse(f, c)
    <3>1. units' = units /\ clangUnits' = [clangUnits EXCEPT ![units[f].tu].content = c]
      BY <2>2 DEF Reparse
    <3>2. \A g \in Files : units[g] # NoUnit =>
            units[g].tu \in UnitHandles /\ (units[g].tu = units[f].tu => g = f)
      BY <2>2, EntryInMap DEF Sound
    <3>3. clangUnits'[units[f].tu] = [clangUnits[units[f].tu] EXCEPT !.content = c]
      BY <2>2, <3>1, <3>2 DEF Sound, UnitStates
    <3>4. clangUnits[units[f].tu] = [file |-> f, content |-> fileContents[f], args |-> args]
      BY <2>2 DEF Coherent, Unit
    <3>5. clangUnits'[units[f].tu] = [file |-> f, content |-> c, args |-> args]
      BY <3>3, <3>4
    <3>6. \A g \in Files \ {f} : units[g] # NoUnit =>
            clangUnits'[units[g].tu] = clangUnits[units[g].tu]
      BY <2>2, <3>1, <3>2 DEF Sound, UnitStates
    <3>7. QED
      BY <2>0, <2>2, <3>1, <3>5, <3>6 DEF Unit
  <2>3. CASE units[f] # NoUnit /\ ReparseFails(f, c)
    <3>1. Without({f}) = [units EXCEPT ![f] = NoUnit] /\ Without({f})[f] = NoUnit
      BY DEF Sound, EntryMaps, Without
    <3>2. Sound(Without({f}), DisposedUnits({f}), DisposedIndexes({f}))
      BY <2>3, DisposeSound
    <3>3. FullParse(f, c, Without({f}), DisposedUnits({f}), DisposedIndexes({f}))
      BY <2>3, <3>1 DEF ReparseFails
    <3>4. \A g \in Files \ {f} :
            /\ Without({f})[g] = units[g]
            /\ ViewOf(Without({f}), DisposedUnits({f}), g) = Unit(g)
      BY <1>0, <2>3, DisposeView
    <3>5. QED
      BY <1>0, <2>0, <3>1, <3>2, <3>3, <3>4, FullParseView
  <2>4. QED
    BY <1>2, <2>1, <2>2, <2>3 DEF DidChange, OnFileChange
<1>3. QED
  BY <1>1, <1>2

\* Closing a document removes its unit and leaves those of the others.
LEMMA CloseView ==
    ASSUME Ownership, NEW f \in Files, DidClose(f)
    PROVE  /\ \A g \in Files \ {f} : units'[g] = units[g] /\ Unit(g)' = Unit(g)
           /\ units'[f] = NoUnit
<1> DEFINE fs == {f} \cap WithUnit(units)
<1>1. fs \in SUBSET Files /\ \A g \in fs : units[g] # NoUnit
  BY DEF WithUnit
<1>2. units' = [units EXCEPT ![f] = NoUnit] /\ clangUnits' = DisposedUnits(fs)
  BY DEF DidClose, OnFileClose
<1>3. units' = Without(fs)
  BY <1>2 DEF Ownership, Sound, EntryMaps, Without, WithUnit
<1>4. \A g \in Files : Unit(g) = ViewOf(units, clangUnits, g)
                        /\ Unit(g)' = ViewOf(units', clangUnits', g)
  BY DEF Unit, ViewOf
<1>5. /\ \A g \in Files \ {f} : units'[g] = units[g]
      /\ units'[f] = NoUnit
  BY <1>2 DEF Ownership, Sound, EntryMaps
<1>6. ASSUME NEW g \in Files \ {f}
      PROVE  Unit(g)' = Unit(g)
  <2>1. g \in Files \ fs
    OBVIOUS
  <2> HIDE DEF fs
  <2>2. ViewOf(Without(fs), DisposedUnits(fs), g) = ViewOf(units, clangUnits, g)
    BY <1>1, <2>1, DisposeView DEF Ownership
  <2>3. QED
    BY <1>2, <1>3, <1>4, <2>2
<1>7. QED
  BY <1>5, <1>6

\* What a step does to units and texts, for any action.
LEMMA CoherentStep == Ownership /\ Coherent /\ EditorReopens = FALSE /\ [Next]_vars => Coherent'
<1> SUFFICES ASSUME Ownership, Coherent, EditorReopens = FALSE, [Next]_vars
             PROVE  Coherent'
  OBVIOUS
<1>0. TypeOK
  BY DEF Ownership
<1>1. CASE UNCHANGED <<units, clangUnits, fileContents, args, document>>
  <2>1. /\ units' = units /\ clangUnits' = clangUnits /\ fileContents' = fileContents
        /\ args' = args /\ document' = document
    BY <1>1
  <2>2. \A f \in Files : Unit(f)' = Unit(f)
    BY <2>1 DEF Unit
  <2>3. QED
    BY <2>1, <2>2 DEF Coherent
<1>2. ASSUME NEW list \in OptionLists, StartServer(list) \/ Reconfigure(list)
      PROVE  Coherent'
  <2>1. \A f \in Files : units'[f] = NoUnit
    BY <1>2 DEF StartServer, Reconfigure, SetTranslationOptions, DestroyTranslationUnits
  <2>2. \A f \in Files : fileContents'[f] \in {fileContents[f], NoContent} /\ document' = document
    BY <1>2 DEF StartServer, Reconfigure, SetTranslationOptions, DestroyTranslationUnits
  <2>3. QED
    BY <2>1, <2>2 DEF Coherent
<1>3. ASSUME NEW f \in Files, NEW c \in Contents, DidOpen(f, c) \/ DidChange(f, c)
      PROVE  Coherent'
  <2>1. args' = args /\ document' = [document EXCEPT ![f] = c]
        /\ fileContents' \in {fileContents, [fileContents EXCEPT ![f] = c]}
    BY <1>3 DEF DidOpen, DidChange, OnFileOpen, OnFileChange
  <2>2. \A g \in Files \ {f} : fileContents'[g] = fileContents[g] /\ document'[g] = document[g]
    BY <1>0, <2>1 DEF TypeOK
  <2>3. document'[f] = c /\ c # NoContent
    BY <1>0, <2>1, NoContentAssumption DEF TypeOK
  <2>4. fileContents'[f] \in {c, NoContent}
    <3>1. CASE DidOpen(f, c)
      <4>1. fileContents[f] = NoContent
        BY <3>1 DEF DidOpen, Coherent
      <4>2. QED
        BY <1>0, <2>1, <4>1 DEF TypeOK
    <3>2. CASE DidChange(f, c)
      BY <1>0, <3>2 DEF DidChange, OnFileChange, TypeOK
    <3>3. QED
      BY <1>3, <3>1, <3>2
  <2>5. ASSUME NEW g \in Files, units'[g] # NoUnit
        PROVE  Unit(g)' = [file |-> g, content |-> fileContents'[g], args |-> args']
    <3>1. CASE g = f
      BY <1>3, <2>1, <2>5, <3>1, EditView
    <3>2. CASE g # f
      <4>1. units[g] # NoUnit /\ Unit(g)' = Unit(g)
        BY <1>3, <2>5, <3>2, EditView
      <4>2. QED
        BY <2>1, <2>2, <3>2, <4>1 DEF Coherent
    <3>3. QED
      BY <3>1, <3>2
  <2>6. \A g \in Files : document'[g] = NoContent => units'[g] = NoUnit
    BY <1>3, <2>2, <2>3, EditView DEF Coherent
  <2>7. \A g \in Files : fileContents'[g] \in {document'[g], NoContent}
    BY <2>2, <2>3, <2>4 DEF Coherent
  <2>8. QED
    BY <2>5, <2>6, <2>7 DEF Coherent
<1>4. ASSUME NEW f \in Files, DidClose(f)
      PROVE  Coherent'
  <2>1. /\ args' = args
        /\ document' = [document EXCEPT ![f] = NoContent]
        /\ fileContents' = [fileContents EXCEPT ![f] = NoContent]
    BY <1>4 DEF DidClose, OnFileClose
  <2>2. \A g \in Files \ {f} : fileContents'[g] = fileContents[g] /\ document'[g] = document[g]
    BY <1>0, <2>1 DEF TypeOK
  <2>3. document'[f] = NoContent /\ fileContents'[f] = NoContent
    BY <1>0, <2>1 DEF TypeOK
  <2>4. \A g \in Files : units'[g] # NoUnit =>
          Unit(g)' = [file |-> g, content |-> fileContents'[g], args |-> args']
    BY <1>4, <2>1, <2>2, CloseView DEF Coherent
  <2>5. \A g \in Files : fileContents'[g] \in {document'[g], NoContent}
    BY <2>2, <2>3 DEF Coherent
  <2>6. \A g \in Files : document'[g] = NoContent => units'[g] = NoUnit
    BY <1>4, <2>2, CloseView DEF Coherent
  <2>7. QED
    BY <2>4, <2>5, <2>6 DEF Coherent
<1>5. QED
  BY <1>1, <1>2, <1>3, <1>4 DEF Next, SaveHeaders, DiskChanges, vars, storeVars, clangVars

\* With an editor that does not reopen, texts and units belong together always.
LEMMA CoherentAlways == ASSUME EditorReopens = FALSE PROVE Spec => []Coherent
<1>1. Init => Coherent
  BY DEF Init, Coherent
<1>2. Ownership /\ Coherent /\ [Next]_vars => Coherent'
  BY CoherentStep
<1>3. QED
  BY <1>1, <1>2, OwnershipAlways, PTL DEF Spec

\* No handler ever works on a unit that lags behind its document or behind the
\* translation options, provided the editor opens a document only once.
THEOREM UnitsAreFresh == ASSUME EditorReopens = FALSE PROVE Spec => []Fresh
<1>1. Coherent => Fresh
  BY DEF Coherent, Fresh, WithUnit
<1>2. QED
  BY <1>1, CoherentAlways, PTL

-----------------------------------------------------------------------------
(* No leak: every live handle is some entry's, as long as a full parse     *)
(* never overwrites an entry.                                              *)

AllOwned(u, ts, is) ==
    /\ \A t \in UnitHandles : ts[t] # Disposed => \E f \in Files : u[f] # NoUnit /\ u[f].tu = t
    /\ \A i \in is : \E f \in Files : u[f] # NoUnit /\ u[f].index = i

\* A full parse of a file without a unit leaks nothing.
LEMMA FullParseOwned ==
    ASSUME NEW f \in Files, NEW c \in Contents,
           NEW u, NEW ts, NEW is, Sound(u, ts, is), AllOwned(u, ts, is),
           u[f] = NoUnit, FullParse(f, c, u, ts, is)
    PROVE  AllOwned(units', clangUnits', clangIndexes')
<1>1. CASE units' = u /\ clangUnits' = ts /\ clangIndexes' = is
  BY <1>1
<1>2. ASSUME NEW t \in UnitHandles, NEW i \in IndexHandles \ is,
             units' = [u EXCEPT ![f] = [tu |-> t, index |-> i]],
             clangUnits' = [ts EXCEPT ![t] = [file |-> f, content |-> c, args |-> args]],
             clangIndexes' = is \cup {i}
      PROVE  AllOwned(units', clangUnits', clangIndexes')
  <2>1. units'[f] # NoUnit /\ units'[f].tu = t /\ units'[f].index = i
    BY <1>2, NoUnitAssumption DEF Sound, EntryMaps
  <2>2. \A g \in Files : u[g] # NoUnit => units'[g] = u[g]
    BY <1>2 DEF Sound, EntryMaps
  <2>3. \A s \in UnitHandles \ {t} : clangUnits'[s] = ts[s]
    BY <1>2 DEF Sound, UnitStates
  <2>4. QED
    BY <1>2, <2>1, <2>2, <2>3 DEF AllOwned
<1>3. QED
  BY <1>1, <1>2 DEF FullParse

\* Disposing the units of any files leaks nothing.
LEMMA DisposeOwned ==
    ASSUME Sound(units, clangUnits, clangIndexes), AllOwned(units, clangUnits, clangIndexes),
           NEW fs \in SUBSET Files
    PROVE  AllOwned(Without(fs), DisposedUnits(fs), DisposedIndexes(fs))
<1>1. ASSUME NEW t \in UnitHandles, DisposedUnits(fs)[t] # Disposed
      PROVE  \E f \in Files : Without(fs)[f] # NoUnit /\ Without(fs)[f].tu = t
  <2>1. clangUnits[t] # Disposed /\ \A f \in fs : units[f].tu # t
    BY <1>1 DEF DisposedUnits
  <2>2. PICK f \in Files : units[f] # NoUnit /\ units[f].tu = t
    BY <2>1 DEF AllOwned
  <2>3. QED
    BY <2>1, <2>2 DEF Without
<1>2. ASSUME NEW i \in DisposedIndexes(fs)
      PROVE  \E f \in Files : Without(fs)[f] # NoUnit /\ Without(fs)[f].index = i
  <2>1. i \in clangIndexes /\ \A f \in fs : units[f].index # i
    BY <1>2 DEF DisposedIndexes
  <2>2. PICK f \in Files : units[f] # NoUnit /\ units[f].index = i
    BY <2>1 DEF AllOwned
  <2>3. QED
    BY <2>1, <2>2 DEF Without
<1>3. QED
  BY <1>1, <1>2 DEF AllOwned

\* No handler leaks, when the editor does not reopen.
LEMMA OwnedStep ==
    ASSUME Ownership, Coherent, EditorReopens = FALSE, [Next]_vars,
           AllOwned(units, clangUnits, clangIndexes)
    PROVE  AllOwned(units', clangUnits', clangIndexes')
<1>0. Sound(units, clangUnits, clangIndexes)
  BY DEF Ownership
<1>1. CASE UNCHANGED <<units, clangUnits, clangIndexes>>
  BY <1>1
<1>2. ASSUME NEW list \in OptionLists, SetTranslationOptions(list)
      PROVE  AllOwned(units', clangUnits', clangIndexes')
  <2>1. WithUnit(units) \in SUBSET Files
    BY DEF WithUnit
  <2>2. Without(WithUnit(units)) = [f \in Files |-> NoUnit]
    BY DEF WithUnit, Without
  <2>3. QED
    BY <1>0, <1>2, <2>1, <2>2, DisposeOwned DEF SetTranslationOptions, DestroyTranslationUnits
<1>3. ASSUME NEW f \in Files, NEW c \in Contents, DidOpen(f, c)
      PROVE  AllOwned(units', clangUnits', clangIndexes')
  BY <1>0, <1>3, FullParseOwned DEF DidOpen, OnFileOpen, Coherent
<1>4. ASSUME NEW f \in Files, NEW c \in Contents, DidChange(f, c)
      PROVE  AllOwned(units', clangUnits', clangIndexes')
  <2>1. CASE units[f] = NoUnit /\ FullParse(f, c, units, clangUnits, clangIndexes)
    BY <1>0, <2>1, FullParseOwned
  <2>2. CASE units[f] # NoUnit /\ Reparse(f, c)
    <3>1. units[f].tu \in UnitHandles /\ clangUnits[units[f].tu] # Disposed
      BY <1>0, <2>2, EntryInMap DEF Sound
    <3>2. \A t \in UnitHandles : clangUnits'[t] # Disposed => clangUnits[t] # Disposed
      BY <1>0, <2>2, <3>1 DEF Reparse, Sound, UnitStates
    <3>3. QED
      BY <2>2, <3>2 DEF Reparse, AllOwned
  <2>3. CASE units[f] # NoUnit /\ ReparseFails(f, c)
    <3>1. Without({f}) = [units EXCEPT ![f] = NoUnit] /\ Without({f})[f] = NoUnit
      BY <1>0 DEF Sound, EntryMaps, Without
    <3>2. /\ Sound(Without({f}), DisposedUnits({f}), DisposedIndexes({f}))
          /\ AllOwned(Without({f}), DisposedUnits({f}), DisposedIndexes({f}))
      BY <1>0, <2>3, DisposeSound, DisposeOwned
    <3>3. FullParse(f, c, Without({f}), DisposedUnits({f}), DisposedIndexes({f}))
      BY <2>3, <3>1 DEF ReparseFails
    <3>4. QED
      BY <3>1, <3>2, <3>3, FullParseOwned
  <2>4. QED
    BY <1>4, <2>1, <2>2, <2>3 DEF DidChange, OnFileChange
<1>5. ASSUME NEW f \in Files, DidClose(f)
      PROVE  AllOwned(units', clangUnits', clangIndexes')
  <2> DEFINE fs == {f} \cap WithUnit(units)
  <2>1. fs \in SUBSET Files
    OBVIOUS
  <2>2. Without(fs) = [units EXCEPT ![f] = NoUnit]
    BY <1>0 DEF Sound, EntryMaps, Without, WithUnit
  <2>3. QED
    BY <1>0, <1>5, <2>1, <2>2, DisposeOwned DEF DidClose, OnFileClose
<1>6. QED
  BY <1>1, <1>2, <1>3, <1>4, <1>5
     DEF Next, StartServer, Reconfigure, SaveHeaders, DiskChanges, vars, storeVars, clangVars

\* Every unit and index libclang handed out is in the map, where OnFileClose or
\* DestroyTranslationUnits will dispose it.
THEOREM NothingLeaks == ASSUME EditorReopens = FALSE PROVE Spec => []NoLeak
<1> DEFINE Owned == AllOwned(units, clangUnits, clangIndexes)
<1>1. Init => Owned
  BY DEF Init, AllOwned
<1>2. Ownership /\ Coherent /\ Owned /\ [Next]_vars => Owned'
  BY OwnedStep
<1>3. Owned => NoLeak
  BY DEF AllOwned, NoLeak, WithUnit
<1> HIDE DEF Owned
<1>4. QED
  BY <1>1, <1>2, <1>3, OwnershipAlways, CoherentAlways, PTL DEF Spec

-----------------------------------------------------------------------------
(* The store implements UnitCache. *)

\* The store's readers see what UnitCache promises: no unit, or the unit of the
\* latest text under the latest options.
THEOREM StoreImplementsCache == ASSUME EditorReopens = FALSE PROVE Spec => CacheSpec
<1> DEFINE view == [f \in Files |-> Unit(f)]
<1>1. Init => Cache!Init
  <2> SUFFICES ASSUME Init PROVE Cache!Init
    OBVIOUS
  <2>1. args \in Args
    BY Zenon DEF Init, Args
  <2>2. QED
    BY <2>1 DEF Init, Cache!Init, Unit
<1>2. Ownership /\ Coherent /\ Ownership' /\ Coherent' /\ [Next]_vars => [Cache!Next]_(Cache!vars)
  <2> SUFFICES ASSUME Ownership, Coherent, Ownership', Coherent', [Next]_vars
               PROVE  [Cache!Next]_(Cache!vars)
    OBVIOUS
  <2>0. TypeOK /\ TypeOK'
    BY DEF Ownership
  <2>1. CASE UNCHANGED <<units, clangUnits, args, document>>
    BY <2>1 DEF Cache!vars, Unit
  <2>2. ASSUME NEW list \in OptionLists, StartServer(list) \/ Reconfigure(list)
        PROVE  Cache!Next
    <3>1. \A f \in Files : Unit(f)' = NoUnit
      BY <2>2 DEF StartServer, Reconfigure, SetTranslationOptions, DestroyTranslationUnits, Unit
    <3>2. view' = [f \in Files |-> NoUnit]
      BY <3>1
    <3>3. document' = document /\ args' \in Args
      BY <2>0, <2>2 DEF StartServer, Reconfigure, TypeOK
    <3>4. Cache!Configure(args')
      BY <3>2, <3>3 DEF Cache!Configure
    <3>5. QED
      BY <3>3, <3>4 DEF Cache!Next
  <2>3. ASSUME NEW f \in Files, NEW c \in Contents, DidOpen(f, c) \/ DidChange(f, c)
        PROVE  Cache!Next
    <3>1. args' = args /\ document' = [document EXCEPT ![f] = c]
      BY <2>3 DEF DidOpen, DidChange, OnFileOpen, OnFileChange
    <3>2. EditorReopens = FALSE
      OBVIOUS
    <3>3. /\ \A g \in Files \ {f} : Unit(g)' = Unit(g)
          /\ Unit(f)' \in {NoUnit, [file |-> f, content |-> c, args |-> args]}
      BY <2>3, <3>2, EditView DEF Unit
    <3>4. view' = [view EXCEPT ![f] = Unit(f)']
      BY <3>3
    <3>5. Cache!Edit(f, c)
      BY <3>1, <3>3, <3>4 DEF Cache!Edit, Cache!Parsed
    <3>6. QED
      BY <3>5 DEF Cache!Next
  <2>4. ASSUME NEW f \in Files, DidClose(f)
        PROVE  Cache!Next
    <3>1. args' = args /\ document' = [document EXCEPT ![f] = NoContent]
      BY <2>4 DEF DidClose, OnFileClose
    <3>2. (\A g \in Files \ {f} : Unit(g)' = Unit(g)) /\ Unit(f)' = NoUnit
      BY <2>4, CloseView DEF Unit
    <3>3. view' = [view EXCEPT ![f] = NoUnit]
      BY <3>2
    <3>4. Cache!Close(f)
      BY <3>1, <3>3 DEF Cache!Close
    <3>5. QED
      BY <3>4 DEF Cache!Next
  <2>5. QED
    BY <2>1, <2>2, <2>3, <2>4 DEF Next, SaveHeaders, DiskChanges, vars, storeVars, clangVars
<1>3. QED
  BY <1>1, <1>2, OwnershipAlways, CoherentAlways, PTL DEF Spec, CacheSpec, Cache!Spec
=============================================================================
