------------------------- MODULE HeaderCacheProofs -------------------------
(* Proofs about HeaderCache, for any processes, headers and number of faults. *)
EXTENDS HeaderCache, TLAPS

-----------------------------------------------------------------------------
(* Types. *)

\* The state of every process and of the disk has its type; a stream that is
\* still on its file belongs to a process that writes, and the file is there.
THEOREM TypeCorrect == Spec => []TypeOK
<1>1. Init => TypeOK
  <2> SUFFICES ASSUME Init PROVE TypeOK
    OBVIOUS
  <2>1. /\ file \in [Headers -> {"absent", "short", "whole"}]
        /\ \A h \in Headers : file[h] = "absent"
    BY DEF Init
  <2>2. /\ pc \in [Processes -> Live \cup {"off", "ended"}]
        /\ \A p \in Processes : pc[p] = "off"
    BY DEF Init
  <2>3. todo \in [Processes -> SUBSET Headers] /\ header \in [Processes -> Headers \cup {None}]
    BY DEF Init
  <2>4. faults \in 0 .. MaxFaults
    BY FaultsAssumption DEF Init
  <2>5. \A p \in Processes : pc[p] \in {"creating", "writing"} => header[p] # None
    BY <2>2
  <2>6. /\ attached \in SUBSET {p \in Processes : pc[p] = "writing" /\ file[header[p]] # "absent"}
        /\ disturbed \in SUBSET Processes /\ directory \in BOOLEAN
    BY Zenon DEF Init
  <2>7. QED
    BY <2>1, <2>2, <2>3, <2>4, <2>5, <2>6 DEF Init, TypeOK
<1>2. TypeOK /\ [Next]_vars => TypeOK'
  <2> SUFFICES ASSUME TypeOK, [Next]_vars PROVE TypeOK'
    OBVIOUS
  <2> USE FaultsAssumption, NoneAssumption DEF TypeOK, Live, Saving, diskVars, processVars
  <2>1. CASE UNCHANGED vars
    BY <2>1 DEF vars
  <2>2. ASSUME NEW p \in Processes, Start(p) PROVE TypeOK'
    BY <2>2 DEF Start
  <2>3. ASSUME NEW p \in Processes, CreateDirectories(p) PROVE TypeOK'
    BY <2>3 DEF CreateDirectories
  <2>4. ASSUME NEW p \in Processes, TestNext(p) PROVE TypeOK'
    BY <2>4 DEF TestNext
  <2>5. ASSUME NEW p \in Processes, Open(p) PROVE TypeOK'
    BY <2>5 DEF Open
  <2>6. ASSUME NEW p \in Processes, Write(p) PROVE TypeOK'
    BY <2>6 DEF Write
  <2>7. ASSUME NEW p \in Processes, Saved(p) PROVE TypeOK'
    BY <2>7 DEF Saved
  <2>8. ASSUME NEW p \in Processes, Return(p) PROVE TypeOK'
    BY <2>8 DEF Return, DisturbedByRemoval, Others, Alive
  <2>9. ASSUME NEW p \in Processes, RemoveFile(p) PROVE TypeOK'
    BY <2>9 DEF RemoveFile
  <2>10. ASSUME NEW p \in Processes, RemoveDirectory(p) PROVE TypeOK'
    BY <2>10 DEF RemoveDirectory
  <2>11. ASSUME NEW p \in Processes, ServerEnds(p) \/ CreateDirectoriesFails(p) PROVE TypeOK'
    BY <2>11 DEF ServerEnds, CreateDirectoriesFails
  <2>12. ASSUME NEW p \in Processes, Kill(p) PROVE TypeOK'
    BY <2>12 DEF Kill, Fault, Others, Alive
  <2>13. ASSUME NEW p \in Processes, DiskFull(p) PROVE TypeOK'
    BY <2>13 DEF DiskFull, Fault, Others, Alive
  <2>14. QED
    BY <2>1, <2>2, <2>3, <2>4, <2>5, <2>6, <2>7, <2>8, <2>9, <2>10, <2>11, <2>12, <2>13
       DEF Next, Save, End
<1>3. QED
  BY <1>1, <1>2, PTL DEF Spec

-----------------------------------------------------------------------------
(* What a process relies on while it unpacks and parses. *)

\* A process from its start to its end that nothing has got in the way of.
Working(p) == p \notin disturbed /\ pc[p] \in Saving \cup {"ready"}

\* Nobody removes anything beside it, and whatever is short is being completed.
Sheltered(p) ==
    /\ \A q \in Processes : pc[q] # "removing"
    /\ \A h \in Headers : file[h] = "short" => BeingWritten(h)

\* Every header the loop has behind it is there, or about to be created by it.
Covered(p) ==
    /\ directory
    /\ \A h \in Headers \ todo[p] :
         file[h] # "absent" \/ (pc[p] = "creating" /\ header[p] = h)
    /\ pc[p] = "ready" => todo[p] = {}

\* A removal nobody saw: there is no other process, and every file left is listed.
Alone(p) == Others(p) = {} /\ \A h \in Headers : file[h] # "absent" => h \in todo[p]

Undisturbed ==
    \A p \in Processes :
        /\ Working(p) => Sheltered(p) /\ (pc[p] # "directories" => Covered(p))
        /\ p \notin disturbed /\ pc[p] = "removing" => Alone(p)

\* Every call of every process keeps Undisturbed.
LEMMA UndisturbedIsInductive == TypeOK /\ Undisturbed /\ [Next]_vars => Undisturbed'
<1> SUFFICES ASSUME TypeOK, Undisturbed, [Next]_vars, NEW r \in Processes
             PROVE  /\ Working(r)' => Sheltered(r)' /\ (pc'[r] # "directories" => Covered(r)')
                    /\ r \notin disturbed' /\ pc'[r] = "removing" => Alone(r)'
  BY DEF Undisturbed
<1> DEFINE Goal == /\ Working(r)' => Sheltered(r)' /\ (pc'[r] # "directories" => Covered(r)')
                   /\ r \notin disturbed' /\ pc'[r] = "removing" => Alone(r)'
<1> USE DEF TypeOK, Undisturbed, Working, Sheltered, Covered, Alone, Others, Alive, Live, Saving,
            BeingWritten, diskVars, processVars
<1>1. CASE UNCHANGED vars
  BY <1>1 DEF vars
<1>2. ASSUME NEW p \in Processes, Start(p) PROVE Goal
  BY <1>2 DEF Start
<1>3. ASSUME NEW p \in Processes, CreateDirectories(p) PROVE Goal
  BY <1>3 DEF CreateDirectories
<1>4. ASSUME NEW p \in Processes, TestNext(p) PROVE Goal
  BY <1>4 DEF TestNext
<1>5. ASSUME NEW p \in Processes, Open(p) PROVE Goal
  BY <1>5 DEF Open
<1>6. ASSUME NEW p \in Processes, Write(p) PROVE Goal
  BY <1>6 DEF Write
<1>7. ASSUME NEW p \in Processes, Saved(p) PROVE Goal
  BY <1>7 DEF Saved
<1>8. ASSUME NEW p \in Processes, Return(p) PROVE Goal
  BY <1>8 DEF Return, DisturbedByRemoval
<1>9. ASSUME NEW p \in Processes, RemoveFile(p) PROVE Goal
  BY <1>9 DEF RemoveFile
<1>10. ASSUME NEW p \in Processes, RemoveDirectory(p) PROVE Goal
  BY <1>10 DEF RemoveDirectory
<1>11. ASSUME NEW p \in Processes, ServerEnds(p) \/ CreateDirectoriesFails(p) PROVE Goal
  BY <1>11 DEF ServerEnds, CreateDirectoriesFails
<1>12. ASSUME NEW p \in Processes, Kill(p) PROVE Goal
  BY <1>12 DEF Kill
<1>13. ASSUME NEW p \in Processes, DiskFull(p) PROVE Goal
  BY <1>13 DEF DiskFull
<1>14. QED
  BY <1>1, <1>2, <1>3, <1>4, <1>5, <1>6, <1>7, <1>8, <1>9, <1>10, <1>11, <1>12, <1>13
     DEF Next, Save, End

\* So Undisturbed is an invariant.
LEMMA UndisturbedHolds == Spec => []Undisturbed
<1>1. Init => Undisturbed
  BY DEF Init, Undisturbed, Working, Saving
<1>2. QED
  BY <1>1, UndisturbedIsInductive, TypeCorrect, PTL DEF Spec

\* A process that parses finds every header whole or about to be: whatever
\* number of processes unpack at once and whatever kills and full disks there
\* were before it started, unless one of these falls into its own life.
THEOREM EveryHeaderReady == Spec => []HeadersReady
<1>1. TypeOK /\ Undisturbed => HeadersReady
  BY DEF TypeOK, Undisturbed, HeadersReady, Working, Sheltered, Covered, Saving
<1>2. QED
  BY <1>1, TypeCorrect, UndisturbedHolds, PTL

\* A removal during which no other process was alive leaves neither a file nor
\* the directory behind, whatever the processes before it left there.
THEOREM RemovalLeavesNothing == Spec => RemovalIsComplete
<1>1. TypeOK /\ Undisturbed /\ [Next]_vars
        => [\A p \in Processes \ disturbed :
              RemoveDirectory(p) => ~directory' /\ \A h \in Headers : file[h] = "absent"]_vars
  BY DEF TypeOK, Undisturbed, Alone, RemoveDirectory
<1>2. QED
  BY <1>1, TypeCorrect, UndisturbedHolds, PTL DEF Spec, RemovalIsComplete
=============================================================================
