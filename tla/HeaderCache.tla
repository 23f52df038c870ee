---------------------------- MODULE HeaderCache ----------------------------
(***************************************************************************)
(* The OpenCL headers that every process unpacks into one directory below  *)
(* the temporary directory (src/src/translation.cpp), shared by all the    *)
(* language servers and subcommands a user runs.  A server unpacks what is *)
(* missing and parses documents until it ends; a subcommand unpacks,       *)
(* parses one kernel (src/src/commands.cpp) and removes the directory when *)
(* its store is destroyed.  The store of a server is never destroyed:      *)
(* OnExit calls exit, and the callbacks that LSPServer::Run registers in   *)
(* the JsonRPC object hold the server that owns it.                        *)
(*                                                                         *)
(* The processes know nothing of each other.  Every call on the file       *)
(* system is a step of its own.  A process may be killed between any two   *)
(* steps, and the disk may be full: both leave a file short.               *)
(***************************************************************************)
EXTENDS Naturals

CONSTANTS
    Processes,  \* the processes there ever are, each run once
    Headers,    \* the embedded headers, resources::get_headers()
    MaxFaults,  \* bound: kills and writes to a full disk
    None        \* no header

ASSUME FaultsAssumption == MaxFaults \in Nat
ASSUME NoneAssumption == None \notin Headers

VARIABLES
    \* The disk.
    file,       \* each header's file: absent, short, or whole
    directory,  \* whether the directory of the headers exists
    \* The processes.
    kind,       \* server or command
    pc,
    todo,       \* the headers the loop of SaveHeaders, or remove_all, has before it
    header,     \* the header at hand
    attached,   \* the processes whose open stream is on the file now in the directory
    \* Around them.
    faults,     \* what the bound counts
    disturbed   \* history: the processes another one, or a fault, has got in the way of

diskVars == <<file, directory>>
processVars == <<kind, pc, todo, header, attached>>
vars == <<diskVars, processVars, faults, disturbed>>

Saving == {"directories", "saving", "creating", "writing"}
Live == Saving \cup {"ready", "removing"}

TypeOK ==
    /\ file \in [Headers -> {"absent", "short", "whole"}] /\ directory \in BOOLEAN
    /\ directory \/ \A h \in Headers : file[h] = "absent"
    /\ kind \in [Processes -> {"server", "command"}]
    /\ pc \in [Processes -> Live \cup {"off", "ended"}]
    /\ todo \in [Processes -> SUBSET Headers] /\ header \in [Processes -> Headers \cup {None}]
    /\ \A p \in Processes : pc[p] \in {"creating", "writing"} => header[p] # None
    /\ attached \in SUBSET {p \in Processes : pc[p] = "writing" /\ file[header[p]] # "absent"}
    /\ faults \in 0 .. MaxFaults /\ disturbed \in SUBSET Processes

Init ==
    /\ file = [h \in Headers |-> "absent"] /\ directory = FALSE
    /\ kind \in [Processes -> {"server", "command"}]
    /\ pc = [p \in Processes |-> "off"]
    /\ todo = [p \in Processes |-> {}] /\ header = [p \in Processes |-> None]
    /\ attached = {}
    /\ faults = 0 /\ disturbed = {}

-----------------------------------------------------------------------------
(* SaveHeaders. *)

Alive(p) == pc[p] \in Live
Others(p) == {q \in Processes \ {p} : Alive(q)}

\* Somebody's open stream will make the file of h whole.
BeingWritten(h) == \E q \in attached : header[q] = h

\* Files left short, and removals under way, are in the way of a process that starts.
Start(p) ==
    LET removing == {q \in Processes : pc[q] = "removing"}
        leftShort == {h \in Headers : file[h] = "short" /\ ~BeingWritten(h)}
    IN  /\ pc[p] = "off"
        /\ pc' = [pc EXCEPT ![p] = "directories"]
        /\ disturbed' = disturbed \cup removing
                           \cup (IF removing = {} /\ leftShort = {} THEN {} ELSE {p})
        /\ UNCHANGED <<diskVars, kind, todo, header, attached, faults>>

\* Fault: a directory that exists is taken for a complete one.
CreateDirectoriesOnce(p) ==
    /\ pc[p] = "directories"
    /\ directory' = TRUE
    /\ pc' = [pc EXCEPT ![p] = IF directory THEN "ready" ELSE "saving"]
    /\ todo' = [todo EXCEPT ![p] = IF directory THEN {} ELSE Headers]
    /\ UNCHANGED <<file, kind, header, attached, faults, disturbed>>

CreateDirectories(p) ==
    /\ pc[p] = "directories"
    /\ directory' = TRUE
    /\ pc' = [pc EXCEPT ![p] = "saving"]
    /\ todo' = [todo EXCEPT ![p] = Headers]
    /\ UNCHANGED <<file, kind, header, attached, faults, disturbed>>

\* fs::exists for the next header; a file that exists is left alone.
TestNext(p) ==
    /\ pc[p] = "saving"
    /\ \E h \in todo[p] :
         /\ todo' = [todo EXCEPT ![p] = @ \ {h}]
         /\ header' = [header EXCEPT ![p] = h]
         /\ pc' = [pc EXCEPT ![p] = IF file[h] = "absent" THEN "creating" ELSE "saving"]
    /\ UNCHANGED <<diskVars, kind, attached, faults, disturbed>>

\* std::ofstream creates or truncates the file; it is not open, and the header
\* is skipped, where the directory has been removed.
Open(p) ==
    /\ pc[p] = "creating"
    /\ IF directory
       THEN /\ file' = [file EXCEPT ![header[p]] = "short"]
            /\ attached' = attached \cup {p}
            /\ pc' = [pc EXCEPT ![p] = "writing"]
       ELSE /\ pc' = [pc EXCEPT ![p] = "saving"]
            /\ UNCHANGED <<file, attached>>
    /\ UNCHANGED <<directory, kind, todo, header, faults, disturbed>>

\* The contents reach the disk, and the stream is closed.  What is written to a
\* file that has been removed is lost.
Write(p) ==
    /\ pc[p] = "writing"
    /\ file' = IF p \in attached THEN [file EXCEPT ![header[p]] = "whole"] ELSE file
    /\ attached' = attached \ {p}
    /\ pc' = [pc EXCEPT ![p] = "saving"]
    /\ UNCHANGED <<directory, kind, todo, header, faults, disturbed>>

\* m_cacheDir and m_headersDir are set.  From here on the process parses.
Saved(p) ==
    /\ pc[p] = "saving"
    /\ todo[p] = {}
    /\ pc' = [pc EXCEPT ![p] = "ready"]
    /\ UNCHANGED <<diskVars, kind, todo, header, attached, faults, disturbed>>

-----------------------------------------------------------------------------
(* The end of a process. *)

\* For the removal only the processes alive from here on count.
DisturbedByRemoval(p) == (disturbed \ {p}) \cup Others(p) \cup (IF Others(p) = {} THEN {} ELSE {p})

\* Fault: a command removes only the header it has come to last.
ReturnRemovingOwn(p) ==
    /\ pc[p] = "ready" /\ kind[p] = "command"
    /\ pc' = [pc EXCEPT ![p] = "removing"]
    /\ todo' = [todo EXCEPT ![p] = {header[p]} \ {None}]
    /\ disturbed' = DisturbedByRemoval(p)
    /\ UNCHANGED <<diskVars, kind, header, attached, faults>>

\* Execute returns, whatever it found: the store is destroyed, and DeleteCache
\* lists what is in the directory.
Return(p) ==
    /\ pc[p] = "ready" /\ kind[p] = "command"
    /\ pc' = [pc EXCEPT ![p] = "removing"]
    /\ todo' = [todo EXCEPT ![p] = {h \in Headers : file[h] # "absent"}]
    /\ disturbed' = DisturbedByRemoval(p)
    /\ UNCHANGED <<diskVars, kind, header, attached, faults>>

\* Fault: what an open stream writes finds the file that took the old one's place.
RemoveFileKeepingStreams(p) ==
    /\ pc[p] = "removing"
    /\ \E h \in todo[p] :
         /\ file' = [file EXCEPT ![h] = "absent"]
         /\ todo' = [todo EXCEPT ![p] = @ \ {h}]
    /\ UNCHANGED <<directory, kind, pc, header, attached, faults, disturbed>>

\* remove_all, one file after the other: streams on the file lose their place.
RemoveFile(p) ==
    /\ pc[p] = "removing"
    /\ \E h \in todo[p] :
         /\ file' = [file EXCEPT ![h] = "absent"]
         /\ attached' = {q \in attached : header[q] # h}
         /\ todo' = [todo EXCEPT ![p] = @ \ {h}]
    /\ UNCHANGED <<directory, kind, pc, header, faults, disturbed>>

\* A directory in which somebody has created a file since is not removed.
RemoveDirectory(p) ==
    /\ pc[p] = "removing"
    /\ todo[p] = {}
    /\ directory' = (directory /\ \E h \in Headers : file[h] # "absent")
    /\ pc' = [pc EXCEPT ![p] = "ended"]
    /\ UNCHANGED <<file, kind, todo, header, attached, faults, disturbed>>

\* exit, the end of the input, or an interrupt.
ServerEnds(p) ==
    /\ pc[p] = "ready" /\ kind[p] = "server"
    /\ pc' = [pc EXCEPT ![p] = "ended"]
    /\ UNCHANGED <<diskVars, kind, todo, header, attached, faults, disturbed>>

\* create_directories throws when a removal takes a parent away under it.  The
\* process ends: m_cacheDir is not set, so nothing is removed.
CreateDirectoriesFails(p) ==
    /\ pc[p] = "directories"
    /\ \E q \in Others(p) : pc[q] = "removing"
    /\ pc' = [pc EXCEPT ![p] = "ended"]
    /\ UNCHANGED <<diskVars, kind, todo, header, attached, faults, disturbed>>

-----------------------------------------------------------------------------
(* Faults. *)

Fault ==
    /\ faults < MaxFaults
    /\ faults' = faults + 1

Kill(p) ==
    /\ Fault
    /\ Alive(p)
    /\ pc' = [pc EXCEPT ![p] = "ended"]
    /\ attached' = attached \ {p}
    /\ disturbed' = IF pc[p] = "writing" THEN disturbed \cup Others(p) ELSE disturbed
    /\ UNCHANGED <<diskVars, kind, todo, header>>

\* file.write fails; nobody looks at the state of the stream.
DiskFull(p) ==
    /\ Fault
    /\ pc[p] = "writing"
    /\ attached' = attached \ {p}
    /\ pc' = [pc EXCEPT ![p] = "saving"]
    /\ disturbed' = disturbed \cup Others(p) \cup {p}
    /\ UNCHANGED <<diskVars, kind, todo, header>>

Save(p) == Start(p) \/ CreateDirectories(p) \/ TestNext(p) \/ Open(p) \/ Write(p) \/ Saved(p)
End(p) ==
    Return(p) \/ RemoveFile(p) \/ RemoveDirectory(p) \/ ServerEnds(p) \/ CreateDirectoriesFails(p)
Next == \E p \in Processes : Save(p) \/ End(p) \/ Kill(p) \/ DiskFull(p)

Spec == Init /\ [][Next]_vars

-----------------------------------------------------------------------------
(* Properties. *)

\* A process that parses finds every header whole, or somebody about to complete
\* it, unless a command removed headers or a header was left short during its
\* life.  Processes that start together do not harm each other for longer than a
\* write takes, and what a killed removal left behind is made good.
HeadersReady ==
    \A p \in Processes \ disturbed :
        pc[p] = "ready" => \A h \in Headers : file[h] = "whole" \/ BeingWritten(h)

\* Damage does not outlive the next command that ends: when a removal finishes
\* during which no other process was alive, nothing is left for the next to find.
RemovalIsComplete ==
    [][\A p \in Processes \ disturbed :
         RemoveDirectory(p) => ~directory' /\ \A h \in Headers : file[h] = "absent"]_vars
=============================================================================
