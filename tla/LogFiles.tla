------------------------------ MODULE LogFiles ------------------------------
(***************************************************************************)
(* The log directory: the flight log and the telemetry log create files in *)
(* it, old files are deleted before a new one is opened, a finished file   *)
(* is marked read-only, and the files a crash or an exit left unfinished   *)
(* are marked when the router starts again.                                *)
(*                                                                         *)
(* dir maps the index in a file's name to the file, which occupies units   *)
(* of the storage device; its size is their number.                        *)
(***************************************************************************)
EXTENDS Integers, FiniteSets, FiniteSetsExt

CONSTANTS
    Loggers,          \* the log endpoints
    Device,           \* the units of storage of the device
    min_free_space,   \* MinFreeSpace
    max_log_files,    \* MaxLogFiles; 0: no limit
    MaxIndex,         \* bound on the file indexes
    Stuck,            \* indexes of files that cannot be removed
    StatFails         \* statvfs may fail

ASSUME LogFilesAssumption ==
    /\ IsFiniteSet(Device)
    /\ {min_free_space, max_log_files, MaxIndex} \subseteq Nat
    /\ Stuck \subseteq Nat /\ StatFails \in BOOLEAN

VARIABLES
    dir,       \* index -> [units, readonly]
    open,      \* the index of each logger's open file, or NoFile
    running,   \* the router runs
    before     \* history: <<i, j>> if the file i was there when j was created

filesVars == <<dir, open, running, before>>

NoFile == -1

Indexes == DOMAIN dir

Units(S) == UNION {dir[i].units : i \in S}

SizeOf(S) == Cardinality(Units(S))

FreeSpace == Cardinality(Device \ Units(Indexes))

FilesInit ==
    /\ dir = [i \in {} |-> 0]
    /\ open = [l \in Loggers |-> NoFile]
    /\ running = TRUE
    /\ before = {}

\* Mutant: files that are being written are candidates too.
CandidatesAll == Indexes

\* The files _delete_old_logs considers.
Candidates == {i \in Indexes : dir[i].readonly}

\* bytes_to_delete.  When statvfs fails free_space is UINT64_MAX, which the
\* subtraction turns into min_free_space + 1.
BytesToDelete(measured) ==
    IF measured THEN min_free_space - FreeSpace ELSE min_free_space + 1

\* Neither bytes nor files remain to be deleted once D is.  Without a limit on
\* the files, nothing is deleted if there is space.
Enough(D, measured) ==
    \/ max_log_files = 0 /\ (~measured \/ FreeSpace > min_free_space)
    \/ /\ BytesToDelete(measured) - SizeOf(D) <= 0
       /\ max_log_files > 0 => Cardinality(Candidates) - Cardinality(D) <= max_log_files

\* D is what _delete_old_logs deletes: it visits the candidates in the order of
\* their index until enough is deleted, and skips those it cannot remove.
DeleteOldLogs(D, measured) ==
    \E V \in SUBSET Candidates :
        /\ \A i \in V, j \in Candidates \ V : i < j
        /\ D = V \ Stuck
        /\ V = Candidates \/ Enough(D, measured)
        /\ V # {} => ~Enough((V \ {Max(V)}) \ Stuck, measured)

\* Mutant: the lowest index that is free.
GetPrefixFree(I) == Min((0..MaxIndex) \ I)

\* _get_prefix: one more than the largest index.
GetPrefix(I) == IF I = {} THEN 0 ELSE Max(I) + 1

\* LogEndpoint::start: delete old files, then create a new one.
Start(l, D) ==
    LET kept == Indexes \ D
        i    == GetPrefix(kept)
    IN  /\ running /\ open[l] = NoFile
        /\ i <= MaxIndex
        /\ dir' = [j \in kept \cup {i} |->
                      IF j = i THEN [units |-> {}, readonly |-> FALSE] ELSE dir[j]]
        /\ open' = [open EXCEPT ![l] = i]
        /\ before' = (before \cap (kept \X kept)) \cup (kept \X {i})
        /\ UNCHANGED running

\* An open file grows, as far as the device allows.
Write(l, unit) ==
    /\ running /\ open[l] # NoFile
    /\ unit \notin Units(Indexes)
    /\ dir' = [dir EXCEPT ![open[l]].units = @ \cup {unit}]
    /\ UNCHANGED <<open, running, before>>

\* Mutant: the file is not marked.
StopUnmarked(l) ==
    /\ running /\ open[l] # NoFile
    /\ open' = [open EXCEPT ![l] = NoFile]
    /\ UNCHANGED <<dir, running, before>>

\* LogEndpoint::stop.
Stop(l) ==
    /\ running /\ open[l] # NoFile
    /\ dir' = [dir EXCEPT ![open[l]].readonly = TRUE]
    /\ open' = [open EXCEPT ![l] = NoFile]
    /\ UNCHANGED <<running, before>>

\* The router dies, or exits without stopping the telemetry log.
Crash ==
    /\ running
    /\ running' = FALSE
    /\ open' = [l \in Loggers |-> NoFile]
    /\ UNCHANGED <<dir, before>>

\* mark_unfinished_logs, when the router starts.
MarkUnfinishedLogs ==
    /\ ~running
    /\ running' = TRUE
    /\ dir' = [i \in Indexes |-> [dir[i] EXCEPT !.readonly = TRUE]]
    /\ UNCHANGED <<open, before>>

FilesNext ==
    \/ \E l \in Loggers :
          \/ \E D \in SUBSET Indexes, measured \in {TRUE, ~StatFails} :
                DeleteOldLogs(D, measured) /\ Start(l, D)
          \/ \E unit \in Device : Write(l, unit)
          \/ Stop(l)
    \/ Crash
    \/ MarkUnfinishedLogs

FilesSpec == FilesInit /\ [][FilesNext]_filesVars

-----------------------------------------------------------------------------
\* A file that a logger writes to is in the directory, and no other logger writes
\* to it: making room for one log never deletes the other one's file.
OpenNotDeleted ==
    \A l \in Loggers : open[l] # NoFile =>
        open[l] \in Indexes /\ \A m \in Loggers \ {l} : open[m] # open[l]

\* While the router runs every file that no logger writes to is finished, and so
\* may be deleted: a crash leaves no file behind for ever.
FinishedAreMarked ==
    running => \A i \in Indexes : dir[i].readonly <=> \A l \in Loggers : open[l] # i

\* File i is still there after the step; its index may be given to a new file.
Survives(i) == i \in Indexes' /\ \A l \in Loggers : open'[l] = i => open[l] = i

\* The finished files that were created before file i.
Older(i) == {j \in Candidates : <<j, i>> \in before}

\* No log is deleted while an older finished one stays, unless that one cannot be
\* removed, over any sequence of deletions and restarts: the index in its name
\* tells a file's age.  And only while the limits are exceeded with the log in place, or the
\* free space is not known.
OldestFirst ==
    [][\A i \in Indexes : ~Survives(i) =>
          /\ \A j \in Older(i) : ~Survives(j) \/ j \in Stuck
          /\ \E measured \in {TRUE, ~StatFails} :
                ~Enough(Older(i) \ Stuck, measured)]_filesVars
=============================================================================
