------------------------------ MODULE DataRoot ------------------------------
(***************************************************************************)
(* The data root on disk: profiles.json, the directories under profiles/,  *)
(* the runtime state files, the metadata lock and the processes that run   *)
(* commands on them; and the commands of the profile manager that touch    *)
(* more than metadata: create, delete and the launch of a browser          *)
(* (profile_manager.py, storage.py, fsops.py).  Restore, Backup, Doctor    *)
(* and Migration add their commands.                                       *)
(*                                                                         *)
(* Data is known by its lineage: "own" data grew in an empty profile,      *)
(* "archived" data came with a restore; later writes of a browser keep it. *)
(* Names are abstracted: a name conflict is one more way to be refused.    *)
(***************************************************************************)
EXTENDS Naturals, FiniteSets

CONSTANTS
    Ids,          \* profile ids
    Procs,        \* ProfileDock processes
    Can,          \* the commands each of them may run
    MaxCommands,  \* bound on the commands a process runs
    MaxFaults,    \* bound on the file operations that fail
    Impatient,    \* of Procs: those whose wait for the lock may time out
    Crashing,     \* of Procs: those that may die,
    CrashPoints,  \* ... and the points of a command where they may
    ShortVisits,  \* whether a browser may come and go while a backup runs
    Absent,       \* no entry, no directory
    NoFile,       \* there is no profiles.json.bak
    Free          \* nobody holds the metadata lock

Commands == {"create", "delete", "restore", "backup", "repair", "migrate", "move"}

ASSUME RootAssumption ==
    /\ Can \in [Procs -> SUBSET Commands]
    /\ MaxCommands \in Nat /\ MaxFaults \in Nat
    /\ Free \notin Procs
    /\ ShortVisits \in BOOLEAN

VARIABLES
    doc,      \* the entries of profiles.json: where each comes from
    form,     \* how it is written: current, a legacy array, or not readable
    bak,      \* the entries of profiles.json.bak
    dir,      \* the directory profiles/<id>
    hidden,   \* the hidden directories next to them
    run,      \* runtime/<id>/running.json: none, of a live browser, or stale
    lock,     \* who holds the metadata lock
    pc, job,  \* where each process is, and what its command knows
    left,     \* how many commands it may still begin
    faults    \* how many file operations may still fail

meta == <<doc, form, bak>>
dirs == <<dir, hidden>>
root == <<doc, form, bak, dir, hidden, run, lock>>
rootVars == <<doc, form, bak, dir, hidden, run, lock, pc, job, left, faults>>

Origins == {"own", "archived", "recovered"}
Kinds == {"empty", "own", "archived"}   \* of a directory with browser-data
Data == Kinds \cup {"bare", Absent}
Doc == [Ids -> Origins \cup {Absent}]
ASSUME AbsentAssumption == Absent \notin Origins \cup Kinds \cup {"bare", "live", "stale"}

EmptyDoc == [i \in Ids |-> Absent]
Listed(d) == {i \in Ids : d[i] # Absent}

\* .deleting-*, .quarantine_*, .temp_restore_* and .removing-*, each with the process that
\* made it, and in which of its commands (its names are unique).  owed is no part of the disk:
\* it says whether the directory holds the data of a listed profile (of several, the one that
\* was hidden first), and "coming" that it will when the restore that unpacked it commits.
Hidden == [kind : {"deleting", "quarantine", "temp", "removing"}, id : Ids, by : Procs,
           turn : 0..MaxCommands, data : Kinds \cup {"bare", "live", "stale"},
           owed : {"yes", "coming", "no"}]

Job == [cmd   : Commands \cup {"none"},
        sel   : SUBSET Ids,           \* the profiles the command is about
        done  : SUBSET Ids,           \* ... those its current loop has been through
        snap  : Doc,                  \* the document it read
        data  : [Ids -> Data],        \* what the directories held when it read them
        seen  : SUBSET Ids,           \* those a browser visited since it reads
        flag  : SUBSET {"force", "recreate", "reattach", "legacy"}]

NoJob == [cmd |-> "none", sel |-> {}, done |-> {}, snap |-> EmptyDoc, data |-> EmptyDoc,
          seen |-> {}, flag |-> {}]

\* A root as older versions, crashes and users may leave it: metadata in an old
\* form or damaged, listed profiles without a directory, directories nobody lists.
RootInit ==
    /\ \E S \in SUBSET Ids :
         LET d == [i \in Ids |-> IF i \in S THEN "own" ELSE Absent]
         IN \/ form = "current" /\ doc = d /\ bak = EmptyDoc
            \/ form = "legacy" /\ doc = d /\ bak = NoFile
            \/ form = "bad" /\ doc = EmptyDoc /\ bak \in {d, NoFile}
    /\ dir \in [Ids -> {"own", Absent}]
    /\ hidden = {}
    /\ run = [i \in Ids |-> "none"]
    /\ lock = Free
    /\ pc = [p \in Procs |-> "idle"]
    /\ job = [p \in Procs |-> NoJob]
    /\ left = [p \in Procs |-> MaxCommands]
    /\ faults = MaxFaults

\* A backup or a migration reads the profiles it is about until it has checked again.
Reads == {"archive", "recheck", "lock_destination", "plan", "copy", "verify"}

Creating == {"make_data_dir", "add", "undo_create"}

-----------------------------------------------------------------------------
(* Steps of a command. *)

Goto(p, l) == pc' = [pc EXCEPT ![p] = l]
Keep == UNCHANGED <<left, faults>>

Begin(p, c, l, j) ==
    /\ pc[p] = "idle" /\ c \in Can[p] /\ left[p] > 0
    /\ left' = [left EXCEPT ![p] = @ - 1]
    /\ job' = [job EXCEPT ![p] = [j EXCEPT !.cmd = c]]
    /\ Goto(p, l)
    /\ UNCHANGED faults

\* The command ends, with success or with an error message.
Return(p) == Goto(p, "idle") /\ job' = [job EXCEPT ![p] = NoJob]

\* An OSError: a disk that is full, a file another program keeps open.
Fault == faults > 0 /\ faults' = faults - 1 /\ UNCHANGED left

\* metadata_lock: an flock, which its holder's death releases.
Acquire(p) == lock = Free /\ lock' = p
Release(p) == lock' = IF lock = p THEN Free ELSE lock
TimesOut(p) == lock # Free /\ p \in Impatient

\* load_metadata raises on a document it cannot read.
Loadable == form # "bad"

\* _backup_metadata, then _atomic_write of a versioned document.
Commit(d) == bak' = doc /\ doc' = d /\ form' = "current"

\* ensure_migrated: looking a profile up writes metadata of an older form anew.
LookUp == Loadable /\ IF form = "legacy" THEN Commit(doc) ELSE UNCHANGED meta

\* One of the two fails: profiles.json is as before.
CommitFails == Fault /\ bak' \in {bak, doc} /\ UNCHANGED <<doc, form>>

\* is_active_for_mutation: there is a runtime state and its browser lives.
Active(i) == run[i] = "live"

\* Path.replace onto the place of a directory: what is there must be empty.
Vacant(i) == dir[i] \in {Absent, "bare"}

\* The hidden directories of the command that p runs.
Of(p, kind) == {h \in hidden : h.by = p /\ h.turn = left[p] /\ h.kind = kind}

Temp(p, i) == {h \in Of(p, "temp") : h.id = i}

\* The directory of i is there, but the restore that moved it in may still take it back.
MovedIn(p, i) ==
    pc[p] \in {"finalise", "commit", "rollback"} /\ i \in job[p].sel /\ Temp(p, i) = {}

\* A hidden directory holds the data of a listed profile.
Owed(i) == \E h \in hidden : h.id = i /\ h.owed = "yes"

\* rename to a hidden name next to it
Hide(p, i, kind) ==
    /\ hidden' = hidden \cup {[kind |-> kind, id |-> i, by |-> p, turn |-> left[p],
                               data |-> dir[i],
                               owed |-> IF \E q \in Procs : MovedIn(q, i) THEN "coming"
                                        ELSE IF doc[i] # Absent /\ ~Owed(i) THEN "yes"
                                        ELSE "no"]}
    /\ dir' = [dir EXCEPT ![i] = Absent]

\* The command that replaces or removes the profiles S is committed.
Settled(S, owed(_)) ==
    {IF h.id \in S THEN [h EXCEPT !.owed = owed(h)] ELSE h : h \in hidden}

Never(h) == "no"
NowIfComing(h) == IF h.owed = "coming" THEN "yes" ELSE "no"

=============================================================================
