--------------------------- MODULE DataRootSystem ---------------------------
(***************************************************************************)
(* The commands on a data root together: several processes create, delete, *)
(* restore, back up, repair and migrate profiles whose browsers come and   *)
(* go, fail at a file operation, wait too long for the lock, and die.      *)
(***************************************************************************)
EXTENDS ProfileCommands, Restore, Backup, Doctor, Migration

CONSTANT Apart   \* the pairs of commands that do not run at the same time

ASSUME ApartAssumption == Apart \subseteq Commands \X (Commands \cup {"launch"})

\* That a profile is not there is no profile.
ASSUME ItemAssumption ==
    \A from \in Origins, data \in {"none", "own", "archived"} : Absent # [from |-> from, data |-> data]

allVars == <<rootVars, out, destination>>

Init == RootInit /\ BackupInit /\ MigrationInit

-----------------------------------------------------------------------------
(* Which process may begin a command, and when one dies. *)

MayRun(c) ==
    \A p \in Procs : LET d == job[p].cmd
                     IN d # "none" => <<c, d>> \notin Apart /\ <<d, c>> \notin Apart

(* The commands of the command line: the flags are theirs, and so is reporting how *)
(* each ended.                                                                     *)

CreateCommand(p) == MayRun("create") /\ StartCreate(p) /\ UNCHANGED <<out, destination>>

DeleteCommand(p) == MayRun("delete") /\ StartDelete(p) /\ UNCHANGED <<out, destination>>

RestoreCommand(p) == MayRun("restore") /\ StartRestore(p) /\ UNCHANGED <<out, destination>>

BackupCommand(p) == MayRun("backup") /\ StartBackup(p) /\ UNCHANGED destination

DoctorCommand(p) == MayRun("repair") /\ StartRepair(p) /\ UNCHANGED <<out, destination>>

MigrateCommand(p) ==
    \E c \in {"migrate", "move"} : MayRun(c) /\ StartMigrate(p, c) /\ UNCHANGED out

BeginCommand(p) ==
    \/ CreateCommand(p) \/ DeleteCommand(p) \/ RestoreCommand(p)
    \/ BackupCommand(p) \/ DoctorCommand(p) \/ MigrateCommand(p)

BrowserStarts ==
    MayRun("launch") /\ (ResolveLegacy \/ \E i \in Ids : Launch(i) \/ MarkLaunched(i))

BrowserEnds == \E i \in Ids : Stop(i)

\* The death of a process releases the metadata lock and leaves what is on disk.
Crash(p) ==
    /\ p \in Crashing /\ pc[p] \in CrashPoints
    /\ Goto(p, "down") /\ job' = [job EXCEPT ![p] = NoJob]
    /\ Release(p)
    /\ UNCHANGED <<meta, dirs, run, out, destination>> /\ Keep

Step(p) ==
    \/ ProfileStep(p) /\ UNCHANGED <<out, destination>>
    \/ RestoreStep(p) /\ UNCHANGED <<out, destination>>
    \/ BackupStep(p) /\ UNCHANGED destination
    \/ RepairStep(p) /\ UNCHANGED <<out, destination>>
    \/ MigrateStep(p) /\ UNCHANGED out

Next ==
    \/ \E p \in Procs : BeginCommand(p) \/ Step(p) \/ Crash(p)
    \/ BrowserStarts /\ UNCHANGED <<out, destination>>
    \/ BrowserEnds /\ UNCHANGED <<out, destination>>

Spec == Init /\ [][Next]_allVars

-----------------------------------------------------------------------------
(* Properties. *)

\* The type invariant; the lock is held exactly where restore holds it.
TypeOK ==
    /\ doc \in Doc /\ bak \in Doc \cup {NoFile}
    /\ form \in {"current", "legacy", "bad"}
    /\ dir \in [Ids -> Data]
    /\ hidden \subseteq Hidden
    /\ run \in [Ids -> {"none", "live", "stale"}]
    /\ job \in [Procs -> Job]
    /\ out \in {"none", "older", "complete"}
    /\ ddoc \in Doc /\ ddir \in [Ids -> Data] /\ staged \subseteq Ids
    /\ \A p \in Procs : pc[p] \in RestoreLocked <=> lock = p

\* What the user has: the entries a command would read, the damaged file's being
\* those of its backup, and the data each counts on, which may be hidden for now;
\* what a restore has moved in counts when it commits.
Registry ==
    IF form # "bad" THEN doc ELSE IF bak = NoFile THEN EmptyDoc ELSE bak

DataOf(i) ==
    LET owed == {h \in hidden : h.id = i /\ h.owed = "yes"}
    IN IF owed # {} THEN (CHOOSE h \in owed : TRUE).data
       ELSE IF \E p \in Procs : MovedIn(p, i) THEN Absent ELSE dir[i]

\* An entry and its data; a directory that no browser has written to holds none.
Item(from, data) ==
    [from |-> from, data |-> IF data \in {"own", "archived"} THEN data ELSE "none"]

lib == [i \in Ids |-> IF Registry[i] = Absent THEN Absent
                      ELSE Item(Registry[i], DataOf(i))]

away == [i \in Ids |-> IF ddoc[i] = Absent THEN Absent
                       ELSE Item(ddoc[i], ddir[i])]

Library == INSTANCE ProfileLibrary

\* The commands implement the library: a create, a delete, a restore of several
\* profiles and a removal after a migration happen entirely or not at all, in
\* spite of failing file operations and of each other, and no step of any
\* command loses the data of a listed profile.
ImplementsLibrary == Library!LSpec

\* The repair takes hidden directories for leftovers that hold the only data of a profile.
Swept(i) == \E h \in hidden \ hidden' : h.id = i /\ h.owed = "yes"

SweepTakes(p) ==
    /\ pc[p] = "sweep" /\ pc'[p] = "inspect"
    /\ \A i \in Ids : \/ lib'[i] = lib[i]
                      \/ Swept(i) /\ lib[i] # Absent /\ lib'[i] \in Library!Item
                         /\ lib'[i].from = lib[i].from
    /\ UNCHANGED away

\* A restore that dies or cannot take back what it moved in leaves the data of the archive
\* with listed profiles that had none.
RestoreLeaves(p) ==
    /\ pc[p] \in {"finalise", "commit", "rollback"} /\ pc'[p] \in {"down", "unquarantine"}
    /\ \A i \in Ids : \/ lib'[i] = lib[i]
                      \/ /\ i \in job[p].sel /\ lib[i] # Absent /\ lib[i].data = "none"
                         /\ lib'[i] = [lib[i] EXCEPT !.data = "archived"]
    /\ UNCHANGED away

\* What the commands keep of the library's promise wherever they fail or die: the data of a
\* listed profile is lost only to the sweep of a repair, and a restore that does not commit
\* shows only in profiles that had no data.
LosesOnlySwept ==
    /\ Library!LInit
    /\ [][Library!LNext \/ \E p \in Procs : SweepTakes(p) \/ RestoreLeaves(p)]_<<lib, away>>

\* A repair with both options that ends as it should leaves a root that doctor calls
\* healthy: the metadata is readable, every listed profile has a directory and every
\* directory with browser data a profile, whatever was damaged before.
RepairHeals ==
    [][\A p \in Procs :
         /\ pc[p] \in {"find_orphans", "reattach"} /\ pc'[p] = "idle"
         /\ {"recreate", "reattach"} \subseteq job[p].flag
         /\ faults' = MaxFaults
         /\ \A i \in Ids : ~Active(i)
         => /\ \A check \in DOMAIN Report' : Report'[check] # "failed"
            /\ Report'.directories = "ok"
            /\ \A i \in Orphans' : dir'[i] = "bare"]_allVars

\* No browser wrote to a profile while it was read for an archive that is about
\* to be published: the check made at the end of the reading is enough, as long
\* as a browser does not come and go within it.  (A delete whose profile was launched
\* after it had looked removes the state that would tell.)
PublishedUnvisited ==
    \A p \in Procs : pc[p] = "publish" => job[p].seen \cap job[p].sel \cap Listed(doc) = {}

\* Commands that meet no failing file operation and do not die leave nothing
\* behind, whichever way they end.
NothingLeft ==
    faults = MaxFaults /\ (\A p \in Procs : pc[p] = "idle") => hidden = {} /\ staged = {}

=============================================================================
