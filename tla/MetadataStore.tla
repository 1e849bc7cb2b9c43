---------------------------- MODULE MetadataStore ----------------------------
(***************************************************************************)
(* profiles.json, its backup and its lock, as the commands of several      *)
(* ProfileDock processes use them (storage.py, profile_manager.py).        *)
(*                                                                         *)
(* A command first resolves its profile: ensure_migrated reads the         *)
(* metadata under the lock, rewriting a legacy file on the way, and lets   *)
(* the lock go.  It computes its update from what it read, takes the lock  *)
(* again, and atomic_update_metadata reloads, applies, validates, backs up *)
(* and replaces the file.  The lock is polled until a deadline.  A process *)
(* may crash between any two steps; the operating system then frees its    *)
(* lock.                                                                   *)
(***************************************************************************)
EXTENDS ProfileDoc

CONSTANTS
    Procs,      \* ProfileDock processes (CLI, TUI, MCP server)
    Free,       \* nobody holds the lock
    NoFile,     \* the file does not exist
    Nothing     \* no command, update or document in hand

VARIABLES
    primary,    \* metadata/profiles.json
    backup,     \* metadata/profiles.json.bak
    previous,   \* history: what primary held before its last replacement
    lock,       \* the flock on metadata/profiles.lock
    pc,         \* where each process is
    cmd,        \* the command each process runs
    upd,        \* the update it computed outside the lock
    newdoc      \* the document it is about to write, under the lock

vars == <<primary, backup, previous, lock, pc, cmd, upd, newdoc>>

File == [legacy : BOOLEAN, doc : Doc] \cup {NoFile}
\* MUTANT of CurrentFile: a save that forgets the schema version.
CurrentFileUnversioned(d) == [doc |-> d]
CurrentFile(d) == [legacy |-> FALSE, doc |-> d]

\* load_metadata: a missing file is the empty document, a legacy one is
\* migrated in memory.
DocOf(file) == IF file = NoFile THEN EmptyDoc ELSE file.doc

Command ==
    [kind : {"create"}, id : Ids, name : Names, engine : EngineValue]
      \cup [kind : {"delete", "reset"}, id : Ids]
      \cup [kind : {"rename"}, id : Ids, name : Names]
      \cup [kind : {"set_engine"}, id : Ids, engine : EngineValue]
      \cup [kind : {"edit"}, id : Ids, field : {"engine"}, value : EngineValue]
      \cup [kind : {"edit"}, id : Ids, field : {"browser"}, value : Browsers \cup {None}]
      \cup [kind : {"edit"}, id : Ids, field : {"locale"}, value : Locales \cup {None}]

Waiting   == {"resolve", "update"}
Resolving == {"read", "backup_legacy", "write_legacy"}
Updating  == {"load", "backup", "write", "committed"}
Critical  == Resolving \cup Updating

ASSUME StoreAssumption ==
    /\ Free \notin Procs
    /\ NoFile \notin [legacy : BOOLEAN, doc : Doc]
    /\ Nothing \notin Command \cup Update \cup Doc

TypeOK ==
    /\ primary \in File /\ backup \in File /\ previous \in File
    /\ lock \in Procs \cup {Free}
    /\ pc \in [Procs -> {"idle"} \cup Waiting \cup Critical]
    /\ cmd \in [Procs -> Command \cup {Nothing}]
    /\ upd \in [Procs -> Update \cup {Nothing}]
    /\ newdoc \in [Procs -> Doc \cup {Nothing}]

\* The data root as a first run, an older release or an earlier session left it.
Init ==
    /\ primary \in File /\ ValidDoc(DocOf(primary))
    /\ backup = NoFile
    /\ previous = primary
    /\ lock = Free
    /\ pc = [p \in Procs |-> "idle"]
    /\ cmd = [p \in Procs |-> Nothing]
    /\ upd = [p \in Procs |-> Nothing]
    /\ newdoc = [p \in Procs |-> Nothing]

-----------------------------------------------------------------------------
(* How a process moves on. *)

Files == <<primary, backup, previous>>
Goto(p, l) == pc' = [pc EXCEPT ![p] = l]
Acquire(p) == lock = Free /\ lock' = p

\* The command is over, successfully or not; its locals go with it.
Return(p) ==
    /\ Goto(p, "idle")
    /\ cmd' = [cmd EXCEPT ![p] = Nothing]
    /\ upd' = [upd EXCEPT ![p] = Nothing]
    /\ newdoc' = [newdoc EXCEPT ![p] = Nothing]

\* Leaving the with-block of metadata_lock, normally or by an exception.
Release(p) == lock' = IF lock = p THEN Free ELSE lock

-----------------------------------------------------------------------------
(* Starting a command. *)

AddUpdate(c) == [kind |-> "add", id |-> c.id, name |-> c.name, engine |-> c.engine]

\* create picks an id nobody has: the uuid is fresh and its mkdir is exclusive.
FreshId(i) ==
    /\ DocOf(primary)[i] = NoProfile
    /\ \A q \in Procs : cmd[q] # Nothing => cmd[q].id # i

\* create does not resolve anything: it goes straight to add_profile_atomic.
StartCreate(p) ==
    /\ pc[p] = "idle"
    /\ \E c \in Command :
         /\ c.kind = "create" /\ FreshId(c.id)
         /\ cmd' = [cmd EXCEPT ![p] = c]
         /\ upd' = [upd EXCEPT ![p] = AddUpdate(c)]
    /\ Goto(p, "update")
    /\ UNCHANGED <<Files, lock, newdoc>>

StartOther(p) ==
    /\ pc[p] = "idle"
    /\ \E c \in Command : c.kind # "create" /\ cmd' = [cmd EXCEPT ![p] = c]
    /\ Goto(p, "resolve")
    /\ UNCHANGED <<Files, lock, upd, newdoc>>

-----------------------------------------------------------------------------
(* metadata_lock: try, poll, give up at the deadline. *)

AcquireToResolve(p) ==
    /\ pc[p] = "resolve"
    /\ Acquire(p)
    /\ Goto(p, "read")
    /\ UNCHANGED <<Files, cmd, upd, newdoc>>

\* MUTANT of AcquireToUpdate: reload and save without taking the lock.
EnterUnlocked(p) ==
    /\ pc[p] = "update"
    /\ Goto(p, "load")
    /\ UNCHANGED <<Files, lock, cmd, upd, newdoc>>

AcquireToUpdate(p) ==
    /\ pc[p] = "update"
    /\ Acquire(p)
    /\ Goto(p, "load")
    /\ UNCHANGED <<Files, cmd, upd, newdoc>>

\* MUTANT of LockTimeout: poll without a deadline.
PollForever(p) ==
    /\ pc[p] \in Waiting
    /\ lock # Free
    /\ UNCHANGED vars

\* The last poll before the deadline finds the lock taken: MetadataLockedError.
LockTimeout(p) ==
    /\ pc[p] \in Waiting
    /\ lock # Free
    /\ Return(p)
    /\ UNCHANGED <<Files, lock>>

-----------------------------------------------------------------------------
(* ensure_migrated, and what the command makes of the profile it resolved. *)

\* An invalid document is neither migrated nor used: MetadataCorruptedError.
NeedsMigration == primary # NoFile /\ primary.legacy /\ ValidDoc(primary.doc)

MigrateLegacy(p) ==
    /\ pc[p] = "read"
    /\ NeedsMigration
    /\ Goto(p, "backup_legacy")
    /\ UNCHANGED <<Files, lock, cmd, upd, newdoc>>

\* update_launch_config, add_start_url, remove_start_url: the whole preset,
\* with one setting replaced, from the profile as it was resolved.
Edited(profile, c) == [profile.config EXCEPT ![c.field] = c.value]

\* The update a command makes of the profile it resolved.
UpdateOf(c, profile) ==
    LET Set(field, v) == [kind |-> field, id |-> c.id, value |-> v]
    IN IF c.kind = "delete" THEN [kind |-> "remove", id |-> c.id]
       ELSE IF c.kind = "rename" THEN Set("name", c.name)
       ELSE IF c.kind = "set_engine" THEN Set("engine", c.engine)
       ELSE Set("config", IF c.kind = "reset" THEN DefaultConfig ELSE Edited(profile, c))

\* _apply_launch_config validates the new preset against the resolved profile.
Accepted(c, profile) ==
    c.kind = "edit" => ValidConfig(Edited(profile, c), profile.engine)

Resolve(p) ==
    /\ pc[p] = "read"
    /\ ~NeedsMigration
    /\ Release(p)
    /\ LET profile == DocOf(primary)[cmd[p].id] IN
         IF ValidDoc(DocOf(primary)) /\ profile # NoProfile /\ Accepted(cmd[p], profile)
         THEN /\ upd' = [upd EXCEPT ![p] = UpdateOf(cmd[p], profile)]
              /\ Goto(p, "update")
              /\ UNCHANGED <<cmd, newdoc>>
         ELSE Return(p)
    /\ UNCHANGED Files

-----------------------------------------------------------------------------
(* atomic_update_metadata: load, apply, validate, then back up and replace. *)

\* MUTANT of Load: trust the validation made before the lock was taken.
LoadUnvalidated(p) ==
    /\ pc[p] = "load"
    /\ LET old == DocOf(primary)
           new == Apply(upd[p], old)
       IN IF ValidDoc(old) /\ Appliable(upd[p], old) /\ new # old
          THEN /\ newdoc' = [newdoc EXCEPT ![p] = new]
               /\ Goto(p, "backup")
               /\ UNCHANGED <<lock, cmd, upd>>
          ELSE Return(p) /\ Release(p)
    /\ UNCHANGED Files

Load(p) ==
    /\ pc[p] = "load"
    /\ LET old == DocOf(primary)
           new == Apply(upd[p], old)
       IN IF ValidDoc(old) /\ Appliable(upd[p], old) /\ ValidDoc(new) /\ new # old
          THEN /\ newdoc' = [newdoc EXCEPT ![p] = new]
               /\ Goto(p, "backup")
               /\ UNCHANGED <<lock, cmd, upd>>
          ELSE Return(p) /\ Release(p)
    /\ UNCHANGED Files

\* MUTANT of BackupMetadata: back up only when there is no backup yet.
BackupOnce(p) ==
    /\ pc[p] \in {"backup", "backup_legacy"}
    /\ backup' = IF backup = NoFile THEN primary ELSE backup
    /\ Goto(p, IF pc[p] = "backup" THEN "write" ELSE "write_legacy")
    /\ UNCHANGED <<primary, previous, lock, cmd, upd, newdoc>>

\* _backup_metadata copies the primary, if there is one.
BackupMetadata(p) ==
    /\ pc[p] \in {"backup", "backup_legacy"}
    /\ backup' = IF primary = NoFile THEN backup ELSE primary
    /\ Goto(p, IF pc[p] = "backup" THEN "write" ELSE "write_legacy")
    /\ UNCHANGED <<primary, previous, lock, cmd, upd, newdoc>>

ReplacePrimary(file) == primary' = file /\ previous' = primary

WriteUpdate(p) ==
    /\ pc[p] = "write"
    /\ ReplacePrimary(CurrentFile(newdoc[p]))
    /\ newdoc' = [newdoc EXCEPT ![p] = Nothing]
    /\ Goto(p, "committed")
    /\ UNCHANGED <<backup, lock, cmd, upd>>

\* The migrated document is what resolve then reads, still under the lock.
WriteMigrated(p) ==
    /\ pc[p] = "write_legacy"
    /\ ReplacePrimary(CurrentFile(DocOf(primary)))
    /\ Goto(p, "read")
    /\ UNCHANGED <<backup, lock, cmd, upd, newdoc>>

\* OSError in either atomic write: StorageError, nothing replaced.
WriteFails(p) ==
    /\ pc[p] \in {"backup", "backup_legacy", "write", "write_legacy"}
    /\ Return(p) /\ Release(p)
    /\ UNCHANGED Files

Unlock(p) ==
    /\ pc[p] = "committed"
    /\ Return(p) /\ Release(p)
    /\ UNCHANGED Files

-----------------------------------------------------------------------------
\* MUTANT of Crash: a lock that outlives its process, as a bare lock file would.
CrashKeepingLock(p) ==
    /\ pc[p] # "idle"
    /\ Return(p)
    /\ UNCHANGED <<Files, lock>>

\* The process dies; the operating system closes its descriptors.
Crash(p) ==
    /\ pc[p] # "idle"
    /\ Return(p) /\ Release(p)
    /\ UNCHANGED Files

Progress(p) ==
    \/ AcquireToResolve(p) \/ AcquireToUpdate(p) \/ LockTimeout(p)
    \/ MigrateLegacy(p) \/ Resolve(p)
    \/ Load(p) \/ BackupMetadata(p) \/ WriteUpdate(p) \/ WriteMigrated(p)
    \/ WriteFails(p) \/ Unlock(p)

Next == \E p \in Procs : StartCreate(p) \/ StartOther(p) \/ Progress(p) \/ Crash(p)

Spec == Init /\ [][Next]_vars

\* The operating system keeps scheduling every process; nothing makes a user
\* issue a command or a process crash.
FairSpec == Spec /\ \A p \in Procs : WF_vars(Progress(p))

-----------------------------------------------------------------------------
(* What the store promises. *)

\* The registry the callers see.
Registry == INSTANCE ProfileRegistry WITH registry <- DocOf(primary)

\* Every change of profiles.json is one valid update applied to the document as
\* it stands: no command's committed update is lost to another's, and neither a
\* failed write nor a crash nor the legacy migration changes the registry
\* (atomic_update_metadata reloads under the lock it writes under).
ImplementsRegistry == Registry!RSpec

\* profiles.json never holds a preset whose browser its engine cannot run, though
\* a preset is checked against a profile resolved earlier and another command may
\* have changed the engine since: the whole document is validated under the lock.
\* (Such a document would make load_metadata, so every command, fail.)
StoredDocumentValid == ValidDoc(DocOf(primary))

\* profiles.json.bak is the current metadata or the version just before it, never
\* an older one and never a version that was not in force, whichever commands
\* failed or crashed between the backup and the replacement.
BackupTrailsPrimary == backup \in {NoFile, primary, previous}

\* A config edit that commits leaves every other setting of the preset as it
\* found it in the file it replaces ("Store one launch-preset value").
ConfigEditStoresOneValue ==
    [][\A p \in Procs :
         pc[p] = "write" /\ pc'[p] = "committed" /\ cmd[p].kind = "edit" =>
           \A f \in Fields \ {cmd[p].field} :
             newdoc[p][cmd[p].id].config[f] = DocOf(primary)[cmd[p].id].config[f]]_vars

\* A held lock is let go, by its holder or by the holder's death: the lock file
\* that stays behind is no lock.
LockComesFree == \A p \in Procs : lock = p ~> lock # p

\* Every command ends, however busy the lock is: the deadline sees to it.
CommandReturns == \A p \in Procs : pc[p] # "idle" ~> pc[p] = "idle"

=============================================================================
