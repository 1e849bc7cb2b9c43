------------------------------ MODULE Migration -----------------------------
(***************************************************************************)
(* migrate: the profiles of this root are copied to another one, and with  *)
(* --remove-source ("move" here) removed afterwards (migration.py).  The   *)
(* destination's metadata lock is held while it changes; the source is     *)
(* read, checked again, and removed without one.                           *)
(***************************************************************************)
EXTENDS DataRoot

VARIABLES
    ddoc,     \* the entries of the destination's profiles.json
    ddir,     \* its directories profiles/<id>
    staged    \* its temporary directories .m-*

destination == <<ddoc, ddir, staged>>

\* Nothing has been migrated yet, or some profiles were by an earlier migration.
MigrationInit ==
    /\ \E S \in SUBSET Ids :
         ddoc = [i \in Ids |-> IF i \in S THEN "own" ELSE Absent] /\ ddir = ddoc
    /\ staged = {}

-----------------------------------------------------------------------------
(* Reading the source. *)

Legacy == IF form = "legacy" THEN {"legacy"} ELSE {}

\* The file is byte for byte what was read.
Unchanged(p) == doc = job[p].snap /\ Legacy = job[p].flag

Quiet(S) == \A i \in S : ~Active(i)

\* _validate_removal_scope: only what the metadata lists is under profiles/ and runtime/.
OnlyKnown(known) ==
    /\ hidden = {}
    /\ \A i \in Ids \ known : dir[i] = Absent /\ run[i] = "none"

\* The metadata is valid and every listed profile has its data.
SourceValid == Loadable /\ \A i \in Listed(doc) : dir[i] \in Kinds

StartMigrate(p, c) ==
    /\ SourceValid
    /\ Quiet(Listed(doc))
    /\ c = "move" => OnlyKnown(Listed(doc))
    /\ Begin(p, c, "lock_destination",
             [NoJob EXCEPT !.sel = Listed(doc), !.snap = doc, !.data = dir, !.flag = Legacy])
    /\ UNCHANGED <<root, destination>>

-----------------------------------------------------------------------------
(* The copy, under the destination's lock. *)

MigrateLocked == {"plan", "copy", "verify", "move_in", "commit_migration", "undo_migration"}

DestinationBusy == \E q \in Procs : pc[q] \in MigrateLocked

LockDestination(p) ==
    /\ pc[p] = "lock_destination"
    /\ \/ ~DestinationBusy /\ Goto(p, "plan") /\ UNCHANGED job
       \/ DestinationBusy /\ p \in Impatient /\ Return(p)
    /\ UNCHANGED <<root, destination>> /\ Keep

\* A profile the destination lists must be the same there, entry and files.
MayBeSame(p, i) == ddoc[i] = job[p].snap[i] /\ ddir[i] = job[p].data[i]

Plan(p) ==
    /\ pc[p] = "plan"
    /\ \/ /\ \A i \in job[p].sel : ddoc[i] = Absent \/ MayBeSame(p, i)
          /\ job' = [job EXCEPT ![p].sel = {i \in @ : ddoc[i] = Absent}]
          /\ Goto(p, "copy")
       \/ /\ \E i \in job[p].sel : ddoc[i] # Absent
          /\ Return(p)
    /\ UNCHANGED <<root, destination>> /\ Keep

\* What an interrupted migration left, or a directory in the way, is a conflict.
CopyConflict(p, i) == ddir[i] # Absent \/ (staged # {} /\ job[p].done = {})

\* The copy has the files that were listed when the source was read.
CopyDiffers(p, i) == dir[i] # job[p].data[i] \/ i \in job[p].seen

Copy(p) ==
    /\ pc[p] = "copy"
    /\ IF job[p].done = job[p].sel
       THEN /\ Goto(p, "verify")
            /\ UNCHANGED <<job, staged>>
       ELSE \E i \in job[p].sel \ job[p].done :
              /\ ~CopyConflict(p, i) /\ ~CopyDiffers(p, i)
              /\ staged' = staged \cup {i}
              /\ job' = [job EXCEPT ![p].done = @ \cup {i}]
              /\ UNCHANGED pc
    /\ UNCHANGED <<root, ddoc, ddir>> /\ Keep

\* What is to be undone is what this migration has made so far.
CopyFails(p) ==
    /\ pc[p] = "copy"
    /\ \E i \in job[p].sel \ job[p].done : \E begun \in SUBSET {i} :
         /\ \/ CopyConflict(p, i) /\ begun = {} /\ Keep
            \/ ~CopyConflict(p, i) /\ CopyDiffers(p, i) /\ begun = {i} /\ Keep
            \/ ~CopyConflict(p, i) /\ Fault
         /\ staged' = staged \cup begun
         /\ job' = [job EXCEPT ![p].sel = @ \cap (job[p].done \cup begun), ![p].done = {}]
    /\ Goto(p, "undo_migration")
    /\ UNCHANGED <<root, ddoc, ddir>>

\* The source is what it was: no browser runs, the same metadata, the same files.
SourceSame(p) ==
    /\ Unchanged(p) /\ Quiet(Listed(doc))
    /\ \A i \in Listed(doc) : ~CopyDiffers(p, i)

Verify(p) ==
    /\ pc[p] = "verify"
    /\ Goto(p, IF SourceSame(p) THEN "move_in" ELSE "undo_migration")
    /\ job' = [job EXCEPT ![p].done = {}]
    /\ UNCHANGED <<root, destination>> /\ Keep

MoveIn(p) ==
    /\ pc[p] = "move_in"
    /\ \/ \E i \in job[p].sel \ job[p].done :
            \/ /\ ddir' = [ddir EXCEPT ![i] = job[p].data[i]]
               /\ staged' = staged \ {i}
               /\ job' = [job EXCEPT ![p].done = @ \cup {i}]
               /\ UNCHANGED pc /\ Keep
            \/ /\ Fault
               /\ Goto(p, "undo_migration")
               /\ UNCHANGED <<ddir, staged, job>>
       \/ /\ job[p].done = job[p].sel
          /\ Goto(p, "commit_migration")
          /\ UNCHANGED <<ddir, staged, job>> /\ Keep
    /\ UNCHANGED <<root, ddoc>>

CommitMigration(p) ==
    /\ pc[p] = "commit_migration"
    /\ \/ /\ ddoc' = [i \in Ids |-> IF i \in job[p].sel THEN job[p].snap[i] ELSE ddoc[i]]
          /\ IF job[p].cmd = "move" THEN Goto(p, "check_removal") /\ UNCHANGED job ELSE Return(p)
          /\ Keep
       \/ /\ job[p].sel # {} /\ Fault
          /\ Goto(p, "undo_migration")
          /\ UNCHANGED <<ddoc, job>>
    /\ UNCHANGED <<root, ddir, staged>>

\* rmtree of the temporary directories and of those moved in; what it cannot
\* remove stays.
UndoMigration(p) ==
    /\ pc[p] = "undo_migration"
    /\ \/ /\ staged' = staged \ job[p].sel
          /\ ddir' = [i \in Ids |-> IF i \in job[p].done THEN Absent ELSE ddir[i]]
          /\ Keep
       \/ job[p].sel # {} /\ Fault /\ UNCHANGED <<staged, ddir>>
    /\ Return(p)
    /\ UNCHANGED <<root, ddoc>>

-----------------------------------------------------------------------------
(* The removal of the source: its lock is not taken. *)

CheckRemoval(p) ==
    /\ pc[p] = "check_removal"
    /\ IF Unchanged(p) /\ Quiet(Listed(doc)) /\ OnlyKnown(Listed(doc))
       THEN /\ Goto(p, "move_out")
            /\ job' = [job EXCEPT ![p].sel = Listed(doc), ![p].done = {}]
       ELSE Return(p)
    /\ UNCHANGED <<root, destination>> /\ Keep

\* A directory under its hidden name
Renamed(p, i, data, owed) ==
    [kind |-> "removing", id |-> i, by |-> p, turn |-> left[p], data |-> data, owed |-> owed]

\* profiles/<id> is renamed to .removing-*,
MoveProfileOut(p, i) ==
    /\ dir[i] # Absent
    /\ hidden' = hidden \cup {Renamed(p, i, dir[i], "yes")}
    /\ dir' = [dir EXCEPT ![i] = Absent]
    /\ UNCHANGED <<run, job>>

\* ... and then runtime/<id>.
MoveRuntimeOut(p, i) ==
    /\ hidden' = hidden \cup (IF run[i] = "none" THEN {} ELSE {Renamed(p, i, run[i], "no")})
    /\ run' = [run EXCEPT ![i] = "none"]
    /\ job' = [job EXCEPT ![p].done = @ \cup {i}]
    /\ UNCHANGED dir

\* One profile after the other.
MoveOut(p) ==
    /\ pc[p] = "move_out"
    /\ \E i \in job[p].sel \ job[p].done :
         LET begun == {h.id : h \in Of(p, "removing")} \ job[p].done
         IN /\ begun \subseteq {i}
            /\ \/ begun = {} /\ MoveProfileOut(p, i)
               \/ (dir[i] = Absent \/ begun = {i}) /\ MoveRuntimeOut(p, i)
    /\ UNCHANGED <<meta, lock, pc, destination>> /\ Keep

\* ... and then profiles.json and its backup, as one: if the backup stays, profiles.json
\* goes back to its place.  Now the source is gone.
RemoveMetadata(p) ==
    /\ pc[p] = "move_out" /\ job[p].done = job[p].sel
    /\ doc' = EmptyDoc /\ form' = "current" /\ bak' = NoFile
    /\ hidden' = Settled(Ids, Never)
    /\ Goto(p, "discard_removed")
    /\ UNCHANGED <<dir, run, lock, job, destination>> /\ Keep

RemovalFails(p) ==
    /\ pc[p] = "move_out" /\ Fault
    /\ Goto(p, "undo_removal")
    /\ UNCHANGED <<root, job, destination>>

\* Of the directories that were renamed those whose place is free
Returnable(p) ==
    {h \in Of(p, "removing") : IF h.data \in Data THEN dir[h.id] = Absent ELSE run[h.id] = "none"}

\* One after the other goes back, a runtime directory before that of its profile; if one
\* cannot, the rest stays hidden.
UndoRemoval(p) ==
    /\ pc[p] = "undo_removal"
    /\ \/ /\ Returnable(p) = {}
          /\ Return(p)
          /\ UNCHANGED <<dirs, run>> /\ Keep
       \/ \E h \in Returnable(p) :
            /\ h.data \in Data => \A g \in Returnable(p) : g.id = h.id => g.data \in Data
            /\ hidden' = hidden \ {h}
            /\ IF h.data \in Data THEN dir' = [dir EXCEPT ![h.id] = h.data] /\ UNCHANGED run
               ELSE run' = [run EXCEPT ![h.id] = h.data] /\ UNCHANGED dir
            /\ UNCHANGED <<pc, job>> /\ Keep
       \/ /\ Returnable(p) # {} /\ Fault
          /\ Return(p)
          /\ UNCHANGED <<dirs, run>>
    /\ UNCHANGED <<meta, lock, destination>>

\* MUTANT of DiscardRemoved: the renamed directories stay.
DiscardNothing(p) ==
    /\ pc[p] = "discard_removed"
    /\ Return(p)
    /\ UNCHANGED <<root, destination>> /\ Keep

DiscardRemoved(p) ==
    /\ pc[p] = "discard_removed"
    /\ \/ hidden' = hidden \ Of(p, "removing") /\ Keep
       \/ Of(p, "removing") # {} /\ Fault /\ UNCHANGED hidden
    /\ Return(p)
    /\ UNCHANGED <<meta, dir, run, lock, destination>>

-----------------------------------------------------------------------------
MigrateStep(p) ==
    \/ LockDestination(p) \/ Plan(p) \/ Copy(p) \/ CopyFails(p) \/ Verify(p) \/ MoveIn(p)
    \/ CommitMigration(p) \/ UndoMigration(p) \/ CheckRemoval(p) \/ MoveOut(p)
    \/ RemoveMetadata(p) \/ RemovalFails(p) \/ UndoRemoval(p) \/ DiscardRemoved(p)

=============================================================================
