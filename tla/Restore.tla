------------------------------- MODULE Restore ------------------------------
(***************************************************************************)
(* restore: several profiles of an archive at once, under the metadata     *)
(* lock (restore.py).  The archive is unpacked into a temporary directory, *)
(* what is in the way is moved to quarantine, the new directories move in, *)
(* the metadata is written; a failure before that undoes the moves.        *)
(***************************************************************************)
EXTENDS DataRoot

CONSTANT Archives   \* the sets of profiles for which there is an archive

ASSUME ArchivesAssumption == Archives \subseteq SUBSET Ids

-----------------------------------------------------------------------------
(* What the archive says, and which profiles are to be restored. *)

\* The archive is opened, and decrypted if it has to be.  No archive has an id that
\* was drawn just now.
StartRestore(p) ==
    \E S \in Archives, force \in SUBSET {"force"} :
      /\ \A q \in Procs : pc[q] \in Creating => job[q].sel \cap S = {}
      /\ Begin(p, "restore", "validate", [NoJob EXCEPT !.sel = S, !.flag = force])
      /\ UNCHANGED root

\* Format, limits, member names, the files of the manifest: what is wrong is refused
\* before anything is touched.
ValidateArchive(p) ==
    /\ pc[p] = "validate"
    /\ Goto(p, "lock") /\ UNCHANGED job
    /\ UNCHANGED root /\ Keep

\* ... as is a profile of the manifest with a bad id, name, engine, configuration or file
\* list, or one that occurs twice.
RefuseArchive(p) ==
    /\ pc[p] = "validate"
    /\ Return(p)
    /\ UNCHANGED root /\ Keep

LockToRestore(p) ==
    /\ pc[p] = "lock"
    /\ \/ Acquire(p) /\ Goto(p, "select") /\ UNCHANGED job
       \/ TimesOut(p) /\ Return(p) /\ UNCHANGED lock
    /\ UNCHANGED <<meta, dirs, run>> /\ Keep

\* _existing_profile_matches_archive compares the entry, then every file.
MayMatch(i) == doc[i] = "archived" /\ dir[i] = "archived"

Overwrites(p) == "force" \in job[p].flag

\* No profile of the archive is running; a listed one is overwritten only with
\* --force, and left alone without if it is the same.
Conflict(p, i) ==
    IF doc[i] = Absent THEN Active(i)
    ELSE IF Overwrites(p) THEN Active(i) ELSE ~MayMatch(i)

Skipped(p, i) == doc[i] # Absent /\ ~Overwrites(p)

Select(p) ==
    /\ pc[p] = "select" /\ Loadable
    /\ \A i \in job[p].sel : ~Conflict(p, i)
    /\ job' = [job EXCEPT ![p].sel = {i \in @ : ~Skipped(p, i)}, ![p].snap = doc]
    /\ Goto(p, "stage")
    /\ UNCHANGED root /\ Keep

\* ... or metadata that cannot be read, a profile that differs in its details, a
\* name that another profile has.
Refuse(p) ==
    /\ pc[p] = "select"
    /\ Return(p) /\ Release(p)
    /\ UNCHANGED <<meta, dirs, run>> /\ Keep

-----------------------------------------------------------------------------
(* Unpack, quarantine, move in. *)

Temps(p) ==
    {[kind |-> "temp", id |-> i, by |-> p, turn |-> left[p], data |-> "archived",
      owed |-> "no"] : i \in job[p].sel}

Stage(p) ==
    /\ pc[p] = "stage"
    /\ hidden' = hidden \cup Temps(p)
    /\ Goto(p, "quarantine")
    /\ UNCHANGED <<meta, dir, run, lock, job>> /\ Keep

\* A member that cannot be read or has another checksum, a full disk.
StageFails(p) ==
    /\ pc[p] = "stage" /\ Fault
    /\ hidden' = hidden \cup Temps(p)
    /\ Goto(p, "cleanup")
    /\ UNCHANGED <<meta, dir, run, lock, job>>

\* The loops go on with a profile they have not been through yet, or end.
Loop(p, body(_), next) ==
    IF job[p].done = job[p].sel
    THEN /\ Goto(p, next)
         /\ job' = [job EXCEPT ![p].done = {}]
         /\ UNCHANGED dirs
    ELSE \E i \in job[p].sel \ job[p].done :
           /\ body(i)
           /\ job' = [job EXCEPT ![p].done = @ \cup {i}]
           /\ UNCHANGED pc

Quarantine(p) ==
    /\ pc[p] = "quarantine"
    /\ LET Body(i) == IF dir[i] = Absent THEN UNCHANGED dirs ELSE Hide(p, i, "quarantine")
       IN Loop(p, Body, "finalise")
    /\ UNCHANGED <<meta, run, lock>> /\ Keep

QuarantineFails(p) ==
    /\ pc[p] = "quarantine" /\ Fault
    /\ \E i \in job[p].sel \ job[p].done : dir[i] # Absent
    /\ Goto(p, "unquarantine")
    /\ UNCHANGED <<root, job>>

Finalise(p) ==
    /\ pc[p] = "finalise"
    /\ LET Body(i) == /\ Vacant(i)
                      /\ dir' = [dir EXCEPT ![i] = "archived"]
                      /\ hidden' = hidden \ Temp(p, i)
       IN Loop(p, Body, "commit")
    /\ UNCHANGED <<meta, run, lock>> /\ Keep

\* A rename onto a directory that is not empty fails.
FinaliseFails(p) ==
    /\ pc[p] = "finalise"
    /\ \E i \in job[p].sel \ job[p].done : \/ ~Vacant(i) /\ Keep
                                           \/ Fault
    /\ job' = [job EXCEPT ![p].done = {}]
    /\ Goto(p, "rollback")
    /\ UNCHANGED root

-----------------------------------------------------------------------------
(* The commit, or the way back. *)

CommitRestore(p) ==
    /\ pc[p] = "commit"
    /\ Commit([i \in Ids |-> IF i \in job[p].sel THEN "archived" ELSE job[p].snap[i]])
    /\ hidden' = Settled(job[p].sel, NowIfComing)
    /\ Goto(p, "discard_old")
    /\ UNCHANGED <<dir, run, lock, job>> /\ Keep

CommitRestoreFails(p) ==
    /\ pc[p] = "commit" /\ CommitFails
    /\ Goto(p, "rollback")
    /\ UNCHANGED <<dirs, run, lock, job>>

DiscardOld(p) ==
    /\ pc[p] = "discard_old"
    /\ \/ hidden' = hidden \ Of(p, "quarantine") /\ Keep
       \/ Of(p, "quarantine") # {} /\ Fault /\ UNCHANGED hidden
    /\ Goto(p, "cleanup")
    /\ UNCHANGED <<meta, dir, run, lock, job>>

\* Every directory at its final place is removed, whoever put it there.
Rollback(p) ==
    /\ pc[p] = "rollback"
    /\ LET Body(i) == dir' = [dir EXCEPT ![i] = Absent] /\ UNCHANGED hidden
       IN Loop(p, Body, "unquarantine")
    /\ UNCHANGED <<meta, run, lock>> /\ Keep

\* rmtree gives up: what is left of the directory is in the way of the old one.
RollbackFails(p) ==
    /\ pc[p] = "rollback" /\ Fault
    /\ \E i \in job[p].sel \ job[p].done :
         dir[i] # Absent /\ job' = [job EXCEPT ![p].done = @ \cup {i}]
    /\ UNCHANGED <<root, pc>>

\* _restore_quarantines: back to every place that is free.
Unquarantine(p) ==
    /\ pc[p] = "unquarantine"
    /\ LET back == {h \in Of(p, "quarantine") : dir[h.id] = Absent}
       IN \/ back = {} /\ Goto(p, "cleanup") /\ UNCHANGED dirs /\ Keep
          \/ \E h \in back :
               \/ /\ hidden' = hidden \ {h}
                  /\ dir' = [dir EXCEPT ![h.id] = h.data]
                  /\ UNCHANGED pc /\ Keep
               \/ /\ Fault
                  /\ Goto(p, "cleanup") /\ UNCHANGED dirs
    /\ UNCHANGED <<meta, run, lock, job>>

\* MUTANT of Cleanup: the lock stays taken.
CleanupOnly(p) ==
    /\ pc[p] = "cleanup"
    /\ hidden' = hidden \ Of(p, "temp")
    /\ Return(p)
    /\ UNCHANGED <<meta, dir, run, lock>> /\ Keep

\* MUTANT of Cleanup: what could not be put back is removed, too.
CleanupAll(p) ==
    /\ pc[p] = "cleanup"
    /\ hidden' = {h \in hidden : h.by # p}
    /\ Return(p) /\ Release(p)
    /\ UNCHANGED <<meta, dir, run>> /\ Keep

\* The finally clause, then the end of the locked section.
Cleanup(p) ==
    /\ pc[p] = "cleanup"
    /\ \/ hidden' = hidden \ Of(p, "temp") /\ Keep
       \/ Of(p, "temp") # {} /\ Fault /\ UNCHANGED hidden
    /\ Return(p) /\ Release(p)
    /\ UNCHANGED <<meta, dir, run>>

-----------------------------------------------------------------------------
RestoreStep(p) ==
    \/ ValidateArchive(p) \/ RefuseArchive(p) \/ LockToRestore(p) \/ Select(p) \/ Refuse(p)
    \/ Stage(p) \/ StageFails(p) \/ Quarantine(p) \/ QuarantineFails(p) \/ Finalise(p) \/ FinaliseFails(p)
    \/ CommitRestore(p) \/ CommitRestoreFails(p) \/ DiscardOld(p)
    \/ Rollback(p) \/ RollbackFails(p) \/ Unquarantine(p) \/ Cleanup(p)

RestoreLocked == {"select", "stage", "quarantine", "finalise", "commit", "discard_old",
                  "rollback", "unquarantine", "cleanup"}

=============================================================================
