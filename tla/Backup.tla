------------------------------- MODULE Backup -------------------------------
(***************************************************************************)
(* backup: an archive of one profile or of all of them (backup.py).  It    *)
(* takes no lock; that the profiles are stopped is checked before and      *)
(* after they are read.                                                    *)
(***************************************************************************)
EXTENDS DataRoot

VARIABLE out   \* the archive at the place named last: none, an older one, this one

BackupInit == out = "none"

\* The profiles are looked up.  There may be an archive at the place the user names.
StartBackup(p) ==
    \E S \in (SUBSET Listed(doc)) \ {{}}, force \in SUBSET {"force"} :
      /\ lock = Free /\ LookUp
      /\ Begin(p, "backup", "check_stopped", [NoJob EXCEPT !.sel = S, !.flag = force])
      /\ out' \in {"none", "older"}
      /\ UNCHANGED <<dirs, run, lock>>

\* An archive that is there is replaced only with --force, and no profile may be running.
CheckStopped(p) ==
    /\ pc[p] = "check_stopped"
    /\ IF /\ out = "none" \/ "force" \in job[p].flag
          /\ \A i \in job[p].sel : ~Active(i)
       THEN Goto(p, "archive") /\ UNCHANGED job
       ELSE Return(p)
    /\ UNCHANGED <<root, out>> /\ Keep

\* One profile goes into the temporary archive.
ArchiveProfile(p) ==
    /\ pc[p] = "archive"
    /\ IF job[p].done = job[p].sel
       THEN Goto(p, "recheck") /\ UNCHANGED job
       ELSE /\ \E i \in job[p].sel \ job[p].done :
                 /\ dir[i] \in Kinds
                 /\ job' = [job EXCEPT ![p].done = @ \cup {i}]
            /\ UNCHANGED pc
    /\ UNCHANGED <<root, out>> /\ Keep

\* MUTANT of Recheck: trust the check made before the profiles were read.
RecheckNothing(p) ==
    /\ pc[p] = "recheck"
    /\ Goto(p, "verify_archive")
    /\ UNCHANGED <<root, out, job>> /\ Keep

Recheck(p) ==
    /\ pc[p] = "recheck"
    /\ IF \E i \in job[p].sel : Active(i) THEN Return(p)
       ELSE Goto(p, "verify_archive") /\ UNCHANGED job
    /\ UNCHANGED <<root, out>> /\ Keep

\* The archive is read again: every file of the manifest is there, in its size.
VerifyArchive(p) ==
    /\ pc[p] = "verify_archive"
    /\ Goto(p, "publish")
    /\ UNCHANGED <<root, out, job>> /\ Keep

\* Encrypted if so wished, it moves into place.
Publish(p) ==
    /\ pc[p] = "publish"
    /\ out' = "complete"
    /\ Return(p)
    /\ UNCHANGED root /\ Keep

\* A directory that is missing, a file that is locked, the verification, a full
\* disk: the temporary archive is removed, and the archive in place stays.
BackupFails(p) ==
    /\ \/ pc[p] \in {"archive", "verify_archive", "publish"} /\ Fault
       \/ /\ pc[p] = "archive" /\ Keep
          /\ \E i \in job[p].sel \ job[p].done : dir[i] \notin Kinds
    /\ Return(p)
    /\ UNCHANGED <<root, out>>

BackupStep(p) ==
    CheckStopped(p) \/ ArchiveProfile(p) \/ Recheck(p) \/ VerifyArchive(p) \/ Publish(p) \/ BackupFails(p)

=============================================================================
