------------------------------- MODULE Doctor -------------------------------
(***************************************************************************)
(* doctor --repair: stale runtime states go, hidden directories go, the    *)
(* metadata is upgraded or recovered from its backup, and on request       *)
(* missing directories are made again and unlisted ones are listed         *)
(* (doctor.py).  Much is decided from what was read before the lock is     *)
(* taken.                                                                  *)
(***************************************************************************)
EXTENDS DataRoot

-----------------------------------------------------------------------------
(* The report: what run_diagnostics says of the data root. *)

Missing == {i \in Listed(doc) : dir[i] \notin Kinds}
Orphans == {i \in Ids : doc[i] = Absent /\ dir[i] # Absent}
Stale == {i \in Ids : run[i] = "stale"}

MetadataCheck ==
    CASE form = "current" -> "ok" [] form = "legacy" -> "warning" [] form = "bad" -> "failed"

DirectoriesCheck == IF form = "bad" THEN "failed" ELSE IF Missing = {} THEN "ok" ELSE "warning"

StaleCheck == IF Stale = {} THEN "ok" ELSE "warning"

OrphansCheck == IF form # "bad" /\ Orphans = {} THEN "ok" ELSE "warning"

LockCheck == IF lock = Free THEN "ok" ELSE "failed"

Report == [metadata |-> MetadataCheck, directories |-> DirectoriesCheck,
           stale |-> StaleCheck, orphans |-> OrphansCheck, lock |-> LockCheck]

-----------------------------------------------------------------------------
(* What is always repaired. *)

StartRepair(p) ==
    \E flags \in SUBSET {"recreate", "reattach"} :
      /\ Begin(p, "repair", "unlink_states",
               [NoJob EXCEPT !.sel = Stale, !.flag = flags])
      /\ UNCHANGED root

\* The states that were stale when they were read; an OSError is ignored.
UnlinkStates(p) ==
    /\ pc[p] = "unlink_states"
    /\ \/ /\ run' = [i \in Ids |-> IF i \in job[p].sel THEN "none" ELSE run[i]]
          /\ Keep
       \/ job[p].sel # {} /\ Fault /\ UNCHANGED run
    /\ job' = [job EXCEPT ![p].sel = {}]
    /\ Goto(p, "sweep")
    /\ UNCHANGED <<meta, dirs, lock>>

\* Every leftover that has one of the known names, whosever work it may be.
Leftovers == {h \in hidden : h.kind # "removing"}

\* A directory that cannot be removed is left for the next repair.
Sweep(p) ==
    /\ pc[p] = "sweep"
    /\ \/ lock = Free /\ hidden' = hidden \ Leftovers /\ Keep
       \/ lock = Free /\ Fault /\ \E R \in SUBSET Leftovers : hidden' = hidden \ R
       \/ TimesOut(p) /\ UNCHANGED hidden /\ Keep
    /\ Goto(p, "inspect")
    /\ UNCHANGED <<meta, dir, run, lock, job>>

Remember(p, d) == job' = [job EXCEPT ![p].snap = d]

\* profiles.json is read without the lock; a legacy array whose profiles run is
\* treated like metadata that cannot be read.
Inspect(p) ==
    /\ pc[p] = "inspect"
    /\ \/ form = "current" /\ Goto(p, "reload") /\ UNCHANGED job
       \/ /\ form = "legacy" /\ Remember(p, doc)
          /\ Goto(p, IF \E i \in Listed(doc) : Active(i) THEN "recover" ELSE "upgrade")
       \/ form = "bad" /\ Goto(p, "recover") /\ UNCHANGED job
    /\ UNCHANGED root /\ Keep

Upgrade(p) ==
    /\ pc[p] = "upgrade" /\ lock = Free
    /\ Commit(job[p].snap)
    /\ Goto(p, "reload")
    /\ UNCHANGED <<dirs, run, lock, job>> /\ Keep

UpgradeFails(p) ==
    /\ pc[p] = "upgrade"
    /\ \/ TimesOut(p) /\ UNCHANGED meta /\ Keep
       \/ lock = Free /\ CommitFails
    /\ Goto(p, "recover")
    /\ UNCHANGED <<dirs, run, lock, job>>

ReadBackup(p) ==
    /\ pc[p] = "recover"
    /\ IF bak = NoFile THEN Goto(p, "reload") /\ UNCHANGED job
       ELSE /\ Remember(p, bak)
            /\ Goto(p, IF \E i \in Listed(bak) : Active(i) THEN "reload" ELSE "write_backup")
    /\ UNCHANGED root /\ Keep

RecoverBackup(p) ==
    /\ pc[p] = "write_backup"
    /\ \/ /\ lock = Free
          /\ doc' = job[p].snap /\ form' = "current" /\ Keep
       \/ lock = Free /\ Fault /\ UNCHANGED <<doc, form>>
       \/ TimesOut(p) /\ UNCHANGED <<doc, form>> /\ Keep
    /\ Goto(p, "reload")
    /\ UNCHANGED <<bak, dirs, run, lock, job>>

-----------------------------------------------------------------------------
(* What is repaired on request. *)

Reload(p) ==
    /\ pc[p] = "reload"
    /\ IF Loadable /\ job[p].flag # {}
       THEN /\ Remember(p, doc)
            /\ Goto(p, IF "recreate" \in job[p].flag THEN "recreate" ELSE "find_orphans")
       ELSE Return(p)
    /\ UNCHANGED root /\ Keep

\* The listed profiles, as they were read, whose data is not there.
ToRecreate(p) == {i \in Listed(job[p].snap) : dir[i] \notin Kinds}

\* MUTANT of Recreate: nothing is made.
RecreateNothing(p) ==
    /\ pc[p] = "recreate"
    /\ Goto(p, IF "reattach" \in job[p].flag THEN "find_orphans" ELSE "idle")
    /\ job' = [job EXCEPT ![p].done = {}]
    /\ UNCHANGED root /\ Keep

Recreate(p) ==
    /\ pc[p] = "recreate"
    /\ \/ \E i \in ToRecreate(p) :
            /\ ~Active(i)
            /\ dir' = [dir EXCEPT ![i] = "empty"]
            /\ job' = [job EXCEPT ![p].done = @ \cup {i}]
            /\ UNCHANGED pc
       \/ /\ ToRecreate(p) = {}
          /\ IF "reattach" \in job[p].flag
             THEN Goto(p, "find_orphans") /\ job' = [job EXCEPT ![p].done = {}]
             ELSE Return(p)
          /\ UNCHANGED dir
    /\ UNCHANGED <<meta, hidden, run, lock>> /\ Keep

\* The directories it has made are removed again, and the repair ends.
RecreateFails(p) ==
    /\ pc[p] = "recreate"
    /\ \E i \in ToRecreate(p) : (Active(i) /\ Keep) \/ Fault
    /\ dir' = [i \in Ids |-> IF i \in job[p].done THEN Absent ELSE dir[i]]
    /\ Return(p)
    /\ UNCHANGED <<meta, hidden, run, lock>>

\* Directories with browser-data that the document read before does not list.
Unlisted(p) == {i \in Ids : dir[i] \in Kinds /\ job[p].snap[i] = Absent}

FindOrphans(p) ==
    /\ pc[p] = "find_orphans"
    /\ IF Unlisted(p) = {} \/ \E i \in Unlisted(p) : Active(i) THEN Return(p)
       ELSE Goto(p, "reattach") /\ job' = [job EXCEPT ![p].sel = Unlisted(p)]
    /\ UNCHANGED root /\ Keep

Reattached(p) == [i \in Ids |-> IF i \in job[p].sel THEN "recovered" ELSE job[p].snap[i]]

\* The document as it was read, and the new entries, replace the current one.
Reattach(p) ==
    /\ pc[p] = "reattach" /\ lock = Free
    /\ Commit(Reattached(p))
    /\ Return(p)
    /\ UNCHANGED <<dirs, run, lock>> /\ Keep

ReattachFails(p) ==
    /\ pc[p] = "reattach"
    /\ \/ TimesOut(p) /\ UNCHANGED meta /\ Keep
       \/ lock = Free /\ CommitFails
    /\ Return(p)
    /\ UNCHANGED <<dirs, run, lock>>

-----------------------------------------------------------------------------
RepairStep(p) ==
    \/ UnlinkStates(p) \/ Sweep(p) \/ Inspect(p) \/ Upgrade(p) \/ UpgradeFails(p)
    \/ ReadBackup(p) \/ RecoverBackup(p) \/ Reload(p) \/ Recreate(p) \/ RecreateFails(p)
    \/ FindOrphans(p) \/ Reattach(p) \/ ReattachFails(p)

Repairs == {"unlink_states", "sweep", "inspect", "upgrade", "recover", "write_backup",
            "reload", "recreate", "find_orphans", "reattach"}

=============================================================================
