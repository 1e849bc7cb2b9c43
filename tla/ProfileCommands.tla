--------------------------- MODULE ProfileCommands --------------------------
(***************************************************************************)
(* create and delete of a profile: its entry in profiles.json and its      *)
(* directory, which no lock protects (profile_manager.py), and the         *)
(* browsers that come and go meanwhile.                                    *)
(***************************************************************************)
EXTENDS DataRoot

-----------------------------------------------------------------------------
(* create *)

\* The candidate directory is new: mkdir is exclusive.  The id is random: nothing
\* on disk and no command has it.
StartCreate(p) ==
    \E i \in Ids :
      /\ doc[i] = Absent /\ dir[i] = Absent
      /\ bak # NoFile => bak[i] = Absent
      /\ \A h \in hidden : h.id # i
      /\ \A q \in Procs : i \notin job[q].sel
      /\ Begin(p, "create", "make_data_dir", [NoJob EXCEPT !.sel = {i}])
      /\ dir' = [dir EXCEPT ![i] = "bare"]
      /\ UNCHANGED <<meta, hidden, run, lock>>

MakeDataDir(p) ==
    /\ pc[p] = "make_data_dir"
    /\ dir' = [i \in Ids |-> IF i \in job[p].sel THEN "empty" ELSE dir[i]]
    /\ Goto(p, "add")
    /\ UNCHANGED <<meta, hidden, run, lock, job>> /\ Keep

MakeDataDirFails(p) ==
    /\ pc[p] = "make_data_dir" /\ Fault
    /\ Goto(p, "undo_create")
    /\ UNCHANGED <<root, job>>

\* The ids of the document are unique.
MayAdd(p) == Loadable /\ \A i \in job[p].sel : doc[i] = Absent

\* add_profile_atomic, all of it under the lock
AddProfile(p) ==
    /\ pc[p] = "add" /\ lock = Free /\ MayAdd(p)
    /\ Commit([i \in Ids |-> IF i \in job[p].sel THEN "own" ELSE doc[i]])
    /\ Return(p)
    /\ UNCHANGED <<dirs, run, lock>> /\ Keep

AddFails(p) ==
    /\ pc[p] = "add"
    /\ \/ lock = Free /\ ~MayAdd(p) /\ UNCHANGED meta /\ Keep
       \/ TimesOut(p) /\ UNCHANGED meta /\ Keep
       \/ lock = Free /\ MayAdd(p) /\ CommitFails
    /\ Goto(p, "undo_create")
    /\ UNCHANGED <<dirs, run, lock, job>>

\* rmtree with ignore_errors: what cannot be removed stays.
UndoCreate(p) ==
    /\ pc[p] = "undo_create"
    /\ \/ /\ dir' = [i \in Ids |-> IF i \in job[p].sel THEN Absent ELSE dir[i]]
          /\ Keep
       \/ Fault /\ UNCHANGED dir
    /\ Return(p)
    /\ UNCHANGED <<meta, hidden, run, lock>>

-----------------------------------------------------------------------------
(* delete *)

\* resolve, and the check that no browser runs
StartDelete(p) ==
    \E i \in Ids :
      /\ lock = Free /\ LookUp /\ doc[i] # Absent /\ ~Active(i)
      /\ Begin(p, "delete", "move", [NoJob EXCEPT !.sel = {i}])
      /\ UNCHANGED <<dirs, run, lock>>

\* profile_root.replace(quarantine), if there is a directory
MoveAway(p) ==
    /\ pc[p] = "move"
    /\ \E i \in job[p].sel :
         IF dir[i] = Absent THEN UNCHANGED dirs ELSE Hide(p, i, "deleting")
    /\ Goto(p, "remove")
    /\ UNCHANGED <<meta, run, lock, job>> /\ Keep

MoveAwayFails(p) ==
    /\ pc[p] = "move" /\ Fault
    /\ \A i \in job[p].sel : dir[i] # Absent
    /\ Return(p)
    /\ UNCHANGED root

\* remove_profile_atomic: an entry that is gone already is no error.
RemoveProfile(p) ==
    /\ pc[p] = "remove" /\ lock = Free /\ Loadable
    /\ IF \A i \in job[p].sel : doc[i] = Absent THEN UNCHANGED meta
       ELSE Commit([i \in Ids |-> IF i \in job[p].sel THEN Absent ELSE doc[i]])
    /\ hidden' = Settled(job[p].sel, Never)
    /\ Goto(p, "discard")
    /\ UNCHANGED <<dir, run, lock, job>> /\ Keep

RemoveFails(p) ==
    /\ pc[p] = "remove"
    /\ \/ TimesOut(p) /\ UNCHANGED meta /\ Keep
       \/ lock = Free /\ (\E i \in job[p].sel : doc[i] # Absent) /\ CommitFails
    /\ Goto(p, "move_back")
    /\ UNCHANGED <<dirs, run, lock, job>>

\* quarantine.replace(profile_root): it fails when something took its place.
MoveBack(p) ==
    /\ pc[p] = "move_back"
    /\ LET back == {h \in Of(p, "deleting") : Vacant(h.id)}
       IN \/ /\ hidden' = hidden \ back
             /\ dir' = [i \in Ids |-> IF \E h \in back : h.id = i
                                      THEN (CHOOSE h \in back : h.id = i).data ELSE dir[i]]
             /\ Keep
          \/ back # {} /\ Fault /\ UNCHANGED dirs
    /\ Return(p)
    /\ UNCHANGED <<meta, run, lock>>

\* Committed: the directory goes, then the runtime directory.  If the first cannot be
\* removed the second is not tried.
DiscardDeleted(p) ==
    /\ pc[p] = "discard"
    /\ \/ /\ hidden' = hidden \ Of(p, "deleting")
          /\ \/ run' = [i \in Ids |-> IF i \in job[p].sel THEN "none" ELSE run[i]] /\ Keep
             \/ Fault /\ UNCHANGED run
       \/ Of(p, "deleting") # {} /\ Fault /\ UNCHANGED <<hidden, run>>
    /\ Return(p)
    /\ UNCHANGED <<meta, dir, lock>>

-----------------------------------------------------------------------------
(* Browsers: launched by other processes, closed, killed. *)

\* The lock is taken to resolve the profile (which writes metadata of an older form
\* anew) and to record the time of the launch.
Rewrite ==
    /\ lock = Free
    /\ Commit(doc)
    /\ UNCHANGED <<dirs, run, lock, pc, job>> /\ Keep

ResolveLegacy == form = "legacy" /\ Rewrite

\* In between no lock is held: a stopped profile, whose data directory is there when the
\* launch is planned, gets its browser whatever the holder of the lock is doing.
Launch(i) ==
    /\ form = "current" /\ doc[i] # Absent /\ dir[i] \in Kinds /\ ~Active(i)
    /\ run' = [run EXCEPT ![i] = "live"]
    /\ dir' = [dir EXCEPT ![i] = IF @ = "archived" THEN @ ELSE "own"]
    /\ job' = [p \in Procs |-> IF pc[p] \in Reads
                              THEN [job[p] EXCEPT !.seen = @ \cup {i}] ELSE job[p]]
    /\ UNCHANGED <<meta, hidden, lock, pc>> /\ Keep

\* mark_launched: a profile that is not listed any more is an error it only reports.
MarkLaunched(i) == Loadable /\ doc[i] # Absent /\ Active(i) /\ Rewrite

Stop(i) ==
    /\ Active(i)
    /\ ShortVisits \/ \A p \in Procs : i \notin job[p].seen
    /\ run' \in {[run EXCEPT ![i] = s] : s \in {"none", "stale"}}
    /\ UNCHANGED <<meta, dirs, lock, pc, job>> /\ Keep

-----------------------------------------------------------------------------
ProfileStep(p) ==
    \/ MakeDataDir(p) \/ MakeDataDirFails(p) \/ AddProfile(p) \/ AddFails(p) \/ UndoCreate(p)
    \/ MoveAway(p) \/ MoveAwayFails(p) \/ RemoveProfile(p) \/ RemoveFails(p)
    \/ MoveBack(p) \/ DiscardDeleted(p)

ProfileBegin(p) == StartCreate(p) \/ StartDelete(p)

=============================================================================
