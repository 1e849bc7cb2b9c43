-------------------------- MODULE DataRootSystem_proofs -----------------------
(***************************************************************************)
(* Proofs about the commands on a data root together (DataRootSystem), for *)
(* any number of processes, profiles, commands, faults and crashes: the    *)
(* type invariant; no archive is published of a profile that a browser     *)
(* used meanwhile; commands leave nothing hidden or staged behind; and a   *)
(* repair heals.  Each rests on Control, which says where every process    *)
(* is, what it knows and who holds the lock, and on what one command       *)
(* counts on that the others must not disturb.                             *)
(***************************************************************************)
EXTENDS DataRootSystem, TLAPS

\* c and d never run at the same time: they are kept apart, or nobody but one process
\* runs either.
NeverWith(c, d) ==
    \/ <<c, d>> \in Apart \/ <<d, c>> \in Apart
    \/ \A p, q \in Procs : c \in Can[p] /\ d \in Can[q] => p = q

\* A repair and a removal after a migration run alone, and no delete runs during a restore.
Considerate ==
    /\ \A c \in {"repair", "move"}, d \in Commands : NeverWith(c, d)
    /\ NeverWith("restore", "delete")

-----------------------------------------------------------------------------
(* The points of the commands. *)

Deleting == {"move", "remove", "move_back", "discard"}
Restoring == {"validate", "lock"} \cup RestoreLocked
BackingUp == {"check_stopped", "archive", "recheck", "verify_archive", "publish"}
Migrating == {"lock_destination"} \cup MigrateLocked
Removing == {"check_removal", "move_out", "undo_removal", "discard_removed"}

Flags == {"force", "recreate", "reattach", "legacy"}

Families == {Creating, Deleting, Restoring, BackingUp, Repairs, Migrating, Removing}

Points == {"idle", "down"} \cup Creating \cup Deleting \cup Restoring \cup BackingUp
          \cup Repairs \cup Migrating \cup Removing

-----------------------------------------------------------------------------
(* Who is where, and who holds the lock: the invariant all others rest on. *)

JobTyped == job \in [Procs -> Job]

\* A directory of a removal may be one of runtime states.
HiddenData == \A h \in hidden : h.kind # "removing" => h.data \in Data

RootTyped ==
    /\ doc \in Doc /\ bak \in Doc \cup {NoFile}
    /\ form \in {"current", "legacy", "bad"}
    /\ dir \in [Ids -> Data]
    /\ hidden \subseteq Hidden /\ HiddenData
    /\ run \in [Ids -> {"none", "live", "stale"}]
    /\ out \in {"none", "older", "complete"}
    /\ ddoc \in Doc /\ ddir \in [Ids -> Data] /\ staged \subseteq Ids

PcTyped ==
    /\ pc \in [Procs -> Points]
    /\ lock \in Procs \cup {Free}
    /\ \A p \in Procs : pc[p] \in RestoreLocked <=> lock = p

\* A process is at the points of the command it runs, which it may run.
Commanded ==
    \A p \in Procs :
      /\ job[p].cmd = "none" <=> pc[p] \in {"idle", "down"}
      /\ job[p].cmd # "none" => job[p].cmd \in Can[p]
      /\ pc[p] \in Creating => job[p].cmd = "create"
      /\ pc[p] \in Deleting => job[p].cmd = "delete"
      /\ pc[p] \in Restoring => job[p].cmd = "restore"
      /\ pc[p] \in BackingUp => job[p].cmd = "backup"
      /\ pc[p] \in Repairs => job[p].cmd = "repair"
      /\ pc[p] \in Migrating => job[p].cmd \in {"migrate", "move"}
      /\ pc[p] \in Removing => job[p].cmd = "move"

\* Two commands that are kept apart do not run at the same time.
Apartness ==
    \A p, q \in Procs : p # q /\ job[p].cmd # "none" /\ job[q].cmd # "none" =>
       <<job[p].cmd, job[q].cmd>> \notin Apart

\* How many commands each process may still begin.
LeftTyped == left \in [Procs -> 0..MaxCommands]

Control == JobTyped /\ RootTyped /\ PcTyped /\ LeftTyped /\ Commanded /\ Apartness

-----------------------------------------------------------------------------
(* What the commands count on. *)

\* A create works on an id that nobody has.
NewIdFree ==
    \A p \in Procs : pc[p] \in Creating => \A i \in job[p].sel :
      doc[i] = Absent /\ \A q \in Procs \ {p} : i \notin job[q].sel

\* A delete that removes directories has removed the entries.
DeletedGone ==
    \A p \in Procs : pc[p] = "discard" => \A i \in job[p].sel : doc[i] = Absent

\* A restore that holds the lock knows the document.
Snapped == {"stage", "quarantine", "finalise", "commit"}

SnapHeld == \A p \in Procs : pc[p] \in Snapped => job[p].snap = doc

Entries == NewIdFree /\ SnapHeld /\ DeletedGone

\* The browser that visited a profile while it was read still runs, until the check.
Visited ==
    \A p \in Procs : \A i \in job[p].seen \cap job[p].sel \cap Listed(doc) :
      /\ pc[p] \in {"archive", "recheck"} => Active(i)
      /\ pc[p] \notin {"check_stopped", "verify_archive", "publish"}

\* No file operation has failed.
Faultless == faults = MaxFaults
Bounds == faults \in Nat /\ faults <= MaxFaults

\* Only a failing file operation makes a command undo what it did.
Back == {"move_back", "rollback", "unquarantine", "undo_removal"}

NoWayBack == Faultless => \A p \in Procs : pc[p] \notin Back

\* The places a restore has emptied stay empty until it moves in.
Placing == {"validate", "lock", "select", "stage", "quarantine", "finalise"}

PlaceHeld ==
    \A p \in Procs :
      /\ pc[p] \in {"validate", "lock", "select", "stage"} => job[p].done = {}
      /\ pc[p] = "quarantine" => \A i \in job[p].done : i \in job[p].sel /\ dir[i] = Absent
      /\ pc[p] = "finalise" => \A i \in job[p].sel \ job[p].done : dir[i] = Absent

\* A process at l has yet to remove what it has hidden.
Sweeps(l, kind) ==
    \/ kind = "deleting" /\ l \in {"remove", "discard"}
    \/ kind = "quarantine" /\ l \in {"quarantine", "finalise", "commit", "discard_old"}
    \/ kind = "temp" /\ l \in {"quarantine", "finalise", "commit", "discard_old", "cleanup"}
    \/ kind = "removing" /\ l \in {"move_out", "discard_removed"}

\* Who hid a directory has died or will remove it.
HiddenOwned ==
    Faultless => \A h \in hidden :
      pc[h.by] = "down" \/ (h.turn = left[h.by] /\ Sweeps(pc[h.by], h.kind))

\* p has yet to move in or remove its copy of i.
Clears(p, i) ==
    /\ pc[p] \in {"copy", "verify", "move_in", "undo_migration"} /\ i \in job[p].sel
    /\ pc[p] = "copy" => i \in job[p].done
    /\ pc[p] = "move_in" => i \notin job[p].done

\* Somebody has died, or will clear what is staged.
StagedOwned ==
    Faultless => \A i \in staged : \E p \in Procs : pc[p] = "down" \/ Clears(p, i)

Owned == Bounds /\ NoWayBack /\ HiddenOwned /\ StagedOwned

\* A repair that does what was requested knows the document and, in turn, that no
\* directory is missing and which are not listed.
Requested == {"recreate", "find_orphans", "reattach"}

Mended(p) ==
    /\ Loadable /\ job[p].snap = doc
    /\ pc[p] \in {"find_orphans", "reattach"} /\ "recreate" \in job[p].flag =>
         \A i \in Listed(doc) : dir[i] \in Kinds
    /\ pc[p] = "reattach" => job[p].sel = Unlisted(p)

Mending == \A p \in Procs : pc[p] \in Requested => Mended(p)

-----------------------------------------------------------------------------
(* How a process moves and what it learns, whichever command it runs. *)

JobOf(c, sel, done, snap, data, seen, flag) ==
    [cmd |-> c, sel |-> sel, done |-> done, snap |-> snap, data |-> data, seen |-> seen,
     flag |-> flag]

\* p knows these profiles, those it has been through, and this document.
Knows(p, sel, done, snap) ==
    job' = [job EXCEPT ![p] = JobOf(job[p].cmd, sel, done, snap, job[p].data, job[p].seen,
                                    job[p].flag)]

\* A repair chooses its profiles anew, a removal takes all; the others only drop some.
Learns(p) ==
    \E sel \in SUBSET Ids, done \in SUBSET Ids, snap \in Doc :
      /\ Knows(p, sel, done, snap)
      /\ pc[p] \notin Repairs \cup Removing => sel \subseteq job[p].sel
      /\ pc[p] \notin Repairs \cup {"select"} => snap = job[p].snap

Within(p, F) == pc[p] \in F /\ \E l \in F : Goto(p, l)

\* A step ends the command, goes on within it, or begins the removal after a migration.
Moves(p) ==
    \/ Return(p)
    \/ (\E F \in Families : Within(p, F)) /\ (UNCHANGED job \/ Learns(p))
    \/ /\ pc[p] = "commit_migration" /\ job[p].cmd = "move" /\ Goto(p, "check_removal")
       /\ UNCHANGED job

\* The lock is taken and given back where a restore enters and leaves its points.
Locks(p) ==
    \/ lock' = lock /\ (pc[p] \in RestoreLocked <=> pc'[p] \in RestoreLocked)
    \/ Acquire(p) /\ pc[p] \notin RestoreLocked /\ pc'[p] \in RestoreLocked
    \/ Release(p) /\ pc'[p] \notin RestoreLocked

-----------------------------------------------------------------------------
(* Updates of a job, as they are written in the actions. *)

\* A job with one field replaced, written out.
LEMMA JobExcept ==
    ASSUME NEW j \in Job, NEW v
    PROVE  /\ [j EXCEPT !.cmd = v] = JobOf(v, j.sel, j.done, j.snap, j.data, j.seen, j.flag)
           /\ [j EXCEPT !.sel = v] = JobOf(j.cmd, v, j.done, j.snap, j.data, j.seen, j.flag)
           /\ [j EXCEPT !.done = v] = JobOf(j.cmd, j.sel, v, j.snap, j.data, j.seen, j.flag)
           /\ [j EXCEPT !.snap = v] = JobOf(j.cmd, j.sel, j.done, v, j.data, j.seen, j.flag)
           /\ [j EXCEPT !.data = v] = JobOf(j.cmd, j.sel, j.done, j.snap, v, j.seen, j.flag)
           /\ [j EXCEPT !.seen = v] = JobOf(j.cmd, j.sel, j.done, j.snap, j.data, v, j.flag)
           /\ [j EXCEPT !.flag = v] = JobOf(j.cmd, j.sel, j.done, j.snap, j.data, j.seen, v)
BY DEF Job, JobOf

\* ... and what its fields are.
LEMMA JobFields ==
    ASSUME NEW c, NEW sel, NEW done, NEW snap, NEW data, NEW seen, NEW flag, NEW j,
           j = JobOf(c, sel, done, snap, data, seen, flag)
    PROVE  /\ j.cmd = c /\ j.sel = sel /\ j.done = done /\ j.snap = snap /\ j.data = data
           /\ j.seen = seen /\ j.flag = flag
           /\ (/\ c \in Commands \cup {"none"} /\ sel \in SUBSET Ids /\ done \in SUBSET Ids
               /\ snap \in Doc /\ data \in [Ids -> Data] /\ seen \in SUBSET Ids
               /\ flag \in SUBSET Flags) => j \in Job
BY DEF JobOf, Job, Flags

\* A job with two fields replaced.
LEMMA JobExceptTwo ==
    ASSUME NEW j \in Job, NEW S \in SUBSET Ids, NEW v
    PROVE  /\ [[j EXCEPT !.sel = S] EXCEPT !.snap = v]
                = JobOf(j.cmd, S, j.done, v, j.data, j.seen, j.flag)
           /\ [[j EXCEPT !.sel = S] EXCEPT !.done = v]
                = JobOf(j.cmd, S, v, j.snap, j.data, j.seen, j.flag)
<1>1. JobOf(j.cmd, S, j.done, j.snap, j.data, j.seen, j.flag) \in Job
  BY DEF Job, JobOf
<1>2. PICK k \in Job : k = JobOf(j.cmd, S, j.done, j.snap, j.data, j.seen, j.flag)
  BY <1>1
<1>3. /\ [k EXCEPT !.snap = v] = JobOf(k.cmd, k.sel, k.done, v, k.data, k.seen, k.flag)
      /\ [k EXCEPT !.done = v] = JobOf(k.cmd, k.sel, v, k.snap, k.data, k.seen, k.flag)
  BY Zenon, JobExcept
<1>4. /\ JobOf(k.cmd, k.sel, k.done, v, k.data, k.seen, k.flag)
         = JobOf(j.cmd, S, j.done, v, j.data, j.seen, j.flag)
      /\ JobOf(k.cmd, k.sel, v, k.snap, k.data, k.seen, k.flag)
         = JobOf(j.cmd, S, v, j.snap, j.data, j.seen, j.flag)
  BY <1>2 DEF JobOf
<1>5. [j EXCEPT !.sel = S] = k
  BY <1>2, JobExcept, Zenon
<1>6. QED
  BY <1>3, <1>4, <1>5, Zenon

\* ... and of the updates of a job.
LEMMA Updates ==
    ASSUME JobTyped, NEW p \in Procs, NEW v
    PROVE  /\ job' = [job EXCEPT ![p].sel = v] => Knows(p, v, job[p].done, job[p].snap)
           /\ job' = [job EXCEPT ![p].done = v] => Knows(p, job[p].sel, v, job[p].snap)
           /\ job' = [job EXCEPT ![p].snap = v] => Knows(p, job[p].sel, job[p].done, v)
<1>1. job[p] \in Job
  BY DEF JobTyped
<1>2. QED
  BY Zenon, <1>1, JobExcept DEF Knows

\* ... of two fields at once.
LEMMA TwoUpdates ==
    ASSUME JobTyped, NEW p \in Procs, NEW S \in SUBSET Ids, NEW v
    PROVE  /\ job' = [job EXCEPT ![p].sel = S, ![p].snap = v] => Knows(p, S, job[p].done, v)
           /\ job' = [job EXCEPT ![p].sel = S, ![p].done = v] => Knows(p, S, v, job[p].snap)
<1>1. job[p] \in Job
  BY DEF JobTyped
<1>. DEFINE k == [job[p] EXCEPT !.sel = S]
<1>2. [job EXCEPT ![p].sel = S, ![p].snap = v] = [job EXCEPT ![p] = [k EXCEPT !.snap = v]]
  BY DEF JobTyped
<1>3. [job EXCEPT ![p].sel = S, ![p].done = v] = [job EXCEPT ![p] = [k EXCEPT !.done = v]]
  BY DEF JobTyped
<1>4. /\ [k EXCEPT !.snap = v]
         = JobOf(job[p].cmd, S, job[p].done, v, job[p].data, job[p].seen, job[p].flag)
      /\ [k EXCEPT !.done = v]
         = JobOf(job[p].cmd, S, v, job[p].snap, job[p].data, job[p].seen, job[p].flag)
  BY Zenon, <1>1, JobExceptTwo
<1>. HIDE DEF k
<1>5. QED
  BY Zenon, <1>2, <1>3, <1>4 DEF Knows

\* A process that runs nothing.
LEMMA FirstJob == NoJob \in Job /\ NoJob = JobOf("none", {}, {}, EmptyDoc, EmptyDoc, {}, {})
BY DEF NoJob, Job, JobOf, EmptyDoc, Doc, Data

\* What the steps that learn something learn.
OneMore(p) ==
    \E i \in job[p].sel \ job[p].done :
      Knows(p, job[p].sel, job[p].done \cup {i}, job[p].snap)

StartOver(p) == Knows(p, job[p].sel, {}, job[p].snap)

UndoesSome(p) == \E S \in SUBSET job[p].sel : Knows(p, S, {}, job[p].snap)

\* What the steps of a restore learn.
LEMMA RestoreJobs ==
    ASSUME JobTyped, NEW p \in Procs
    PROVE  /\ Select(p) => Knows(p, {i \in job[p].sel : ~Skipped(p, i)}, job[p].done, doc)
           /\ Quarantine(p) => StartOver(p) \/ OneMore(p)
           /\ Finalise(p) => StartOver(p) \/ OneMore(p)
           /\ Rollback(p) => StartOver(p) \/ OneMore(p)
           /\ FinaliseFails(p) => StartOver(p)
           /\ RollbackFails(p) => OneMore(p)
<1>1. ASSUME Select(p)
      PROVE  Knows(p, {i \in job[p].sel : ~Skipped(p, i)}, job[p].done, doc)
  <2>1. {i \in job[p].sel : ~Skipped(p, i)} \in SUBSET Ids
    BY DEF JobTyped, Job
  <2>2. QED
    BY Zenon, <1>1, <2>1, TwoUpdates DEF Select
<1>2. ASSUME Quarantine(p) PROVE StartOver(p) \/ OneMore(p)
  BY Zenon, <1>2, Updates DEF Quarantine, Loop, StartOver, OneMore
<1>3. ASSUME Finalise(p) PROVE StartOver(p) \/ OneMore(p)
  BY Zenon, <1>3, Updates DEF Finalise, Loop, StartOver, OneMore
<1>4. ASSUME Rollback(p) PROVE StartOver(p) \/ OneMore(p)
  BY Zenon, <1>4, Updates DEF Rollback, Loop, StartOver, OneMore
<1>5. ASSUME FinaliseFails(p) PROVE StartOver(p)
  BY Zenon, <1>5, Updates DEF FinaliseFails, StartOver
<1>6. ASSUME RollbackFails(p) PROVE OneMore(p)
  BY Zenon, <1>6, Updates DEF RollbackFails, OneMore
<1>7. QED
  BY Zenon, <1>1, <1>2, <1>3, <1>4, <1>5, <1>6

\* ... of a backup.
LEMMA BackupJobs ==
    ASSUME JobTyped, NEW p \in Procs, ArchiveProfile(p)
    PROVE  UNCHANGED job \/ OneMore(p)
BY Zenon, Updates DEF ArchiveProfile, OneMore

\* ... of a repair.
LEMMA RepairJobs ==
    ASSUME JobTyped, NEW p \in Procs
    PROVE  /\ UnlinkStates(p) => Knows(p, {}, job[p].done, job[p].snap)
           /\ Inspect(p) => UNCHANGED job \/ Knows(p, job[p].sel, job[p].done, doc)
           /\ ReadBackup(p) => \/ UNCHANGED job
                               \/ bak # NoFile /\ Knows(p, job[p].sel, job[p].done, bak)
           /\ Reload(p) => Return(p) \/ Knows(p, job[p].sel, job[p].done, doc)
           /\ Recreate(p) =>
                \/ Return(p)
                \/ \E S \in {{}} \cup {job[p].done \cup {i} : i \in ToRecreate(p)} :
                     Knows(p, job[p].sel, S, job[p].snap)
           /\ FindOrphans(p) => Return(p) \/ Knows(p, Unlisted(p), job[p].done, job[p].snap)
<1>1. ASSUME UnlinkStates(p) PROVE Knows(p, {}, job[p].done, job[p].snap)
  BY Zenon, <1>1, Updates DEF UnlinkStates
<1>2. ASSUME Inspect(p) PROVE UNCHANGED job \/ Knows(p, job[p].sel, job[p].done, doc)
  BY Zenon, <1>2, Updates DEF Inspect, Remember
<1>3. ASSUME ReadBackup(p)
      PROVE  UNCHANGED job \/ (bak # NoFile /\ Knows(p, job[p].sel, job[p].done, bak))
  <2>1. CASE bak = NoFile
    BY Zenon, <1>3, <2>1 DEF ReadBackup
  <2>2. CASE bak # NoFile
    <3>1. Remember(p, bak)
      BY Zenon, <1>3, <2>2 DEF ReadBackup
    <3>2. QED
      BY Zenon, <2>2, <3>1, Updates DEF Remember
  <2>3. QED
    BY <2>1, <2>2
<1>4. ASSUME Reload(p) PROVE Return(p) \/ Knows(p, job[p].sel, job[p].done, doc)
  BY Zenon, <1>4, Updates DEF Reload, Remember
<1>5. ASSUME Recreate(p)
      PROVE  \/ Return(p)
             \/ \E S \in {{}} \cup {job[p].done \cup {i} : i \in ToRecreate(p)} :
                  Knows(p, job[p].sel, S, job[p].snap)
  BY Zenon, <1>5, Updates DEF Recreate
<1>6. ASSUME FindOrphans(p)
      PROVE  Return(p) \/ Knows(p, Unlisted(p), job[p].done, job[p].snap)
  BY Zenon, <1>6, Updates DEF FindOrphans
<1>7. QED
  BY Zenon, <1>1, <1>2, <1>3, <1>4, <1>5, <1>6

\* ... of a migration.
LEMMA MigrateJobs ==
    ASSUME JobTyped, NEW p \in Procs
    PROVE  /\ Plan(p) => \/ Return(p)
                         \/ Knows(p, {i \in job[p].sel : ddoc[i] = Absent}, job[p].done,
                                  job[p].snap)
           /\ Copy(p) => UNCHANGED job \/ OneMore(p)
           /\ CopyFails(p) => UndoesSome(p)
           /\ Verify(p) => StartOver(p)
           /\ MoveIn(p) => UNCHANGED job \/ OneMore(p)
           /\ CheckRemoval(p) => Return(p) \/ Knows(p, Listed(doc), {}, job[p].snap)
           /\ MoveOut(p) => UNCHANGED job \/ OneMore(p)
<1>1. ASSUME Plan(p)
      PROVE  \/ Return(p)
             \/ Knows(p, {i \in job[p].sel : ddoc[i] = Absent}, job[p].done, job[p].snap)
  BY Zenon, <1>1, Updates DEF Plan
<1>2. ASSUME Copy(p) PROVE UNCHANGED job \/ OneMore(p)
  BY Zenon, <1>2, Updates DEF Copy, OneMore
<1>3. ASSUME CopyFails(p) PROVE UndoesSome(p)
  <2>1. PICK begun : job' = [job EXCEPT ![p].sel = job[p].sel \cap (job[p].done \cup begun),
                                        ![p].done = {}]
    BY Zenon, <1>3 DEF CopyFails
  <2>. DEFINE made == job[p].done \cup begun
  <2>2. job[p].sel \cap made \in SUBSET Ids /\ job[p].sel \cap made \in SUBSET job[p].sel
    BY DEF JobTyped, Job
  <2>3. Knows(p, job[p].sel \cap made, {}, job[p].snap)
    BY Zenon, <2>1, <2>2, TwoUpdates
  <2>4. QED
    BY Zenon, <2>2, <2>3 DEF UndoesSome
<1>4. ASSUME Verify(p) PROVE StartOver(p)
  BY Zenon, <1>4, Updates DEF Verify, StartOver
<1>5. ASSUME MoveIn(p) PROVE UNCHANGED job \/ OneMore(p)
  BY Zenon, <1>5, Updates DEF MoveIn, OneMore
<1>6. ASSUME CheckRemoval(p) PROVE Return(p) \/ Knows(p, Listed(doc), {}, job[p].snap)
  <2>1. Listed(doc) \in SUBSET Ids
    BY DEF Listed
  <2>2. QED
    BY Zenon, <1>6, <2>1, TwoUpdates DEF CheckRemoval
<1>7. ASSUME MoveOut(p) PROVE UNCHANGED job \/ OneMore(p)
  BY Zenon, <1>7, Updates DEF MoveOut, MoveProfileOut, MoveRuntimeOut, OneMore
<1>8. QED
  BY Zenon, <1>1, <1>2, <1>3, <1>4, <1>5, <1>6, <1>7

\* A hidden directory that is marked anew is otherwise the same.
LEMMA OwedIs ==
    ASSUME NEW h \in Hidden, NEW v \in {"yes", "coming", "no"}
    PROVE  /\ [h EXCEPT !.owed = v] \in Hidden
           /\ [h EXCEPT !.owed = v].kind = h.kind
           /\ [h EXCEPT !.owed = v].by = h.by
           /\ [h EXCEPT !.owed = v].id = h.id
           /\ [h EXCEPT !.owed = v].data = h.data
           /\ [h EXCEPT !.owed = v].turn = h.turn
BY DEF Hidden

SameHidden(h) ==
    \E g \in hidden : /\ h.kind = g.kind /\ h.by = g.by /\ h.id = g.id /\ h.data = g.data
                      /\ h.turn = g.turn

\* A commit marks the hidden directories anew and adds none.
LEMMA SettledIs ==
    ASSUME RootTyped, NEW S
    PROVE  /\ \A h \in Settled(S, Never) : h \in Hidden /\ SameHidden(h)
           /\ \A h \in Settled(S, NowIfComing) : h \in Hidden /\ SameHidden(h)
<1>1. ASSUME NEW h \in Settled(S, Never) PROVE h \in Hidden /\ SameHidden(h)
  <2>1. PICK g \in hidden : h = IF g.id \in S THEN [g EXCEPT !.owed = "no"] ELSE g
    BY <1>1, Zenon DEF Settled, Never
  <2>2. g \in Hidden
    BY DEF RootTyped
  <2>3. CASE g.id \in S
    <3>1. h = [g EXCEPT !.owed = "no"]
      BY <2>1, <2>3, Zenon
    <3>2. /\ h \in Hidden /\ h.kind = g.kind /\ h.by = g.by /\ h.id = g.id /\ h.data = g.data
          /\ h.turn = g.turn
      BY <2>2, <3>1, OwedIs, Zenon
    <3>3. QED
      BY <3>2 DEF SameHidden
  <2>4. CASE g.id \notin S
    <3>1. h = g
      BY <2>1, <2>4, Zenon
    <3>2. QED
      BY <2>2, <3>1 DEF SameHidden
  <2>5. QED
    BY <2>3, <2>4
<1>2. ASSUME NEW h \in Settled(S, NowIfComing) PROVE h \in Hidden /\ SameHidden(h)
  <2>1. PICK g \in hidden :
          h = IF g.id \in S THEN [g EXCEPT !.owed = IF g.owed = "coming" THEN "yes" ELSE "no"]
              ELSE g
    BY <1>2, Zenon DEF Settled, NowIfComing
  <2>2. g \in Hidden
    BY DEF RootTyped
  <2>3. CASE g.id \in S
    <3>1. PICK v \in {"yes", "no"} : v = IF g.owed = "coming" THEN "yes" ELSE "no"
      OBVIOUS
    <3>2. h = [g EXCEPT !.owed = v]
      BY <2>1, <2>3, <3>1, Zenon
    <3>3. /\ h \in Hidden /\ h.kind = g.kind /\ h.by = g.by /\ h.id = g.id /\ h.data = g.data
          /\ h.turn = g.turn
      BY <2>2, <3>2, OwedIs, Zenon
    <3>4. QED
      BY <3>3 DEF SameHidden
  <2>4. CASE g.id \notin S
    <3>1. h = g
      BY <2>1, <2>4, Zenon
    <3>2. QED
      BY <2>2, <3>1 DEF SameHidden
  <2>5. QED
    BY <2>3, <2>4
<1>3. QED
  BY <1>1, <1>2

\* What is hidden is a directory that was there.
LEMMA HideTyped ==
    ASSUME RootTyped, LeftTyped, NEW p \in Procs, NEW i \in Ids,
           NEW kind \in {"deleting", "quarantine"}, dir[i] # Absent, Hide(p, i, kind)
    PROVE  dir' \in [Ids -> Data] /\ hidden' \subseteq Hidden /\ HiddenData'
<1>1. dir[i] \in Kinds \cup {"bare"}
  BY DEF RootTyped, Data
<1>2. PICK owed \in {"yes", "coming", "no"} :
        hidden' = hidden \cup {[kind |-> kind, id |-> i, by |-> p, turn |-> left[p],
                                data |-> dir[i], owed |-> owed]}
  BY DEF Hide
<1>3. [kind |-> kind, id |-> i, by |-> p, turn |-> left[p], data |-> dir[i], owed |-> owed]
        \in Hidden
  BY <1>1 DEF Hidden, LeftTyped
<1>4. HiddenData'
  BY <1>1, <1>2 DEF HiddenData, RootTyped, Data
<1>5. dir' \in [Ids -> Data]
  BY DEF Hide, RootTyped, Data
<1>6. QED
  BY <1>2, <1>3, <1>4, <1>5 DEF RootTyped

\* A round of a loop is a way to learn.
LEMMA LoopsLearn ==
    ASSUME JobTyped, NEW p \in Procs
    PROVE  /\ StartOver(p) => Learns(p)
           /\ OneMore(p) => Learns(p)
           /\ UndoesSome(p) => Learns(p)
<1>1. job[p] \in Job
  BY DEF JobTyped
<1>2. ASSUME StartOver(p) PROVE Learns(p)
  BY <1>1, <1>2 DEF StartOver, Learns, Job
<1>3. ASSUME OneMore(p) PROVE Learns(p)
  <2>1. PICK i \in job[p].sel \ job[p].done :
          Knows(p, job[p].sel, job[p].done \cup {i}, job[p].snap)
    BY <1>3 DEF OneMore
  <2>2. job[p].done \cup {i} \in SUBSET Ids
    BY <1>1 DEF Job
  <2>3. QED
    BY <1>1, <2>1, <2>2 DEF Learns, Job
<1>4. ASSUME UndoesSome(p) PROVE Learns(p)
  <2>1. PICK S \in SUBSET job[p].sel : Knows(p, S, {}, job[p].snap)
    BY <1>4 DEF UndoesSome
  <2>2. S \in SUBSET Ids /\ job[p].snap \in Doc
    BY <1>1 DEF Job
  <2>3. QED
    BY <2>1, <2>2 DEF Learns
<1>5. QED
  BY <1>2, <1>3, <1>4

\* The steps of create and delete do not touch the lock.
LEMMA ProfileStepLocks ==
    ASSUME PcTyped, NEW p \in Procs, ProfileStep(p)
    PROVE  Locks(p)
<1>1. CASE MakeDataDir(p)
  BY <1>1 DEF MakeDataDir, Locks, PcTyped, Goto, RestoreLocked
<1>2. CASE MakeDataDirFails(p)
  BY <1>2 DEF MakeDataDirFails, Locks, PcTyped, Goto, RestoreLocked, root
<1>3. CASE AddProfile(p)
  BY <1>3 DEF AddProfile, Locks, PcTyped, Return, Goto, RestoreLocked
<1>4. CASE AddFails(p)
  BY <1>4 DEF AddFails, Locks, PcTyped, Goto, RestoreLocked
<1>5. CASE UndoCreate(p)
  BY <1>5 DEF UndoCreate, Locks, PcTyped, Return, Goto, RestoreLocked
<1>6. CASE MoveAway(p)
  BY <1>6 DEF MoveAway, Locks, PcTyped, Goto, RestoreLocked
<1>7. CASE MoveAwayFails(p)
  BY <1>7 DEF MoveAwayFails, Locks, PcTyped, Return, Goto, RestoreLocked, root
<1>8. CASE RemoveProfile(p)
  BY <1>8 DEF RemoveProfile, Locks, PcTyped, Goto, RestoreLocked
<1>9. CASE RemoveFails(p)
  BY <1>9 DEF RemoveFails, Locks, PcTyped, Goto, RestoreLocked
<1>10. CASE MoveBack(p)
  BY <1>10 DEF MoveBack, Locks, PcTyped, Return, Goto, RestoreLocked
<1>11. CASE DiscardDeleted(p)
  BY <1>11 DEF DiscardDeleted, Locks, PcTyped, Return, Goto, RestoreLocked
<1>. QED
  BY <1>1, <1>2, <1>3, <1>4, <1>5, <1>6, <1>7, <1>8, <1>9, <1>10, <1>11 DEF ProfileStep

\* They keep the root well typed.
LEMMA ProfileStepRoot ==
    ASSUME JobTyped, RootTyped, LeftTyped, NEW p \in Procs, ProfileStep(p), UNCHANGED <<out, destination>>
    PROVE  RootTyped'
<1>1. CASE MakeDataDir(p)
  BY <1>1 DEF MakeDataDir, JobTyped, RootTyped, Doc, Origins, Data, Kinds, Hidden, HiddenData,
     Job, meta, destination
<1>2. CASE MakeDataDirFails(p)
  BY <1>2 DEF MakeDataDirFails, JobTyped, RootTyped, Doc, Origins, Data, Kinds, Hidden,
     HiddenData, Job, root, destination
<1>3. CASE AddProfile(p)
  BY <1>3 DEF AddProfile, JobTyped, RootTyped, Commit, Doc, Origins, Data, Kinds, Hidden,
     HiddenData, Job, dirs, destination
<1>4. CASE AddFails(p)
  BY <1>4 DEF AddFails, JobTyped, RootTyped, CommitFails, Doc, Origins, Data, Kinds, Hidden,
     HiddenData, Job, meta, dirs, destination
<1>5. CASE UndoCreate(p)
  BY <1>5 DEF UndoCreate, JobTyped, RootTyped, Doc, Origins, Data, Kinds, Hidden, HiddenData,
     Job, meta, destination
<1>6. CASE MoveAway(p)
  <2>1. PICK i \in job[p].sel : IF dir[i] = Absent THEN UNCHANGED dirs ELSE Hide(p, i, "deleting")
    BY <1>6 DEF MoveAway
  <2>2. i \in Ids
    BY DEF JobTyped, Job
  <2>3. dir' \in [Ids -> Data] /\ hidden' \subseteq Hidden /\ HiddenData'
    BY <2>1, <2>2, HideTyped DEF RootTyped, HiddenData, dirs
  <2>4. QED
    BY <1>6, <2>3 DEF MoveAway, RootTyped, meta, destination
<1>7. CASE MoveAwayFails(p)
  BY <1>7 DEF MoveAwayFails, JobTyped, RootTyped, Doc, Origins, Data, Kinds, Hidden, HiddenData,
     Job, root, destination
<1>8. CASE RemoveProfile(p)
  <2>1. \A h \in hidden' : h \in Hidden /\ SameHidden(h)
    BY <1>8, SettledIs, Zenon DEF RemoveProfile
  <2>2. hidden' \subseteq Hidden /\ HiddenData'
    BY <2>1 DEF SameHidden, RootTyped, HiddenData
  <2>3. QED
    BY <1>8, <2>2 DEF RemoveProfile, RootTyped, JobTyped, Job, Commit, Doc, Origins, meta,
       destination
<1>9. CASE RemoveFails(p)
  BY <1>9 DEF RemoveFails, JobTyped, RootTyped, CommitFails, Doc, Origins, Data, Kinds, Hidden,
     HiddenData, Job, meta, dirs, destination
<1>10. CASE MoveBack(p)
  <2>1. CASE UNCHANGED dirs
    BY <1>10, <2>1 DEF MoveBack, RootTyped, HiddenData, meta, dirs, destination
  <2>2. CASE ~UNCHANGED dirs
    <3>. DEFINE back == {h \in Of(p, "deleting") : Vacant(h.id)}
    <3>1. /\ hidden' = hidden \ back
          /\ dir' = [i \in Ids |-> IF \E h \in back : h.id = i
                                 THEN (CHOOSE h \in back : h.id = i).data ELSE dir[i]]
      BY <1>10, <2>2 DEF MoveBack
    <3>2. \A h \in back : h.data \in Data
      BY DEF RootTyped, HiddenData, Of
    <3>. HIDE DEF back
    <3>3. ASSUME NEW i \in Ids, \E h \in back : h.id = i
          PROVE  (CHOOSE h \in back : h.id = i).data \in Data
      BY <3>2, <3>3
    <3>4. dir' \in [Ids -> Data]
      BY <3>1, <3>3 DEF RootTyped
    <3>5. QED
      BY <1>10, <3>1, <3>4 DEF MoveBack, RootTyped, HiddenData, meta, destination
  <2>3. QED
    BY <2>1, <2>2
<1>11. CASE DiscardDeleted(p)
  BY <1>11 DEF DiscardDeleted, JobTyped, RootTyped, Of, Doc, Origins, Data, Kinds, Hidden,
     HiddenData, Job, meta, destination
<1>. QED
  BY <1>1, <1>2, <1>3, <1>4, <1>5, <1>6, <1>7, <1>8, <1>9, <1>10, <1>11 DEF ProfileStep

\* They end the command or go on within it.
LEMMA ProfileStepMoves ==
    ASSUME JobTyped, PcTyped, RootTyped, NEW p \in Procs, ProfileStep(p)
    PROVE  Moves(p)
<1>1. CASE MakeDataDir(p)
  BY <1>1 DEF MakeDataDir, JobTyped, PcTyped, Moves, Within, Families, Creating, Deleting,
     Restoring, RestoreLocked, BackingUp, Repairs, Migrating, MigrateLocked, Removing, Goto, Job
<1>2. CASE MakeDataDirFails(p)
  BY <1>2 DEF MakeDataDirFails, JobTyped, PcTyped, Moves, Within, Families, Creating, Deleting,
     Restoring, RestoreLocked, BackingUp, Repairs, Migrating, MigrateLocked, Removing, Goto, Job
<1>3. CASE AddProfile(p)
  BY <1>3 DEF AddProfile, JobTyped, PcTyped, Moves, Within, Families, Creating, Deleting,
     Restoring, RestoreLocked, BackingUp, Repairs, Migrating, MigrateLocked, Removing, Goto, Job
<1>4. CASE AddFails(p)
  BY <1>4 DEF AddFails, JobTyped, PcTyped, Moves, Within, Families, Creating, Deleting,
     Restoring, RestoreLocked, BackingUp, Repairs, Migrating, MigrateLocked, Removing, Goto, Job
<1>5. CASE UndoCreate(p)
  BY <1>5 DEF UndoCreate, JobTyped, PcTyped, Moves, Within, Families, Creating, Deleting,
     Restoring, RestoreLocked, BackingUp, Repairs, Migrating, MigrateLocked, Removing, Goto, Job
<1>6. CASE MoveAway(p)
  BY <1>6 DEF MoveAway, JobTyped, PcTyped, Moves, Within, Families, Creating, Deleting,
     Restoring, RestoreLocked, BackingUp, Repairs, Migrating, MigrateLocked, Removing, Goto, Job
<1>7. CASE MoveAwayFails(p)
  BY <1>7 DEF MoveAwayFails, JobTyped, PcTyped, Moves, Within, Families, Creating, Deleting,
     Restoring, RestoreLocked, BackingUp, Repairs, Migrating, MigrateLocked, Removing, Goto, Job
<1>8. CASE RemoveProfile(p)
  BY <1>8 DEF RemoveProfile, JobTyped, PcTyped, Moves, Within, Families, Creating, Deleting,
     Restoring, RestoreLocked, BackingUp, Repairs, Migrating, MigrateLocked, Removing, Goto, Job
<1>9. CASE RemoveFails(p)
  BY <1>9 DEF RemoveFails, JobTyped, PcTyped, Moves, Within, Families, Creating, Deleting,
     Restoring, RestoreLocked, BackingUp, Repairs, Migrating, MigrateLocked, Removing, Goto, Job
<1>10. CASE MoveBack(p)
  BY <1>10 DEF MoveBack, JobTyped, PcTyped, Moves, Within, Families, Creating, Deleting,
     Restoring, RestoreLocked, BackingUp, Repairs, Migrating, MigrateLocked, Removing, Goto, Job
<1>11. CASE DiscardDeleted(p)
  BY <1>11 DEF DiscardDeleted, JobTyped, PcTyped, Moves, Within, Families, Creating, Deleting,
     Restoring, RestoreLocked, BackingUp, Repairs, Migrating, MigrateLocked, Removing, Goto, Job
<1>. QED
  BY <1>1, <1>2, <1>3, <1>4, <1>5, <1>6, <1>7, <1>8, <1>9, <1>10, <1>11 DEF ProfileStep

\* A restore takes the lock where it enters its locked points.
LEMMA RestoreStepLocks ==
    ASSUME PcTyped, NEW p \in Procs, RestoreStep(p)
    PROVE  Locks(p)
<1>1. CASE ValidateArchive(p)
  BY <1>1 DEF ValidateArchive, Locks, PcTyped, Goto, RestoreLocked, root
<1>2. CASE RefuseArchive(p)
  BY <1>2 DEF RefuseArchive, Locks, PcTyped, Return, Goto, RestoreLocked, root
<1>3. CASE LockToRestore(p)
  BY <1>3 DEF LockToRestore, Locks, PcTyped, Return, Goto, RestoreLocked
<1>4. CASE Select(p)
  BY <1>4 DEF Select, Locks, PcTyped, Goto, RestoreLocked, root
<1>5. CASE Refuse(p)
  BY <1>5 DEF Refuse, Locks, PcTyped, Return, Goto, RestoreLocked
<1>6. CASE Stage(p)
  BY <1>6 DEF Stage, Locks, PcTyped, Goto, RestoreLocked
<1>7. CASE StageFails(p)
  BY <1>7 DEF StageFails, Locks, PcTyped, Goto, RestoreLocked
<1>8. CASE Quarantine(p)
  BY <1>8 DEF Quarantine, Locks, PcTyped, Goto, RestoreLocked, Loop
<1>9. CASE QuarantineFails(p)
  BY <1>9 DEF QuarantineFails, Locks, PcTyped, Goto, RestoreLocked, root
<1>10. CASE Finalise(p)
  BY <1>10 DEF Finalise, Locks, PcTyped, Goto, RestoreLocked, Loop
<1>11. CASE FinaliseFails(p)
  BY <1>11 DEF FinaliseFails, Locks, PcTyped, Goto, RestoreLocked, root
<1>12. CASE CommitRestore(p)
  BY <1>12 DEF CommitRestore, Locks, PcTyped, Goto, RestoreLocked
<1>13. CASE CommitRestoreFails(p)
  BY <1>13 DEF CommitRestoreFails, Locks, PcTyped, Goto, RestoreLocked
<1>14. CASE DiscardOld(p)
  BY <1>14 DEF DiscardOld, Locks, PcTyped, Goto, RestoreLocked
<1>15. CASE Rollback(p)
  BY <1>15 DEF Rollback, Locks, PcTyped, Goto, RestoreLocked, Loop
<1>16. CASE RollbackFails(p)
  BY <1>16 DEF RollbackFails, Locks, PcTyped, RestoreLocked, root
<1>17. CASE Unquarantine(p)
  BY <1>17 DEF Unquarantine, Locks, PcTyped, Goto, RestoreLocked
<1>18. CASE Cleanup(p)
  BY <1>18 DEF Cleanup, Locks, PcTyped, Return, Goto, RestoreLocked
<1>. QED
  BY <1>1, <1>2, <1>3, <1>4, <1>5, <1>6, <1>7, <1>8, <1>9, <1>10, <1>11, <1>12, <1>13, <1>14,
     <1>15, <1>16, <1>17, <1>18 DEF RestoreStep

\* Its steps keep the root well typed.
LEMMA RestoreStepRoot ==
    ASSUME JobTyped, RootTyped, LeftTyped, NEW p \in Procs, RestoreStep(p), UNCHANGED <<out, destination>>
    PROVE  RootTyped'
<1>1. CASE ValidateArchive(p)
  BY <1>1 DEF ValidateArchive, JobTyped, RootTyped, Doc, Origins, Data, Kinds, Hidden,
     HiddenData, Job, root, destination
<1>2. CASE RefuseArchive(p)
  BY <1>2 DEF RefuseArchive, JobTyped, RootTyped, Doc, Origins, Data, Kinds, Hidden, HiddenData,
     Job, root, destination
<1>3. CASE LockToRestore(p)
  BY <1>3 DEF LockToRestore, JobTyped, RootTyped, Doc, Origins, Data, Kinds, Hidden, HiddenData,
     Job, meta, dirs, destination
<1>4. CASE Select(p)
  BY <1>4 DEF Select, JobTyped, RootTyped, Doc, Origins, Data, Kinds, Hidden, HiddenData, Job,
     root, destination
<1>5. CASE Refuse(p)
  BY <1>5 DEF Refuse, JobTyped, RootTyped, Doc, Origins, Data, Kinds, Hidden, HiddenData, Job,
     meta, dirs, destination
<1>6. CASE Stage(p)
  BY <1>6 DEF Stage, JobTyped, RootTyped, LeftTyped, Temps, Doc, Origins, Data, Kinds, Hidden, HiddenData,
     Job, meta, destination
<1>7. CASE StageFails(p)
  BY <1>7 DEF StageFails, JobTyped, RootTyped, LeftTyped, Temps, Doc, Origins, Data, Kinds, Hidden,
     HiddenData, Job, meta, destination
<1>8. CASE Quarantine(p)
  <2>1. \/ UNCHANGED dirs
        \/ \E i \in job[p].sel : dir[i] # Absent /\ Hide(p, i, "quarantine")
    BY <1>8, Zenon DEF Quarantine, Loop
  <2>2. job[p].sel \subseteq Ids
    BY DEF JobTyped, Job
  <2>3. dir' \in [Ids -> Data] /\ hidden' \subseteq Hidden /\ HiddenData'
    BY <2>1, <2>2, HideTyped DEF RootTyped, HiddenData, dirs
  <2>4. QED
    BY <1>8, <2>3 DEF Quarantine, RootTyped, meta, destination
<1>9. CASE QuarantineFails(p)
  BY <1>9 DEF QuarantineFails, JobTyped, RootTyped, Doc, Origins, Data, Kinds, Hidden,
     HiddenData, Job, root, destination
<1>10. CASE Finalise(p)
  BY <1>10 DEF Finalise, JobTyped, RootTyped, Vacant, Loop, Of, Temp, Doc, Origins, Data, Kinds,
     Hidden, HiddenData, Job, meta, dirs, destination
<1>11. CASE FinaliseFails(p)
  BY <1>11 DEF FinaliseFails, JobTyped, RootTyped, Vacant, Doc, Origins, Data, Kinds, Hidden,
     HiddenData, Job, root, destination
<1>12. CASE CommitRestore(p)
  <2>1. \A h \in hidden' : h \in Hidden /\ SameHidden(h)
    BY <1>12, SettledIs, Zenon DEF CommitRestore
  <2>2. hidden' \subseteq Hidden /\ HiddenData'
    BY <2>1 DEF SameHidden, RootTyped, HiddenData
  <2>3. QED
    BY <1>12, <2>2 DEF CommitRestore, RootTyped, JobTyped, Job, Commit, Doc, Origins, destination
<1>13. CASE CommitRestoreFails(p)
  BY <1>13 DEF CommitRestoreFails, JobTyped, RootTyped, CommitFails, Doc, Origins, Data, Kinds,
     Hidden, HiddenData, Job, dirs, destination
<1>14. CASE DiscardOld(p)
  BY <1>14 DEF DiscardOld, JobTyped, RootTyped, Of, Doc, Origins, Data, Kinds, Hidden,
     HiddenData, Job, meta, destination
<1>15. CASE Rollback(p)
  BY <1>15 DEF Rollback, JobTyped, RootTyped, Loop, Doc, Origins, Data, Kinds, Hidden,
     HiddenData, Job, meta, dirs, destination
<1>16. CASE RollbackFails(p)
  BY <1>16 DEF RollbackFails, JobTyped, RootTyped, Doc, Origins, Data, Kinds, Hidden, HiddenData,
     Job, root, destination
<1>17. CASE Unquarantine(p)
  BY <1>17 DEF Unquarantine, JobTyped, RootTyped, Of, Doc, Origins, Data, Kinds, Hidden,
     HiddenData, Job, meta, dirs, destination
<1>18. CASE Cleanup(p)
  BY <1>18 DEF Cleanup, JobTyped, RootTyped, Of, Doc, Origins, Data, Kinds, Hidden, HiddenData,
     Job, meta, destination
<1>. QED
  BY <1>1, <1>2, <1>3, <1>4, <1>5, <1>6, <1>7, <1>8, <1>9, <1>10, <1>11, <1>12, <1>13, <1>14,
     <1>15, <1>16, <1>17, <1>18 DEF RestoreStep

\* They end the command or go on within it.
LEMMA RestoreStepMoves ==
    ASSUME JobTyped, PcTyped, RootTyped, NEW p \in Procs, RestoreStep(p)
    PROVE  Moves(p)
<1>1. CASE ValidateArchive(p)
  BY <1>1 DEF ValidateArchive, JobTyped, PcTyped, Moves, Within, Families, Creating, Deleting,
     Restoring, RestoreLocked, BackingUp, Repairs, Migrating, MigrateLocked, Removing, Goto, Job
<1>2. CASE RefuseArchive(p)
  BY <1>2 DEF RefuseArchive, JobTyped, PcTyped, Moves, Within, Families, Creating, Deleting,
     Restoring, RestoreLocked, BackingUp, Repairs, Migrating, MigrateLocked, Removing, Goto, Job
<1>3. CASE LockToRestore(p)
  BY <1>3 DEF LockToRestore, JobTyped, PcTyped, Moves, Within, Families, Creating, Deleting,
     Restoring, RestoreLocked, BackingUp, Repairs, Migrating, MigrateLocked, Removing, Goto, Job
<1>4. CASE Select(p)
  <2>1. UNCHANGED job \/ Learns(p) \/ Return(p)
    BY <1>4, RestoreJobs, LoopsLearn DEF Select, Learns, JobTyped, RootTyped, PcTyped, Job,
       RestoreLocked, Repairs, Removing
  <2>2. Return(p) \/ \E F \in Families : Within(p, F)
    BY <1>4 DEF Select, PcTyped, Points, Within, Families, Goto, Creating, Deleting, Restoring,
       RestoreLocked, BackingUp, Repairs, Migrating, MigrateLocked, Removing
  <2>. QED
    BY <2>1, <2>2 DEF Moves
<1>5. CASE Refuse(p)
  BY <1>5 DEF Refuse, JobTyped, PcTyped, Moves, Within, Families, Creating, Deleting, Restoring,
     RestoreLocked, BackingUp, Repairs, Migrating, MigrateLocked, Removing, Goto, Job
<1>6. CASE Stage(p)
  BY <1>6 DEF Stage, JobTyped, PcTyped, Moves, Within, Families, Creating, Deleting, Restoring,
     RestoreLocked, BackingUp, Repairs, Migrating, MigrateLocked, Removing, Goto, Job
<1>7. CASE StageFails(p)
  BY <1>7 DEF StageFails, JobTyped, PcTyped, Moves, Within, Families, Creating, Deleting,
     Restoring, RestoreLocked, BackingUp, Repairs, Migrating, MigrateLocked, Removing, Goto, Job
<1>8. CASE Quarantine(p)
  <2>1. UNCHANGED job \/ Learns(p) \/ Return(p)
    BY <1>8, RestoreJobs, LoopsLearn DEF Quarantine, Learns, JobTyped, RootTyped, PcTyped, Job,
       RestoreLocked, Repairs, Removing
  <2>2. Return(p) \/ \E F \in Families : Within(p, F)
    BY <1>8 DEF Quarantine, PcTyped, Points, Loop, Within, Families, Goto, Creating, Deleting,
       Restoring, RestoreLocked, BackingUp, Repairs, Migrating, MigrateLocked, Removing
  <2>. QED
    BY <2>1, <2>2 DEF Moves
<1>9. CASE QuarantineFails(p)
  BY <1>9 DEF QuarantineFails, JobTyped, PcTyped, Moves, Within, Families, Creating, Deleting,
     Restoring, RestoreLocked, BackingUp, Repairs, Migrating, MigrateLocked, Removing, Goto, Job
<1>10. CASE Finalise(p)
  <2>1. UNCHANGED job \/ Learns(p) \/ Return(p)
    BY <1>10, RestoreJobs, LoopsLearn DEF Finalise, Learns, JobTyped, RootTyped, PcTyped, Job,
       RestoreLocked, Repairs, Removing
  <2>2. Return(p) \/ \E F \in Families : Within(p, F)
    BY <1>10 DEF Finalise, PcTyped, Points, Loop, Within, Families, Goto, Creating, Deleting,
       Restoring, RestoreLocked, BackingUp, Repairs, Migrating, MigrateLocked, Removing
  <2>. QED
    BY <2>1, <2>2 DEF Moves
<1>11. CASE FinaliseFails(p)
  <2>1. UNCHANGED job \/ Learns(p) \/ Return(p)
    BY <1>11, RestoreJobs, LoopsLearn DEF FinaliseFails, Learns, JobTyped, RootTyped, PcTyped,
       Job, RestoreLocked, Repairs, Removing
  <2>2. Return(p) \/ \E F \in Families : Within(p, F)
    BY <1>11 DEF FinaliseFails, PcTyped, Points, Within, Families, Goto, Creating, Deleting,
       Restoring, RestoreLocked, BackingUp, Repairs, Migrating, MigrateLocked, Removing
  <2>. QED
    BY <2>1, <2>2 DEF Moves
<1>12. CASE CommitRestore(p)
  BY <1>12 DEF CommitRestore, JobTyped, PcTyped, Moves, Within, Families, Creating, Deleting,
     Restoring, RestoreLocked, BackingUp, Repairs, Migrating, MigrateLocked, Removing, Goto, Job
<1>13. CASE CommitRestoreFails(p)
  BY <1>13 DEF CommitRestoreFails, JobTyped, PcTyped, Moves, Within, Families, Creating,
     Deleting, Restoring, RestoreLocked, BackingUp, Repairs, Migrating, MigrateLocked, Removing,
     Goto, Job
<1>14. CASE DiscardOld(p)
  BY <1>14 DEF DiscardOld, JobTyped, PcTyped, Moves, Within, Families, Creating, Deleting,
     Restoring, RestoreLocked, BackingUp, Repairs, Migrating, MigrateLocked, Removing, Goto, Job
<1>15. CASE Rollback(p)
  <2>1. UNCHANGED job \/ Learns(p) \/ Return(p)
    BY <1>15, RestoreJobs, LoopsLearn DEF Rollback, Learns, JobTyped, RootTyped, PcTyped, Job,
       RestoreLocked, Repairs, Removing
  <2>2. Return(p) \/ \E F \in Families : Within(p, F)
    BY <1>15 DEF Rollback, PcTyped, Points, Loop, Within, Families, Goto, Creating, Deleting,
       Restoring, RestoreLocked, BackingUp, Repairs, Migrating, MigrateLocked, Removing
  <2>. QED
    BY <2>1, <2>2 DEF Moves
<1>16. CASE RollbackFails(p)
  <2>1. UNCHANGED job \/ Learns(p) \/ Return(p)
    BY <1>16, RestoreJobs, LoopsLearn DEF RollbackFails, Learns, JobTyped, RootTyped, PcTyped,
       Job, RestoreLocked, Repairs, Removing
  <2>2. Return(p) \/ \E F \in Families : Within(p, F)
    BY <1>16 DEF RollbackFails, PcTyped, Points, Within, Families, Goto, Creating, Deleting,
       Restoring, RestoreLocked, BackingUp, Repairs, Migrating, MigrateLocked, Removing
  <2>. QED
    BY <2>1, <2>2 DEF Moves
<1>17. CASE Unquarantine(p)
  BY <1>17 DEF Unquarantine, JobTyped, PcTyped, Moves, Within, Families, Creating, Deleting,
     Restoring, RestoreLocked, BackingUp, Repairs, Migrating, MigrateLocked, Removing, Goto, Job
<1>18. CASE Cleanup(p)
  BY <1>18 DEF Cleanup, JobTyped, PcTyped, Moves, Within, Families, Creating, Deleting,
     Restoring, RestoreLocked, BackingUp, Repairs, Migrating, MigrateLocked, Removing, Goto, Job
<1>. QED
  BY <1>1, <1>2, <1>3, <1>4, <1>5, <1>6, <1>7, <1>8, <1>9, <1>10, <1>11, <1>12, <1>13, <1>14,
     <1>15, <1>16, <1>17, <1>18 DEF RestoreStep

\* A backup does not touch the lock.
LEMMA BackupStepLocks ==
    ASSUME PcTyped, NEW p \in Procs, BackupStep(p)
    PROVE  Locks(p)
<1>1. CASE ArchiveProfile(p)
  BY <1>1 DEF ArchiveProfile, Locks, PcTyped, Goto, RestoreLocked, root
<1>2. CASE Recheck(p)
  BY <1>2 DEF Recheck, Locks, PcTyped, Return, Goto, RestoreLocked, root
<1>3. CASE VerifyArchive(p)
  BY <1>3 DEF VerifyArchive, Locks, PcTyped, Goto, RestoreLocked, root
<1>4. CASE Publish(p)
  BY <1>4 DEF Publish, Locks, PcTyped, Return, Goto, RestoreLocked, root
<1>5. CASE BackupFails(p)
  BY <1>5 DEF BackupFails, Locks, PcTyped, Return, Goto, RestoreLocked, root
<1>6. CASE CheckStopped(p)
  BY <1>6 DEF CheckStopped, Locks, PcTyped, Return, Goto, RestoreLocked, root
<1>. QED
  BY <1>1, <1>2, <1>3, <1>4, <1>5, <1>6 DEF BackupStep

\* Its steps keep the root well typed.
LEMMA BackupStepRoot ==
    ASSUME JobTyped, RootTyped, NEW p \in Procs, BackupStep(p), UNCHANGED destination
    PROVE  RootTyped'
<1>1. CASE ArchiveProfile(p)
  BY <1>1 DEF ArchiveProfile, JobTyped, RootTyped, Doc, Origins, Data, Kinds, Hidden, HiddenData,
     Job, root, destination
<1>2. CASE Recheck(p)
  BY <1>2 DEF Recheck, JobTyped, RootTyped, Doc, Origins, Data, Kinds, Hidden, HiddenData, Job,
     root, destination
<1>3. CASE VerifyArchive(p)
  BY <1>3 DEF VerifyArchive, JobTyped, RootTyped, Doc, Origins, Data, Kinds, Hidden, HiddenData,
     Job, root, destination
<1>4. CASE Publish(p)
  BY <1>4 DEF Publish, JobTyped, RootTyped, Doc, Origins, Data, Kinds, Hidden, HiddenData, Job,
     root, destination
<1>5. CASE BackupFails(p)
  BY <1>5 DEF BackupFails, JobTyped, RootTyped, Doc, Origins, Data, Kinds, Hidden, HiddenData,
     Job, root, destination
<1>6. CASE CheckStopped(p)
  BY <1>6 DEF CheckStopped, JobTyped, RootTyped, Doc, Origins, Data, Kinds, Hidden, HiddenData,
     Job, root, destination
<1>. QED
  BY <1>1, <1>2, <1>3, <1>4, <1>5, <1>6 DEF BackupStep

\* They end the command or go on within it.
LEMMA BackupStepMoves ==
    ASSUME JobTyped, PcTyped, RootTyped, NEW p \in Procs, BackupStep(p)
    PROVE  Moves(p)
<1>1. CASE ArchiveProfile(p)
  <2>1. UNCHANGED job \/ Learns(p) \/ Return(p)
    BY <1>1, BackupJobs, LoopsLearn DEF ArchiveProfile, Learns, JobTyped, RootTyped, PcTyped,
       Job, RestoreLocked, Repairs, Removing
  <2>2. Return(p) \/ \E F \in Families : Within(p, F)
    BY <1>1 DEF ArchiveProfile, PcTyped, Points, Within, Families, Goto, Creating, Deleting,
       Restoring, RestoreLocked, BackingUp, Repairs, Migrating, MigrateLocked, Removing
  <2>. QED
    BY <2>1, <2>2 DEF Moves
<1>2. CASE Recheck(p)
  BY <1>2 DEF Recheck, JobTyped, PcTyped, Moves, Within, Families, Creating, Deleting, Restoring,
     RestoreLocked, BackingUp, Repairs, Migrating, MigrateLocked, Removing, Goto, Job
<1>3. CASE VerifyArchive(p)
  BY <1>3 DEF VerifyArchive, JobTyped, PcTyped, Moves, Within, Families, Creating, Deleting,
     Restoring, RestoreLocked, BackingUp, Repairs, Migrating, MigrateLocked, Removing, Goto, Job
<1>4. CASE Publish(p)
  BY <1>4 DEF Publish, JobTyped, PcTyped, Moves, Within, Families, Creating, Deleting, Restoring,
     RestoreLocked, BackingUp, Repairs, Migrating, MigrateLocked, Removing, Goto, Job
<1>5. CASE BackupFails(p)
  BY <1>5 DEF BackupFails, JobTyped, PcTyped, Moves, Within, Families, Creating, Deleting,
     Restoring, RestoreLocked, BackingUp, Repairs, Migrating, MigrateLocked, Removing, Goto, Job
<1>6. CASE CheckStopped(p)
  BY <1>6 DEF CheckStopped, JobTyped, PcTyped, Moves, Within, Families, Creating, Deleting,
     Restoring, RestoreLocked, BackingUp, Repairs, Migrating, MigrateLocked, Removing, Goto, Job
<1>. QED
  BY <1>1, <1>2, <1>3, <1>4, <1>5, <1>6 DEF BackupStep

\* A repair only waits for the lock: what it does under it is one step.
LEMMA RepairStepLocks ==
    ASSUME PcTyped, NEW p \in Procs, RepairStep(p)
    PROVE  Locks(p)
<1>1. CASE UnlinkStates(p)
  BY <1>1 DEF UnlinkStates, Locks, PcTyped, Goto, RestoreLocked
<1>2. CASE Sweep(p)
  BY <1>2 DEF Sweep, Locks, PcTyped, Goto, RestoreLocked
<1>3. CASE Inspect(p)
  BY <1>3 DEF Inspect, Locks, PcTyped, Goto, RestoreLocked, root
<1>4. CASE Upgrade(p)
  BY <1>4 DEF Upgrade, Locks, PcTyped, Goto, RestoreLocked
<1>5. CASE UpgradeFails(p)
  BY <1>5 DEF UpgradeFails, Locks, PcTyped, Goto, RestoreLocked
<1>6. CASE ReadBackup(p)
  BY <1>6 DEF ReadBackup, Locks, PcTyped, Goto, RestoreLocked, root
<1>7. CASE RecoverBackup(p)
  BY <1>7 DEF RecoverBackup, Locks, PcTyped, Goto, RestoreLocked
<1>8. CASE Reload(p)
  BY <1>8 DEF Reload, Locks, PcTyped, Return, Goto, RestoreLocked, root
<1>9. CASE Recreate(p)
  BY <1>9 DEF Recreate, Locks, PcTyped, Return, Goto, RestoreLocked
<1>10. CASE RecreateFails(p)
  BY <1>10 DEF RecreateFails, Locks, PcTyped, Return, Goto, RestoreLocked
<1>11. CASE FindOrphans(p)
  BY <1>11 DEF FindOrphans, Locks, PcTyped, Return, Goto, RestoreLocked, root
<1>12. CASE Reattach(p)
  BY <1>12 DEF Reattach, Locks, PcTyped, Return, Goto, RestoreLocked
<1>13. CASE ReattachFails(p)
  BY <1>13 DEF ReattachFails, Locks, PcTyped, Return, Goto, RestoreLocked
<1>. QED
  BY <1>1, <1>2, <1>3, <1>4, <1>5, <1>6, <1>7, <1>8, <1>9, <1>10, <1>11, <1>12, <1>13 DEF
     RepairStep

\* Its steps keep the root well typed.
LEMMA RepairStepRoot ==
    ASSUME JobTyped, RootTyped, NEW p \in Procs, RepairStep(p), UNCHANGED <<out, destination>>
    PROVE  RootTyped'
<1>1. CASE UnlinkStates(p)
  BY <1>1 DEF UnlinkStates, JobTyped, RootTyped, Doc, Origins, Data, Kinds, Hidden, HiddenData,
     Job, meta, dirs, destination
<1>2. CASE Sweep(p)
  BY <1>2 DEF Sweep, JobTyped, RootTyped, Doc, Origins, Data, Kinds, Hidden, HiddenData, Job,
     meta, destination
<1>3. CASE Inspect(p)
  BY <1>3 DEF Inspect, JobTyped, RootTyped, Doc, Origins, Data, Kinds, Hidden, HiddenData, Job,
     root, destination
<1>4. CASE Upgrade(p)
  BY <1>4 DEF Upgrade, JobTyped, RootTyped, Commit, Doc, Origins, Data, Kinds, Hidden,
     HiddenData, Job, dirs, destination
<1>5. CASE UpgradeFails(p)
  BY <1>5 DEF UpgradeFails, JobTyped, RootTyped, CommitFails, Doc, Origins, Data, Kinds, Hidden,
     HiddenData, Job, meta, dirs, destination
<1>6. CASE ReadBackup(p)
  BY <1>6 DEF ReadBackup, JobTyped, RootTyped, Doc, Origins, Data, Kinds, Hidden, HiddenData,
     Job, root, destination
<1>7. CASE RecoverBackup(p)
  BY <1>7 DEF RecoverBackup, JobTyped, RootTyped, Doc, Origins, Data, Kinds, Hidden, HiddenData,
     Job, dirs, destination
<1>8. CASE Reload(p)
  BY <1>8 DEF Reload, JobTyped, RootTyped, Doc, Origins, Data, Kinds, Hidden, HiddenData, Job,
     root, destination
<1>9. CASE Recreate(p)
  BY <1>9 DEF Recreate, JobTyped, RootTyped, Doc, Origins, Data, Kinds, Hidden, HiddenData, Job,
     meta, destination
<1>10. CASE RecreateFails(p)
  BY <1>10 DEF RecreateFails, JobTyped, RootTyped, Doc, Origins, Data, Kinds, Hidden, HiddenData,
     Job, meta, destination
<1>11. CASE FindOrphans(p)
  BY <1>11 DEF FindOrphans, JobTyped, RootTyped, Doc, Origins, Data, Kinds, Hidden, HiddenData,
     Job, root, destination
<1>12. CASE Reattach(p)
  BY <1>12 DEF Reattach, JobTyped, RootTyped, Commit, Doc, Origins, Data, Kinds, Hidden,
     HiddenData, Job, Reattached, dirs, destination
<1>13. CASE ReattachFails(p)
  BY <1>13 DEF ReattachFails, JobTyped, RootTyped, CommitFails, Doc, Origins, Data, Kinds,
     Hidden, HiddenData, Job, meta, dirs, destination
<1>. QED
  BY <1>1, <1>2, <1>3, <1>4, <1>5, <1>6, <1>7, <1>8, <1>9, <1>10, <1>11, <1>12, <1>13 DEF
     RepairStep

\* They end the command or go on within it.
LEMMA RepairStepMoves ==
    ASSUME JobTyped, PcTyped, RootTyped, NEW p \in Procs, RepairStep(p)
    PROVE  Moves(p)
<1>1. CASE UnlinkStates(p)
  <2>1. UNCHANGED job \/ Learns(p) \/ Return(p)
    BY <1>1, RepairJobs, LoopsLearn DEF UnlinkStates, Learns, ToRecreate, Unlisted, JobTyped,
       RootTyped, PcTyped, Job, RestoreLocked, Repairs, Removing, Listed
  <2>2. Return(p) \/ \E F \in Families : Within(p, F)
    BY <1>1 DEF UnlinkStates, PcTyped, Points, Within, Families, Goto, Creating, Deleting,
       Restoring, RestoreLocked, BackingUp, Repairs, Migrating, MigrateLocked, Removing
  <2>. QED
    BY <2>1, <2>2 DEF Moves
<1>2. CASE Sweep(p)
  BY <1>2 DEF Sweep, JobTyped, PcTyped, Moves, Within, Families, Creating, Deleting, Restoring,
     RestoreLocked, BackingUp, Repairs, Migrating, MigrateLocked, Removing, Goto, Job
<1>3. CASE Inspect(p)
  <2>1. UNCHANGED job \/ Learns(p) \/ Return(p)
    BY <1>3, RepairJobs, LoopsLearn DEF Inspect, Learns, ToRecreate, Unlisted, JobTyped,
       RootTyped, PcTyped, Job, RestoreLocked, Repairs, Removing, Listed
  <2>2. Return(p) \/ \E F \in Families : Within(p, F)
    BY <1>3 DEF Inspect, PcTyped, Points, Within, Families, Goto, Creating, Deleting, Restoring,
       RestoreLocked, BackingUp, Repairs, Migrating, MigrateLocked, Removing
  <2>. QED
    BY <2>1, <2>2 DEF Moves
<1>4. CASE Upgrade(p)
  BY <1>4 DEF Upgrade, JobTyped, PcTyped, Moves, Within, Families, Creating, Deleting, Restoring,
     RestoreLocked, BackingUp, Repairs, Migrating, MigrateLocked, Removing, Goto, Job
<1>5. CASE UpgradeFails(p)
  BY <1>5 DEF UpgradeFails, JobTyped, PcTyped, Moves, Within, Families, Creating, Deleting,
     Restoring, RestoreLocked, BackingUp, Repairs, Migrating, MigrateLocked, Removing, Goto, Job
<1>6. CASE ReadBackup(p)
  <2>1. UNCHANGED job \/ Learns(p) \/ Return(p)
    BY <1>6, RepairJobs, LoopsLearn DEF ReadBackup, Learns, ToRecreate, Unlisted, JobTyped,
       RootTyped, PcTyped, Job, RestoreLocked, Repairs, Removing, Listed
  <2>2. Return(p) \/ \E F \in Families : Within(p, F)
    BY <1>6 DEF ReadBackup, PcTyped, Points, Within, Families, Goto, Creating, Deleting,
       Restoring, RestoreLocked, BackingUp, Repairs, Migrating, MigrateLocked, Removing
  <2>. QED
    BY <2>1, <2>2 DEF Moves
<1>7. CASE RecoverBackup(p)
  BY <1>7 DEF RecoverBackup, JobTyped, PcTyped, Moves, Within, Families, Creating, Deleting,
     Restoring, RestoreLocked, BackingUp, Repairs, Migrating, MigrateLocked, Removing, Goto, Job
<1>8. CASE Reload(p)
  <2>1. UNCHANGED job \/ Learns(p) \/ Return(p)
    BY <1>8, RepairJobs, LoopsLearn DEF Reload, Learns, ToRecreate, Unlisted, JobTyped,
       RootTyped, PcTyped, Job, RestoreLocked, Repairs, Removing, Listed
  <2>2. Return(p) \/ \E F \in Families : Within(p, F)
    BY <1>8 DEF Reload, PcTyped, Points, Within, Families, Goto, Creating, Deleting, Restoring,
       RestoreLocked, BackingUp, Repairs, Migrating, MigrateLocked, Removing
  <2>. QED
    BY <2>1, <2>2 DEF Moves
<1>9. CASE Recreate(p)
  <2>1. CASE Return(p)
    BY <2>1 DEF Moves
  <2>2. CASE ~Return(p)
    <3>1. PICK S \in {{}} \cup {job[p].done \cup {i} : i \in ToRecreate(p)} :
            Knows(p, job[p].sel, S, job[p].snap)
      BY <1>9, <2>2, RepairJobs
    <3>2. job[p] \in Job /\ ToRecreate(p) \subseteq Ids
      BY DEF JobTyped, ToRecreate, Listed
    <3>3. S \in SUBSET Ids
      BY <3>1, <3>2 DEF Job
    <3>4. Learns(p)
      BY <3>1, <3>2, <3>3 DEF Learns, Job
    <3>5. \E F \in Families : Within(p, F)
      BY <1>9, <2>2 DEF Recreate, PcTyped, Families, Within, Goto, Repairs
    <3>6. QED
      BY <3>4, <3>5 DEF Moves
  <2>3. QED
    BY <2>1, <2>2
<1>10. CASE RecreateFails(p)
  BY <1>10 DEF RecreateFails, JobTyped, PcTyped, Moves, Within, Families, Creating, Deleting,
     Restoring, RestoreLocked, BackingUp, Repairs, Migrating, MigrateLocked, Removing, Goto, Job
<1>11. CASE FindOrphans(p)
  <2>1. UNCHANGED job \/ Learns(p) \/ Return(p)
    BY <1>11, RepairJobs, LoopsLearn DEF FindOrphans, Learns, ToRecreate, Unlisted, JobTyped,
       RootTyped, PcTyped, Job, RestoreLocked, Repairs, Removing, Listed
  <2>2. Return(p) \/ \E F \in Families : Within(p, F)
    BY <1>11 DEF FindOrphans, PcTyped, Points, Within, Families, Goto, Creating, Deleting,
       Restoring, RestoreLocked, BackingUp, Repairs, Migrating, MigrateLocked, Removing
  <2>. QED
    BY <2>1, <2>2 DEF Moves
<1>12. CASE Reattach(p)
  BY <1>12 DEF Reattach, JobTyped, PcTyped, Moves, Within, Families, Creating, Deleting,
     Restoring, RestoreLocked, BackingUp, Repairs, Migrating, MigrateLocked, Removing, Goto, Job
<1>13. CASE ReattachFails(p)
  BY <1>13 DEF ReattachFails, JobTyped, PcTyped, Moves, Within, Families, Creating, Deleting,
     Restoring, RestoreLocked, BackingUp, Repairs, Migrating, MigrateLocked, Removing, Goto, Job
<1>. QED
  BY <1>1, <1>2, <1>3, <1>4, <1>5, <1>6, <1>7, <1>8, <1>9, <1>10, <1>11, <1>12, <1>13 DEF
     RepairStep

\* A migration does not touch the lock of the source.
LEMMA MigrateStepLocks ==
    ASSUME PcTyped, NEW p \in Procs, MigrateStep(p)
    PROVE  Locks(p)
<1>1. CASE LockDestination(p)
  BY <1>1 DEF LockDestination, Locks, PcTyped, Return, Goto, RestoreLocked, root
<1>2. CASE Plan(p)
  BY <1>2 DEF Plan, Locks, PcTyped, Return, Goto, RestoreLocked, root
<1>3. CASE Copy(p)
  BY <1>3 DEF Copy, Locks, PcTyped, Goto, RestoreLocked, root
<1>4. CASE CopyFails(p)
  BY <1>4 DEF CopyFails, Locks, PcTyped, Goto, RestoreLocked, root
<1>5. CASE Verify(p)
  BY <1>5 DEF Verify, Locks, PcTyped, Goto, RestoreLocked, root
<1>6. CASE MoveIn(p)
  BY <1>6 DEF MoveIn, Locks, PcTyped, Goto, RestoreLocked, root
<1>7. CASE CommitMigration(p)
  BY <1>7 DEF CommitMigration, Locks, PcTyped, Return, Goto, RestoreLocked, root
<1>8. CASE UndoMigration(p)
  BY <1>8 DEF UndoMigration, Locks, PcTyped, Return, Goto, RestoreLocked, root
<1>9. CASE CheckRemoval(p)
  BY <1>9 DEF CheckRemoval, Locks, PcTyped, Return, Goto, RestoreLocked, root
<1>10. CASE MoveOut(p)
  BY <1>10, Zenon DEF MoveOut, Locks
<1>11. CASE RemoveMetadata(p)
  BY <1>11 DEF RemoveMetadata, Locks, PcTyped, Goto, RestoreLocked
<1>12. CASE RemovalFails(p)
  BY <1>12 DEF RemovalFails, Locks, PcTyped, Goto, RestoreLocked, root
<1>13. CASE UndoRemoval(p)
  BY <1>13 DEF UndoRemoval, Locks, PcTyped, Return, Goto, RestoreLocked
<1>14. CASE DiscardRemoved(p)
  BY <1>14 DEF DiscardRemoved, Locks, PcTyped, Return, Goto, RestoreLocked
<1>. QED
  BY <1>1, <1>2, <1>3, <1>4, <1>5, <1>6, <1>7, <1>8, <1>9, <1>10, <1>11, <1>12, <1>13, <1>14 DEF
     MigrateStep

\* Its steps keep both roots well typed.
LEMMA MigrateStepRoot ==
    ASSUME JobTyped, RootTyped, LeftTyped, NEW p \in Procs, MigrateStep(p), UNCHANGED out
    PROVE  RootTyped'
<1>1. CASE LockDestination(p)
  BY <1>1 DEF LockDestination, JobTyped, RootTyped, Doc, Origins, Data, Kinds, Hidden,
     HiddenData, Job, root, destination
<1>2. CASE Plan(p)
  BY <1>2 DEF Plan, JobTyped, RootTyped, Doc, Origins, Data, Kinds, Hidden, HiddenData, Job,
     root, destination
<1>3. CASE Copy(p)
  BY <1>3 DEF Copy, JobTyped, RootTyped, Doc, Origins, Data, Kinds, Hidden, HiddenData, Job, root
<1>4. CASE CopyFails(p)
  BY <1>4 DEF CopyFails, JobTyped, RootTyped, Doc, Origins, Data, Kinds, Hidden, HiddenData, Job,
     root
<1>5. CASE Verify(p)
  BY <1>5 DEF Verify, JobTyped, RootTyped, Doc, Origins, Data, Kinds, Hidden, HiddenData, Job,
     root, destination
<1>6. CASE MoveIn(p)
  <2>1. \/ UNCHANGED <<ddir, staged>>
        \/ \E i \in job[p].sel \ job[p].done :
             ddir' = [ddir EXCEPT ![i] = job[p].data[i]] /\ staged' = staged \ {i}
    BY <1>6, Zenon DEF MoveIn
  <2>2. UNCHANGED <<root, ddoc>>
    BY <1>6, Zenon DEF MoveIn
  <2>3. job[p].data \in [Ids -> Data] /\ job[p].sel \subseteq Ids
    BY DEF JobTyped, Job
  <2>4. ddir' \in [Ids -> Data] /\ staged' \subseteq Ids
    BY <2>1, <2>3 DEF RootTyped
  <2>5. QED
    BY <2>2, <2>4 DEF RootTyped, HiddenData, root
<1>7. CASE CommitMigration(p)
  BY <1>7 DEF CommitMigration, JobTyped, RootTyped, Doc, Origins, Data, Kinds, Hidden,
     HiddenData, Job, root
<1>8. CASE UndoMigration(p)
  BY <1>8 DEF UndoMigration, JobTyped, RootTyped, Doc, Origins, Data, Kinds, Hidden, HiddenData,
     Job, root
<1>9. CASE CheckRemoval(p)
  BY <1>9 DEF CheckRemoval, JobTyped, RootTyped, Doc, Origins, Data, Kinds, Hidden, HiddenData,
     Job, root, destination
<1>10. CASE MoveOut(p)
  <2>1. PICK i \in job[p].sel : MoveProfileOut(p, i) \/ MoveRuntimeOut(p, i)
    BY <1>10, Zenon DEF MoveOut
  <2>2. i \in Ids
    BY DEF JobTyped, Job
  <2>3. dir[i] # Absent => Renamed(p, i, dir[i], "yes") \in Hidden
    BY <2>2 DEF Renamed, Hidden, RootTyped, LeftTyped, Data
  <2>4. run[i] # "none" => Renamed(p, i, run[i], "no") \in Hidden
    BY <2>2 DEF Renamed, Hidden, RootTyped, LeftTyped
  <2>5. \A data, owed : Renamed(p, i, data, owed).kind = "removing"
    BY DEF Renamed
  <2>6. CASE MoveProfileOut(p, i)
    <3>1. hidden' = hidden \cup {Renamed(p, i, dir[i], "yes")} /\ dir[i] # Absent
      BY <2>6 DEF MoveProfileOut
    <3>2. hidden' \subseteq Hidden /\ HiddenData'
      BY <2>3, <2>5, <3>1 DEF RootTyped, HiddenData
    <3>3. QED
      BY <1>10, <2>6, <3>2 DEF MoveOut, MoveProfileOut, RootTyped, Data, meta, destination
  <2>7. CASE MoveRuntimeOut(p, i)
    <3>1. \/ hidden' = hidden
          \/ hidden' = hidden \cup {Renamed(p, i, run[i], "no")} /\ run[i] # "none"
      BY <2>7 DEF MoveRuntimeOut
    <3>2. hidden' \subseteq Hidden /\ HiddenData'
      BY <2>4, <2>5, <3>1 DEF RootTyped, HiddenData
    <3>3. QED
      BY <1>10, <2>7, <3>2 DEF MoveOut, MoveRuntimeOut, RootTyped, Data, meta, destination
  <2>8. QED
    BY <2>1, <2>6, <2>7
<1>11. CASE RemoveMetadata(p)
  <2>1. \A h \in hidden' : h \in Hidden /\ SameHidden(h)
    BY <1>11, SettledIs, Zenon DEF RemoveMetadata
  <2>2. hidden' \subseteq Hidden /\ HiddenData'
    BY <2>1 DEF SameHidden, RootTyped, HiddenData
  <2>3. QED
    BY <1>11, <2>2 DEF RemoveMetadata, RootTyped, EmptyDoc, JobTyped, Job, Doc, Origins,
       destination
<1>12. CASE RemovalFails(p)
  BY <1>12 DEF RemovalFails, JobTyped, RootTyped, Doc, Origins, Data, Kinds, Hidden, HiddenData,
     Job, root, destination
<1>13. CASE UndoRemoval(p)
  <2>1. UNCHANGED <<meta, lock, destination>>
    BY <1>13, Zenon DEF UndoRemoval
  <2>2. \/ UNCHANGED <<dirs, run>>
        \/ \E h \in Returnable(p) :
             /\ hidden' = hidden \ {h}
             /\ IF h.data \in Data THEN dir' = [dir EXCEPT ![h.id] = h.data] /\ UNCHANGED run
                ELSE run' = [run EXCEPT ![h.id] = h.data] /\ UNCHANGED dir
    BY <1>13, Zenon DEF UndoRemoval
  <2>3. \A h \in Returnable(p) : h \in Hidden
    BY DEF Returnable, Of, RootTyped
  <2>4. \A h \in Hidden : h.id \in Ids /\ (h.data \in Data \/ h.data \in {"live", "stale"})
    BY DEF Hidden, Data
  <2>5. dir' \in [Ids -> Data] /\ run' \in [Ids -> {"none", "live", "stale"}] /\ hidden' \subseteq hidden
    BY <2>2, <2>3, <2>4 DEF RootTyped, dirs
  <2>6. QED
    BY <2>1, <2>5 DEF RootTyped, HiddenData, meta, destination
<1>14. CASE DiscardRemoved(p)
  BY <1>14 DEF DiscardRemoved, JobTyped, RootTyped, Of, Doc, Origins, Data, Kinds, Hidden,
     HiddenData, Job, meta, destination
<1>. QED
  BY <1>1, <1>2, <1>3, <1>4, <1>5, <1>6, <1>7, <1>8, <1>9, <1>10, <1>11, <1>12, <1>13, <1>14 DEF
     MigrateStep

\* They end the command, go on within it, or begin the removal.
LEMMA MigrateStepMoves ==
    ASSUME JobTyped, PcTyped, RootTyped, NEW p \in Procs, MigrateStep(p)
    PROVE  Moves(p)
<1>1. CASE LockDestination(p)
  BY <1>1 DEF LockDestination, JobTyped, PcTyped, Moves, Within, Families, Creating, Deleting,
     Restoring, RestoreLocked, BackingUp, Repairs, Migrating, MigrateLocked, Removing, Goto, Job
<1>2. CASE Plan(p)
  <2>1. UNCHANGED job \/ Learns(p) \/ Return(p)
    BY <1>2, MigrateJobs, LoopsLearn DEF Plan, Learns, JobTyped, RootTyped, PcTyped, Job,
       RestoreLocked, Repairs, Removing, Listed
  <2>2. Return(p) \/ \E F \in Families : Within(p, F)
    BY <1>2 DEF Plan, PcTyped, Points, Within, Families, Goto, Creating, Deleting, Restoring,
       RestoreLocked, BackingUp, Repairs, Migrating, MigrateLocked, Removing
  <2>. QED
    BY <2>1, <2>2 DEF Moves
<1>3. CASE Copy(p)
  <2>1. UNCHANGED job \/ Learns(p) \/ Return(p)
    BY <1>3, MigrateJobs, LoopsLearn DEF Copy, Learns, JobTyped, RootTyped, PcTyped, Job,
       RestoreLocked, Repairs, Removing, Listed
  <2>2. Return(p) \/ \E F \in Families : Within(p, F)
    BY <1>3 DEF Copy, PcTyped, Points, Within, Families, Goto, Creating, Deleting, Restoring,
       RestoreLocked, BackingUp, Repairs, Migrating, MigrateLocked, Removing
  <2>. QED
    BY <2>1, <2>2 DEF Moves
<1>4. CASE CopyFails(p)
  <2>1. UNCHANGED job \/ Learns(p) \/ Return(p)
    BY <1>4, MigrateJobs, LoopsLearn DEF CopyFails, Learns, JobTyped, RootTyped, PcTyped, Job,
       RestoreLocked, Repairs, Removing, Listed
  <2>2. Return(p) \/ \E F \in Families : Within(p, F)
    BY <1>4 DEF CopyFails, PcTyped, Points, Within, Families, Goto, Creating, Deleting,
       Restoring, RestoreLocked, BackingUp, Repairs, Migrating, MigrateLocked, Removing
  <2>. QED
    BY <2>1, <2>2 DEF Moves
<1>5. CASE Verify(p)
  <2>1. UNCHANGED job \/ Learns(p) \/ Return(p)
    BY <1>5, MigrateJobs, LoopsLearn DEF Verify, Learns, JobTyped, RootTyped, PcTyped, Job,
       RestoreLocked, Repairs, Removing, Listed
  <2>2. Return(p) \/ \E F \in Families : Within(p, F)
    BY <1>5 DEF Verify, PcTyped, Points, Within, Families, Goto, Creating, Deleting, Restoring,
       RestoreLocked, BackingUp, Repairs, Migrating, MigrateLocked, Removing
  <2>. QED
    BY <2>1, <2>2 DEF Moves
<1>6. CASE MoveIn(p)
  <2>1. UNCHANGED job \/ Learns(p) \/ Return(p)
    BY <1>6, MigrateJobs, LoopsLearn DEF MoveIn, Learns, JobTyped, RootTyped, PcTyped, Job,
       RestoreLocked, Repairs, Removing, Listed
  <2>2. Return(p) \/ \E F \in Families : Within(p, F)
    BY <1>6 DEF MoveIn, PcTyped, Points, Within, Families, Goto, Creating, Deleting, Restoring,
       RestoreLocked, BackingUp, Repairs, Migrating, MigrateLocked, Removing
  <2>. QED
    BY <2>1, <2>2 DEF Moves
<1>7. CASE CommitMigration(p)
  BY <1>7 DEF CommitMigration, JobTyped, PcTyped, Moves, Within, Families, Creating, Deleting,
     Restoring, RestoreLocked, BackingUp, Repairs, Migrating, MigrateLocked, Removing, Goto, Job
<1>8. CASE UndoMigration(p)
  BY <1>8 DEF UndoMigration, JobTyped, PcTyped, Moves, Within, Families, Creating, Deleting,
     Restoring, RestoreLocked, BackingUp, Repairs, Migrating, MigrateLocked, Removing, Goto, Job
<1>9. CASE CheckRemoval(p)
  <2>1. UNCHANGED job \/ Learns(p) \/ Return(p)
    BY <1>9, MigrateJobs, LoopsLearn DEF CheckRemoval, Learns, JobTyped, RootTyped, PcTyped, Job,
       RestoreLocked, Repairs, Removing, Listed
  <2>2. Return(p) \/ \E F \in Families : Within(p, F)
    BY <1>9 DEF CheckRemoval, PcTyped, Points, Within, Families, Goto, Creating, Deleting,
       Restoring, RestoreLocked, BackingUp, Repairs, Migrating, MigrateLocked, Removing
  <2>. QED
    BY <2>1, <2>2 DEF Moves
<1>10. CASE MoveOut(p)
  <2>1. UNCHANGED job \/ Learns(p) \/ Return(p)
    BY <1>10, MigrateJobs, LoopsLearn DEF Learns, JobTyped, RootTyped, PcTyped, Job,
       RestoreLocked, Repairs, Removing, Listed
  <2>2. Return(p) \/ \E F \in Families : Within(p, F)
    BY <1>10 DEF MoveOut, PcTyped, Points, Within, Families, Goto, Creating, Deleting, Restoring,
       RestoreLocked, BackingUp, Repairs, Migrating, MigrateLocked, Removing
  <2>. QED
    BY <2>1, <2>2 DEF Moves
<1>11. CASE RemoveMetadata(p)
  BY <1>11 DEF RemoveMetadata, JobTyped, PcTyped, Moves, Within, Families, Creating, Deleting,
     Restoring, RestoreLocked, BackingUp, Repairs, Migrating, MigrateLocked, Removing, Goto, Job
<1>12. CASE RemovalFails(p)
  BY <1>12 DEF RemovalFails, JobTyped, PcTyped, Moves, Within, Families, Creating, Deleting,
     Restoring, RestoreLocked, BackingUp, Repairs, Migrating, MigrateLocked, Removing, Goto, Job
<1>13. CASE UndoRemoval(p)
  BY <1>13 DEF UndoRemoval, JobTyped, PcTyped, Moves, Within, Families, Creating, Deleting,
     Restoring, RestoreLocked, BackingUp, Repairs, Migrating, MigrateLocked, Removing, Goto, Job
<1>14. CASE DiscardRemoved(p)
  BY <1>14 DEF DiscardRemoved, JobTyped, PcTyped, Moves, Within, Families, Creating, Deleting,
     Restoring, RestoreLocked, BackingUp, Repairs, Migrating, MigrateLocked, Removing, Goto, Job
<1>. QED
  BY <1>1, <1>2, <1>3, <1>4, <1>5, <1>6, <1>7, <1>8, <1>9, <1>10, <1>11, <1>12, <1>13, <1>14 DEF
     MigrateStep

-----------------------------------------------------------------------------
(* The first step of a command. *)

First(c) ==
    CASE c = "create" -> "make_data_dir"
      [] c = "delete" -> "move"
      [] c = "restore" -> "validate"
      [] c = "backup" -> "check_stopped"
      [] c = "repair" -> "unlink_states"
      [] c \in {"migrate", "move"} -> "lock_destination"

Begins(p, c, S) ==
    /\ pc[p] = "idle" /\ c \in Can[p] /\ MayRun(c) /\ Goto(p, First(c))
    /\ \E d \in Doc, data \in [Ids -> Data], flag \in SUBSET Flags :
         job' = [job EXCEPT ![p] = JobOf(c, S, {}, d, data, {}, flag)]
    /\ left[p] > 0 /\ left' = [left EXCEPT ![p] = @ - 1]
    /\ UNCHANGED <<doc, run, hidden, lock, staged, faults>>

BeginsWell(p, c, S) ==
    /\ c = "create" => \A i \in S : /\ doc[i] = Absent
                                    /\ \A q \in Procs : i \notin job[q].sel
    /\ c \in {"delete", "backup", "migrate", "move"} => S \subseteq Listed(doc)
    /\ c = "restore" => \A q \in Procs : pc[q] \in Creating => job[q].sel \cap S = {}
    /\ \/ UNCHANGED dir
       \/ /\ c = "create" /\ \A i \in Ids : dir'[i] = dir[i] \/ i \in S

\* The ways in which the actions write the first job.
LEMMA BeginsIs ==
    ASSUME NEW p \in Procs, NEW c \in Commands, NEW l, NEW S \in SUBSET Ids,
           NEW flag \in SUBSET Flags, NEW d \in Doc,
           NEW data \in [Ids -> Data], l = First(c), MayRun(c),
           \/ Begin(p, c, l, [NoJob EXCEPT !.sel = S])
           \/ Begin(p, c, l, [NoJob EXCEPT !.sel = S, !.flag = flag])
           \/ Begin(p, c, l, [NoJob EXCEPT !.sel = S, !.snap = d, !.data = data, !.flag = flag]),
           UNCHANGED <<doc, run, hidden, lock, staged>>
    PROVE  Begins(p, c, S)
<1>1. /\ JobOf("none", S, {}, EmptyDoc, EmptyDoc, {}, {}) \in Job
      /\ JobOf("none", S, {}, EmptyDoc, EmptyDoc, {}, flag) \in Job
      /\ JobOf("none", S, {}, d, EmptyDoc, {}, {}) \in Job
      /\ JobOf("none", S, {}, d, data, {}, {}) \in Job
      /\ JobOf("none", S, {}, d, data, {}, flag) \in Job
  BY DEF Job, JobOf, EmptyDoc, Doc, Data, Flags
<1>2. PICK k1 \in Job : k1 = JobOf("none", S, {}, EmptyDoc, EmptyDoc, {}, {})
  BY <1>1
<1>3. PICK k2 \in Job : k2 = JobOf("none", S, {}, EmptyDoc, EmptyDoc, {}, flag)
  BY <1>1
<1>4. PICK k3 \in Job : k3 = JobOf("none", S, {}, d, EmptyDoc, {}, {})
  BY <1>1
<1>5. PICK k4 \in Job : k4 = JobOf("none", S, {}, d, data, {}, {})
  BY <1>1
<1>6. PICK k5 \in Job : k5 = JobOf("none", S, {}, d, data, {}, flag)
  BY <1>1
<1>7. [NoJob EXCEPT !.sel = S] = k1
  <2>1. PICK k \in Job : k = NoJob /\ k = JobOf("none", {}, {}, EmptyDoc, EmptyDoc, {}, {})
    BY FirstJob
  <2>2. [k EXCEPT !.sel = S] = JobOf(k.cmd, S, k.done, k.snap, k.data, k.seen, k.flag)
    BY JobExcept, Zenon
  <2>3. JobOf(k.cmd, S, k.done, k.snap, k.data, k.seen, k.flag) = k1
    BY <1>2, <2>1 DEF JobOf
  <2>4. QED
    BY <2>1, <2>2, <2>3, Zenon
<1>8. [k1 EXCEPT !.flag = flag] = k2
  <2>1. [k1 EXCEPT !.flag = flag]
          = JobOf(k1.cmd, k1.sel, k1.done, k1.snap, k1.data, k1.seen, flag)
    BY JobExcept, ZenonT(30)
  <2>2. JobOf(k1.cmd, k1.sel, k1.done, k1.snap, k1.data, k1.seen, flag) = k2
    BY <1>2, <1>3 DEF JobOf
  <2>3. QED
    BY <2>1, <2>2, Zenon
<1>9. [k1 EXCEPT !.snap = d] = k3
  <2>1. [k1 EXCEPT !.snap = d] = JobOf(k1.cmd, k1.sel, k1.done, d, k1.data, k1.seen, k1.flag)
    BY JobExcept, ZenonT(30)
  <2>2. JobOf(k1.cmd, k1.sel, k1.done, d, k1.data, k1.seen, k1.flag) = k3
    BY <1>2, <1>4 DEF JobOf
  <2>3. QED
    BY <2>1, <2>2, Zenon
<1>10. [k3 EXCEPT !.data = data] = k4
  <2>1. [k3 EXCEPT !.data = data]
          = JobOf(k3.cmd, k3.sel, k3.done, k3.snap, data, k3.seen, k3.flag)
    BY JobExcept, ZenonT(30)
  <2>2. JobOf(k3.cmd, k3.sel, k3.done, k3.snap, data, k3.seen, k3.flag) = k4
    BY <1>4, <1>5 DEF JobOf
  <2>3. QED
    BY <2>1, <2>2, Zenon
<1>11. [k4 EXCEPT !.flag = flag] = k5
  <2>1. [k4 EXCEPT !.flag = flag]
          = JobOf(k4.cmd, k4.sel, k4.done, k4.snap, k4.data, k4.seen, flag)
    BY JobExcept, ZenonT(30)
  <2>2. JobOf(k4.cmd, k4.sel, k4.done, k4.snap, k4.data, k4.seen, flag) = k5
    BY <1>5, <1>6 DEF JobOf
  <2>3. QED
    BY <2>1, <2>2, Zenon
<1>12. /\ [k1 EXCEPT !.cmd = c] = JobOf(c, S, {}, EmptyDoc, EmptyDoc, {}, {})
       /\ [k2 EXCEPT !.cmd = c] = JobOf(c, S, {}, EmptyDoc, EmptyDoc, {}, flag)
       /\ [k5 EXCEPT !.cmd = c] = JobOf(c, S, {}, d, data, {}, flag)
  <2>1. /\ [k1 EXCEPT !.cmd = c] = JobOf(c, k1.sel, k1.done, k1.snap, k1.data, k1.seen, k1.flag)
        /\ [k2 EXCEPT !.cmd = c] = JobOf(c, k2.sel, k2.done, k2.snap, k2.data, k2.seen, k2.flag)
        /\ [k5 EXCEPT !.cmd = c] = JobOf(c, k5.sel, k5.done, k5.snap, k5.data, k5.seen, k5.flag)
    BY JobExcept, Zenon
  <2>2. /\ JobOf(c, k1.sel, k1.done, k1.snap, k1.data, k1.seen, k1.flag)
             = JobOf(c, S, {}, EmptyDoc, EmptyDoc, {}, {})
        /\ JobOf(c, k2.sel, k2.done, k2.snap, k2.data, k2.seen, k2.flag)
             = JobOf(c, S, {}, EmptyDoc, EmptyDoc, {}, flag)
        /\ JobOf(c, k5.sel, k5.done, k5.snap, k5.data, k5.seen, k5.flag)
             = JobOf(c, S, {}, d, data, {}, flag)
    BY <1>2, <1>3, <1>6 DEF JobOf
  <2>3. QED
    BY <2>1, <2>2, Zenon
<1>13. /\ [[NoJob EXCEPT !.sel = S] EXCEPT !.cmd = c]
              = JobOf(c, S, {}, EmptyDoc, EmptyDoc, {}, {})
       /\ [[NoJob EXCEPT !.sel = S, !.flag = flag] EXCEPT !.cmd = c]
              = JobOf(c, S, {}, EmptyDoc, EmptyDoc, {}, flag)
       /\ [[NoJob EXCEPT !.sel = S, !.snap = d, !.data = data, !.flag = flag] EXCEPT !.cmd = c]
              = JobOf(c, S, {}, d, data, {}, flag)
  BY <1>7, <1>8, <1>9, <1>10, <1>11, <1>12, Zenon
<1>14. \/ job' = [job EXCEPT ![p] = JobOf(c, S, {}, EmptyDoc, EmptyDoc, {}, {})]
       \/ job' = [job EXCEPT ![p] = JobOf(c, S, {}, EmptyDoc, EmptyDoc, {}, flag)]
       \/ job' = [job EXCEPT ![p] = JobOf(c, S, {}, d, data, {}, flag)]
  <2>1. CASE Begin(p, c, l, [NoJob EXCEPT !.sel = S])
    BY <1>13, <2>1, Zenon DEF Begin
  <2>2. CASE Begin(p, c, l, [NoJob EXCEPT !.sel = S, !.flag = flag])
    BY <1>13, <2>2, Zenon DEF Begin
  <2>3. CASE Begin(p, c, l, [NoJob EXCEPT !.sel = S, !.snap = d, !.data = data, !.flag = flag])
    BY <1>13, <2>3, Zenon DEF Begin
  <2>4. QED
    BY <2>1, <2>2, <2>3
<1>15. /\ pc[p] = "idle" /\ c \in Can[p] /\ Goto(p, l) /\ UNCHANGED faults
       /\ left[p] > 0 /\ left' = [left EXCEPT ![p] = @ - 1]
  BY Zenon DEF Begin
<1>16. EmptyDoc \in Doc /\ EmptyDoc \in [Ids -> Data]
  BY DEF EmptyDoc, Doc, Data
<1>17. \E e \in Doc, f \in [Ids -> Data], g \in SUBSET Flags :
         job' = [job EXCEPT ![p] = JobOf(c, S, {}, e, f, {}, g)]
  BY <1>14, <1>16
<1>18. QED
  BY <1>15, <1>17 DEF Begins

\* Every command begins in that way.
LEMMA BeginIs ==
    ASSUME RootTyped, NEW p \in Procs, BeginCommand(p)
    PROVE  \E c \in Commands, S \in SUBSET Ids : Begins(p, c, S) /\ BeginsWell(p, c, S)
<1>1. ASSUME CreateCommand(p)
      PROVE  \E S \in SUBSET Ids : Begins(p, "create", S) /\ BeginsWell(p, "create", S)
  <2>1. PICK i \in Ids :
          /\ doc[i] = Absent /\ \A q \in Procs : i \notin job[q].sel
          /\ Begin(p, "create", "make_data_dir", [NoJob EXCEPT !.sel = {i}])
          /\ dir' = [dir EXCEPT ![i] = "bare"]
          /\ UNCHANGED <<meta, hidden, run, lock>>
    BY <1>1, Zenon DEF CreateCommand, StartCreate
  <2>2. MayRun("create") /\ UNCHANGED <<doc, run, hidden, lock, staged>>
    BY <1>1, <2>1 DEF CreateCommand, meta, destination
  <2>3. Begins(p, "create", {i})
    <3>1. "create" = "create" /\ "make_data_dir" = First("create") /\ "create" \in Commands
      BY DEF First, Commands
    <3>2. {} \in SUBSET Flags /\ EmptyDoc \in Doc
          /\ EmptyDoc \in [Ids -> Data] /\ {i} \in SUBSET Ids
      BY DEF EmptyDoc, Doc, Data
    <3>3. QED
      BY <2>1, <2>2, <3>1, <3>2, BeginsIs, Zenon
  <2>4. BeginsWell(p, "create", {i})
    BY <2>1 DEF BeginsWell, RootTyped
  <2>5. QED
    BY <2>3, <2>4
<1>2. ASSUME DeleteCommand(p)
      PROVE  \E S \in SUBSET Ids : Begins(p, "delete", S) /\ BeginsWell(p, "delete", S)
  <2>1. PICK i \in Ids :
          /\ LookUp /\ doc[i] # Absent
          /\ Begin(p, "delete", "move", [NoJob EXCEPT !.sel = {i}])
          /\ UNCHANGED <<dirs, run, lock>>
    BY <1>2, Zenon DEF DeleteCommand, StartDelete
  <2>2. MayRun("delete") /\ UNCHANGED <<doc, run, dir, hidden, lock, staged>>
    BY <1>2, <2>1 DEF DeleteCommand, LookUp, Commit, meta, dirs, destination
  <2>3. Begins(p, "delete", {i})
    <3>1. "move" = First("delete") /\ "delete" \in Commands
      BY DEF First, Commands
    <3>2. {} \in SUBSET Flags /\ EmptyDoc \in Doc
          /\ EmptyDoc \in [Ids -> Data] /\ {i} \in SUBSET Ids
      BY DEF EmptyDoc, Doc, Data
    <3>3. QED
      BY <2>1, <2>2, <3>1, <3>2, BeginsIs, Zenon
  <2>4. BeginsWell(p, "delete", {i})
    BY <2>1, <2>2 DEF BeginsWell, Listed
  <2>5. QED
    BY <2>3, <2>4
<1>3. ASSUME RestoreCommand(p)
      PROVE  \E S \in SUBSET Ids : Begins(p, "restore", S) /\ BeginsWell(p, "restore", S)
  <2>1. PICK S \in Archives, force \in SUBSET {"force"} :
          /\ \A q \in Procs : pc[q] \in Creating => job[q].sel \cap S = {}
          /\ Begin(p, "restore", "validate", [NoJob EXCEPT !.sel = S, !.flag = force])
          /\ UNCHANGED root
    BY <1>3, Zenon DEF RestoreCommand, StartRestore
  <2>2. MayRun("restore") /\ UNCHANGED <<doc, run, dir, hidden, lock, staged>>
    BY <1>3, <2>1 DEF RestoreCommand, root, destination
  <2>3. Begins(p, "restore", S)
    <3>1. "validate" = First("restore") /\ "restore" \in Commands
      BY DEF First, Commands
    <3>2. force \in SUBSET Flags /\ EmptyDoc \in Doc
          /\ EmptyDoc \in [Ids -> Data] /\ S \in SUBSET Ids
      BY ArchivesAssumption DEF EmptyDoc, Doc, Data, Flags
    <3>3. QED
      BY <2>1, <2>2, <3>1, <3>2, BeginsIs, Zenon
  <2>4. BeginsWell(p, "restore", S)
    BY <2>1, <2>2 DEF BeginsWell
  <2>5. S \in SUBSET Ids
    BY ArchivesAssumption
  <2>6. QED
    BY <2>3, <2>4, <2>5
<1>4. ASSUME BackupCommand(p)
      PROVE  \E S \in SUBSET Ids : Begins(p, "backup", S) /\ BeginsWell(p, "backup", S)
  <2>1. PICK S \in (SUBSET Listed(doc)) \ {{}}, force \in SUBSET {"force"} :
          /\ LookUp
          /\ Begin(p, "backup", "check_stopped", [NoJob EXCEPT !.sel = S, !.flag = force])
          /\ UNCHANGED <<dirs, run, lock>>
    BY <1>4, Zenon DEF BackupCommand, StartBackup
  <2>2. MayRun("backup") /\ UNCHANGED <<doc, run, dir, hidden, lock, staged>>
    BY <1>4, <2>1 DEF BackupCommand, LookUp, Commit, meta, dirs, destination
  <2>3. S \in SUBSET Ids
    BY DEF Listed
  <2>4. Begins(p, "backup", S)
    <3>1. "check_stopped" = First("backup") /\ "backup" \in Commands
      BY DEF First, Commands
    <3>2. force \in SUBSET Flags /\ EmptyDoc \in Doc
          /\ EmptyDoc \in [Ids -> Data]
      BY DEF EmptyDoc, Doc, Data, Flags
    <3>3. QED
      BY <2>1, <2>2, <2>3, <3>1, <3>2, BeginsIs, Zenon
  <2>5. BeginsWell(p, "backup", S)
    BY <2>1, <2>2 DEF BeginsWell
  <2>6. QED
    BY <2>3, <2>4, <2>5
<1>5. ASSUME DoctorCommand(p)
      PROVE  \E S \in SUBSET Ids : Begins(p, "repair", S) /\ BeginsWell(p, "repair", S)
  <2>1. PICK flags \in SUBSET {"recreate", "reattach"} :
          /\ Begin(p, "repair", "unlink_states", [NoJob EXCEPT !.sel = Stale, !.flag = flags])
          /\ UNCHANGED root
    BY <1>5, Zenon DEF DoctorCommand, StartRepair
  <2>2. MayRun("repair") /\ UNCHANGED <<doc, run, dir, hidden, lock, staged>>
    BY <1>5, <2>1 DEF DoctorCommand, root, destination
  <2>3. Stale \in SUBSET Ids
    BY DEF Stale
  <2>4. Begins(p, "repair", Stale)
    <3>1. "unlink_states" = First("repair") /\ "repair" \in Commands
      BY DEF First, Commands
    <3>2. flags \in SUBSET Flags /\ EmptyDoc \in Doc
          /\ EmptyDoc \in [Ids -> Data]
      BY DEF EmptyDoc, Doc, Data, Flags
    <3>3. QED
      BY <2>1, <2>2, <2>3, <3>1, <3>2, BeginsIs, Zenon
  <2>5. BeginsWell(p, "repair", Stale)
    BY <2>2 DEF BeginsWell
  <2>6. QED
    BY <2>3, <2>4, <2>5
<1>6. ASSUME NEW c \in {"migrate", "move"}, MayRun(c), StartMigrate(p, c), UNCHANGED out
      PROVE  \E S \in SUBSET Ids : Begins(p, c, S) /\ BeginsWell(p, c, S)
  <2>1. /\ Begin(p, c, "lock_destination",
                 [NoJob EXCEPT !.sel = Listed(doc), !.snap = doc, !.data = dir, !.flag = Legacy])
        /\ UNCHANGED <<root, destination>>
    BY <1>6, Zenon DEF StartMigrate
  <2>2. UNCHANGED <<doc, run, dir, hidden, lock, staged>>
    BY <2>1 DEF root, destination
  <2>3. Listed(doc) \in SUBSET Ids /\ Legacy \in SUBSET Flags
    BY DEF Listed, Legacy, Flags
  <2>4. Begins(p, c, Listed(doc))
    <3>1. "lock_destination" = First(c) /\ c \in Commands
      BY DEF First, Commands
    <3>2. doc \in Doc /\ dir \in [Ids -> Data]
      BY DEF RootTyped
    <3>3. QED
      BY <1>6, <2>1, <2>2, <2>3, <3>1, <3>2, BeginsIs, Zenon
  <2>5. BeginsWell(p, c, Listed(doc))
    BY <2>2 DEF BeginsWell
  <2>6. QED
    BY <2>3, <2>4, <2>5
<1>7. QED
  BY <1>1, <1>2, <1>3, <1>4, <1>5, <1>6 DEF BeginCommand, MigrateCommand, Commands

\* A command that begins keeps the root well typed.
LEMMA BeginRoot ==
    ASSUME RootTyped, NEW p \in Procs, BeginCommand(p)
    PROVE  RootTyped'
BY DEF BeginCommand, CreateCommand, DeleteCommand, RestoreCommand, BackupCommand, DoctorCommand,
   MigrateCommand, StartCreate, StartDelete, StartRestore, StartBackup, StartRepair, StartMigrate,
   RootTyped, LookUp, Commit, HiddenData, Data, meta, dirs, root, destination

\* So does a browser that starts,
LEMMA LaunchRoot ==
    ASSUME RootTyped, NEW i \in Ids, Launch(i), UNCHANGED <<out, destination>>
    PROVE  RootTyped'
BY DEF RootTyped, Launch, HiddenData, Data, Kinds, meta, destination

\* ... metadata that is written anew for it,
LEMMA RewriteRoot ==
    ASSUME RootTyped, Rewrite, UNCHANGED <<out, destination>>
    PROVE  RootTyped'
BY DEF RootTyped, Rewrite, Commit, HiddenData, dirs, destination

\* ... one that ends,
LEMMA StopRoot ==
    ASSUME RootTyped, NEW i \in Ids, Stop(i), UNCHANGED <<out, destination>>
    PROVE  RootTyped'
BY DEF RootTyped, Stop, HiddenData, meta, dirs, destination

\* ... and a process that dies.
LEMMA CrashRoot ==
    ASSUME RootTyped, NEW p \in Procs, Crash(p)
    PROVE  RootTyped'
BY DEF RootTyped, Crash, HiddenData, meta, dirs, destination

Visits(i) ==
    job' = [p \in Procs |-> IF pc[p] \in Reads
              THEN JobOf(job[p].cmd, job[p].sel, job[p].done, job[p].snap, job[p].data,
                         job[p].seen \cup {i}, job[p].flag)
              ELSE job[p]]

\* A browser that starts is seen by the commands that read.
LEMMA LaunchVisits ==
    ASSUME JobTyped, NEW i \in Ids, Launch(i)
    PROVE  Visits(i)
<1>1. \A p \in Procs : [job[p] EXCEPT !.seen = job[p].seen \cup {i}]
        = JobOf(job[p].cmd, job[p].sel, job[p].done, job[p].snap, job[p].data,
                job[p].seen \cup {i}, job[p].flag)
  BY JobExcept, Zenon DEF JobTyped
<1>2. job' = [p \in Procs |-> IF pc[p] \in Reads
              THEN [job[p] EXCEPT !.seen = job[p].seen \cup {i}] ELSE job[p]]
  BY Zenon DEF Launch
<1>3. QED
  BY <1>1, <1>2, Zenon DEF Visits

\* Metadata that is written anew has the same entries, and nothing else changes.
LEMMA RewriteIs ==
    ASSUME Rewrite
    PROVE  /\ UNCHANGED <<doc, dir, hidden, run, lock, pc, job, left, faults>>
           /\ form' = "current" /\ bak' = doc /\ lock = Free
BY DEF Rewrite, Commit, dirs, Keep

\* The steps in which a browser starts.
LEMMA StartsIs ==
    ASSUME BrowserStarts
    PROVE  (Loadable /\ Rewrite) \/ \E i \in Ids : Launch(i)
BY DEF BrowserStarts, ResolveLegacy, MarkLaunched, Loadable

-----------------------------------------------------------------------------
(* The control invariant. *)

\* The other processes stay where they are.
Frame(p) == \A q \in Procs \ {p} : pc'[q] = pc[q] /\ job'[q] = job[q]

\* A step of a command meets a fault or not; it does not begin another one.
LEMMA StepKeeps ==
    ASSUME NEW p \in Procs, Step(p)
    PROVE  Keep \/ Fault
<1>1. CASE ProfileStep(p)
  BY <1>1 DEF ProfileStep, MakeDataDir, MakeDataDirFails, AddProfile, AddFails, UndoCreate,
     MoveAway, MoveAwayFails, RemoveProfile, RemoveFails, MoveBack, DiscardDeleted, CommitFails
<1>2. CASE RestoreStep(p)
  BY <1>2 DEF RestoreStep, ValidateArchive, RefuseArchive, LockToRestore, Select, Refuse,
     Stage, StageFails, Quarantine, QuarantineFails, Finalise, FinaliseFails, CommitRestore,
     CommitRestoreFails, DiscardOld, Rollback, RollbackFails, Unquarantine, Cleanup, CommitFails
<1>3. CASE BackupStep(p)
  BY <1>3 DEF BackupStep, CheckStopped, ArchiveProfile, Recheck, VerifyArchive, Publish, BackupFails
<1>4. CASE RepairStep(p)
  BY <1>4 DEF RepairStep, UnlinkStates, Sweep, Inspect, Upgrade, UpgradeFails, ReadBackup,
     RecoverBackup, Reload, Recreate, RecreateFails, FindOrphans, Reattach, ReattachFails,
     CommitFails
<1>5. CASE MigrateStep(p)
  BY <1>5 DEF MigrateStep, LockDestination, Plan, Copy, CopyFails, Verify, MoveIn,
     CommitMigration, UndoMigration, CheckRemoval, MoveOut, RemoveMetadata, RemovalFails,
     UndoRemoval, DiscardRemoved
<1>6. QED
  BY <1>1, <1>2, <1>3, <1>4, <1>5 DEF Step

\* Every step of a command moves as described, and keeps the root well typed.
LEMMA StepIs ==
    ASSUME JobTyped, PcTyped, RootTyped, LeftTyped, NEW p \in Procs, Step(p)
    PROVE  Moves(p) /\ Locks(p) /\ RootTyped' /\ LeftTyped'
<1>. LeftTyped'
  BY StepKeeps DEF Keep, Fault, LeftTyped
<1>1. CASE ProfileStep(p) /\ UNCHANGED <<out, destination>>
  BY <1>1, ProfileStepMoves, ProfileStepLocks, ProfileStepRoot
<1>2. CASE RestoreStep(p) /\ UNCHANGED <<out, destination>>
  BY <1>2, RestoreStepMoves, RestoreStepLocks, RestoreStepRoot
<1>3. CASE BackupStep(p) /\ UNCHANGED destination
  BY <1>3, BackupStepMoves, BackupStepLocks, BackupStepRoot
<1>4. CASE RepairStep(p) /\ UNCHANGED <<out, destination>>
  BY <1>4, RepairStepMoves, RepairStepLocks, RepairStepRoot
<1>5. CASE MigrateStep(p) /\ UNCHANGED out
  BY <1>5, MigrateStepMoves, MigrateStepLocks, MigrateStepRoot
<1>6. QED
  BY <1>1, <1>2, <1>3, <1>4, <1>5 DEF Step

\* What a process knows after a step of its own.
Knowing(p) ==
    \/ pc'[p] \in {"idle", "down"} /\ job'[p] = NoJob
    \/ /\ pc'[p] \notin {"idle", "down"} /\ job'[p] \in Job
       /\ job'[p].cmd = job[p].cmd /\ job'[p].seen = job[p].seen
       /\ pc[p] \notin Repairs \cup Removing => job'[p].sel \subseteq job[p].sel
       /\ pc[p] \notin Repairs \cup {"select"} => job'[p].snap = job[p].snap
       /\ \/ \E F \in Families : pc[p] \in F /\ pc'[p] \in F
          \/ pc[p] = "commit_migration" /\ pc'[p] = "check_removal" /\ job[p].cmd = "move"

\* What such a move says of where the processes are and what they know.
LEMMA MovesIs ==
    ASSUME JobTyped, PcTyped, NEW p \in Procs, Moves(p)
    PROVE  /\ Frame(p) /\ Knowing(p)
           /\ JobTyped' /\ pc' \in [Procs -> Points]
           /\ pc'[p] \in Points
<1>1. NoJob \in Job
  BY FirstJob
<1>2. CASE Return(p)
  BY <1>1, <1>2 DEF Return, Goto, Frame, Knowing, JobTyped, PcTyped, Points
<1>3. ASSUME NEW F \in Families, Within(p, F), UNCHANGED job \/ Learns(p)
      PROVE  Frame(p) /\ Knowing(p) /\ JobTyped' /\ pc' \in [Procs -> Points] /\ pc'[p] \in Points
  <2>1. F \subseteq Points \ {"idle", "down"}
    BY <1>3 DEF Families, Points, Creating, Deleting, Restoring, RestoreLocked, BackingUp,
       Repairs, Migrating, MigrateLocked, Removing
  <2>2. /\ pc' \in [Procs -> Points] /\ pc[p] \in F /\ pc'[p] \in F
        /\ \A q \in Procs \ {p} : pc'[q] = pc[q]
    BY <1>3, <2>1 DEF Within, Goto, PcTyped
  <2>3. CASE UNCHANGED job
    BY <2>1, <2>2, <2>3, <1>3 DEF Frame, Knowing, JobTyped
  <2>4. CASE Learns(p)
    <3>1. PICK sel \in SUBSET Ids, done \in SUBSET Ids, snap \in Doc :
            /\ Knows(p, sel, done, snap)
            /\ pc[p] \notin Repairs \cup Removing => sel \subseteq job[p].sel
            /\ pc[p] \notin Repairs \cup {"select"} => snap = job[p].snap
      BY <2>4 DEF Learns
    <3>2. /\ \A q \in Procs \ {p} : job'[q] = job[q]
          /\ job'[p] = JobOf(job[p].cmd, sel, done, snap, job[p].data, job[p].seen, job[p].flag)
          /\ job' \in [Procs -> Job]
      BY <3>1 DEF Knows, JobTyped, JobOf, Job
    <3>3. job'[p].cmd = job[p].cmd /\ job'[p].seen = job[p].seen /\ job'[p].sel = sel
          /\ job'[p].snap = snap
      BY <3>2, JobFields
    <3>4. QED
      BY <2>1, <2>2, <3>1, <3>2, <3>3 DEF Frame, Knowing, JobTyped
  <2>5. QED
    BY <1>3, <2>3, <2>4
<1>4. CASE /\ pc[p] = "commit_migration" /\ job[p].cmd = "move" /\ Goto(p, "check_removal")
           /\ UNCHANGED job
  BY <1>4 DEF Goto, Frame, Knowing, JobTyped, PcTyped, Points, Removing, Repairs
<1>5. QED
  BY <1>2, <1>3, <1>4 DEF Moves

\* ... of the lock,
LEMMA LocksIs ==
    ASSUME PcTyped, pc' \in [Procs -> Points], NEW p \in Procs, Frame(p), Locks(p)
    PROVE  PcTyped'
BY RootAssumption DEF PcTyped, Frame, Locks, Acquire, Release, RootAssumption

\* ... and of who may run.
LEMMA KnowingIs ==
    ASSUME Control, NEW p \in Procs, Frame(p), Knowing(p)
    PROVE  Commanded' /\ Apartness'
<1>1. NoJob.cmd = "none"
  BY DEF NoJob
<1>2. \A q \in Procs : job'[q].cmd = job[q].cmd \/ job'[q].cmd = "none"
  BY <1>1 DEF Frame, Knowing
<1>3. Apartness'
  BY <1>2 DEF Apartness, Control
<1>4. Commanded'
  BY <1>1 DEF Commanded, Control, Frame, Knowing, Families, Creating, Deleting, Restoring,
     RestoreLocked, BackingUp, Repairs, Migrating, MigrateLocked, Removing
<1>5. QED
  BY <1>3, <1>4

\* A command that begins keeps the control invariant, but for the root.
LEMMA BeginControl ==
    ASSUME Control, NEW p \in Procs, NEW c \in Commands, NEW S \in SUBSET Ids, Begins(p, c, S)
    PROVE  /\ Frame(p) /\ JobTyped' /\ PcTyped' /\ LeftTyped' /\ Commanded' /\ Apartness'
           /\ pc'[p] = First(c)
           /\ job'[p].cmd = c /\ job'[p].sel = S /\ job'[p].seen = {} /\ job'[p].done = {}
<1>1. PICK d \in Doc, data \in [Ids -> Data], flag \in SUBSET Flags :
         job' = [job EXCEPT ![p] = JobOf(c, S, {}, d, data, {}, flag)]
  BY DEF Begins
<1>2. JobOf(c, S, {}, d, data, {}, flag) \in Job
  BY DEF JobOf, Job, Flags
<1>3. job' \in [Procs -> Job] /\ job'[p] = JobOf(c, S, {}, d, data, {}, flag)
      /\ \A q \in Procs \ {p} : job'[q] = job[q]
  BY <1>1, <1>2 DEF Control, JobTyped
<1>4. job'[p].cmd = c /\ job'[p].sel = S /\ job'[p].seen = {} /\ job'[p].done = {}
  BY <1>3, JobFields
<1>5. First(c) \in Points \ ({"idle", "down"} \cup RestoreLocked)
  BY DEF First, Commands, Points, Creating, Deleting, Restoring, RestoreLocked, BackingUp,
     Repairs, Migrating, MigrateLocked
<1>6. pc' \in [Procs -> Points] /\ pc'[p] = First(c) /\ \A q \in Procs \ {p} : pc'[q] = pc[q]
  BY <1>5 DEF Begins, Goto, Control, PcTyped
<1>7. PcTyped'
  <2>1. UNCHANGED lock /\ pc[p] \notin RestoreLocked
    BY DEF Begins, RestoreLocked
  <2>2. \A q \in Procs : pc'[q] \in RestoreLocked <=> pc[q] \in RestoreLocked
    BY <1>5, <1>6, <2>1
  <2>3. QED
    BY <1>6, <2>1, <2>2 DEF Control, PcTyped
<1>8. Apartness'
  BY <1>3, <1>4 DEF Apartness, Control, Begins, MayRun
<1>9. Commanded'
  <2>1. c # "none" /\ c \in Can[p]
    BY DEF Begins, Commands
  <2>2. /\ First(c) \in Creating => c = "create"
        /\ First(c) \in Deleting => c = "delete"
        /\ First(c) \in Restoring => c = "restore"
        /\ First(c) \in BackingUp => c = "backup"
        /\ First(c) \in Repairs => c = "repair"
        /\ First(c) \in Migrating => c \in {"migrate", "move"}
        /\ First(c) \notin Removing
    BY DEF First, Commands, Creating, Deleting, Restoring, RestoreLocked, BackingUp, Repairs,
       Migrating, MigrateLocked, Removing
  <2>3. QED
    BY <1>3, <1>4, <1>5, <1>6, <2>1, <2>2 DEF Commanded, Control
<1>10. LeftTyped'
  BY RootAssumption DEF Begins, Control, LeftTyped, RootAssumption
<1>11. QED
  BY <1>3, <1>4, <1>6, <1>7, <1>8, <1>9, <1>10 DEF Frame, JobTyped

\* A process that dies runs nothing and holds no lock.
LEMMA CrashControl ==
    ASSUME Control, NEW p \in Procs, Crash(p)
    PROVE  Frame(p) /\ Knowing(p) /\ JobTyped' /\ PcTyped' /\ RootTyped' /\ LeftTyped'
<1>1. NoJob \in Job
  BY FirstJob
<1>2. pc' = [pc EXCEPT ![p] = "down"] /\ job' = [job EXCEPT ![p] = NoJob] /\ Release(p)
  BY DEF Crash, Goto
<1>3. Frame(p) /\ Knowing(p) /\ JobTyped'
  BY <1>1, <1>2 DEF Control, Frame, Knowing, JobTyped, PcTyped
<1>4. PcTyped'
  BY <1>2, RootAssumption DEF Control, PcTyped, Release, RootAssumption, Points, RestoreLocked
<1>5. LeftTyped'
  BY DEF Crash, Keep, Control, LeftTyped
<1>6. QED
  BY <1>3, <1>4, <1>5, CrashRoot DEF Control

\* A browser that is launched changes only what the readers have seen.
LEMMA LaunchControl ==
    ASSUME Control, NEW i \in Ids, Launch(i), UNCHANGED <<out, destination>>
    PROVE  /\ JobTyped' /\ PcTyped' /\ RootTyped' /\ LeftTyped' /\ Commanded' /\ Apartness'
           /\ UNCHANGED pc
           /\ \A p \in Procs : /\ job'[p].cmd = job[p].cmd /\ job'[p].sel = job[p].sel
                               /\ job'[p].done = job[p].done /\ job'[p].snap = job[p].snap
                               /\ pc[p] \notin Reads => job'[p].seen = job[p].seen
                               /\ job'[p].seen \subseteq job[p].seen \cup {i}
<1>1. Visits(i) /\ UNCHANGED <<pc, lock>>
  BY LaunchVisits DEF Control, Launch
<1>2. \A p \in Procs : job[p] \in Job
  BY DEF Control, JobTyped
<1>3. ASSUME NEW p \in Procs, NEW j,
             j = JobOf(job[p].cmd, job[p].sel, job[p].done, job[p].snap, job[p].data,
                       job[p].seen \cup {i}, job[p].flag)
      PROVE  /\ j \in Job /\ j.cmd = job[p].cmd /\ j.sel = job[p].sel /\ j.done = job[p].done
             /\ j.snap = job[p].snap /\ j.seen = job[p].seen \cup {i}
  BY <1>2, <1>3 DEF JobOf, Job
<1>4. /\ JobTyped'
      /\ \A p \in Procs : /\ job'[p].cmd = job[p].cmd /\ job'[p].sel = job[p].sel
                          /\ job'[p].done = job[p].done /\ job'[p].snap = job[p].snap
                          /\ pc[p] \notin Reads => job'[p].seen = job[p].seen
                          /\ job'[p].seen \subseteq job[p].seen \cup {i}
  BY <1>1, <1>2, <1>3 DEF Visits, JobTyped
<1>5. PcTyped' /\ RootTyped'
  BY <1>1, LaunchRoot DEF Control, PcTyped
<1>6. Commanded' /\ Apartness'
  BY <1>1, <1>4 DEF Control, Commanded, Apartness
<1>7. LeftTyped'
  BY DEF Launch, Keep, Control, LeftTyped
<1>8. QED
  BY <1>1, <1>4, <1>5, <1>6, <1>7

\* The control invariant holds at first,
LEMMA ControlInit == Init => Control
<1>1. NoJob \in Job /\ NoJob.cmd = "none"
  BY FirstJob DEF NoJob
<1>2. ASSUME Init PROVE Control
  <2>1. RootTyped
    BY <1>2 DEF Init, RootInit, BackupInit, MigrationInit, RootTyped, Doc, EmptyDoc, Origins,
       Data, Kinds, HiddenData
  <2>2. JobTyped /\ PcTyped /\ LeftTyped /\ Commanded /\ Apartness
    BY <1>1, <1>2, RootAssumption DEF Init, RootInit, JobTyped, PcTyped, LeftTyped, Commanded, Apartness,
       RootAssumption, Points, Creating, Deleting, Restoring, RestoreLocked, BackingUp, Repairs,
       Migrating, MigrateLocked, Removing
  <2>3. QED
    BY <2>1, <2>2 DEF Control
<1>3. QED
  BY <1>2

\* ... and every step keeps it.
LEMMA ControlNext == Control /\ [Next]_allVars => Control'
<1>1. ASSUME Control, NEW p \in Procs, BeginCommand(p) PROVE Control'
  <2>1. PICK c \in Commands, S \in SUBSET Ids : Begins(p, c, S)
    BY <1>1, BeginIs DEF Control
  <2>2. QED
    BY <1>1, <2>1, BeginControl, BeginRoot DEF Control
<1>2. ASSUME Control, NEW p \in Procs, Step(p) PROVE Control'
  <2>1. Moves(p) /\ Locks(p) /\ RootTyped' /\ LeftTyped'
    BY <1>2, StepIs DEF Control
  <2>2. Frame(p) /\ Knowing(p) /\ JobTyped' /\ pc' \in [Procs -> Points]
    BY <1>2, <2>1, MovesIs DEF Control
  <2>3. PcTyped'
    BY <1>2, <2>1, <2>2, LocksIs DEF Control
  <2>4. QED
    BY <1>2, <2>1, <2>2, <2>3, KnowingIs DEF Control
<1>3. ASSUME Control, NEW p \in Procs, Crash(p) PROVE Control'
  BY <1>3, CrashControl, KnowingIs DEF Control
<1>4. ASSUME Control, BrowserStarts, UNCHANGED <<out, destination>> PROVE Control'
  <2>1. CASE \E i \in Ids : Launch(i)
    BY <1>4, <2>1, LaunchControl DEF Control
  <2>2. CASE Rewrite
    <3>1. UNCHANGED <<lock, pc, job, left>>
      BY <2>2, RewriteIs
    <3>2. RootTyped'
      BY <1>4, <2>2, RewriteRoot DEF Control
    <3>3. QED
      BY <1>4, <3>1, <3>2 DEF Control, JobTyped, PcTyped, LeftTyped, Commanded, Apartness
  <2>3. QED
    BY <1>4, <2>1, <2>2, StartsIs
<1>5. ASSUME Control, BrowserEnds, UNCHANGED <<out, destination>> PROVE Control'
  <2>1. PICK i \in Ids : Stop(i)
    BY <1>5 DEF BrowserEnds
  <2>2. UNCHANGED <<lock, pc, job, left>>
    BY <2>1 DEF Stop, Keep
  <2>3. RootTyped'
    BY <1>5, <2>1, StopRoot DEF Control
  <2>4. QED
    BY <1>5, <2>2, <2>3 DEF Control, JobTyped, PcTyped, LeftTyped, Commanded, Apartness
<1>6. ASSUME Control, UNCHANGED allVars PROVE Control'
  BY <1>6 DEF Control, JobTyped, PcTyped, RootTyped, HiddenData, LeftTyped, Commanded, Apartness, allVars,
     rootVars, destination
<1>7. QED
  BY <1>1, <1>2, <1>3, <1>4, <1>5, <1>6 DEF Next

\* Where every process is, what it knows and who holds the lock, at all times, for
\* any number of processes, commands, faults and crashes at any point.
THEOREM Controlled == Spec => []Control
<1>1. QED
  BY ControlInit, ControlNext, PTL DEF Spec

\* The type invariant: in particular the metadata lock is held exactly at the locked
\* points of restore.
THEOREM TypeCorrect == Spec => []TypeOK
<1>1. Control => TypeOK
  BY DEF Control, TypeOK, JobTyped, PcTyped, RootTyped
<1>2. QED
  BY <1>1, Controlled, PTL

-----------------------------------------------------------------------------
(* What the commands do to each other. *)

\* Nobody runs anything during a repair or a removal, nor a delete during a restore.
LEMMA Alone ==
    ASSUME Control, Considerate, NEW p \in Procs, NEW q \in Procs, p # q
    PROVE  /\ pc[p] \in Repairs \cup Removing => pc[q] \in {"idle", "down"}
           /\ pc[p] \in Restoring => pc[q] \notin Deleting
<1>1. job[p].cmd \in Commands \cup {"none"} /\ job[q].cmd \in Commands \cup {"none"}
  BY DEF Control, JobTyped, Job
<1>2. ASSUME NEW c \in Commands, NEW d \in Commands, NeverWith(c, d), job[p].cmd = c,
             job[q].cmd = d
      PROVE  FALSE
  <2>1. c # "none" /\ d # "none"
    BY DEF Commands
  <2>2. <<c, d>> \notin Apart /\ <<d, c>> \notin Apart
    BY <1>2, <2>1 DEF Control, Apartness
  <2>3. c \in Can[p] /\ d \in Can[q]
    BY <1>2, <2>1 DEF Control, Commanded
  <2>4. QED
    BY <1>2, <2>2, <2>3 DEF NeverWith
<1>3. ASSUME pc[p] \in Repairs \cup Removing PROVE pc[q] \in {"idle", "down"}
  <2>1. job[p].cmd \in {"repair", "move"} /\ job[p].cmd \in Commands
    BY <1>3 DEF Control, Commanded, Commands
  <2>2. ASSUME job[q].cmd \in Commands PROVE FALSE
    <3>1. NeverWith(job[p].cmd, job[q].cmd)
      BY <2>1, <2>2 DEF Considerate
    <3>2. QED
      BY <1>2, <2>1, <2>2, <3>1
  <2>3. job[q].cmd = "none"
    BY <1>1, <2>2
  <2>4. QED
    BY <2>3 DEF Control, Commanded
<1>4. ASSUME pc[p] \in Restoring, pc[q] \in Deleting PROVE FALSE
  <2>1. /\ job[p].cmd = "restore" /\ job[q].cmd = "delete"
        /\ "restore" \in Commands /\ "delete" \in Commands
    BY <1>4 DEF Control, Commanded, Commands
  <2>2. QED
    BY <1>2, <2>1 DEF Considerate
<1>5. QED
  BY <1>3, <1>4

\* No backup runs during a restore, if the two are kept apart.
LEMMA NeverBoth ==
    ASSUME Control, NeverWith("restore", "backup"), NEW p \in Procs, NEW q \in Procs, p # q,
           pc[p] \in Restoring
    PROVE  pc[q] \notin BackingUp
<1>1. SUFFICES ASSUME pc[q] \in BackingUp PROVE FALSE
  OBVIOUS
<1>2. job[p].cmd = "restore" /\ job[q].cmd = "backup"
  BY <1>1 DEF Control, Commanded
<1>3. QED
  BY <1>2 DEF Control, Apartness, Commanded, NeverWith

\* Who changes the list of profiles, and who clears a runtime state.
LEMMA DocChanges ==
    ASSUME NEW p \in Procs, Step(p)
    PROVE  \/ UNCHANGED doc
           \/ AddProfile(p) \/ RemoveProfile(p) \/ CommitRestore(p)
           \/ pc[p] \in Repairs \cup Removing
<1>1. CASE ProfileStep(p)
  BY <1>1 DEF ProfileStep, MakeDataDir, MakeDataDirFails, AddFails, UndoCreate, MoveAway,
     MoveAwayFails, RemoveFails, MoveBack, DiscardDeleted, CommitFails, root, meta
<1>2. CASE RestoreStep(p)
  BY <1>2 DEF RestoreStep, ValidateArchive, RefuseArchive, LockToRestore, Select, Refuse, Stage,
     StageFails, Quarantine, QuarantineFails, Finalise, FinaliseFails, CommitRestoreFails,
     DiscardOld, Rollback, RollbackFails, Unquarantine, Cleanup, CommitFails, root, meta
<1>3. CASE BackupStep(p)
  BY <1>3 DEF BackupStep, CheckStopped, ArchiveProfile, Recheck, VerifyArchive, Publish, BackupFails, root
<1>4. CASE RepairStep(p)
  BY <1>4 DEF RepairStep, UnlinkStates, Sweep, Inspect, Upgrade, UpgradeFails, ReadBackup,
     RecoverBackup, Reload, Recreate, RecreateFails, FindOrphans, Reattach, ReattachFails, Repairs
<1>5. CASE MigrateStep(p)
  BY <1>5 DEF MigrateStep, LockDestination, Plan, Copy, CopyFails, Verify, MoveIn,
     CommitMigration, UndoMigration, CheckRemoval, MoveOut, RemoveMetadata, RemovalFails,
     UndoRemoval, DiscardRemoved, MoveProfileOut, MoveRuntimeOut, Removing, root, meta
<1>6. QED
  BY <1>1, <1>2, <1>3, <1>4, <1>5 DEF Step

\* Who clears a runtime state.
LEMMA RunChanges ==
    ASSUME NEW p \in Procs, Step(p)
    PROVE  UNCHANGED run \/ DiscardDeleted(p) \/ pc[p] \in Repairs \cup Removing
<1>1. CASE ProfileStep(p)
  BY <1>1 DEF ProfileStep, MakeDataDir, MakeDataDirFails, AddProfile, AddFails, UndoCreate,
     MoveAway, MoveAwayFails, RemoveProfile, RemoveFails, MoveBack, root
<1>2. CASE RestoreStep(p)
  BY <1>2 DEF RestoreStep, ValidateArchive, RefuseArchive, LockToRestore, Select, Refuse, Stage,
     StageFails, Quarantine, QuarantineFails, Finalise, FinaliseFails, CommitRestore,
     CommitRestoreFails, DiscardOld, Rollback, RollbackFails, Unquarantine, Cleanup, root
<1>3. CASE BackupStep(p)
  BY <1>3 DEF BackupStep, CheckStopped, ArchiveProfile, Recheck, VerifyArchive, Publish, BackupFails, root
<1>4. CASE RepairStep(p)
  BY <1>4 DEF RepairStep, UnlinkStates, Sweep, Inspect, Upgrade, UpgradeFails, ReadBackup,
     RecoverBackup, Reload, Recreate, RecreateFails, FindOrphans, Reattach, ReattachFails, Repairs
<1>5. CASE MigrateStep(p)
  BY <1>5 DEF MigrateStep, LockDestination, Plan, Copy, CopyFails, Verify, MoveIn,
     CommitMigration, UndoMigration, CheckRemoval, MoveOut, RemoveMetadata, RemovalFails,
     UndoRemoval, DiscardRemoved, MoveProfileOut, MoveRuntimeOut, Removing, root, meta
<1>6. QED
  BY <1>1, <1>2, <1>3, <1>4, <1>5 DEF Step

\* Where a process is tells whose step it takes.
LEMMA StepFrom ==
    ASSUME NEW p \in Procs, Step(p)
    PROVE  \/ ProfileStep(p) /\ pc[p] \in Creating \cup Deleting
           \/ RestoreStep(p) /\ pc[p] \in Restoring
           \/ BackupStep(p) /\ pc[p] \in BackingUp
           \/ RepairStep(p) /\ pc[p] \in Repairs
           \/ MigrateStep(p) /\ pc[p] \in Migrating \cup Removing
<1>1. CASE ProfileStep(p)
  BY <1>1 DEF ProfileStep, MakeDataDir, MakeDataDirFails, AddProfile, AddFails, UndoCreate,
     MoveAway, MoveAwayFails, RemoveProfile, RemoveFails, MoveBack, DiscardDeleted, Creating,
     Deleting
<1>2. CASE RestoreStep(p)
  BY <1>2 DEF RestoreStep, ValidateArchive, RefuseArchive, LockToRestore, Select, Refuse, Stage,
     StageFails, Quarantine, QuarantineFails, Finalise, FinaliseFails, CommitRestore,
     CommitRestoreFails, DiscardOld, Rollback, RollbackFails, Unquarantine, Cleanup, Restoring,
     RestoreLocked
<1>3. CASE BackupStep(p)
  BY <1>3 DEF BackupStep, CheckStopped, ArchiveProfile, Recheck, VerifyArchive, Publish, BackupFails, BackingUp
<1>4. CASE RepairStep(p)
  BY <1>4 DEF RepairStep, UnlinkStates, Sweep, Inspect, Upgrade, UpgradeFails, ReadBackup,
     RecoverBackup, Reload, Recreate, RecreateFails, FindOrphans, Reattach, ReattachFails, Repairs
<1>5. CASE MigrateStep(p)
  BY <1>5 DEF MigrateStep, LockDestination, Plan, Copy, CopyFails, Verify, MoveIn,
     CommitMigration, UndoMigration, CheckRemoval, MoveOut, RemoveMetadata, RemovalFails,
     UndoRemoval, DiscardRemoved, Removing, Migrating, MigrateLocked
<1>6. QED
  BY <1>1, <1>2, <1>3, <1>4, <1>5 DEF Step

\* A create that goes on has listed nothing yet.
LEMMA CreateStays ==
    ASSUME Control, NEW p \in Procs, Step(p), pc'[p] \in Creating
    PROVE  pc[p] \in Creating /\ UNCHANGED <<job, doc>>
<1>1. Knowing(p)
  BY StepIs, MovesIs DEF Control
<1>2. pc[p] \in Creating
  BY <1>1 DEF Knowing, Families, Creating, Deleting, Restoring, RestoreLocked, BackingUp,
     Repairs, Migrating, MigrateLocked, Removing
<1>3. ProfileStep(p)
  BY <1>2, StepFrom DEF Creating, Restoring, RestoreLocked, BackingUp, Repairs, Migrating,
     MigrateLocked, Removing
<1>4. ~Return(p)
  BY DEF Return, Goto, Control, PcTyped, Creating
<1>5. MakeDataDir(p) \/ MakeDataDirFails(p) \/ AddFails(p)
  BY <1>2, <1>3, <1>4 DEF ProfileStep, AddProfile, UndoCreate, MoveAway, MoveAwayFails,
     RemoveProfile, RemoveFails, MoveBack, DiscardDeleted, Creating
<1>6. QED
  BY <1>2, <1>5 DEF MakeDataDir, MakeDataDirFails, AddFails, CommitFails, root, meta

\* The snapshot of a restore is taken under the lock, and a delete that discards has removed.
LEMMA DiscardFrom ==
    ASSUME Control, NEW p \in Procs, Step(p), pc'[p] = "discard"
    PROVE  RemoveProfile(p)
<1>1. Knowing(p)
  BY StepIs, MovesIs DEF Control
<1>2. pc[p] \in Deleting
  BY <1>1 DEF Knowing, Families, Creating, Deleting, Restoring, RestoreLocked, BackingUp,
     Repairs, Migrating, MigrateLocked, Removing
<1>3. ProfileStep(p)
  BY <1>2, StepFrom DEF Deleting, Restoring, RestoreLocked, BackingUp, Repairs, Migrating,
     MigrateLocked, Removing
<1>4. ~Return(p)
  BY DEF Return, Goto, Control, PcTyped
<1>5. QED
  BY <1>2, <1>3, <1>4 DEF ProfileStep, MakeDataDir, MakeDataDirFails, AddProfile, AddFails,
     UndoCreate, MoveAway, MoveAwayFails, RemoveFails, MoveBack, DiscardDeleted, Deleting, Goto,
     Control, PcTyped

\* The snapshot of a restore is taken under the lock.
LEMMA SnapFrom ==
    ASSUME Control, NEW p \in Procs, Step(p), pc'[p] \in Snapped
    PROVE  /\ UNCHANGED doc
           /\ \/ job'[p].snap = doc
              \/ pc[p] \in Snapped /\ job'[p].snap = job[p].snap
<1>1. Knowing(p)
  BY StepIs, MovesIs DEF Control
<1>2. pc[p] \in Restoring
  BY <1>1 DEF Knowing, Families, Snapped, Creating, Deleting, Restoring, RestoreLocked,
     BackingUp, Repairs, Migrating, MigrateLocked, Removing
<1>3. RestoreStep(p)
  BY <1>2, StepFrom DEF Creating, Deleting, Restoring, RestoreLocked, BackingUp, Repairs,
     Migrating, MigrateLocked, Removing
<1>4. ~Return(p)
  BY DEF Return, Goto, Control, PcTyped, Snapped
<1>5. CASE Select(p)
  <2>1. Knows(p, {i \in job[p].sel : ~Skipped(p, i)}, job[p].done, doc)
    BY <1>5, RestoreJobs DEF Control
  <2>2. job'[p].snap = doc
    BY <2>1, JobFields DEF Knows, Control, JobTyped
  <2>3. QED
    BY <1>5, <2>2 DEF Select, root
<1>6. CASE ~Select(p)
  <2>1. Stage(p) \/ Quarantine(p) \/ Finalise(p)
    BY <1>2, <1>3, <1>4, <1>6 DEF RestoreStep, ValidateArchive, RefuseArchive, LockToRestore,
       Refuse, StageFails, QuarantineFails, FinaliseFails, CommitRestore, CommitRestoreFails,
       DiscardOld, Rollback, RollbackFails, Unquarantine, Cleanup, Loop, Snapped, Goto, Control,
       PcTyped
  <2>2. pc[p] \in Snapped /\ UNCHANGED doc
    BY <2>1 DEF Stage, Quarantine, Finalise, Snapped, meta
  <2>3. job'[p].snap = job[p].snap
    BY <1>1, <2>1, <2>2 DEF Knowing, Snapped, Repairs
  <2>4. QED
    BY <2>2, <2>3
<1>7. QED
  BY <1>5, <1>6

\* A backup knows what it knew; it is past its check only if no browser runs.
LEMMA BackupFrom ==
    ASSUME Control, NEW p \in Procs, Step(p), pc'[p] \in BackingUp
    PROVE  /\ pc[p] \in BackingUp /\ UNCHANGED <<doc, run>>
           /\ job'[p].seen = job[p].seen /\ job'[p].sel \subseteq job[p].sel
           /\ pc[p] \in {"verify_archive", "publish"} => pc'[p] \in {"verify_archive", "publish"}
           /\ pc'[p] # "check_stopped"
           /\ pc[p] \in {"archive", "recheck"} /\ pc'[p] \in {"verify_archive", "publish"}
                => \A i \in job[p].sel : ~Active(i)
<1>1. Knowing(p)
  BY StepIs, MovesIs DEF Control
<1>2. pc[p] \in BackingUp
  BY <1>1 DEF Knowing, Families, Creating, Deleting, Restoring, RestoreLocked, BackingUp,
     Repairs, Migrating, MigrateLocked, Removing
<1>3. BackupStep(p)
  BY <1>2, StepFrom DEF Creating, Deleting, Restoring, RestoreLocked, BackingUp, Repairs,
     Migrating, MigrateLocked, Removing
<1>4. ~Return(p)
  BY DEF Return, Goto, Control, PcTyped, BackingUp
<1>5. CheckStopped(p) \/ ArchiveProfile(p) \/ Recheck(p) \/ VerifyArchive(p)
  BY <1>3, <1>4 DEF BackupStep, Publish, BackupFails
<1>6. UNCHANGED <<doc, run>>
  BY <1>5 DEF CheckStopped, ArchiveProfile, Recheck, VerifyArchive, root
<1>7. job'[p].seen = job[p].seen /\ job'[p].sel \subseteq job[p].sel
  BY <1>1, <1>2 DEF Knowing, BackingUp, Repairs, Removing
<1>8. /\ pc[p] \in {"verify_archive", "publish"} => pc'[p] \in {"verify_archive", "publish"}
      /\ pc'[p] # "check_stopped"
      /\ pc[p] \in {"archive", "recheck"} /\ pc'[p] \in {"verify_archive", "publish"}
           => \A i \in job[p].sel : ~Active(i)
  BY <1>4, <1>5 DEF CheckStopped, ArchiveProfile, Recheck, VerifyArchive, Goto, Control, PcTyped
<1>9. QED
  BY <1>2, <1>6, <1>7, <1>8

-----------------------------------------------------------------------------
(* New ids, snapshots and removed entries. *)

\* The entry of a profile that nobody but p works on.
LEMMA EntriesStep ==
    ASSUME Control, Considerate, Entries, NEW p \in Procs, Step(p)
    PROVE  Entries'
<1>1. Frame(p) /\ Knowing(p) /\ Control'
  BY StepIs, MovesIs, LocksIs, KnowingIs DEF Control
<1>2. \A q \in Procs : pc[p] \notin Repairs \cup Removing => job'[q].sel \subseteq job[q].sel
  BY <1>1, FirstJob, JobFields DEF Frame, Knowing
<1>3. NewIdFree'
  <2>1. SUFFICES ASSUME NEW r \in Procs, pc'[r] \in Creating, NEW i \in job'[r].sel
                 PROVE  doc'[i] = Absent /\ \A q \in Procs \ {r} : i \notin job'[q].sel
    BY DEF NewIdFree
  <2>2. pc[r] \in Creating /\ job'[r] = job[r] /\ (p = r => UNCHANGED doc)
    BY <1>1, <2>1, CreateStays DEF Frame
  <2>3. pc[p] \notin Repairs \cup Removing
    <3>1. pc[r] \notin {"idle", "down"} \cup Repairs \cup Removing
      BY <2>2 DEF Creating, Repairs, Removing
    <3>2. QED
      BY <2>2, <3>1, Alone
  <2>4. /\ doc[i] = Absent /\ \A q \in Procs \ {r} : i \notin job[q].sel
        /\ i \in Ids
    BY <2>1, <2>2 DEF Entries, NewIdFree, Control, JobTyped, Job
  <2>5. \A q \in Procs \ {r} : i \notin job'[q].sel
    BY <1>2, <2>3, <2>4
  <2>6. doc'[i] = Absent
    <3>1. CASE p = r \/ UNCHANGED doc
      BY <2>2, <2>4, <3>1
    <3>2. CASE p # r /\ AddProfile(p)
      BY <2>4, <3>2 DEF AddProfile, Commit
    <3>3. CASE RemoveProfile(p)
      BY <2>4, <3>3 DEF RemoveProfile, Commit, meta
    <3>4. CASE p # r /\ CommitRestore(p)
      <4>1. job[p].snap = doc
        BY <3>4 DEF Entries, SnapHeld, Snapped, CommitRestore
      <4>2. QED
        BY <2>4, <3>4, <4>1 DEF CommitRestore, Commit
    <3>5. QED
      BY <2>3, <3>1, <3>2, <3>3, <3>4, DocChanges
  <2>7. QED
    BY <2>5, <2>6
<1>4. SnapHeld'
  <2>1. SUFFICES ASSUME NEW r \in Procs, pc'[r] \in Snapped
                 PROVE  job'[r].snap = doc'
    BY DEF SnapHeld, Snapped
  <2>2. CASE r = p
    BY <2>1, <2>2, SnapFrom DEF Entries, SnapHeld, Snapped
  <2>3. CASE r # p
    <3>1. pc[r] \in Snapped /\ job'[r] = job[r] /\ job[r].snap = doc
      BY <1>1, <2>1, <2>3 DEF Frame, Entries, SnapHeld, Snapped
    <3>2. pc[r] \in Restoring /\ lock = r /\ pc[r] \notin {"idle", "down"}
      BY <3>1 DEF Snapped, Restoring, RestoreLocked, Control, PcTyped
    <3>3. lock # Free
      BY <3>2, RootAssumption DEF RootAssumption
    <3>4. UNCHANGED doc
      <4>1. ~AddProfile(p) /\ ~RemoveProfile(p)
        BY <3>3 DEF AddProfile, RemoveProfile
      <4>2. ~CommitRestore(p)
        BY <2>3, <3>2 DEF CommitRestore, Control, PcTyped, RestoreLocked
      <4>3. pc[p] \notin Repairs \cup Removing
        BY <2>3, <3>2, Alone
      <4>4. QED
        BY <4>1, <4>2, <4>3, DocChanges
    <3>5. QED
      BY <3>1, <3>4
  <2>4. QED
    BY <2>2, <2>3
<1>5. DeletedGone'
  <2>1. SUFFICES ASSUME NEW r \in Procs, pc'[r] = "discard", NEW i \in job'[r].sel
                 PROVE  doc'[i] = Absent
    BY DEF DeletedGone
  <2>2. CASE r = p
    <3>1. RemoveProfile(p) /\ UNCHANGED job
      BY <2>1, <2>2, DiscardFrom DEF RemoveProfile
    <3>2. i \in Ids
      BY <2>1, <2>2, <3>1 DEF Control, JobTyped, Job
    <3>3. QED
      BY <2>1, <2>2, <3>1, <3>2 DEF RemoveProfile, Commit, meta
  <2>3. CASE r # p
    <3>1. pc[r] = "discard" /\ job'[r] = job[r] /\ doc[i] = Absent /\ i \in job[r].sel
      BY <1>1, <2>1, <2>3 DEF Frame, Entries, DeletedGone
    <3>2. i \in Ids
      BY <3>1 DEF Control, JobTyped, Job
    <3>3. pc[p] \notin Repairs \cup Removing /\ pc[p] \notin Restoring
      BY <2>3, <3>1, Alone DEF Deleting
    <3>4. ~CommitRestore(p)
      BY <3>3 DEF CommitRestore, Restoring, RestoreLocked
    <3>5. CASE AddProfile(p)
      <4>1. i \notin job[p].sel
        BY <2>3, <3>1, <3>5 DEF Entries, NewIdFree, AddProfile, Creating
      <4>2. QED
        BY <3>1, <3>2, <3>5, <4>1 DEF AddProfile, Commit
    <3>6. CASE RemoveProfile(p)
      BY <3>1, <3>2, <3>6 DEF RemoveProfile, Commit, meta
    <3>7. QED
      BY <3>1, <3>3, <3>4, <3>5, <3>6, DocChanges
  <2>4. QED
    BY <2>2, <2>3
<1>6. QED
  BY <1>3, <1>4, <1>5 DEF Entries

\* A command that begins keeps what the others count on,
LEMMA EntriesBegin ==
    ASSUME Control, Considerate, Entries, NEW p \in Procs, BeginCommand(p)
    PROVE  Entries'
<1>1. PICK c \in Commands, S \in SUBSET Ids : Begins(p, c, S) /\ BeginsWell(p, c, S)
  BY BeginIs DEF Control
<1>2. /\ Frame(p) /\ Control' /\ pc'[p] = First(c)
      /\ job'[p].cmd = c /\ job'[p].sel = S
  BY <1>1, BeginControl, BeginRoot DEF Control
<1>3. UNCHANGED doc
  BY <1>1 DEF Begins
<1>4. First(c) \notin Snapped \cup {"discard"} /\ (First(c) \in Creating => c = "create")
  BY DEF First, Commands, Snapped, Creating
<1>5. SnapHeld' /\ DeletedGone'
  BY <1>2, <1>3, <1>4 DEF Entries, SnapHeld, DeletedGone, Frame, Snapped
<1>6. NewIdFree'
  <2>1. SUFFICES ASSUME NEW r \in Procs, pc'[r] \in Creating, NEW i \in job'[r].sel
                 PROVE  doc'[i] = Absent /\ \A q \in Procs \ {r} : i \notin job'[q].sel
    BY DEF NewIdFree
  <2>2. CASE r = p
    BY <1>1, <1>2, <1>3, <1>4, <2>1, <2>2 DEF BeginsWell, Frame
  <2>3. CASE r # p
    <3>1. pc[r] \in Creating /\ job'[r] = job[r] /\ i \in job[r].sel
      BY <1>2, <2>1, <2>3 DEF Frame
    <3>2. doc[i] = Absent /\ \A q \in Procs \ {r} : i \notin job[q].sel
      BY <3>1 DEF Entries, NewIdFree
    <3>3. c # "repair"
      <4>1. SUFFICES ASSUME c = "repair" PROVE FALSE
        OBVIOUS
      <4>2. job[r].cmd = "create"
        BY <3>1 DEF Control, Commanded
      <4>3. <<"repair", "create">> \notin Apart /\ <<"create", "repair">> \notin Apart
        BY <1>1, <4>1, <4>2 DEF Begins, MayRun
      <4>4. "repair" \in Can[p] /\ "create" \in Can[r]
        BY <1>1, <4>1, <4>2 DEF Begins, Control, Commanded
      <4>5. NeverWith("repair", "create")
        BY DEF Considerate, Commands
      <4>6. QED
        BY <2>3, <4>3, <4>4, <4>5 DEF NeverWith
    <3>4. i \notin S
      BY <1>1, <3>1, <3>2, <3>3 DEF BeginsWell, Listed, Commands
    <3>5. QED
      BY <1>2, <1>3, <3>2, <3>4 DEF Frame
  <2>4. QED
    BY <2>2, <2>3
<1>7. QED
  BY <1>5, <1>6 DEF Entries

\* ... so does a process that dies,
LEMMA EntriesCrash ==
    ASSUME Control, Entries, NEW p \in Procs, Crash(p)
    PROVE  Entries'
<1>1. Frame(p) /\ pc'[p] = "down" /\ job'[p] = NoJob /\ UNCHANGED doc
  BY CrashControl DEF Crash, Goto, Control, PcTyped, JobTyped, meta
<1>2. NoJob.sel = {}
  BY DEF NoJob
<1>3. QED
  BY <1>1, <1>2 DEF Entries, NewIdFree, SnapHeld, Snapped, DeletedGone, Frame, Creating

\* ... a browser that starts,
LEMMA EntriesLaunch ==
    ASSUME Control, Entries, NEW i \in Ids, Launch(i), UNCHANGED <<out, destination>>
    PROVE  Entries'
<1>1. /\ UNCHANGED pc
      /\ \A p \in Procs : job'[p].sel = job[p].sel /\ job'[p].snap = job[p].snap
  BY LaunchControl
<1>2. UNCHANGED doc
  BY DEF Launch, meta
<1>3. QED
  BY <1>1, <1>2 DEF Entries, NewIdFree, SnapHeld, DeletedGone

\* ... and what leaves the entries and the processes alone;
LEMMA EntriesElse ==
    ASSUME Entries, UNCHANGED <<doc, pc, job>>
    PROVE  Entries'
BY DEF Entries, NewIdFree, SnapHeld, DeletedGone

\* and at first nobody counts on anything.
LEMMA EntriesInit ==
    ASSUME Init
    PROVE  Entries
BY DEF Init, RootInit, Entries, NewIdFree, SnapHeld, Snapped, DeletedGone, Creating

-----------------------------------------------------------------------------
(* A visited profile is not published. *)

\* A step of a command keeps the visits known: only a removed entry loses its state.
LEMMA VisitedStep ==
    ASSUME Control, Considerate, NeverWith("restore", "backup"), Entries, Visited,
           NEW p \in Procs, Step(p)
    PROVE  Visited'
<1>1. Frame(p)
  BY StepIs, MovesIs DEF Control
<1>2. SUFFICES ASSUME NEW r \in Procs, NEW i \in job'[r].seen \cap job'[r].sel \cap Listed(doc'),
                      pc'[r] \in BackingUp
               PROVE  /\ pc'[r] \in {"archive", "recheck"} => run'[i] = "live"
                      /\ pc'[r] \notin {"check_stopped", "verify_archive", "publish"}
  BY DEF Visited, Active, BackingUp
<1>3. CASE r = p
  <2>1. /\ pc[p] \in BackingUp /\ UNCHANGED <<doc, run>>
        /\ job'[p].seen = job[p].seen /\ job'[p].sel \subseteq job[p].sel
        /\ pc[p] \in {"verify_archive", "publish"} => pc'[p] \in {"verify_archive", "publish"}
        /\ pc'[p] # "check_stopped"
        /\ pc[p] \in {"archive", "recheck"} /\ pc'[p] \in {"verify_archive", "publish"}
             => \A j \in job[p].sel : ~Active(j)
    BY <1>2, <1>3, BackupFrom
  <2>2. i \in job[p].seen \cap job[p].sel \cap Listed(doc)
    BY <1>2, <1>3, <2>1
  <2>3. /\ pc[p] \in {"archive", "recheck"} => Active(i)
        /\ pc[p] \notin {"check_stopped", "verify_archive", "publish"}
    BY <2>2 DEF Visited
  <2>4. QED
    BY <1>2, <1>3, <2>1, <2>2, <2>3 DEF Active, BackingUp
<1>4. CASE r # p
  <2>1. pc'[r] = pc[r] /\ job'[r] = job[r] /\ i \in job[r].seen \cap job[r].sel /\ i \in Ids
        /\ doc'[i] # Absent
    BY <1>1, <1>2, <1>4 DEF Frame, Listed
  <2>2. pc[p] \notin Repairs \cup Removing /\ pc[p] \notin Restoring
    <3>1. pc[r] \in BackingUp /\ pc[r] \notin {"idle", "down"}
      BY <1>2, <2>1 DEF BackingUp
    <3>2. QED
      BY <1>4, <3>1, Alone, NeverBoth
  <2>3. doc[i] # Absent
    <3>1. ~CommitRestore(p)
      BY <2>2 DEF CommitRestore, Restoring, RestoreLocked
    <3>2. CASE AddProfile(p)
      <4>1. i \notin job[p].sel
        BY <1>4, <2>1, <3>2 DEF Entries, NewIdFree, AddProfile, Creating
      <4>2. QED
        BY <2>1, <3>2, <4>1 DEF AddProfile, Commit
    <3>3. CASE RemoveProfile(p)
      BY <2>1, <3>3 DEF RemoveProfile, Commit, meta
    <3>4. QED
      BY <2>1, <2>2, <3>1, <3>2, <3>3, DocChanges
  <2>4. /\ pc[r] \in {"archive", "recheck"} => run[i] = "live"
        /\ pc[r] \notin {"check_stopped", "verify_archive", "publish"}
    BY <2>1, <2>3 DEF Visited, Listed, Active
  <2>5. run'[i] = run[i]
    <3>1. CASE DiscardDeleted(p)
      <4>1. i \notin job[p].sel
        BY <2>3, <3>1 DEF Entries, DeletedGone, DiscardDeleted
      <4>2. QED
        BY <2>1, <3>1, <4>1 DEF DiscardDeleted, Control, RootTyped
    <3>2. QED
      BY <2>2, <3>1, RunChanges
  <2>6. QED
    BY <2>1, <2>4, <2>5
<1>5. QED
  BY <1>3, <1>4

\* A command that begins has seen nobody.
LEMMA VisitedBegin ==
    ASSUME Control, Visited, NEW p \in Procs, BeginCommand(p)
    PROVE  Visited'
<1>1. PICK c \in Commands, S \in SUBSET Ids : Begins(p, c, S)
  BY BeginIs DEF Control
<1>2. Frame(p) /\ job'[p].seen = {}
  BY <1>1, BeginControl
<1>3. UNCHANGED <<doc, run>>
  BY <1>1 DEF Begins
<1>4. QED
  BY <1>2, <1>3 DEF Visited, Frame, Active

\* A process that dies publishes nothing.
LEMMA VisitedCrash ==
    ASSUME Control, Visited, NEW p \in Procs, Crash(p)
    PROVE  Visited'
<1>1. Frame(p) /\ pc'[p] = "down" /\ UNCHANGED <<doc, run>>
  BY CrashControl DEF Crash, Goto, Control, PcTyped, meta
<1>2. QED
  BY <1>1 DEF Visited, Frame, Active

\* The browser that starts runs.
LEMMA VisitedLaunch ==
    ASSUME Control, Visited, NEW i \in Ids, Launch(i), UNCHANGED <<out, destination>>
    PROVE  Visited'
<1>1. /\ UNCHANGED pc
      /\ \A p \in Procs : /\ job'[p].sel = job[p].sel
                          /\ pc[p] \notin Reads => job'[p].seen = job[p].seen
                          /\ job'[p].seen \subseteq job[p].seen \cup {i}
  BY LaunchControl
<1>2. /\ UNCHANGED doc /\ run' = [run EXCEPT ![i] = "live"]
      /\ run \in [Ids -> {"none", "live", "stale"}]
  BY DEF Launch, meta, Control, RootTyped
<1>3. QED
  BY <1>1, <1>2 DEF Visited, Active, Reads, Listed

\* A browser does not end while a backup that it visits runs.
LEMMA VisitedStop ==
    ASSUME Control, Visited, ~ShortVisits, NEW i \in Ids, Stop(i)
    PROVE  Visited'
<1>1. UNCHANGED <<doc, pc, job>> /\ \A p \in Procs : i \notin job[p].seen
  BY DEF Stop, meta
<1>2. \A j \in Ids : j # i => run'[j] = run[j]
  BY DEF Stop, Control, RootTyped
<1>3. QED
  BY <1>1, <1>2 DEF Visited, Active, Listed

\* No archive is about to be published of a listed profile that a browser used while it
\* was read: the check at the end of the reading (backup.py) is enough.  No hypothesis can
\* go: a browser that comes and goes within the reading, a repair that removes the state
\* it left, or a restore that lists a deleted profile again is not noticed.
THEOREM NoVisitedPublished ==
    ASSUME Considerate, NeverWith("restore", "backup"), ~ShortVisits
    PROVE  Spec => []PublishedUnvisited
<1>. DEFINE Inv == Control /\ Entries /\ Visited
<1>1. Init => Inv
  BY ControlInit, EntriesInit, FirstJob DEF Init, RootInit, Visited
<1>2. Inv /\ [Next]_allVars => Inv'
  <2>1. ASSUME Inv, NEW p \in Procs, BeginCommand(p) PROVE Entries' /\ Visited'
    BY <2>1, EntriesBegin, VisitedBegin
  <2>2. ASSUME Inv, NEW p \in Procs, Step(p) PROVE Entries' /\ Visited'
    BY <2>2, EntriesStep, VisitedStep
  <2>3. ASSUME Inv, NEW p \in Procs, Crash(p) PROVE Entries' /\ Visited'
    BY <2>3, EntriesCrash, VisitedCrash
  <2>4. ASSUME Inv, BrowserStarts, UNCHANGED <<out, destination>> PROVE Entries' /\ Visited'
    <3>1. CASE \E i \in Ids : Launch(i)
      BY <2>4, <3>1, EntriesLaunch, VisitedLaunch
    <3>2. CASE Rewrite
      BY <2>4, <3>2, RewriteIs, EntriesElse DEF Visited, Active
    <3>3. QED
      BY <2>4, <3>1, <3>2, StartsIs
  <2>5. ASSUME Inv, BrowserEnds PROVE Entries' /\ Visited'
    <3>1. PICK i \in Ids : Stop(i)
      BY <2>5 DEF BrowserEnds
    <3>2. UNCHANGED <<doc, pc, job>>
      BY <3>1 DEF Stop, meta
    <3>3. QED
      BY <2>5, <3>1, <3>2, EntriesElse, VisitedStop
  <2>6. ASSUME Inv, UNCHANGED allVars PROVE Entries' /\ Visited'
    BY <2>6, EntriesElse DEF Visited, Active, allVars, rootVars
  <2>7. QED
    BY <2>1, <2>2, <2>3, <2>4, <2>5, <2>6, ControlNext DEF Next
<1>3. Inv => PublishedUnvisited
  BY DEF Visited, PublishedUnvisited
<1>4. QED
  BY <1>1, <1>2, <1>3, PTL DEF Spec

-----------------------------------------------------------------------------
(* Faults, and the places of a restore. *)

\* Every step of a command keeps the faults or takes one.
LEMMA FaultsStep ==
    ASSUME Bounds, NEW p \in Procs, Step(p)
    PROVE  /\ Bounds'
           /\ Faultless' => Faultless /\ ~Fault
<1>1. Keep \/ Fault
  BY StepKeeps
<1>2. QED
  BY <1>1, RootAssumption DEF Keep, Fault, Bounds, Faultless, RootAssumption

\* Who puts something at the place of a profile.
LEMMA DirChanges ==
    ASSUME Control, NEW p \in Procs, Step(p), NEW i \in Ids
    PROVE  \/ dir'[i] = dir[i] \/ dir'[i] = Absent
           \/ pc[p] \in Creating /\ i \in job[p].sel
           \/ pc[p] \in Deleting \cup RestoreLocked \cup Repairs \cup Removing
<1>1. CASE ProfileStep(p) /\ pc[p] \in Creating
  BY <1>1 DEF ProfileStep, MakeDataDir, MakeDataDirFails, AddProfile, AddFails, UndoCreate,
     MoveAway, MoveAwayFails, RemoveProfile, RemoveFails, MoveBack, DiscardDeleted, Creating,
     root, dirs
<1>2. CASE RestoreStep(p) /\ pc[p] \notin RestoreLocked
  BY <1>2 DEF RestoreStep, ValidateArchive, RefuseArchive, LockToRestore, Select, Refuse, Stage,
     StageFails, Quarantine, QuarantineFails, Finalise, FinaliseFails, CommitRestore,
     CommitRestoreFails, DiscardOld, Rollback, RollbackFails, Unquarantine, Cleanup,
     RestoreLocked, root, dirs
<1>3. CASE BackupStep(p)
  BY <1>3 DEF BackupStep, CheckStopped, ArchiveProfile, Recheck, VerifyArchive, Publish, BackupFails, root
<1>4. CASE MigrateStep(p) /\ pc[p] \notin Removing
  BY <1>4 DEF MigrateStep, LockDestination, Plan, Copy, CopyFails, Verify, MoveIn,
     CommitMigration, UndoMigration, CheckRemoval, MoveOut, RemoveMetadata, RemovalFails,
     UndoRemoval, DiscardRemoved, Removing, root
<1>5. QED
  BY <1>1, <1>2, <1>3, <1>4, StepFrom

\* A round of the quarantine loop.
LEMMA QuarantineIs ==
    ASSUME Control, NEW p \in Procs, Quarantine(p)
    PROVE  \/ /\ job[p].done = job[p].sel /\ pc'[p] = "finalise"
              /\ job'[p].sel = job[p].sel /\ job'[p].done = {} /\ UNCHANGED dirs
           \/ \E i \in job[p].sel \ job[p].done :
                /\ IF dir[i] = Absent THEN UNCHANGED dirs ELSE Hide(p, i, "quarantine")
                /\ job'[p].sel = job[p].sel /\ job'[p].done = job[p].done \cup {i} /\ UNCHANGED pc
<1>1. \/ /\ job[p].done = job[p].sel /\ Goto(p, "finalise")
         /\ Knows(p, job[p].sel, {}, job[p].snap) /\ UNCHANGED dirs
      \/ \E i \in job[p].sel \ job[p].done :
           /\ IF dir[i] = Absent THEN UNCHANGED dirs ELSE Hide(p, i, "quarantine")
           /\ Knows(p, job[p].sel, job[p].done \cup {i}, job[p].snap) /\ UNCHANGED pc
  BY Zenon, Updates DEF Quarantine, Loop, Control
<1>2. ASSUME NEW S, Knows(p, job[p].sel, S, job[p].snap)
      PROVE  job'[p].sel = job[p].sel /\ job'[p].done = S
  BY <1>2, JobFields DEF Knows, Control, JobTyped
<1>3. QED
  BY <1>1, <1>2 DEF Goto, Control, PcTyped

\* A round of the loop that moves in.
LEMMA FinaliseIs ==
    ASSUME Control, NEW p \in Procs, Finalise(p)
    PROVE  \/ pc'[p] = "commit" /\ UNCHANGED dirs
           \/ \E i \in job[p].sel \ job[p].done :
                /\ dir' = [dir EXCEPT ![i] = "archived"] /\ hidden' = hidden \ Temp(p, i)
                /\ job'[p].sel = job[p].sel /\ job'[p].done = job[p].done \cup {i} /\ UNCHANGED pc
<1>1. \/ Goto(p, "commit") /\ UNCHANGED dirs
      \/ \E i \in job[p].sel \ job[p].done :
           /\ dir' = [dir EXCEPT ![i] = "archived"] /\ hidden' = hidden \ Temp(p, i)
           /\ Knows(p, job[p].sel, job[p].done \cup {i}, job[p].snap) /\ UNCHANGED pc
  BY Zenon, Updates DEF Finalise, Loop, Control
<1>2. ASSUME NEW S, Knows(p, job[p].sel, S, job[p].snap)
      PROVE  job'[p].sel = job[p].sel /\ job'[p].done = S
  BY <1>2, JobFields DEF Knows, Control, JobTyped
<1>3. QED
  BY <1>1, <1>2 DEF Goto, Control, PcTyped

\* How a restore comes to where it still needs its places.
LEMMA PlaceFrom ==
    ASSUME Control, NEW p \in Procs, Step(p), pc'[p] \in Placing
    PROVE  \/ /\ pc'[p] \in {"lock", "select", "stage"}
              /\ pc[p] \in {"validate", "lock", "select"}
              /\ job'[p].done = job[p].done
           \/ pc'[p] = "quarantine" /\ pc[p] = "stage" /\ UNCHANGED job
           \/ Quarantine(p)
           \/ Finalise(p)
<1>1. Knowing(p)
  BY StepIs, MovesIs DEF Control
<1>2. pc[p] \in Restoring
  BY <1>1 DEF Knowing, Families, Placing, Creating, Deleting, Restoring, RestoreLocked,
     BackingUp, Repairs, Migrating, MigrateLocked, Removing
<1>3. RestoreStep(p)
  BY <1>2, StepFrom DEF Creating, Deleting, Restoring, RestoreLocked, BackingUp, Repairs,
     Migrating, MigrateLocked, Removing
<1>4. ~Return(p)
  BY DEF Return, Goto, Control, PcTyped, Placing
<1>5. CASE Select(p)
  <2>1. Knows(p, {i \in job[p].sel : ~Skipped(p, i)}, job[p].done, doc)
    BY <1>5, RestoreJobs DEF Control
  <2>2. job'[p].done = job[p].done
    BY <2>1, JobFields DEF Knows, Control, JobTyped
  <2>3. QED
    BY <1>5, <2>2 DEF Select, Goto, Control, PcTyped
<1>6. CASE ~Select(p)
  <2>1. ValidateArchive(p) \/ LockToRestore(p) \/ Stage(p) \/ Quarantine(p) \/ Finalise(p)
    BY <1>3, <1>4, <1>6 DEF RestoreStep, RefuseArchive, Refuse, StageFails, QuarantineFails,
       FinaliseFails, CommitRestore, CommitRestoreFails, DiscardOld, Rollback, RollbackFails,
       Unquarantine, Cleanup, Loop, Placing, Goto, Control, PcTyped
  <2>2. QED
    BY <1>4, <2>1 DEF ValidateArchive, LockToRestore, Stage, Goto, Control, PcTyped
<1>7. QED
  BY <1>5, <1>6

\* A step of a command keeps the places of a restore that are empty.
LEMMA PlaceStep ==
    ASSUME Control, Considerate, Entries, PlaceHeld, NEW p \in Procs, Step(p)
    PROVE  PlaceHeld'
<1>1. Frame(p)
  BY StepIs, MovesIs DEF Control
<1>2. SUFFICES ASSUME NEW r \in Procs, pc'[r] \in Placing
               PROVE  /\ pc'[r] \in {"validate", "lock", "select", "stage"} => job'[r].done = {}
                      /\ pc'[r] = "quarantine" =>
                           \A i \in job'[r].done : i \in job'[r].sel /\ dir'[i] = Absent
                      /\ pc'[r] = "finalise" =>
                           \A i \in job'[r].sel \ job'[r].done : dir'[i] = Absent
  BY DEF PlaceHeld, Placing
<1>3. job[r].sel \subseteq Ids /\ dir \in [Ids -> Data]
  BY DEF Control, JobTyped, Job, RootTyped
<1>4. CASE r = p
  <2>1. CASE pc'[p] \in {"lock", "select", "stage"} /\ pc[p] \in {"validate", "lock", "select"}
             /\ job'[p].done = job[p].done
    BY <1>4, <2>1 DEF PlaceHeld
  <2>2. CASE pc'[p] = "quarantine" /\ pc[p] = "stage" /\ UNCHANGED job
    BY <1>4, <2>2 DEF PlaceHeld
  <2>3. CASE Quarantine(p)
    <3>1. pc[p] = "quarantine" /\ \A i \in job[p].done : i \in job[p].sel /\ dir[i] = Absent
      BY <2>3 DEF PlaceHeld, Quarantine
    <3>2. CASE /\ job[p].done = job[p].sel /\ pc'[p] = "finalise"
               /\ job'[p].sel = job[p].sel /\ job'[p].done = {} /\ UNCHANGED dirs
      BY <1>4, <3>1, <3>2 DEF dirs
    <3>3. ASSUME NEW i \in job[p].sel \ job[p].done,
                 IF dir[i] = Absent THEN UNCHANGED dirs ELSE Hide(p, i, "quarantine"),
                 job'[p].sel = job[p].sel, job'[p].done = job[p].done \cup {i}, UNCHANGED pc
          PROVE  /\ pc'[p] = "quarantine"
                 /\ \A j \in job'[p].done : j \in job'[p].sel /\ dir'[j] = Absent
      BY <1>3, <1>4, <3>1, <3>3 DEF Hide, dirs
    <3>4. QED
      BY <1>4, <2>3, <3>2, <3>3, QuarantineIs
  <2>4. CASE Finalise(p)
    <3>1. pc[p] = "finalise" /\ \A i \in job[p].sel \ job[p].done : dir[i] = Absent
      BY <2>4 DEF PlaceHeld, Finalise
    <3>2. PICK i \in job[p].sel \ job[p].done :
            /\ dir' = [dir EXCEPT ![i] = "archived"]
            /\ job'[p].sel = job[p].sel /\ job'[p].done = job[p].done \cup {i} /\ UNCHANGED pc
      BY <1>2, <1>4, <2>4, FinaliseIs DEF Placing
    <3>3. QED
      BY <1>3, <1>4, <3>1, <3>2
  <2>5. QED
    BY <1>2, <1>4, <2>1, <2>2, <2>3, <2>4, PlaceFrom
<1>5. CASE r # p
  <2>1. pc'[r] = pc[r] /\ job'[r] = job[r]
    BY <1>1, <1>5 DEF Frame
  <2>2. ASSUME pc[r] \in {"quarantine", "finalise"}, NEW i \in job[r].sel, dir[i] = Absent
        PROVE  dir'[i] = Absent
    <3>1. pc[r] \in Restoring /\ lock = r /\ pc[r] \notin {"idle", "down"}
      BY <2>2 DEF Restoring, RestoreLocked, Control, PcTyped
    <3>2. pc[p] \notin Repairs \cup Removing /\ pc[p] \notin Deleting
      BY <1>5, <3>1, Alone
    <3>3. pc[p] \notin RestoreLocked
      BY <1>5, <3>1 DEF Control, PcTyped
    <3>4. ~(pc[p] \in Creating /\ i \in job[p].sel)
      BY <1>5, <2>2 DEF Entries, NewIdFree
    <3>5. QED
      BY <1>3, <2>2, <3>2, <3>3, <3>4, DirChanges
  <2>3. QED
    BY <2>1, <2>2 DEF PlaceHeld
<1>6. QED
  BY <1>4, <1>5

StillPlaced(r) ==
    /\ \/ pc'[r] = pc[r] /\ job'[r].sel = job[r].sel /\ job'[r].done = job[r].done
       \/ pc'[r] = "validate" /\ job'[r].done = {}
    /\ pc'[r] \in {"quarantine", "finalise"} =>
         \A i \in job[r].sel : dir[i] = Absent => dir'[i] = Absent

\* ... as does every step that puts nothing where nothing is.
LEMMA PlaceElse ==
    ASSUME PlaceHeld, \A r \in Procs : pc'[r] \in Placing => StillPlaced(r)
    PROVE  PlaceHeld'
BY DEF PlaceHeld, Placing, StillPlaced

\* A create puts its directory where no restore looks.
LEMMA PlaceBegin ==
    ASSUME Control, PlaceHeld, NEW p \in Procs, BeginCommand(p)
    PROVE  PlaceHeld'
<1>1. PICK c \in Commands, S \in SUBSET Ids : Begins(p, c, S) /\ BeginsWell(p, c, S)
  BY BeginIs DEF Control
<1>2. /\ Frame(p) /\ pc'[p] = First(c) /\ job'[p].sel = S /\ job'[p].done = {}
  BY <1>1, BeginControl
<1>3. First(c) \in Placing => First(c) = "validate"
  BY DEF First, Commands, Placing
<1>4. \A r \in Procs : \A i \in job[r].sel : dir[i] = Absent => dir'[i] = Absent
  BY <1>1 DEF BeginsWell, Control, JobTyped, Job
<1>5. QED
  BY <1>2, <1>3, <1>4, PlaceElse DEF Frame, StillPlaced

\* A process that dies restores nothing.
LEMMA PlaceCrash ==
    ASSUME Control, PlaceHeld, NEW p \in Procs, Crash(p)
    PROVE  PlaceHeld'
<1>1. Frame(p) /\ pc'[p] = "down" /\ UNCHANGED dir
  BY CrashControl DEF Crash, Goto, Control, PcTyped, dirs
<1>2. QED
  BY <1>1, PlaceElse DEF Frame, Placing, StillPlaced

\* A browser starts where there is a directory.
LEMMA PlaceLaunch ==
    ASSUME Control, PlaceHeld, NEW i \in Ids, Launch(i), UNCHANGED <<out, destination>>
    PROVE  PlaceHeld'
<1>1. /\ UNCHANGED pc
      /\ \A p \in Procs : job'[p].sel = job[p].sel /\ job'[p].done = job[p].done
  BY LaunchControl
<1>2. \A j \in Ids : dir[j] = Absent => dir'[j] = Absent
  <2>1. dir[i] # Absent
    BY AbsentAssumption DEF Launch
  <2>2. QED
    BY <2>1 DEF Launch, Control, RootTyped
<1>3. \A r \in Procs : job[r].sel \subseteq Ids
  BY DEF Control, JobTyped, Job
<1>4. QED
  BY <1>1, <1>2, <1>3, PlaceElse DEF StillPlaced

\* A browser that ends leaves the directories alone.
LEMMA PlaceStill ==
    ASSUME PlaceHeld, UNCHANGED <<dir, pc, job>>
    PROVE  PlaceHeld'
BY DEF PlaceHeld

-----------------------------------------------------------------------------
(* Nothing turns back. *)

\* Without a failing file operation no command turns back.  A delete would if it waited
\* too long for the lock of a restore, and a restore if something took the place of a profile.
LEMMA OnwardStep ==
    ASSUME Control, Considerate, NoWayBack, PlaceHeld, NEW p \in Procs, Step(p), Faultless, ~Fault
    PROVE  pc'[p] \notin Back
<1>1. SUFFICES ASSUME pc'[p] \in Back PROVE FALSE
  OBVIOUS
<1>2. pc[p] \notin Back
  BY DEF NoWayBack, Back
<1>3. pc' = [pc EXCEPT ![p] = pc'[p]] /\ ~Return(p) /\ ~Goto(p, "idle")
  BY <1>1, StepIs, MovesIs DEF Frame, Control, PcTyped, Return, Goto, Back
<1>4. ~RemoveFails(p)
  <2>1. SUFFICES ASSUME RemoveFails(p) PROVE FALSE
    OBVIOUS
  <2>2. TimesOut(p) /\ pc[p] = "remove"
    BY <2>1 DEF RemoveFails, CommitFails
  <2>3. PICK q \in Procs : lock = q
    BY <2>2 DEF TimesOut, Control, PcTyped
  <2>4. pc[q] \in RestoreLocked /\ p # q
    BY <2>2, <2>3 DEF Control, PcTyped, RestoreLocked
  <2>5. QED
    BY <2>2, <2>4, Alone DEF Restoring, Deleting
<1>5. ~FinaliseFails(p)
  BY DEF FinaliseFails, PlaceHeld, Vacant
<1>6. CASE ProfileStep(p)
  BY <1>1, <1>2, <1>3, <1>4, <1>6 DEF ProfileStep, MakeDataDir, MakeDataDirFails, AddProfile,
     AddFails, UndoCreate, MoveAway, MoveAwayFails, RemoveProfile, MoveBack, DiscardDeleted, Goto,
     Back, Control, PcTyped
<1>7. CASE RestoreStep(p)
  <2>1. ~QuarantineFails(p) /\ ~CommitRestoreFails(p) /\ ~RollbackFails(p) /\ ~StageFails(p)
    BY DEF QuarantineFails, CommitRestoreFails, CommitFails, RollbackFails, StageFails
  <2>2. ~Rollback(p) /\ ~Unquarantine(p)
    BY <1>2 DEF Rollback, Unquarantine, Back
  <2>3. QED
    BY <1>1, <1>2, <1>3, <1>5, <1>7, <2>1, <2>2 DEF RestoreStep, ValidateArchive, RefuseArchive,
       LockToRestore, Select, Refuse, Stage, Quarantine, Finalise, CommitRestore, DiscardOld,
       Cleanup, Loop, Goto, Back, Control, PcTyped
<1>8. CASE MigrateStep(p)
  BY <1>1, <1>2, <1>3, <1>8 DEF MigrateStep, LockDestination, Plan, Copy, CopyFails, Verify,
     MoveIn, CommitMigration, UndoMigration, CheckRemoval, MoveOut, RemoveMetadata, RemovalFails,
     UndoRemoval, DiscardRemoved, Goto, Back, Control, PcTyped
<1>9. CASE pc[p] \in BackingUp \cup Repairs
  <2>1. Knowing(p)
    BY StepIs, MovesIs DEF Control
  <2>2. QED
    BY <1>1, <1>9, <2>1 DEF Knowing, Families, Back, Creating, Deleting, Restoring,
       RestoreLocked, BackingUp, Repairs, Migrating, MigrateLocked, Removing
<1>10. QED
  BY <1>6, <1>7, <1>8, <1>9, StepFrom

-----------------------------------------------------------------------------
(* Who clears what is hidden. *)

\* h is hidden by the command that p runs, which at l has yet to remove it.
Keeps(p, h, l) == h.by = p /\ h.turn = left[p] /\ Sweeps(l, h.kind)

\* Of what is hidden after a step, p will clear it, or it was there before and p is
\* not yet past it.
LEMMA HiddenStep ==
    ASSUME Control, Considerate, NoWayBack, PlaceHeld, NEW p \in Procs, Step(p), Faultless,
           ~Fault, NEW h \in hidden'
    PROVE  \/ Keeps(p, h, pc'[p])
           \/ \E g \in hidden : /\ g.kind = h.kind /\ g.by = h.by /\ g.turn = h.turn
                                /\ Keeps(p, h, pc[p]) => Keeps(p, h, pc'[p])
<1>. DEFINE Goal == \/ Keeps(p, h, pc'[p])
                    \/ \E g \in hidden : /\ g.kind = h.kind /\ g.by = h.by /\ g.turn = h.turn
                                         /\ Keeps(p, h, pc[p]) => Keeps(p, h, pc'[p])
<1>1. pc[p] \notin Back /\ pc'[p] \notin Back
  BY OnwardStep DEF NoWayBack, Back
<1>2. pc \in [Procs -> Points]
  BY DEF Control, PcTyped
<1>3. CASE MoveAway(p)
  <2>1. pc[p] = "move" /\ pc'[p] = "remove"
    BY <1>2, <1>3 DEF MoveAway, Goto
  <2>2. h \in hidden \/ (h.kind = "deleting" /\ h.by = p /\ h.turn = left[p])
    BY <1>3 DEF MoveAway, Hide, dirs
  <2>3. QED
    BY <2>1, <2>2 DEF Keeps, Sweeps
<1>4. CASE RemoveProfile(p)
  <2>1. pc[p] = "remove" /\ pc'[p] = "discard"
    BY <1>2, <1>4 DEF RemoveProfile, Goto
  <2>2. SameHidden(h)
    BY <1>4, SettledIs, Zenon DEF RemoveProfile, Control
  <2>3. QED
    BY <2>1, <2>2 DEF Keeps, Sweeps, SameHidden
<1>5. CASE DiscardDeleted(p)
  <2>1. h \in hidden /\ ~(h.by = p /\ h.turn = left[p] /\ h.kind = "deleting") /\ pc[p] = "discard"
    BY <1>5 DEF DiscardDeleted, Of
  <2>2. QED
    BY <2>1 DEF Keeps, Sweeps
<1>6. CASE Stage(p)
  <2>1. pc[p] = "stage" /\ pc'[p] = "quarantine"
    BY <1>2, <1>6 DEF Stage, Goto
  <2>2. h \in hidden \/ (h.kind = "temp" /\ h.by = p /\ h.turn = left[p])
    BY <1>6 DEF Stage, Temps
  <2>3. QED
    BY <2>1, <2>2 DEF Keeps, Sweeps
<1>7. CASE Quarantine(p)
  <2>1. pc[p] = "quarantine" /\ pc'[p] \in {"quarantine", "finalise"}
    BY <1>2, <1>7, QuarantineIs DEF Quarantine
  <2>2. h \in hidden \/ (h.kind = "quarantine" /\ h.by = p /\ h.turn = left[p])
    BY <1>7, QuarantineIs DEF Hide, dirs
  <2>3. QED
    BY <2>1, <2>2 DEF Keeps, Sweeps
<1>8. CASE Finalise(p)
  <2>1. pc[p] = "finalise" /\ pc'[p] \in {"finalise", "commit"}
    BY <1>2, <1>8, FinaliseIs DEF Finalise
  <2>2. h \in hidden
    BY <1>8, FinaliseIs DEF dirs
  <2>3. QED
    BY <2>1, <2>2 DEF Keeps, Sweeps
<1>9. CASE CommitRestore(p)
  <2>1. pc[p] = "commit" /\ pc'[p] = "discard_old"
    BY <1>2, <1>9 DEF CommitRestore, Goto
  <2>2. SameHidden(h)
    BY <1>9, SettledIs, Zenon DEF CommitRestore, Control
  <2>3. QED
    BY <2>1, <2>2 DEF Keeps, Sweeps, SameHidden
<1>10. CASE DiscardOld(p)
  <2>1. pc[p] = "discard_old" /\ pc'[p] = "cleanup"
    BY <1>2, <1>10 DEF DiscardOld, Goto
  <2>2. h \in hidden /\ ~(h.by = p /\ h.turn = left[p] /\ h.kind = "quarantine")
    BY <1>10 DEF DiscardOld, Of
  <2>3. QED
    BY <2>1, <2>2 DEF Keeps, Sweeps
<1>11. CASE Cleanup(p)
  <2>1. h \in hidden /\ ~(h.by = p /\ h.turn = left[p] /\ h.kind = "temp") /\ pc[p] = "cleanup"
    BY <1>11 DEF Cleanup, Of
  <2>2. QED
    BY <2>1 DEF Keeps, Sweeps
<1>12. CASE MoveOut(p)
  <2>1. pc[p] = "move_out" /\ pc'[p] = "move_out"
    BY <1>12 DEF MoveOut
  <2>2. h \in hidden \/ (h.kind = "removing" /\ h.by = p /\ h.turn = left[p])
    BY <1>12 DEF MoveOut, MoveProfileOut, MoveRuntimeOut, Renamed
  <2>3. QED
    BY <2>1, <2>2 DEF Keeps, Sweeps
<1>13. CASE RemoveMetadata(p)
  <2>1. pc[p] = "move_out" /\ pc'[p] = "discard_removed"
    BY <1>2, <1>13 DEF RemoveMetadata, Goto
  <2>2. SameHidden(h)
    BY <1>13, SettledIs, Zenon DEF RemoveMetadata, Control
  <2>3. QED
    BY <2>1, <2>2 DEF Keeps, Sweeps, SameHidden
<1>14. CASE DiscardRemoved(p)
  <2>1. h \in hidden /\ ~(h.by = p /\ h.turn = left[p] /\ h.kind = "removing") /\ pc[p] = "discard_removed"
    BY <1>14 DEF DiscardRemoved, Of
  <2>2. QED
    BY <2>1 DEF Keeps, Sweeps
<1>15. ASSUME h \in hidden,
              \A k \in {"deleting", "quarantine", "temp", "removing"} : ~Sweeps(pc[p], k)
       PROVE  Goal
  BY <1>15 DEF Keeps, Control, RootTyped, Hidden
<1>16. CASE ProfileStep(p)
  <2>1. CASE \/ MakeDataDir(p) \/ MakeDataDirFails(p) \/ AddProfile(p) \/ AddFails(p)
             \/ UndoCreate(p) \/ MoveAwayFails(p)
    <3>1. h \in hidden
      BY <2>1 DEF MakeDataDir, MakeDataDirFails, AddProfile, AddFails, UndoCreate, MoveAwayFails,
         root, dirs
    <3>2. pc[p] \in {"make_data_dir", "add", "undo_create", "move"}
      BY <2>1 DEF MakeDataDir, MakeDataDirFails, AddProfile, AddFails, UndoCreate, MoveAwayFails
    <3>3. QED
      BY <1>15, <3>1, <3>2 DEF Keeps, Sweeps
  <2>2. ~RemoveFails(p) /\ ~MoveBack(p)
    BY <1>1, <1>2 DEF RemoveFails, MoveBack, Goto, Back
  <2>3. QED
    BY <1>3, <1>4, <1>5, <1>16, <2>1, <2>2 DEF ProfileStep
<1>17. CASE RestoreStep(p)
  <2>1. CASE ValidateArchive(p) \/ RefuseArchive(p) \/ LockToRestore(p) \/ Select(p) \/ Refuse(p)
    <3>1. h \in hidden
      BY <2>1 DEF ValidateArchive, RefuseArchive, LockToRestore, Select, Refuse, root, dirs
    <3>2. pc[p] \in {"validate", "lock", "select"}
      BY <2>1 DEF ValidateArchive, RefuseArchive, LockToRestore, Select, Refuse
    <3>3. QED
      BY <1>15, <3>1, <3>2 DEF Keeps, Sweeps
  <2>2. ~StageFails(p) /\ ~QuarantineFails(p) /\ ~CommitRestoreFails(p) /\ ~RollbackFails(p)
    BY DEF StageFails, QuarantineFails, CommitRestoreFails, CommitFails, RollbackFails
  <2>3. ~FinaliseFails(p) /\ ~Rollback(p) /\ ~Unquarantine(p)
    BY <1>1, <1>2 DEF FinaliseFails, Rollback, Unquarantine, Goto, Back
  <2>4. QED
    BY <1>6, <1>7, <1>8, <1>9, <1>10, <1>11, <1>17, <2>1, <2>2, <2>3 DEF RestoreStep
<1>18. CASE MigrateStep(p)
  <2>1. CASE \/ LockDestination(p) \/ Plan(p) \/ Copy(p) \/ CopyFails(p) \/ Verify(p) \/ MoveIn(p)
             \/ CommitMigration(p) \/ UndoMigration(p) \/ CheckRemoval(p)
    <3>1. h \in hidden
      BY <2>1 DEF LockDestination, Plan, Copy, CopyFails, Verify, MoveIn, CommitMigration,
         UndoMigration, CheckRemoval, root
    <3>2. pc[p] \in Migrating \cup {"check_removal"}
      BY <2>1 DEF LockDestination, Plan, Copy, CopyFails, Verify, MoveIn, CommitMigration,
         UndoMigration, CheckRemoval, Migrating, MigrateLocked
    <3>3. QED
      BY <1>15, <3>1, <3>2 DEF Keeps, Sweeps, Migrating, MigrateLocked
  <2>2. ~RemovalFails(p) /\ ~UndoRemoval(p)
    BY <1>1 DEF RemovalFails, UndoRemoval, Back
  <2>3. QED
    BY <1>12, <1>13, <1>14, <1>18, <2>1, <2>2 DEF MigrateStep
<1>19. CASE BackupStep(p) \/ RepairStep(p)
  <2>1. pc[p] \in BackingUp \cup Repairs
    BY <1>19 DEF BackupStep, CheckStopped, ArchiveProfile, Recheck, VerifyArchive, Publish, BackupFails,
       RepairStep, UnlinkStates, Sweep, Inspect, Upgrade, UpgradeFails, ReadBackup, RecoverBackup,
       Reload, Recreate, RecreateFails, FindOrphans, Reattach, ReattachFails, BackingUp, Repairs
  <2>2. h \in hidden
    BY <1>19 DEF BackupStep, CheckStopped, ArchiveProfile, Recheck, VerifyArchive, Publish, BackupFails,
       RepairStep, UnlinkStates, Sweep, Inspect, Upgrade, UpgradeFails, ReadBackup, RecoverBackup,
       Reload, Recreate, RecreateFails, FindOrphans, Reattach, ReattachFails, root, dirs
  <2>3. QED
    BY <1>15, <2>1, <2>2 DEF Keeps, Sweeps, BackingUp, Repairs
<1>20. QED
  BY <1>16, <1>17, <1>18, <1>19 DEF Step

\* So whoever hid a directory that is still there will remove it, or has died.
LEMMA HiddenOwnedStep ==
    ASSUME Control, Considerate, NoWayBack, PlaceHeld, HiddenOwned, NEW p \in Procs, Step(p),
           Faultless, ~Fault
    PROVE  HiddenOwned'
<1>. UNCHANGED left
  BY StepKeeps DEF Keep, Fault
<1>1. SUFFICES ASSUME NEW h \in hidden'
               PROVE  pc'[h.by] = "down" \/ (h.turn = left[h.by] /\ Sweeps(pc'[h.by], h.kind))
  BY DEF HiddenOwned
<1>2. CASE Keeps(p, h, pc'[p])
  BY <1>2 DEF Keeps
<1>3. CASE \E g \in hidden : /\ g.kind = h.kind /\ g.by = h.by /\ g.turn = h.turn
                             /\ Keeps(p, h, pc[p]) => Keeps(p, h, pc'[p])
  <2>1. pc[h.by] = "down" \/ (h.turn = left[h.by] /\ Sweeps(pc[h.by], h.kind))
    BY <1>3 DEF HiddenOwned
  <2>2. h.by \in Procs
    BY <1>3 DEF Control, RootTyped, Hidden
  <2>3. Frame(p)
    BY StepIs, MovesIs DEF Control
  <2>4. pc[p] # "down"
    BY StepFrom DEF Creating, Deleting, Restoring, RestoreLocked, BackingUp, Repairs, Migrating,
       MigrateLocked, Removing
  <2>5. QED
    BY <1>3, <2>1, <2>2, <2>3, <2>4 DEF Frame, Keeps
<1>4. QED
  BY <1>2, <1>3, HiddenStep

-----------------------------------------------------------------------------
(* Who clears what is staged at the destination. *)

\* What a process knows that has learnt something.
LEMMA KnowsIs ==
    ASSUME JobTyped, NEW p \in Procs, NEW sel, NEW done, NEW snap, Knows(p, sel, done, snap)
    PROVE  /\ job'[p].sel = sel /\ job'[p].done = done /\ job'[p].snap = snap
           /\ job'[p].flag = job[p].flag
BY JobFields DEF Knows, JobTyped

\* ... in a round of a loop.
LEMMA LoopIs ==
    ASSUME JobTyped, NEW p \in Procs
    PROVE  /\ StartOver(p) => job'[p].sel = job[p].sel /\ job'[p].done = {}
           /\ OneMore(p) => /\ job'[p].sel = job[p].sel
                            /\ \E i \in job[p].sel \ job[p].done :
                                 job'[p].done = job[p].done \cup {i}
<1>1. ASSUME NEW done, Knows(p, job[p].sel, done, job[p].snap)
      PROVE  job'[p].sel = job[p].sel /\ job'[p].done = done
  BY <1>1, KnowsIs
<1>2. QED
  BY <1>1 DEF StartOver, OneMore

\* Of what is staged after a step of p, p will clear it, or it was there before and
\* p is not yet past it.
LEMMA StagedStep ==
    ASSUME Control, NEW p \in Procs, Step(p), ~Fault, NEW i \in staged'
    PROVE  \/ Clears(p, i)'
           \/ i \in staged /\ ~Clears(p, i)
<1>. DEFINE Goal == Clears(p, i)' \/ (i \in staged /\ ~Clears(p, i))
<1>1. pc \in [Procs -> Points] /\ JobTyped
  BY DEF Control, PcTyped
<1>2. CASE pc[p] \in {"copy", "verify", "move_in", "undo_migration"}
  <2>1. Copy(p) \/ CopyFails(p) \/ Verify(p) \/ MoveIn(p) \/ UndoMigration(p)
    <3>1. MigrateStep(p)
      BY <1>2, StepFrom DEF Creating, Deleting, Restoring, RestoreLocked, BackingUp, Repairs
    <3>2. QED
      BY <1>2, <3>1 DEF MigrateStep, LockDestination, Plan, CommitMigration, CheckRemoval,
         MoveOut, RemoveMetadata, RemovalFails, UndoRemoval, DiscardRemoved
  <2>2. CASE Copy(p)
    <3>1. CASE job[p].done = job[p].sel
      <4>1. pc'[p] = "verify" /\ UNCHANGED <<job, staged>> /\ pc[p] = "copy"
        BY <1>1, <2>2, <3>1 DEF Copy, Goto
      <4>2. QED
        BY <4>1 DEF Clears
    <3>2. CASE job[p].done # job[p].sel
      <4>1. PICK j \in job[p].sel \ job[p].done :
              /\ staged' = staged \cup {j}
              /\ job' = [job EXCEPT ![p].done = job[p].done \cup {j}]
        BY <2>2, <3>2, Zenon DEF Copy
      <4>2. pc'[p] = "copy" /\ pc[p] = "copy"
        BY <2>2, <3>2 DEF Copy
      <4>3. job'[p].sel = job[p].sel /\ job'[p].done = job[p].done \cup {j}
        <5>1. Knows(p, job[p].sel, job[p].done \cup {j}, job[p].snap)
          BY <1>1, <4>1, Updates, Zenon
        <5>2. QED
          BY <1>1, <5>1, KnowsIs
      <4>4. QED
        BY <4>1, <4>2, <4>3 DEF Clears
    <3>3. QED
      BY <3>1, <3>2
  <2>3. CASE CopyFails(p)
    <3>1. PICK begun : /\ begun \subseteq job[p].sel /\ staged' = staged \cup begun
                       /\ job' = [job EXCEPT ![p].sel = job[p].sel \cap (job[p].done \cup begun),
                                            ![p].done = {}]
      <4>1. PICK j \in job[p].sel \ job[p].done : \E begun \in SUBSET {j} :
              /\ staged' = staged \cup begun
              /\ job' = [job EXCEPT ![p].sel = job[p].sel \cap (job[p].done \cup begun),
                                   ![p].done = {}]
        BY <2>3, Zenon DEF CopyFails
      <4>2. \A begun \in SUBSET {j} : begun \subseteq job[p].sel
        OBVIOUS
      <4>3. QED
        BY <4>1, <4>2, Zenon
    <3>. DEFINE made == job[p].done \cup begun
    <3>2. pc'[p] = "undo_migration" /\ pc[p] = "copy"
      BY <1>1, <2>3 DEF CopyFails, Goto
    <3>3. job'[p].sel = job[p].sel \cap made
      <4>1. job[p].sel \cap made \in SUBSET Ids
        BY <1>1 DEF JobTyped, Job
      <4>2. Knows(p, job[p].sel \cap made, {}, job[p].snap)
        BY <1>1, <3>1, <4>1, TwoUpdates, Zenon
      <4>3. QED
        BY <1>1, <4>2, KnowsIs
    <3>4. QED
      BY <3>1, <3>2, <3>3 DEF Clears
  <2>4. CASE Verify(p)
    <3>1. pc'[p] \in {"move_in", "undo_migration"} /\ UNCHANGED staged /\ pc[p] = "verify"
      BY <1>1, <2>4 DEF Verify, Goto, destination
    <3>2. job'[p].sel = job[p].sel /\ job'[p].done = {}
      BY <1>1, <2>4, MigrateJobs, LoopIs
    <3>3. QED
      BY <3>1, <3>2 DEF Clears
  <2>5. CASE MoveIn(p)
    <3>1. CASE \E j \in job[p].sel \ job[p].done :
                 /\ staged' = staged \ {j} /\ job' = [job EXCEPT ![p].done = @ \cup {j}]
                 /\ UNCHANGED pc
      <4>1. PICK j \in job[p].sel \ job[p].done :
              /\ staged' = staged \ {j} /\ Knows(p, job[p].sel, job[p].done \cup {j}, job[p].snap)
              /\ UNCHANGED pc
        BY <1>1, <3>1, Updates, Zenon
      <4>2. job'[p].sel = job[p].sel /\ job'[p].done = job[p].done \cup {j}
        BY <1>1, <4>1, KnowsIs
      <4>3. pc[p] = "move_in"
        BY <2>5 DEF MoveIn
      <4>4. QED
        BY <4>1, <4>2, <4>3 DEF Clears
    <3>2. CASE job[p].done = job[p].sel /\ UNCHANGED staged
      BY <2>5, <3>2 DEF Clears, MoveIn
    <3>3. QED
      BY <2>5, <3>1, <3>2 DEF MoveIn
  <2>6. CASE UndoMigration(p)
    BY <2>6 DEF UndoMigration, Clears
  <2>7. QED
    BY <2>1, <2>2, <2>3, <2>4, <2>5, <2>6
<1>3. CASE pc[p] \notin {"copy", "verify", "move_in", "undo_migration"}
  <2>1. UNCHANGED staged
    <3>1. CASE MigrateStep(p)
      BY <1>3, <3>1 DEF MigrateStep, LockDestination, Plan, Copy, CopyFails, Verify, MoveIn,
         CommitMigration, UndoMigration, CheckRemoval, MoveOut, RemoveMetadata, RemovalFails,
         UndoRemoval, DiscardRemoved, destination
    <3>2. CASE ~MigrateStep(p)
      BY <3>2 DEF Step, destination
    <3>3. QED
      BY <3>1, <3>2
  <2>2. QED
    BY <1>3, <2>1 DEF Clears
<1>4. QED
  BY <1>2, <1>3

\* So somebody will clear whatever is staged, or has died.
LEMMA StagedOwnedStep ==
    ASSUME Control, StagedOwned, NEW p \in Procs, Step(p), Faultless, ~Fault
    PROVE  \A i \in staged' : \E q \in Procs : pc'[q] = "down" \/ Clears(q, i)'
<1>1. SUFFICES ASSUME NEW i \in staged' PROVE \E q \in Procs : pc'[q] = "down" \/ Clears(q, i)'
  OBVIOUS
<1>2. CASE Clears(p, i)'
  BY <1>2
<1>3. CASE i \in staged /\ ~Clears(p, i)
  <2>1. PICK q \in Procs : pc[q] = "down" \/ Clears(q, i)
    BY <1>3 DEF StagedOwned
  <2>2. pc[p] # "down"
    BY StepFrom DEF Creating, Deleting, Restoring, RestoreLocked, BackingUp, Repairs, Migrating,
       MigrateLocked, Removing
  <2>3. Frame(p) /\ q # p
    BY <1>3, <2>1, <2>2, StepIs, MovesIs DEF Control
  <2>4. QED
    BY <2>1, <2>3 DEF Frame, Clears
<1>4. QED
  BY <1>2, <1>3, StagedStep

-----------------------------------------------------------------------------
(* Nothing is left behind. *)

\* Faults are used up and never come back.
LEMMA BoundsNext ==
    ASSUME Control, Bounds, [Next]_allVars
    PROVE  Bounds'
<1>1. ASSUME NEW p \in Procs, BeginCommand(p) PROVE UNCHANGED faults
  BY <1>1, BeginIs DEF Control, Begins
<1>2. ASSUME NEW p \in Procs, Step(p) PROVE Bounds'
  BY <1>2, FaultsStep
<1>3. ASSUME BrowserStarts PROVE UNCHANGED faults
  BY <1>3, StartsIs, RewriteIs DEF Launch, Keep
<1>4. QED
  BY <1>1, <1>2, <1>3 DEF Next, Crash, BrowserEnds, Stop, Keep, allVars, rootVars, Bounds

\* A step of a command keeps everything hidden owned,
LEMMA OwnedStep ==
    ASSUME Control, Considerate, Owned, PlaceHeld, NEW p \in Procs, Step(p)
    PROVE  Owned'
<1>1. Bounds' /\ (Faultless' => Faultless /\ ~Fault)
  BY FaultsStep DEF Owned
<1>2. Frame(p)
  BY StepIs, MovesIs DEF Control
<1>3. NoWayBack'
  BY <1>1, <1>2, OnwardStep DEF Owned, NoWayBack, Frame, Back
<1>4. HiddenOwned'
  BY <1>1, HiddenOwnedStep DEF Owned, HiddenOwned
<1>5. StagedOwned'
  BY <1>1, StagedOwnedStep DEF Owned, StagedOwned
<1>6. QED
  BY <1>1, <1>3, <1>4, <1>5 DEF Owned

\* ... a command that begins,
LEMMA OwnedBegin ==
    ASSUME Control, Owned, NEW p \in Procs, BeginCommand(p)
    PROVE  Owned'
<1>1. PICK c \in Commands, S \in SUBSET Ids : Begins(p, c, S)
  BY BeginIs DEF Control
<1>2. Frame(p) /\ pc'[p] = First(c)
  BY <1>1, BeginControl
<1>3. pc[p] = "idle" /\ UNCHANGED <<hidden, staged, faults>>
  BY <1>1 DEF Begins
<1>4. First(c) \notin Back
  BY DEF First, Commands, Back
<1>5. \A h \in hidden : h.by \in Procs
  BY DEF Control, RootTyped, Hidden
<1>6. Bounds' /\ NoWayBack'
  BY <1>2, <1>3, <1>4 DEF Owned, Bounds, NoWayBack, Faultless, Frame, Back
<1>7. HiddenOwned'
  <2>1. ~Sweeps("idle", "deleting") /\ ~Sweeps("idle", "quarantine") /\ ~Sweeps("idle", "temp")
        /\ ~Sweeps("idle", "removing")
    BY DEF Sweeps
  <2>2. \A h \in hidden : Faultless => h.by # p
    BY <1>3, <2>1 DEF Owned, HiddenOwned, Control, RootTyped, Hidden
  <2>3. QED
    BY <1>1, <1>2, <1>3, <1>5, <2>2 DEF Owned, HiddenOwned, Faultless, Frame, Begins, Control,
       LeftTyped
<1>8. StagedOwned'
  <2>1. \A i \in staged : ~(pc[p] = "down" \/ Clears(p, i))
    BY <1>3 DEF Clears
  <2>2. SUFFICES ASSUME Faultless, NEW i \in staged
                 PROVE  \E q \in Procs : pc'[q] = "down" \/ Clears(q, i)'
    BY <1>3 DEF StagedOwned, Faultless
  <2>3. PICK q \in Procs : pc[q] = "down" \/ Clears(q, i)
    BY <2>2 DEF Owned, StagedOwned
  <2>4. QED
    BY <1>2, <2>1, <2>3 DEF Frame, Clears
<1>9. QED
  BY <1>6, <1>7, <1>8 DEF Owned

\* ... a process that dies,
LEMMA OwnedCrash ==
    ASSUME Control, Owned, NEW p \in Procs, Crash(p)
    PROVE  Owned'
<1>1. /\ Frame(p) /\ pc'[p] = "down"
      /\ UNCHANGED <<hidden, staged, faults, left>>
  BY CrashControl DEF Crash, Goto, Control, PcTyped, Keep, dirs, destination
<1>2. \A h \in hidden : h.by \in Procs
  BY DEF Control, RootTyped, Hidden
<1>3. Bounds' /\ NoWayBack' /\ StagedOwned'
  BY <1>1 DEF Owned, Bounds, NoWayBack, Back, StagedOwned, Faultless, Frame
<1>4. HiddenOwned'
  BY <1>1, <1>2 DEF Owned, HiddenOwned, Faultless, Frame
<1>5. QED
  BY <1>3, <1>4 DEF Owned

\* ... and whatever leaves the processes alone.
LEMMA OwnedElse ==
    ASSUME Control, Owned, UNCHANGED <<pc, hidden, staged, faults, left>>,
           \A p \in Procs : job'[p].sel = job[p].sel /\ job'[p].done = job[p].done
    PROVE  Owned'
<1>1. Bounds' /\ NoWayBack' /\ HiddenOwned'
  BY DEF Owned, Bounds, NoWayBack, HiddenOwned, Faultless
<1>2. StagedOwned'
  BY DEF Owned, StagedOwned, Faultless, Clears
<1>3. QED
  BY <1>1, <1>2 DEF Owned

\* Commands that meet no failing file operation and do not die leave no hidden directory
\* in the root and none at the destination of a migration, whichever way they end.  The
\* hypothesis cannot go: a delete that waits too long for the lock of a restore finds the
\* place of its directory taken when it gives up.
THEOREM NothingIsLeft ==
    ASSUME Considerate
    PROVE  Spec => []NothingLeft
<1>. DEFINE Inv == Control /\ Entries /\ PlaceHeld /\ Owned
<1>1. Init => Inv
  <2>1. ASSUME Init PROVE PlaceHeld /\ Owned
    BY <2>1, RootAssumption DEF Init, RootInit, MigrationInit, PlaceHeld, Owned, Bounds,
       NoWayBack, Back, HiddenOwned, StagedOwned, RootAssumption
  <2>2. QED
    BY <2>1, ControlInit, EntriesInit
<1>2. Inv /\ [Next]_allVars => Inv'
  <2>1. ASSUME Inv, NEW p \in Procs, BeginCommand(p) PROVE Entries' /\ PlaceHeld' /\ Owned'
    BY <2>1, EntriesBegin, PlaceBegin, OwnedBegin
  <2>2. ASSUME Inv, NEW p \in Procs, Step(p) PROVE Entries' /\ PlaceHeld' /\ Owned'
    BY <2>2, EntriesStep, PlaceStep, OwnedStep
  <2>3. ASSUME Inv, NEW p \in Procs, Crash(p) PROVE Entries' /\ PlaceHeld' /\ Owned'
    BY <2>3, EntriesCrash, PlaceCrash, OwnedCrash
  <2>4. ASSUME Inv, BrowserStarts, UNCHANGED <<out, destination>>
        PROVE  Entries' /\ PlaceHeld' /\ Owned'
    <3>1. CASE \E i \in Ids : Launch(i)
      <4>1. PICK i \in Ids : Launch(i)
        BY <3>1
      <4>2. UNCHANGED <<pc, hidden, staged, faults, left>>
        BY <2>4, <4>1 DEF Launch, Keep, destination
      <4>3. QED
        BY <2>4, <4>1, <4>2, EntriesLaunch, PlaceLaunch, LaunchControl, OwnedElse
    <3>2. CASE Rewrite
      <4>1. UNCHANGED <<doc, dir, pc, job, hidden, staged, faults, left>>
        BY <2>4, <3>2, RewriteIs DEF destination
      <4>2. QED
        BY <2>4, <4>1, EntriesElse, PlaceStill, OwnedElse
    <3>3. QED
      BY <2>4, <3>1, <3>2, StartsIs
  <2>5. ASSUME Inv, BrowserEnds, UNCHANGED <<out, destination>>
        PROVE  Entries' /\ PlaceHeld' /\ Owned'
    <3>1. PICK i \in Ids : Stop(i)
      BY <2>5 DEF BrowserEnds
    <3>2. UNCHANGED <<doc, dir, pc, job, hidden, staged, faults, left>>
      BY <2>5, <3>1 DEF Stop, Keep, meta, dirs, destination
    <3>3. QED
      BY <2>5, <3>2, EntriesElse, PlaceStill, OwnedElse
  <2>6. ASSUME Inv, UNCHANGED allVars PROVE Entries' /\ PlaceHeld' /\ Owned'
    <3>1. UNCHANGED <<doc, dir, pc, job, hidden, staged, faults, left>>
      BY <2>6 DEF allVars, rootVars, destination
    <3>2. QED
      BY <2>6, <3>1, EntriesElse, PlaceStill, OwnedElse
  <2>7. QED
    BY <2>1, <2>2, <2>3, <2>4, <2>5, <2>6, ControlNext DEF Next
<1>3. Inv => NothingLeft
  <2>1. SUFFICES ASSUME Inv, faults = MaxFaults, \A p \in Procs : pc[p] = "idle"
                 PROVE  hidden = {} /\ staged = {}
    BY DEF NothingLeft
  <2>2. \A h \in hidden : h.by \in Procs
    BY <2>1 DEF Control, RootTyped, Hidden
  <2>3. hidden = {}
    BY <2>1, <2>2 DEF Owned, HiddenOwned, Faultless, Sweeps
  <2>4. staged = {}
    BY <2>1 DEF Owned, StagedOwned, Faultless, Clears
  <2>5. QED
    BY <2>3, <2>4
<1>4. QED
  BY <1>1, <1>2, <1>3, PTL DEF Spec

-----------------------------------------------------------------------------
(* A repair heals. *)

\* Nobody else does anything while a repair runs.
LEMMA RepairAlone ==
    ASSUME Control, Considerate, NEW p \in Procs, NEW q \in Procs, p # q, pc[p] \in Repairs
    PROVE  ~Step(q) /\ ~BeginCommand(q)
<1>1. ~Step(q)
  <2>1. pc[q] \in {"idle", "down"}
    BY Alone
  <2>2. QED
    BY <2>1, StepFrom DEF Creating, Deleting, Restoring, RestoreLocked, BackingUp, Repairs,
       Migrating, MigrateLocked, Removing
<1>2. ASSUME BeginCommand(q) PROVE FALSE
  <2>1. PICK c \in Commands, S \in SUBSET Ids : Begins(q, c, S)
    BY <1>2, BeginIs DEF Control
  <2>2. job[p].cmd = "repair" /\ "repair" \in Can[p] /\ c \in Can[q]
    BY <2>1 DEF Control, Commanded, Begins
  <2>3. <<c, "repair">> \notin Apart /\ <<"repair", c>> \notin Apart
    BY <2>1, <2>2 DEF Begins, MayRun
  <2>4. NeverWith("repair", c)
    BY DEF Considerate
  <2>5. QED
    BY <2>2, <2>3, <2>4 DEF NeverWith
<1>3. QED
  BY <1>1, <1>2

\* The steps of the repair itself.
LEMMA MendedStep ==
    ASSUME Control, Mending, NEW p \in Procs, Step(p), pc'[p] \in Requested
    PROVE  Mended(p)'
<1>1. Control' /\ Knowing(p)
  BY StepIs, MovesIs, LocksIs, KnowingIs DEF Control
<1>2. pc[p] \in Repairs
  BY <1>1 DEF Knowing, Families, Requested, Creating, Deleting, Restoring, RestoreLocked,
     BackingUp, Repairs, Migrating, MigrateLocked, Removing
<1>3. RepairStep(p)
  BY <1>2, StepFrom DEF Creating, Deleting, Restoring, RestoreLocked, BackingUp, Repairs,
     Migrating, MigrateLocked, Removing
<1>4. ~Return(p)
  BY DEF Return, Goto, Control, PcTyped, Requested
<1>5. Reload(p) \/ Recreate(p) \/ FindOrphans(p)
  BY <1>3, <1>4 DEF RepairStep, UnlinkStates, Sweep, Inspect, Upgrade, UpgradeFails, ReadBackup,
     RecoverBackup, RecreateFails, Reattach, ReattachFails, Requested, Goto, Control, PcTyped
<1>6. CASE Reload(p)
  <2>1. /\ Loadable /\ Remember(p, doc) /\ UNCHANGED root
        /\ Goto(p, IF "recreate" \in job[p].flag THEN "recreate" ELSE "find_orphans")
    BY <1>4, <1>6 DEF Reload
  <2>2. job'[p].snap = doc /\ job'[p].flag = job[p].flag
    <3>1. Knows(p, job[p].sel, job[p].done, doc)
      BY <2>1, Updates, Zenon DEF Remember, Control
    <3>2. QED
      BY <3>1, KnowsIs DEF Control
  <2>3. UNCHANGED <<doc, form>>
    BY <2>1 DEF root
  <2>4. /\ pc'[p] \in {"recreate", "find_orphans"}
        /\ "recreate" \in job'[p].flag => pc'[p] = "recreate"
    BY <2>1, <2>2 DEF Goto, Control, PcTyped
  <2>5. QED
    BY <2>1, <2>2, <2>3, <2>4 DEF Mended, Loadable
<1>7. CASE Recreate(p)
  <2>1. pc[p] = "recreate" /\ Mended(p) /\ UNCHANGED <<doc, form>>
    BY <1>7 DEF Recreate, Mending, Requested, meta
  <2>2. job'[p].snap = doc
    BY <1>1, <1>4, <1>7, <2>1, RepairJobs, KnowsIs DEF Mended, Control
  <2>3. CASE pc'[p] = "recreate"
    BY <2>1, <2>2, <2>3 DEF Mended, Loadable
  <2>4. CASE pc'[p] # "recreate"
    <3>1. ToRecreate(p) = {} /\ pc'[p] = "find_orphans" /\ UNCHANGED dir
      BY <1>4, <1>7, <2>1, <2>4 DEF Recreate, Goto, Control, PcTyped
    <3>2. \A i \in Listed(doc) : dir[i] \in Kinds
      BY <2>1, <3>1 DEF ToRecreate, Mended
    <3>3. QED
      BY <2>1, <2>2, <3>1, <3>2 DEF Mended, Loadable
  <2>5. QED
    BY <2>3, <2>4
<1>8. CASE FindOrphans(p)
  <2>1. pc[p] = "find_orphans" /\ Mended(p) /\ UNCHANGED <<doc, form, dir>>
    BY <1>8 DEF FindOrphans, Mending, Requested, root
  <2>2. /\ Goto(p, "reattach") /\ Knows(p, Unlisted(p), job[p].done, job[p].snap)
    BY <1>4, <1>8, RepairJobs DEF FindOrphans, Control
  <2>3. /\ job'[p].snap = doc /\ job'[p].flag = job[p].flag /\ job'[p].sel = Unlisted(p)
        /\ pc'[p] = "reattach"
    BY <2>1, <2>2, KnowsIs DEF Mended, Goto, Control, PcTyped
  <2>4. Unlisted(p)' = Unlisted(p)
    BY <2>1, <2>3 DEF Unlisted, Mended
  <2>5. QED
    BY <2>1, <2>3, <2>4 DEF Mended, Loadable
<1>9. QED
  BY <1>5, <1>6, <1>7, <1>8

\* What keeps the document, and only adds data for what is listed, keeps a repair right.
LEMMA MendedElse ==
    ASSUME NEW p \in Procs, Mended(p), pc'[p] = pc[p], Loadable', UNCHANGED doc,
           job'[p].snap = job[p].snap /\ job'[p].sel = job[p].sel /\ job'[p].flag = job[p].flag,
           \A i \in Ids : dir'[i] = dir[i] \/ (dir'[i] \in Kinds /\ doc[i] # Absent)
    PROVE  Mended(p)'
<1>1. Unlisted(p)' = Unlisted(p)
  BY DEF Unlisted, Mended
<1>2. QED
  BY <1>1 DEF Mended, Listed

\* Every step does.
LEMMA MendingNext ==
    ASSUME Control, Considerate, Mending, [Next]_allVars
    PROVE  Mending'
<1>1. SUFFICES ASSUME NEW p \in Procs, pc'[p] \in Requested PROVE Mended(p)'
  BY DEF Mending
<1>2. ASSUME pc'[p] = pc[p], job'[p] = job[p], UNCHANGED <<doc, form, dir>>
      PROVE  Mended(p)'
  BY <1>1, <1>2, MendedElse DEF Mending, Mended, Loadable
<1>3. pc[p] = pc'[p] => pc[p] \in Repairs
  BY <1>1 DEF Requested, Repairs
<1>4. ASSUME NEW q \in Procs, BeginCommand(q) PROVE Mended(p)'
  <2>1. PICK c \in Commands, S \in SUBSET Ids : Begins(q, c, S)
    BY <1>4, BeginIs DEF Control
  <2>2. Frame(q) /\ pc'[q] = First(c)
    BY <2>1, BeginControl
  <2>3. First(c) \notin Requested
    BY DEF First, Commands, Requested
  <2>4. p # q /\ pc'[p] = pc[p]
    BY <1>1, <2>2, <2>3 DEF Frame
  <2>5. QED
    BY <1>3, <1>4, <2>4, RepairAlone
<1>5. ASSUME NEW q \in Procs, Step(q) PROVE Mended(p)'
  <2>1. CASE p = q
    BY <1>1, <1>5, <2>1, MendedStep
  <2>2. CASE p # q
    <3>1. pc'[p] = pc[p]
      BY <1>5, <2>2, StepIs, MovesIs DEF Control, Frame
    <3>2. QED
      BY <1>3, <1>5, <2>2, <3>1, RepairAlone
  <2>3. QED
    BY <2>1, <2>2
<1>6. ASSUME NEW q \in Procs, Crash(q) PROVE Mended(p)'
  <2>1. Frame(q) /\ pc'[q] = "down" /\ UNCHANGED <<doc, form, dir>>
    BY <1>6, CrashControl DEF Crash, Goto, Control, PcTyped, meta, dirs
  <2>2. p # q
    BY <1>1, <2>1 DEF Requested
  <2>3. QED
    BY <1>2, <2>1, <2>2 DEF Frame
<1>11. ASSUME Rewrite PROVE Mended(p)'
  <2>1. UNCHANGED <<doc, dir, pc, job>> /\ Loadable'
    BY <1>11, RewriteIs DEF Loadable
  <2>2. Mended(p)
    BY <1>1, <2>1 DEF Mending
  <2>3. QED
    BY <2>1, <2>2, MendedElse
<1>7. ASSUME NEW i \in Ids, Launch(i), UNCHANGED <<out, destination>> PROVE Mended(p)'
  <2>1. /\ UNCHANGED pc
        /\ job'[p].sel = job[p].sel /\ job'[p].snap = job[p].snap
    BY <1>7, LaunchControl
  <2>2. pc[p] \notin Reads
    BY <1>1, <2>1 DEF Requested, Reads
  <2>3. job'[p] = job[p]
    BY <1>7, <2>2 DEF Launch
  <2>4. UNCHANGED doc /\ Loadable' /\ doc[i] # Absent
    BY <1>7 DEF Launch, meta, Loadable
  <2>5. \A j \in Ids : dir'[j] = dir[j] \/ (dir'[j] \in Kinds /\ doc[j] # Absent)
    BY <1>7 DEF Launch, Kinds, Control, RootTyped
  <2>6. QED
    BY <1>1, <2>1, <2>3, <2>4, <2>5, MendedElse DEF Mending
<1>8. ASSUME NEW i \in Ids, Stop(i) PROVE Mended(p)'
  BY <1>2, <1>8 DEF Stop, meta, dirs
<1>9. ASSUME UNCHANGED allVars PROVE Mended(p)'
  BY <1>2, <1>9 DEF allVars, rootVars
<1>10. QED
  BY <1>4, <1>5, <1>6, <1>7, <1>8, <1>9, <1>11, StartsIs DEF Next, BrowserEnds

\* What is left when the repair has ended.
Healed ==
    /\ Loadable /\ lock = Free
    /\ \A i \in Listed(doc) : dir[i] \in Kinds
    /\ \A i \in Ids : doc[i] = Absent => dir[i] \notin Kinds

\* ... is what doctor reports as healthy.
LEMMA HealedReport ==
    ASSUME RootTyped', Healed'
    PROVE  /\ \A check \in DOMAIN Report' : Report'[check] # "failed"
           /\ Report'.directories = "ok"
           /\ \A i \in Orphans' : dir'[i] = "bare"
<1>1. MetadataCheck' \in {"ok", "warning"}
  BY DEF MetadataCheck, Healed, Loadable, RootTyped
<1>2. DirectoriesCheck' = "ok"
  BY DEF DirectoriesCheck, Missing, Healed, Loadable
<1>3. StaleCheck' \in {"ok", "warning"} /\ OrphansCheck' \in {"ok", "warning"}
  BY DEF StaleCheck, OrphansCheck
<1>4. LockCheck' = "ok"
  BY DEF LockCheck, Healed
<1>5. \A i \in Orphans' : dir'[i] = "bare"
  BY DEF Orphans, Healed, RootTyped, Data
<1>6. QED
  BY <1>1, <1>2, <1>3, <1>4, <1>5 DEF Report

\* A repair that ends as it should has healed the root.
LEMMA HealedStep ==
    ASSUME Control, Considerate, Bounds, Mending, NEW p \in Procs, [Next]_allVars,
           pc[p] \in {"find_orphans", "reattach"}, pc'[p] = "idle",
           {"recreate", "reattach"} \subseteq job[p].flag, faults' = MaxFaults,
           \A i \in Ids : ~Active(i)
    PROVE  Healed' /\ RootTyped'
<1>1. pc[p] \in Repairs
  BY DEF Repairs
<1>2. Step(p)
  <2>1. ASSUME NEW q \in Procs, BeginCommand(q) PROVE FALSE
    <3>1. p # q
      <4>1. PICK c \in Commands, S \in SUBSET Ids : Begins(q, c, S)
        BY <2>1, BeginIs DEF Control
      <4>2. QED
        BY <4>1 DEF Begins
    <3>2. QED
      BY <1>1, <2>1, <3>1, RepairAlone
  <2>2. ASSUME NEW q \in Procs, Step(q) PROVE Step(p)
    BY <1>1, <2>2, RepairAlone
  <2>3. ASSUME NEW q \in Procs, Crash(q) PROVE FALSE
    <3>1. Frame(q) /\ pc'[q] = "down"
      BY <2>3, CrashControl DEF Crash, Goto, Control, PcTyped
    <3>2. QED
      BY <3>1 DEF Frame
  <2>4. UNCHANGED pc => FALSE
    OBVIOUS
  <2>5. BrowserStarts => UNCHANGED pc
    BY StartsIs, RewriteIs DEF Launch
  <2>6. QED
    BY <2>1, <2>2, <2>3, <2>4, <2>5 DEF Next, BrowserEnds, Stop, allVars, rootVars
<1>3. ~Fault
  BY <1>2, FaultsStep DEF Faultless
<1>4. Control' /\ Frame(p)
  BY <1>2, StepIs, MovesIs, LocksIs, KnowingIs DEF Control
<1>5. lock = Free
  <2>1. \A q \in Procs : q # p => pc[q] \notin RestoreLocked
    BY <1>1, Alone DEF RestoreLocked
  <2>2. QED
    BY <2>1 DEF Control, PcTyped, RestoreLocked
<1>6. lock' = Free
  <2>1. \A q \in Procs : pc'[q] \notin RestoreLocked
    BY <1>1, <1>4, Alone DEF Frame, RestoreLocked
  <2>2. QED
    BY <1>4, <2>1 DEF Control, PcTyped
<1>7. /\ Mended(p)
      /\ \A i \in Listed(doc) : dir[i] \in Kinds
  BY DEF Mending, Mended, Requested
<1>8. CASE FindOrphans(p)
  <2>1. Unlisted(p) = {} /\ UNCHANGED <<doc, form, dir>>
    BY <1>8 DEF FindOrphans, Unlisted, Goto, Control, PcTyped, root
  <2>2. QED
    BY <1>4, <1>6, <1>7, <2>1 DEF Healed, Mended, Loadable, Unlisted, Control
<1>9. CASE Reattach(p)
  <2>1. doc' = Reattached(p) /\ form' = "current" /\ UNCHANGED dir
    BY <1>9 DEF Reattach, Commit, dirs
  <2>2. pc[p] = "reattach" /\ job[p].sel = Unlisted(p) /\ job[p].snap = doc
    BY <1>7, <1>9 DEF Reattach, Mended
  <2>3. \A i \in Ids :
          doc'[i] = IF dir[i] \in Kinds /\ doc[i] = Absent THEN "recovered" ELSE doc[i]
    BY <2>1, <2>2 DEF Reattached, Unlisted
  <2>4. \A i \in Ids : doc'[i] = Absent => doc[i] = Absent /\ dir[i] \notin Kinds
    BY <2>3, AbsentAssumption DEF AbsentAssumption, Origins
  <2>5. \A i \in Ids : doc'[i] # Absent => dir[i] \in Kinds
    BY <1>7, <2>3 DEF Listed
  <2>6. QED
    BY <1>4, <1>6, <2>1, <2>4, <2>5 DEF Healed, Loadable, Listed, Control
<1>10. QED
  <2>1. RepairStep(p)
    BY <1>1, <1>2, StepFrom DEF Creating, Deleting, Restoring, RestoreLocked, BackingUp, Repairs,
       Migrating, MigrateLocked, Removing
  <2>2. ~ReattachFails(p)
    BY <1>3, <1>5 DEF ReattachFails, TimesOut, CommitFails
  <2>3. QED
    BY <1>8, <1>9, <2>1, <2>2 DEF RepairStep, UnlinkStates, Sweep, Inspect, Upgrade,
       UpgradeFails, ReadBackup, RecoverBackup, Reload, Recreate, RecreateFails

\* A repair with both options that ends as it should leaves a root that doctor calls
\* healthy, whatever was damaged before, although it decides from what it read before it
\* took the lock: while it runs alone, only browsers change anything.
THEOREM RepairIsHealing ==
    ASSUME Considerate
    PROVE  Spec => RepairHeals
<1>. DEFINE Inv == Control /\ Bounds /\ Mending
            Heals == \A p \in Procs :
                 /\ pc[p] \in {"find_orphans", "reattach"} /\ pc'[p] = "idle"
                 /\ {"recreate", "reattach"} \subseteq job[p].flag
                 /\ faults' = MaxFaults
                 /\ \A i \in Ids : ~Active(i)
                 => /\ \A check \in DOMAIN Report' : Report'[check] # "failed"
                    /\ Report'.directories = "ok"
                    /\ \A i \in Orphans' : dir'[i] = "bare"
<1>1. Init => Inv
  <2>1. ASSUME Init PROVE Bounds /\ Mending
    BY <2>1, RootAssumption DEF Init, RootInit, Bounds, Mending, Requested, RootAssumption
  <2>2. QED
    BY <2>1, ControlInit
<1>2. Inv /\ [Next]_allVars => Inv'
  BY ControlNext, MendingNext, BoundsNext
<1>3. Inv /\ [Next]_allVars => Heals
  <2>1. ASSUME Healed', RootTyped'
        PROVE  /\ \A check \in DOMAIN Report' : Report'[check] # "failed"
               /\ Report'.directories = "ok"
               /\ \A i \in Orphans' : dir'[i] = "bare"
    BY <2>1, HealedReport
  <2>2. QED
    BY <2>1, HealedStep
<1>4. QED
  BY <1>1, <1>2, <1>3, PTL DEF Spec, RepairHeals

=============================================================================
