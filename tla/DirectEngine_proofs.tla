------------------------- MODULE DirectEngine_proofs -------------------------
(***************************************************************************)
(* Proofs about DirectEngine, for any processes, pids and number of        *)
(* processes ever created: its type invariant; that no stranger is         *)
(* signalled as long as no browser exits while its launch waits for it;    *)
(* and, without hypotheses, that a close which succeeds leaves no browser, *)
(* that whoever overrules a state that counts acts on an outdated view of  *)
(* running.json, and that nothing but that, or the death of a launcher     *)
(* with a browser in hand, costs a profile its one browser on record.      *)
(***************************************************************************)
EXTENDS DirectHistory, TLAPS, FiniteSetTheorems

-----------------------------------------------------------------------------
(* Type correctness. *)

\* A child reaped by its parent leaves a process table.
LEMMA ReapedType ==
    ASSUME TypeOK, NEW p \in Procs, NEW k
    PROVE  /\ Reaped(p, k) \in [Pids -> Process \cup {NoProcess}]
           /\ \A j \in Pids : Reaped(p, k)[j] = os[j]
                \/ (Reaped(p, k)[j] = NoProcess /\ os[j] # NoProcess /\ os[j].zombie)
BY DEF Reaped, TypeOK

\* A process that ends is gone or a zombie, and otherwise what it was.
LEMMA AfterDeathType ==
    ASSUME TypeOK, NEW k \in Pids, os[k] # NoProcess
    PROVE  /\ AfterDeath(k) \in [Pids -> Process \cup {NoProcess}]
           /\ \A j \in Pids : j # k => AfterDeath(k)[j] = os[j]
           /\ \/ AfterDeath(k)[k] = NoProcess
              \/ AfterDeath(k)[k] = [os[k] EXCEPT !.zombie = TRUE]
<1>1. os[k] \in Process
  BY DEF TypeOK
<1>2. [os[k] EXCEPT !.zombie = TRUE] \in Process
  BY <1>1 DEF Process
<1>3. QED
  BY <1>1, <1>2 DEF AfterDeath, TypeOK

\* The states that a launch or a close writes are states.
LEMMA StateTypes ==
    /\ \A p \in Procs, r \in BOOLEAN : Starting(p, r) \in State /\ Starting(p, r).pid = NoPid
    /\ \A p \in Procs, k \in Pids \cup {NoPid}, t \in 0..MaxClock \cup {None} :
         [Starting(p, TRUE) EXCEPT !.pid = k, !.ctime = t] \in State
    /\ \A s \in State : [s EXCEPT !.closing = TRUE] \in State
BY DEF Starting, State

\* A command that ends leaves its locals well typed.
LEMMA LeaveType ==
    ASSUME TypeOK, NEW p \in Procs, NEW l, Leave(p, l), l \in {"idle", "down"}
    PROVE  /\ pc' \in [Procs ->
                {"down", "idle", "precheck", "unlink_reused", "read", "judge", "unlink_stale",
                 "create", "initial", "spawn", "wait", "identify", "record", "stop",
                 "unlink_failed", "reread", "mark", "terminate", "await", "await_kill",
                 "unlink_closed"}]
           /\ op' \in [Procs -> Ops \cup {None}]
           /\ snap' \in [Procs -> State \cup {NoFile}]
           /\ child' \in [Procs -> [pid : Pids \cup {NoPid}, ctime : 0..MaxClock \cup {None}]]
BY DEF TypeOK, Leave, Goto, NoChild

\* An empty machine is well typed.
LEMMA InitType == Init => TypeOK
BY DirectAssumption DEF Init, TypeOK, NoChild

\* get_status, and the launch up to its first write.
LEMMA TypeStatus ==
    ASSUME TypeOK, NEW p \in Procs,
           Begin(p) \/ Read(p) \/ Judge(p) \/ UnlinkStale(p) \/ ComeBack(p)
    PROVE  TypeOK'
<1>1. CASE Begin(p)
  BY <1>1 DEF TypeOK, Begin, Goto, Ops
<1>2. CASE Read(p)
  BY <1>2 DEF TypeOK, Read, Goto
<1>3. CASE Judge(p)
  <2>1. os' \in [Pids -> Process \cup {NoProcess}] /\ UNCHANGED <<file, clock>>
    BY <1>3, ReapedType DEF Judge
  <2>2. CASE Return(p)
    BY <2>1, <2>2, LeaveType DEF TypeOK, Return
  <2>3. CASE /\ Goto(p, "reread") \/ Goto(p, "unlink_stale") \/ Goto(p, "create")
             /\ UNCHANGED <<op, snap, child>>
    BY <2>1, <2>3 DEF TypeOK, Goto
  <2>4. QED
    BY <1>3, <2>2, <2>3 DEF Judge
<1>4. CASE UnlinkStale(p)
  <2>1. file' = NoFile /\ UNCHANGED <<os, clock>>
    BY <1>4 DEF UnlinkStale
  <2>2. CASE Return(p)
    BY <2>1, <2>2, LeaveType DEF TypeOK, Return
  <2>3. CASE Goto(p, "create") /\ UNCHANGED <<op, snap, child>>
    BY <2>1, <2>3 DEF TypeOK, Goto
  <2>4. QED
    BY <1>4, <2>2, <2>3 DEF UnlinkStale
<1>5. CASE ComeBack(p)
  BY <1>5 DEF TypeOK, ComeBack, Goto
<1>6. QED
  BY <1>1, <1>2, <1>3, <1>4, <1>5

\* A new process is a process, and the clock stays within its bound.
LEMMA NewProcessType ==
    ASSUME TypeOK, NEW k \in Pids, NEW owner \in {"browser", "stranger"},
           NEW parent \in Procs \cup {Init1}, NewProcess(k, owner, parent)
    PROVE  os' \in [Pids -> Process \cup {NoProcess}] /\ clock' \in 0..MaxClock
<1>1. clock' \in 0..MaxClock
  BY DirectAssumption DEF TypeOK, NewProcess
<1>2. [born |-> clock, owner |-> owner, parent |-> parent, zombie |-> FALSE, sent |-> "nothing"]
        \in Process
  BY DEF Process, TypeOK
<1>3. QED
  BY <1>1, <1>2 DEF NewProcess, TypeOK

\* The launch.
LEMMA TypeLaunch ==
    ASSUME TypeOK, NEW p \in Procs,
           \/ Create(p) \/ WriteInitial(p) \/ WriteInitialFails(p) \/ Spawn(p) \/ SpawnFails(p)
           \/ StopWaiting(p) \/ Identify(p) \/ Record(p)
           \/ RecordFails(p) \/ StopSpawned(p) \/ UnlinkFailed(p)
    PROVE  TypeOK'
<1>1. CASE Create(p)
  <2>1. CASE file = NoFile
    BY <1>1, <2>1, StateTypes DEF TypeOK, Create, Goto
  <2>2. CASE file # NoFile
    BY <1>1, <2>2, LeaveType DEF TypeOK, Create, Return
  <2>3. QED
    BY <2>1, <2>2
<1>2. CASE WriteInitial(p)
  BY <1>2, StateTypes DEF TypeOK, WriteInitial, Written, Goto
<1>3. CASE WriteInitialFails(p)
  <2>1. file' \in State \cup {NoFile}
    BY <1>3, StateTypes DEF TypeOK, WriteInitialFails, Written
  <2>2. QED
    BY <1>3, <2>1, LeaveType DEF TypeOK, WriteInitialFails, Return
<1>4. CASE Spawn(p)
  <2>1. os' \in [Pids -> Process \cup {NoProcess}] /\ clock' \in 0..MaxClock
    BY <1>4, NewProcessType DEF Spawn
  <2>2. QED
    BY <1>4, <2>1 DEF TypeOK, Spawn, Goto
<1>5. CASE SpawnFails(p)
  BY <1>5, LeaveType DEF TypeOK, SpawnFails, Return
<1>6. CASE StopWaiting(p)
  <2>1. os' \in [Pids -> Process \cup {NoProcess}]
    BY <1>6, ReapedType DEF StopWaiting, TypeOK
  <2>2. QED
    BY <1>6, <2>1 DEF TypeOK, StopWaiting, Goto
<1>7. CASE Identify(p)
  <2>1. CreateTime(child[p].pid) \in 0..MaxClock \cup {None}
    BY DEF CreateTime, TypeOK, Process
  <2>2. QED
    BY <1>7, <2>1 DEF TypeOK, Identify, Goto
<1>8. CASE Record(p)
  <2>1. file' \in State
    BY <1>8, StateTypes DEF TypeOK, Record
  <2>2. QED
    BY <1>8, <2>1, LeaveType DEF TypeOK, Record, Return
<1>9. CASE RecordFails(p)
  BY <1>9 DEF TypeOK, RecordFails, Goto
<1>10. CASE StopSpawned(p)
  BY <1>10 DEF TypeOK, StopSpawned, Goto
<1>11. CASE UnlinkFailed(p)
  BY <1>11, LeaveType DEF TypeOK, UnlinkFailed, Return
<1>12. QED
  BY <1>1, <1>2, <1>3, <1>4, <1>5, <1>6, <1>7, <1>8, <1>9, <1>10, <1>11

\* A close that re-read the state has one in hand until it returns.
Held == {"mark", "terminate", "await", "await_kill", "unlink_closed"}
SnapHeld == \A p \in Procs : pc[p] \in Held => snap[p] # NoFile

\* A signal is sent to a process of the table, and changes nothing else of it.
LEMMA SignalType ==
    ASSUME TypeOK, NEW p \in Procs, NEW signal \in {"SIGTERM", "SIGKILL"}, NEW next,
           SignalRecorded(p, signal, next), snap[p] # NoFile
    PROVE  /\ os' \in [Pids -> Process \cup {NoProcess}]
           /\ UNCHANGED os \/ (LET k == snap[p].pid IN
                /\ k \in Pids /\ os[k] # NoProcess /\ Matching(p, k, snap[p].ctime)
                /\ \A j \in Pids : j # k => os'[j] = os[j]
                /\ os'[k] \in Process
                /\ os'[k].born = os[k].born /\ os'[k].owner = os[k].owner
                /\ os'[k].parent = os[k].parent /\ os'[k].zombie = os[k].zombie)
           /\ (Goto(p, next) /\ UNCHANGED <<op, snap, child>>) \/ Return(p)
<1>. DEFINE k == snap[p].pid
            sent == IF os[k].sent = "SIGKILL" THEN "SIGKILL" ELSE signal
<1>1. CASE Matching(p, k, snap[p].ctime)
  <2>1. k \in Pids /\ os[k] # NoProcess
    <3>1. k \in Pids /\ Reaped(p, k)[k] # NoProcess
      BY <1>1 DEF Matching, Alive
    <3>2. QED
      BY <3>1 DEF Reaped, TypeOK
  <2>2. os[k] \in Process
    BY <2>1 DEF TypeOK
  <2>3. os' = [os EXCEPT ![k] = [os[k] EXCEPT !.sent = sent]]
    BY <1>1 DEF SignalRecorded
  <2>4. /\ [os[k] EXCEPT !.sent = sent] \in Process
        /\ [os[k] EXCEPT !.sent = sent].born = os[k].born
        /\ [os[k] EXCEPT !.sent = sent].owner = os[k].owner
        /\ [os[k] EXCEPT !.sent = sent].parent = os[k].parent
        /\ [os[k] EXCEPT !.sent = sent].zombie = os[k].zombie
    BY <2>2 DEF Process
  <2>5. Goto(p, next) /\ UNCHANGED <<op, snap, child>>
    BY <1>1 DEF SignalRecorded
  <2>6. /\ os' \in [Pids -> Process \cup {NoProcess}]
        /\ os'[k] = [os[k] EXCEPT !.sent = sent]
        /\ \A j \in Pids : j # k => os'[j] = os[j]
    BY <2>1, <2>3, <2>4 DEF TypeOK
  <2>7. QED
    BY <1>1, <2>1, <2>4, <2>5, <2>6
<1>2. CASE ~Matching(p, k, snap[p].ctime)
  BY <1>2 DEF SignalRecorded, TypeOK
<1>3. QED
  BY <1>1, <1>2

\* The close.
LEMMA TypeClose ==
    ASSUME TypeOK, SnapHeld, NEW p \in Procs,
           \/ Precheck(p) \/ UnlinkReused(p) \/ Reread(p) \/ MarkClosing(p)
           \/ Terminate(p) \/ Kill(p) \/ FindGone(p) \/ CloseTimeout(p) \/ UnlinkClosed(p)
    PROVE  TypeOK'
<1>1. CASE Precheck(p)
  <2>1. os' \in [Pids -> Process \cup {NoProcess}] /\ UNCHANGED <<file, clock>>
    BY <1>1, ReapedType DEF Precheck
  <2>2. CASE Return(p)
    BY <2>1, <2>2, LeaveType DEF TypeOK, Return
  <2>3. CASE (Goto(p, "unlink_reused") \/ Goto(p, "read")) /\ UNCHANGED <<op, snap, child>>
    BY <2>1, <2>3 DEF TypeOK, Goto
  <2>4. QED
    BY <1>1, <2>2, <2>3 DEF Precheck
<1>2. CASE UnlinkReused(p)
  BY <1>2, LeaveType DEF TypeOK, UnlinkReused, Return
<1>3. CASE Reread(p)
  <2>1. CASE Return(p)
    BY <1>3, <2>1, LeaveType DEF TypeOK, Reread, Return
  <2>2. CASE ~Return(p)
    BY <1>3, <2>2 DEF TypeOK, Reread, Goto
  <2>3. QED
    BY <2>1, <2>2
<1>4. CASE MarkClosing(p)
  <2>1. snap[p] \in State
    BY <1>4 DEF TypeOK, SnapHeld, Held, MarkClosing
  <2>2. file' \in State \cup {NoFile}
    BY <1>4, <2>1, StateTypes DEF TypeOK, MarkClosing
  <2>3. QED
    BY <1>4, <2>2 DEF TypeOK, MarkClosing, Goto
<1>5. CASE FindGone(p)
  <2>1. os' \in [Pids -> Process \cup {NoProcess}]
    BY <1>5, ReapedType DEF FindGone
  <2>2. QED
    BY <1>5, <2>1 DEF TypeOK, FindGone, Goto
<1>6. CASE CloseTimeout(p)
  BY <1>6, LeaveType DEF TypeOK, CloseTimeout, Return
<1>7. CASE UnlinkClosed(p)
  BY <1>7, LeaveType DEF TypeOK, UnlinkClosed, Return
<1>8. CASE Terminate(p) \/ Kill(p)
  <2>1. snap[p] # NoFile
    BY <1>8 DEF SnapHeld, Held, Terminate, Kill
  <2>2. PICK signal \in {"SIGTERM", "SIGKILL"}, next \in {"await", "await_kill"} :
          SignalRecorded(p, signal, next)
    BY <1>8 DEF Terminate, Kill
  <2>3. /\ os' \in [Pids -> Process \cup {NoProcess}]
        /\ (Goto(p, next) /\ UNCHANGED <<op, snap, child>>) \/ Return(p)
    BY <2>1, <2>2, SignalType
  <2>4. UNCHANGED <<file, clock>>
    BY <1>8 DEF Terminate, Kill
  <2>5. CASE Return(p)
    BY <2>3, <2>4, <2>5, LeaveType DEF TypeOK, Return
  <2>6. CASE Goto(p, next) /\ UNCHANGED <<op, snap, child>>
    BY <2>3, <2>4, <2>6 DEF TypeOK, Goto
  <2>7. QED
    BY <2>3, <2>5, <2>6
<1>9. QED
  BY <1>1, <1>2, <1>3, <1>4, <1>5, <1>6, <1>7, <1>8

\* Processes come and go.
LEMMA TypeEnvironment ==
    ASSUME TypeOK, NEW k \in Pids,
           BrowserExits(k) \/ StrangerStarts(k) \/ StrangerExits(k) \/ Killed(k)
    PROVE  TypeOK'
<1>1. CASE StrangerStarts(k)
  <2>1. os' \in [Pids -> Process \cup {NoProcess}] /\ clock' \in 0..MaxClock
    BY <1>1, NewProcessType DEF StrangerStarts
  <2>2. QED
    BY <1>1, <2>1 DEF TypeOK, StrangerStarts
<1>2. CASE BrowserExits(k) \/ StrangerExits(k) \/ Killed(k)
  <2>1. os' \in [Pids -> Process \cup {NoProcess}]
    BY <1>2, AfterDeathType DEF BrowserExits, StrangerExits, Killed, Running
  <2>2. QED
    BY <1>2, <2>1 DEF TypeOK, BrowserExits, StrangerExits, Killed
<1>3. QED
  BY <1>1, <1>2

\* A ProfileDock process that ends changes its own children only.
LEMMA DieTable ==
    ASSUME TypeOK, NEW p \in Procs, Die(p)
    PROVE  /\ os' \in [Pids -> Process \cup {NoProcess}]
           /\ \A k \in Pids :
                \/ os'[k] = os[k]
                \/ /\ os[k] # NoProcess /\ os[k].parent = p
                   /\ (os'[k] = NoProcess \/ os'[k] = [os[k] EXCEPT !.parent = Init1])
<1>1. \A k \in Pids : os[k] # NoProcess => [os[k] EXCEPT !.parent = Init1] \in Process
  BY DEF TypeOK, Process
<1>2. QED
  BY <1>1 DEF Die, TypeOK

\* The end of a ProfileDock process keeps the types.
LEMMA TypeDie ==
    ASSUME TypeOK, NEW p \in Procs, Die(p)
    PROVE  TypeOK'
<1>1. os' \in [Pids -> Process \cup {NoProcess}]
  BY DieTable
<1>2. QED
  BY <1>1, LeaveType DEF TypeOK, Die

\* Only Reread brings a process to the steps that use what it re-read.
LEMMA HeldStep == TypeOK /\ SnapHeld /\ [Next]_vars => SnapHeld'
<1>. SUFFICES ASSUME TypeOK, SnapHeld, [Next]_vars, NEW p \in Procs, pc'[p] \in Held
     PROVE  snap'[p] # NoFile
  BY DEF SnapHeld
<1>1. CASE UNCHANGED <<pc, snap>>
  BY <1>1 DEF SnapHeld
<1>2. ASSUME NEW q \in Procs, Begin(q) \/ Step(q) \/ Die(q) \/ ComeBack(q)
      PROVE  snap'[p] # NoFile
  <2>1. CASE Leave(q, "idle") \/ Leave(q, "down")
    BY <2>1 DEF Leave, Goto, TypeOK, SnapHeld, Held
  <2>2. CASE \E l : Goto(q, l) /\ l \notin Held /\ UNCHANGED snap
    BY <2>2 DEF Goto, TypeOK, SnapHeld
  <2>3. CASE Read(q)
    BY <2>3 DEF Read, Goto, TypeOK, SnapHeld, Held
  <2>4. CASE Reread(q)
    BY <2>4 DEF Reread, Return, Leave, Goto, TypeOK, SnapHeld, Held
  <2>5. CASE (\E l \in Held : Goto(q, l)) /\ UNCHANGED snap /\ pc[q] \in Held
    BY <2>5 DEF Goto, TypeOK, SnapHeld
  <2>6. QED
    <3>1. CASE Begin(q) \/ Judge(q) \/ UnlinkStale(q) \/ ComeBack(q) \/ Die(q)
      BY <3>1, <2>1, <2>2 DEF Begin, Judge, UnlinkStale, ComeBack, Die, Return, Held
    <3>2. CASE \/ Create(q) \/ WriteInitial(q) \/ WriteInitialFails(q) \/ Spawn(q) \/ SpawnFails(q)
               \/ StopWaiting(q) \/ Identify(q) \/ Record(q)
               \/ RecordFails(q) \/ StopSpawned(q) \/ UnlinkFailed(q)
      BY <3>2, <2>1, <2>2
      DEF Create, WriteInitial, WriteInitialFails, Spawn, SpawnFails, StopWaiting, Identify, Record,
          RecordFails, StopSpawned, UnlinkFailed, Return, Held
    <3>3. CASE \/ Precheck(q) \/ UnlinkReused(q) \/ MarkClosing(q)
               \/ FindGone(q) \/ CloseTimeout(q) \/ UnlinkClosed(q)
      BY <3>3, <2>1, <2>2, <2>5
      DEF Precheck, UnlinkReused, MarkClosing, FindGone, CloseTimeout, UnlinkClosed, Return, Held
    <3>4. CASE Terminate(q) \/ Kill(q)
      BY <3>4, <2>1, <2>5 DEF Terminate, Kill, SignalRecorded, Return, Held
    <3>5. QED
      BY <1>2, <2>3, <2>4, <3>1, <3>2, <3>3, <3>4 DEF Step
<1>3. CASE \E k \in Pids : BrowserExits(k) \/ StrangerStarts(k) \/ StrangerExits(k) \/ Killed(k)
  BY <1>1, <1>3 DEF BrowserExits, StrangerStarts, StrangerExits, Killed
<1>4. QED
  BY <1>1, <1>2, <1>3 DEF Next, vars

\* Every step keeps the types.
LEMMA TypeStep == TypeOK /\ SnapHeld /\ [Next]_vars => TypeOK'
<1>. SUFFICES ASSUME TypeOK, SnapHeld, [Next]_vars PROVE TypeOK'
  OBVIOUS
<1>1. CASE UNCHANGED vars
  BY <1>1 DEF vars, TypeOK
<1>2. QED
  BY <1>1, TypeStatus, TypeLaunch, TypeClose, TypeDie, TypeEnvironment DEF Next, Step

\* The types, and the state in the hands of a close, are invariant.
LEMMA TypeHeld == Spec => [](TypeOK /\ SnapHeld)
<1>1. Init => SnapHeld
  BY DEF Init, SnapHeld, Held
<1>2. QED
  BY <1>1, InitType, TypeStep, HeldStep, PTL DEF Spec

\* running.json, the process table and what every command knows of them keep
\* their types.
THEOREM TypeCorrect == Spec => []TypeOK
BY TypeHeld, PTL

-----------------------------------------------------------------------------
(* Identity.  What running.json, a close or a launch about to be recorded says *)
(* is a claim: the process under this pid, created at this time, is the        *)
(* profile's browser.                                                          *)

Claim(k, t) ==
    \/ file # NoFile /\ file.pid = k /\ file.ctime = t
    \/ \E p \in Procs : snap[p] # NoFile /\ snap[p].pid = k /\ snap[p].ctime = t
    \/ \E p \in Procs : pc[p] = "record" /\ child[p].pid = k /\ child[p].ctime = t

\* A claim names a creation time of the past, and no stranger has it.
ClaimsHold ==
    \A k \in Pids, t \in 0..MaxClock \cup {None} : Claim(k, t) =>
      /\ t \in Nat /\ t < clock
      /\ os[k] # NoProcess /\ os[k].born = t => os[k].owner = "browser"

BornBefore == \A k \in Pids : os[k] # NoProcess => os[k].born < clock

\* The browser a launch waits for: alive, the launcher's child, and nobody's
\* claim yet, so that nobody signals it.
Launching == {"wait", "identify"}
LaunchedLive ==
    \A p \in Procs : pc[p] \in Launching =>
      /\ child[p].pid \in Pids
      /\ \A k \in Pids : child[p].pid = k =>
           /\ os[k] # NoProcess
           /\ os[k].owner = "browser" /\ os[k].parent = p /\ ~os[k].zombie
           /\ os[k].sent = "nothing"
           /\ \A t \in 0..MaxClock : os[k].born = t => ~Claim(k, t)

IdInv == TypeOK /\ SnapHeld /\ BornBefore /\ ClaimsHold /\ LaunchedLive /\ NoStrangerSignalled

\* A tame step makes no claim that was not there, launches nothing, and makes
\* the process table no larger.
FileTame ==
    \/ file' \in {NoFile, file}
    \/ file'.pid = NoPid
    \/ \E p \in Procs : snap[p] # NoFile /\ file'.pid = snap[p].pid /\ file'.ctime = snap[p].ctime
    \/ \E p \in Procs : pc[p] = "record" /\ file'.pid = child[p].pid /\ file'.ctime = child[p].ctime

SnapTame == \A p \in Procs : snap'[p] \in {NoFile, snap[p], file}

ChildTame ==
    \A p \in Procs :
      /\ pc'[p] = "record" => pc[p] = "record" /\ child'[p] = child[p]
      /\ pc'[p] \in Launching => pc[p] \in Launching /\ child'[p] = child[p]

TableTame ==
    /\ clock' = clock
    /\ \A k \in Pids : os'[k] # NoProcess =>
         /\ os[k] # NoProcess /\ os'[k].born = os[k].born /\ os'[k].owner = os[k].owner
         /\ os'[k].sent = os[k].sent \/ os[k].owner = "browser"
    /\ \A p \in Procs : pc'[p] \in Launching =>
         LET k == child[p].pid IN
           /\ os'[k] # NoProcess /\ os'[k].parent = os[k].parent
           /\ os'[k].zombie = os[k].zombie /\ os'[k].sent = os[k].sent

\* After a tame step every claim is an old one.
LEMMA TameClaims ==
    ASSUME TypeOK, TypeOK', FileTame, SnapTame, ChildTame, NEW k \in Pids, NEW t, Claim(k, t)'
    PROVE  Claim(k, t)
<1>1. CASE file' # NoFile /\ file'.pid = k /\ file'.ctime = t
  BY <1>1, DirectAssumption DEF FileTame, Claim
<1>2. CASE \E p \in Procs : snap'[p] # NoFile /\ snap'[p].pid = k /\ snap'[p].ctime = t
  BY <1>2 DEF SnapTame, Claim
<1>3. CASE \E p \in Procs : pc'[p] = "record" /\ child'[p].pid = k /\ child'[p].ctime = t
  BY <1>3 DEF ChildTame, Claim
<1>4. QED
  BY <1>1, <1>2, <1>3 DEF Claim

\* A tame step keeps the invariant.
LEMMA TameStep ==
    ASSUME IdInv, TypeOK', SnapHeld', FileTame, SnapTame, ChildTame, TableTame
    PROVE  IdInv'
<1>1. \A k \in Pids : \A t : Claim(k, t)' => Claim(k, t)
  BY TameClaims DEF IdInv
<1>2. BornBefore'
  BY DEF BornBefore, TableTame, IdInv
<1>3. ClaimsHold'
  BY <1>1 DEF ClaimsHold, TableTame, IdInv
<1>4. NoStrangerSignalled'
  BY DEF NoStrangerSignalled, TableTame, IdInv
<1>5. LaunchedLive'
  <2>. SUFFICES ASSUME NEW p \in Procs, pc'[p] \in Launching
       PROVE  /\ child'[p].pid \in Pids
              /\ \A k \in Pids : child'[p].pid = k =>
                   /\ os'[k] # NoProcess
                   /\ os'[k].owner = "browser" /\ os'[k].parent = p /\ ~os'[k].zombie
                   /\ os'[k].sent = "nothing"
                   /\ \A t \in 0..MaxClock : os'[k].born = t => ~Claim(k, t)'
    BY DEF LaunchedLive
  <2>1. pc[p] \in Launching /\ child'[p] = child[p]
    BY DEF ChildTame
  <2>2. QED
    BY <1>1, <2>1 DEF LaunchedLive, TableTame, IdInv
<1>6. QED
  BY <1>2, <1>3, <1>4, <1>5 DEF IdInv

\* Reaping a zombie is tame: no launch waits for a zombie.
LEMMA ReapTame ==
    ASSUME IdInv, ChildTame, NEW p \in Procs, NEW k, os' \in {os, Reaped(p, k)}, clock' = clock
    PROVE  TableTame
<1>1. \A j \in Pids : \/ os'[j] = os[j]
                     \/ (os'[j] = NoProcess /\ os[j] # NoProcess /\ os[j].zombie)
  BY ReapedType DEF IdInv
<1>2. \A q \in Procs : pc'[q] \in Launching =>
        /\ child[q].pid \in Pids /\ os[child[q].pid] # NoProcess
        /\ ~os[child[q].pid].zombie
  BY DEF ChildTame, IdInv, LaunchedLive
<1>3. \A q \in Procs : pc'[q] \in Launching => os'[child[q].pid] = os[child[q].pid]
  BY <1>1, <1>2
<1>4. QED
  BY <1>1, <1>2, <1>3 DEF TableTame

\* A step that leaves the process table alone is tame.
LEMMA SameTable ==
    ASSUME IdInv, ChildTame, UNCHANGED <<os, clock>>
    PROVE  TableTame
BY DEF TableTame, ChildTame, IdInv, LaunchedLive

\* The end of a command is tame.
LEMMA LeaveTame ==
    ASSUME TypeOK, NEW p \in Procs, NEW l \in {"idle", "down"}, Leave(p, l)
    PROVE  SnapTame /\ ChildTame
BY DEF Leave, Goto, SnapTame, ChildTame, Launching, TypeOK

\* A step within a command that is not the start or the end of a launch.
LEMMA GotoTame ==
    ASSUME TypeOK, NEW p \in Procs, NEW l, Goto(p, l), UNCHANGED child,
           (l \notin Launching \cup {"record"}) \/ (l \in Launching /\ pc[p] \in Launching)
    PROVE  ChildTame
BY DEF Goto, ChildTame, Launching, TypeOK

\* A status poll, and the poll that opens every command, keep the invariant.
LEMMA IdStatus ==
    ASSUME IdInv, TypeOK', SnapHeld', NEW p \in Procs,
           Begin(p) \/ Read(p) \/ Judge(p) \/ UnlinkStale(p) \/ ComeBack(p)
    PROVE  IdInv'
<1>0. TypeOK
  BY DEF IdInv
<1>1. ChildTame
  <2>1. CASE Return(p)
    BY <1>0, <2>1, LeaveTame DEF Return
  <2>2. CASE ~Return(p)
    <3>1. \E l : Goto(p, l) /\ UNCHANGED child /\ l \notin Launching \cup {"record"}
      BY <2>2 DEF Begin, Read, Judge, UnlinkStale, ComeBack, Launching
    <3>2. QED
      BY <1>0, <3>1, GotoTame
  <2>3. QED
    BY <2>1, <2>2
<1>2. SnapTame
  BY <1>0, LeaveTame DEF Begin, Read, Judge, UnlinkStale, ComeBack, SnapTame, TypeOK, Return
<1>3. FileTame
  BY DEF Begin, Read, Judge, UnlinkStale, ComeBack, FileTame
<1>4. TableTame
  <2>1. CASE Judge(p)
    BY <1>1, <2>1, ReapTame DEF Judge
  <2>2. CASE ~Judge(p)
    BY <1>1, <2>2, SameTable DEF Begin, Read, UnlinkStale, ComeBack
  <2>3. QED
    BY <2>1, <2>2
<1>5. QED
  BY <1>1, <1>2, <1>3, <1>4, TameStep

\* The steps of a launch that neither spawn nor identify a browser.
LEMMA IdLaunch ==
    ASSUME IdInv, TypeOK', SnapHeld', NEW p \in Procs,
           \/ Create(p) \/ WriteInitial(p) \/ WriteInitialFails(p) \/ SpawnFails(p)
           \/ StopWaiting(p) \/ Record(p) \/ RecordFails(p) \/ StopSpawned(p) \/ UnlinkFailed(p)
    PROVE  IdInv'
<1>0. TypeOK
  BY DEF IdInv
<1>1. ChildTame
  <2>1. CASE Return(p)
    BY <1>0, <2>1, LeaveTame DEF Return
  <2>2. CASE ~Return(p)
    <3>1. CASE StopWaiting(p)
      BY <1>0, <3>1, GotoTame DEF StopWaiting, Launching
    <3>2. CASE ~StopWaiting(p)
      <4>1. /\ UNCHANGED child
            /\ \/ Goto(p, "initial") \/ Goto(p, "spawn") \/ Goto(p, "stop") \/ Goto(p, "unlink_failed")
        BY <2>2, <3>2 DEF Create, WriteInitial, WriteInitialFails, SpawnFails, Record,
                          RecordFails, StopSpawned, UnlinkFailed
      <4>2. QED
        BY <1>0, <4>1, GotoTame DEF Launching
    <3>3. QED
      BY <3>1, <3>2
  <2>3. QED
    BY <2>1, <2>2
<1>2. SnapTame
  <2>1. CASE Return(p)
    BY <1>0, <2>1, LeaveTame DEF Return
  <2>2. CASE UNCHANGED snap
    BY <2>2 DEF SnapTame
  <2>3. QED
    BY <2>1, <2>2 DEF Create, WriteInitial, WriteInitialFails, SpawnFails, StopWaiting, Record,
                      RecordFails, StopSpawned, UnlinkFailed
<1>3. FileTame
  <2>1. CASE Record(p)
    <3>1. file'.pid = child[p].pid /\ file'.ctime = child[p].ctime /\ pc[p] = "record"
      BY <2>1 DEF Record, Starting
    <3>2. QED
      BY <3>1 DEF FileTame
  <2>2. CASE ~Record(p)
    <3>1. file' \in {NoFile, file} \/ file' \in {Starting(p, TRUE), Starting(p, FALSE)}
      BY <2>2 DEF Create, WriteInitial, WriteInitialFails, SpawnFails, StopWaiting,
                  RecordFails, StopSpawned, UnlinkFailed, Written
    <3>2. QED
      BY <3>1, StateTypes DEF FileTame
  <2>3. QED
    BY <2>1, <2>2
<1>4. TableTame
  <2>1. CASE StopWaiting(p)
    BY <1>1, <2>1, ReapTame DEF StopWaiting
  <2>2. CASE StopSpawned(p)
    <3>1. clock' = clock /\ \A k \in Pids : os'[k] = os[k] \/ (os'[k] = NoProcess /\ os[k].parent = p)
      BY <1>0, <2>2 DEF StopSpawned, TypeOK
    <3>2. \A q \in Procs : pc'[q] \in Launching =>
            /\ q # p /\ child[q].pid \in Pids /\ os[child[q].pid] # NoProcess
            /\ os[child[q].pid].parent = q
      BY <1>1, <2>2 DEF StopSpawned, ChildTame, Launching, IdInv, LaunchedLive
    <3>3. QED
      BY <3>1, <3>2 DEF TableTame
  <2>3. CASE ~StopWaiting(p) /\ ~StopSpawned(p)
    BY <1>1, <2>3, SameTable DEF Create, WriteInitial, WriteInitialFails, SpawnFails, Record,
                                 RecordFails, UnlinkFailed
  <2>4. QED
    BY <2>1, <2>2, <2>3
<1>5. QED
  BY <1>1, <1>2, <1>3, <1>4, TameStep

\* The steps of a close that signal nobody keep the invariant.
LEMMA IdClose ==
    ASSUME IdInv, TypeOK', SnapHeld', NEW p \in Procs,
           \/ Precheck(p) \/ UnlinkReused(p) \/ Reread(p) \/ MarkClosing(p)
           \/ FindGone(p) \/ CloseTimeout(p) \/ UnlinkClosed(p)
    PROVE  IdInv'
<1>0. TypeOK
  BY DEF IdInv
<1>1. ChildTame
  <2>1. CASE Return(p)
    BY <1>0, <2>1, LeaveTame DEF Return
  <2>2. CASE ~Return(p)
    <3>1. /\ UNCHANGED child
          /\ \/ Goto(p, "unlink_reused") \/ Goto(p, "read") \/ Goto(p, "mark")
             \/ Goto(p, "terminate") \/ Goto(p, "unlink_closed")
      BY <2>2 DEF Precheck, UnlinkReused, Reread, MarkClosing, FindGone, CloseTimeout, UnlinkClosed
    <3>2. QED
      BY <1>0, <3>1, GotoTame DEF Launching
  <2>3. QED
    BY <2>1, <2>2
<1>2. SnapTame
  <2>1. CASE Return(p)
    BY <1>0, <2>1, LeaveTame DEF Return
  <2>2. CASE UNCHANGED snap
    BY <2>2 DEF SnapTame
  <2>3. CASE snap' = [snap EXCEPT ![p] = file]
    BY <1>0, <2>3 DEF SnapTame, TypeOK
  <2>4. QED
    BY <2>1, <2>2, <2>3
    DEF Precheck, UnlinkReused, Reread, MarkClosing, FindGone, CloseTimeout, UnlinkClosed
<1>3. FileTame
  <2>1. CASE MarkClosing(p)
    <3>1. snap[p] \in State /\ snap[p] # NoFile
      BY <2>1 DEF MarkClosing, IdInv, SnapHeld, Held, TypeOK
    <3>2. /\ [snap[p] EXCEPT !.closing = TRUE].pid = snap[p].pid
          /\ [snap[p] EXCEPT !.closing = TRUE].ctime = snap[p].ctime
      BY <3>1 DEF State
    <3>3. QED
      BY <2>1, <3>1, <3>2 DEF MarkClosing, FileTame
  <2>2. CASE ~MarkClosing(p)
    BY <2>2 DEF Precheck, UnlinkReused, Reread, FindGone, CloseTimeout, UnlinkClosed, FileTame
  <2>3. QED
    BY <2>1, <2>2
<1>4. TableTame
  <2>1. CASE Precheck(p)
    BY <1>1, <2>1, ReapTame DEF Precheck
  <2>2. CASE FindGone(p)
    BY <1>1, <2>2, ReapTame DEF FindGone
  <2>3. CASE ~Precheck(p) /\ ~FindGone(p)
    BY <1>1, <2>3, SameTable DEF UnlinkReused, Reread, MarkClosing, CloseTimeout, UnlinkClosed
  <2>4. QED
    BY <2>1, <2>2, <2>3
<1>5. QED
  BY <1>1, <1>2, <1>3, <1>4, TameStep

\* A signal goes to a process somebody claims: to a browser, and to none that is
\* being launched.
LEMMA IdSignal ==
    ASSUME IdInv, TypeOK', SnapHeld', NEW p \in Procs, Terminate(p) \/ Kill(p)
    PROVE  IdInv'
<1>0. TypeOK
  BY DEF IdInv
<1>1. snap[p] # NoFile /\ UNCHANGED <<file, clock>>
  BY DEF IdInv, SnapHeld, Held, Terminate, Kill
<1>2. PICK signal \in {"SIGTERM", "SIGKILL"}, next \in {"await", "await_kill"} :
        SignalRecorded(p, signal, next)
  BY DEF Terminate, Kill
<1>. DEFINE k == snap[p].pid
<1>3. CASE UNCHANGED os
  <2>1. ChildTame /\ SnapTame
    <3>1. CASE Return(p)
      BY <1>0, <3>1, LeaveTame DEF Return
    <3>2. CASE Goto(p, next) /\ UNCHANGED <<op, snap, child>>
      BY <1>0, <3>2, GotoTame DEF SnapTame, Launching
    <3>3. QED
      BY <1>0, <1>1, <1>2, <3>1, <3>2, SignalType
  <2>2. FileTame
    BY <1>1 DEF FileTame
  <2>3. QED
    BY <1>1, <1>3, <2>1, <2>2, SameTable, TameStep
<1>4. CASE ~UNCHANGED os
  <2>1. /\ k \in Pids /\ os[k] # NoProcess /\ Matching(p, k, snap[p].ctime)
        /\ \A j \in Pids : j # k => os'[j] = os[j]
        /\ os'[k] \in Process
        /\ os'[k].born = os[k].born /\ os'[k].owner = os[k].owner
        /\ os'[k].parent = os[k].parent /\ os'[k].zombie = os[k].zombie
    BY <1>0, <1>1, <1>2, <1>4, SignalType
  <2>2. snap[p].ctime \in 0..MaxClock \cup {None} /\ Claim(k, snap[p].ctime)
    BY <1>0, <1>1 DEF Claim, TypeOK, State
  <2>3. snap[p].ctime \in Nat
    BY <2>1, <2>2 DEF IdInv, ClaimsHold
  <2>4. os[k].born = snap[p].ctime
    BY <2>1, <2>3, DirectAssumption DEF Matching, CreateTime
  <2>5. os[k].owner = "browser"
    BY <2>1, <2>2, <2>4 DEF IdInv, ClaimsHold
  <2>6. \A q \in Procs : pc[q] \in Launching => child[q].pid # k
    <3>1. os[k].born \in 0..MaxClock
      BY <1>0, <2>1 DEF TypeOK, Process
    <3>2. QED
      BY <2>1, <2>2, <2>4, <3>1 DEF IdInv, LaunchedLive
  <2>7. ChildTame /\ SnapTame
    <3>1. CASE Return(p)
      BY <1>0, <3>1, LeaveTame DEF Return
    <3>2. CASE Goto(p, next) /\ UNCHANGED <<op, snap, child>>
      BY <1>0, <3>2, GotoTame DEF SnapTame, Launching
    <3>3. QED
      BY <1>0, <1>1, <1>2, <3>1, <3>2, SignalType
  <2>8. TableTame
    <3>1. \A q \in Procs : pc'[q] \in Launching =>
            child[q].pid \in Pids /\ os[child[q].pid] # NoProcess /\ child[q].pid # k
      BY <2>6, <2>7 DEF ChildTame, IdInv, LaunchedLive
    <3>2. \A j \in Pids : os'[j] # NoProcess =>
            /\ os[j] # NoProcess /\ os'[j].born = os[j].born /\ os'[j].owner = os[j].owner
            /\ os'[j].sent = os[j].sent \/ os[j].owner = "browser"
      BY <2>1, <2>5
    <3>3. QED
      BY <1>1, <2>1, <3>1, <3>2 DEF TableTame
  <2>9. FileTame
    BY <1>1 DEF FileTame
  <2>10. QED
    BY <2>7, <2>8, <2>9, TameStep
<1>5. QED
  BY <1>3, <1>4

\* The end of a ProfileDock process keeps the invariant: it orphans only its own.
LEMMA IdDie ==
    ASSUME IdInv, TypeOK', SnapHeld', NEW p \in Procs, Die(p)
    PROVE  IdInv'
<1>0. TypeOK
  BY DEF IdInv
<1>1. ChildTame /\ SnapTame
  BY <1>0, LeaveTame DEF Die
<1>2. FileTame
  BY DEF Die, FileTame
<1>3. \A k \in Pids : os[k] # NoProcess => os[k] \in Process
  BY <1>0 DEF TypeOK
<1>4. \A k \in Pids :
        \/ os'[k] = os[k]
        \/ /\ os[k] # NoProcess /\ os[k].parent = p
           /\ \/ os'[k] = NoProcess
              \/ /\ os'[k].born = os[k].born /\ os'[k].owner = os[k].owner
                 /\ os'[k].sent = os[k].sent
  <2>1. \A k \in Pids : os[k] # NoProcess =>
          LET orphan == [os[k] EXCEPT !.parent = Init1] IN
            orphan.born = os[k].born /\ orphan.owner = os[k].owner /\ orphan.sent = os[k].sent
    BY <1>3 DEF Process
  <2>2. QED
    BY <1>0, <2>1, DieTable
<1>5. \A q \in Procs : pc'[q] \in Launching =>
        /\ q # p /\ child[q].pid \in Pids /\ os[child[q].pid] # NoProcess
        /\ os[child[q].pid].parent = q
  <2>1. pc'[p] = "down"
    BY <1>0 DEF Die, Leave, Goto, TypeOK
  <2>2. \A q \in Procs : pc'[q] \in Launching => q # p /\ pc[q] \in Launching
    BY <1>1, <2>1 DEF ChildTame, Launching
  <2>3. QED
    BY <2>2 DEF IdInv, LaunchedLive
<1>6. \A q \in Procs : pc'[q] \in Launching => os'[child[q].pid] = os[child[q].pid]
  BY <1>4, <1>5
<1>7. clock' = clock
  BY DEF Die
<1>8. TableTame
  BY <1>4, <1>5, <1>6, <1>7 DEF TableTame
<1>9. QED
  BY <1>1, <1>2, <1>8, TameStep

\* Pid recycling: the new process is younger than any claim.
LEMMA IdNewProcess ==
    ASSUME IdInv, TypeOK', SnapHeld', NEW k \in Pids, NEW owner \in {"browser", "stranger"},
           NEW parent \in Procs \cup {Init1}, NewProcess(k, owner, parent), UNCHANGED <<file, snap>>,
           \A p \in Procs : pc'[p] = "record" => pc[p] = "record" /\ child'[p] = child[p],
           \A p \in Procs : pc'[p] \in Launching =>
             \/ pc[p] \in Launching /\ child'[p] = child[p]
             \/ child'[p].pid = k /\ owner = "browser" /\ parent = p
    PROVE  IdInv'
<1>0. TypeOK /\ clock \in Nat /\ clock < MaxClock /\ clock' = clock + 1
  BY DEF IdInv, TypeOK, NewProcess
<1>1. /\ os[k] = NoProcess /\ os'[k] # NoProcess
      /\ os'[k].born = clock /\ os'[k].owner = owner /\ os'[k].parent = parent
      /\ ~os'[k].zombie /\ os'[k].sent = "nothing"
      /\ \A j \in Pids : j # k => os'[j] = os[j]
  <2>. DEFINE new == [born |-> clock, owner |-> owner, parent |-> parent, zombie |-> FALSE,
                      sent |-> "nothing"]
  <2>1. new \in Process
    BY <1>0 DEF Process, TypeOK
  <2>2. new # NoProcess
    BY <2>1, DirectSentinels
  <2>3. os[k] = NoProcess /\ os' = [os EXCEPT ![k] = new]
    BY DEF NewProcess
  <2>4. QED
    BY <1>0, <2>2, <2>3 DEF TypeOK
<1>2. \A j \in Pids : \A t : Claim(j, t)' => Claim(j, t)
  BY DEF Claim
<1>3. BornBefore'
  BY <1>0, <1>1 DEF IdInv, BornBefore, TypeOK, Process
<1>4. ClaimsHold'
  <2>. SUFFICES ASSUME NEW j \in Pids, NEW t \in 0..MaxClock \cup {None}, Claim(j, t)'
       PROVE  /\ t \in Nat /\ t < clock'
              /\ os'[j] # NoProcess /\ os'[j].born = t => os'[j].owner = "browser"
    BY DEF ClaimsHold
  <2>1. /\ t \in Nat /\ t < clock
        /\ os[j] # NoProcess /\ os[j].born = t => os[j].owner = "browser"
    BY <1>2 DEF IdInv, ClaimsHold
  <2>2. QED
    BY <1>0, <1>1, <2>1
<1>5. NoStrangerSignalled'
  BY <1>1 DEF IdInv, NoStrangerSignalled
<1>6. LaunchedLive'
  <2>. SUFFICES ASSUME NEW p \in Procs, pc'[p] \in Launching
       PROVE  /\ child'[p].pid \in Pids
              /\ \A j \in Pids : child'[p].pid = j =>
                   /\ os'[j] # NoProcess
                   /\ os'[j].owner = "browser" /\ os'[j].parent = p /\ ~os'[j].zombie
                   /\ os'[j].sent = "nothing"
                   /\ \A t \in 0..MaxClock : os'[j].born = t => ~Claim(j, t)'
    BY DEF LaunchedLive
  <2>1. CASE pc[p] \in Launching /\ child'[p] = child[p]
    BY <1>1, <1>2, <2>1 DEF IdInv, LaunchedLive
  <2>2. CASE child'[p].pid = k /\ owner = "browser" /\ parent = p
    <3>1. ~Claim(k, clock)
      BY <1>0 DEF IdInv, ClaimsHold, TypeOK
    <3>2. QED
      BY <1>1, <1>2, <2>2, <3>1
  <2>3. QED
    BY <2>1, <2>2
<1>7. QED
  BY <1>3, <1>4, <1>5, <1>6 DEF IdInv

\* A browser just spawned is younger than any claim, so nobody claims it.
LEMMA IdSpawn ==
    ASSUME IdInv, TypeOK', SnapHeld', NEW p \in Procs, Spawn(p)
    PROVE  IdInv'
<1>0. TypeOK
  BY DEF IdInv
<1>1. PICK k \in Pids : /\ NewProcess(k, "browser", p)
                       /\ child' = [child EXCEPT ![p] = [pid |-> k, ctime |-> None]]
  BY DEF Spawn
<1>2. child'[p].pid = k /\ \A q \in Procs : q # p => child'[q] = child[q]
  BY <1>0, <1>1 DEF TypeOK
<1>3. pc'[p] = "wait" /\ (\A q \in Procs : q # p => pc'[q] = pc[q]) /\ UNCHANGED <<file, snap>>
  BY <1>0 DEF Spawn, Goto, TypeOK
<1>4. QED
  BY <1>1, <1>2, <1>3, IdNewProcess

\* Identify makes the one claim that was not there: of the browser it waited for.
LEMMA IdIdentify ==
    ASSUME IdInv, TypeOK', SnapHeld', NEW p \in Procs, Identify(p)
    PROVE  IdInv'
<1>. DEFINE k == child[p].pid
            t == os[k].born
<1>0. TypeOK /\ UNCHANGED <<file, os, clock, snap>>
  BY DEF IdInv, Identify
<1>1. /\ k \in Pids /\ os[k] # NoProcess
      /\ os[k].owner = "browser" /\ os[k].parent = p
  BY DEF IdInv, LaunchedLive, Launching, Identify
<1>2. t \in Nat /\ t < clock
  BY <1>0, <1>1 DEF IdInv, BornBefore, TypeOK, Process
<1>3. child'[p].pid = k /\ child'[p].ctime = t /\ \A q \in Procs : q # p => child'[q] = child[q]
  BY <1>0, <1>1 DEF Identify, CreateTime, TypeOK
<1>4. pc'[p] = "record" /\ \A q \in Procs : q # p => pc'[q] = pc[q]
  BY <1>0 DEF Identify, Goto, TypeOK
<1>5. \A j \in Pids : \A u : Claim(j, u)' => Claim(j, u) \/ (j = k /\ u = t)
  BY <1>0, <1>3, <1>4 DEF Claim
<1>6. BornBefore' /\ NoStrangerSignalled'
  BY <1>0 DEF IdInv, BornBefore, NoStrangerSignalled
<1>7. ClaimsHold'
  BY <1>0, <1>1, <1>2, <1>5 DEF IdInv, ClaimsHold
<1>8. LaunchedLive'
  <2>1. \A q \in Procs : pc'[q] \in Launching =>
          q # p /\ pc[q] \in Launching /\ child'[q] = child[q]
    BY <1>3, <1>4 DEF Launching
  <2>2. \A q \in Procs : pc'[q] \in Launching => child[q].pid # k
    BY <1>1, <2>1 DEF IdInv, LaunchedLive
  <2>3. QED
    BY <1>0, <1>5, <2>1, <2>2 DEF IdInv, LaunchedLive
<1>9. QED
  BY <1>6, <1>7, <1>8 DEF IdInv

\* What ends is a zombie or gone, and no launch waits for it.
LEMMA IdEnds ==
    ASSUME "launching" \notin ExitPhases, IdInv, TypeOK', SnapHeld', NEW k \in Pids,
           BrowserExits(k) \/ StrangerExits(k) \/ Killed(k)
    PROVE  IdInv'
<1>0. TypeOK /\ os[k] # NoProcess /\ os' = AfterDeath(k) /\ UNCHANGED <<file, clock, pc, snap, child>>
  BY DEF IdInv, BrowserExits, StrangerExits, Killed, Running
<1>1. \A q \in Procs : pc[q] \in Launching => child[q].pid # k
  BY DEF BrowserExits, StrangerExits, Killed, BeingLaunched, Launching, IdInv, LaunchedLive
<1>2. os[k] \in Process
  BY <1>0 DEF TypeOK
<1>3. /\ \A j \in Pids : j # k => os'[j] = os[j]
      /\ os'[k] = NoProcess \/ os'[k] = [os[k] EXCEPT !.zombie = TRUE]
  BY <1>0, AfterDeathType
<1>4. ChildTame /\ SnapTame /\ FileTame
  BY <1>0 DEF ChildTame, SnapTame, FileTame
<1>5. \A j \in Pids : os'[j] # NoProcess =>
        /\ os[j] # NoProcess /\ os'[j].born = os[j].born /\ os'[j].owner = os[j].owner
        /\ os'[j].sent = os[j].sent
  BY <1>0, <1>2, <1>3 DEF Process
<1>6. \A q \in Procs : pc'[q] \in Launching =>
        os[child[q].pid] # NoProcess /\ os'[child[q].pid] = os[child[q].pid]
  BY <1>0, <1>1, <1>3 DEF IdInv, LaunchedLive
<1>7. TableTame
  BY <1>0, <1>5, <1>6 DEF TableTame
<1>8. QED
  BY <1>4, <1>7, TameStep

\* Every step keeps the invariant, if no browser exits under a launch.
LEMMA IdStep ==
    ASSUME "launching" \notin ExitPhases
    PROVE  IdInv /\ [Next]_vars => IdInv'
<1>. SUFFICES ASSUME IdInv, [Next]_vars PROVE IdInv'
  OBVIOUS
<1>1. TypeOK' /\ SnapHeld'
  BY TypeStep, HeldStep DEF IdInv
<1>2. CASE UNCHANGED vars
  <2>1. FileTame /\ SnapTame /\ ChildTame /\ UNCHANGED <<os, clock>>
    BY <1>2 DEF vars, FileTame, SnapTame, ChildTame
  <2>2. QED
    BY <1>1, <2>1, SameTable, TameStep
<1>3. CASE \E k \in Pids : StrangerStarts(k)
  <2>1. PICK k \in Pids : NewProcess(k, "stranger", Init1) /\ UNCHANGED <<file, pc, snap, child>>
    BY <1>3 DEF StrangerStarts
  <2>2. QED
    BY <1>1, <2>1, IdNewProcess
<1>4. QED
  BY <1>1, <1>2, <1>3, IdStatus, IdLaunch, IdClose, IdSignal, IdDie, IdSpawn, IdIdentify, IdEnds
  DEF Next, Step

\* No process that is not a browser of this profile is ever signalled, however
\* pids are recycled, if a browser lives until its launch has read its creation
\* time.  (Without that, the creation time on record may be None, or a stranger's.)
THEOREM Identity ==
    ASSUME "launching" \notin ExitPhases
    PROVE  Spec => []NoStrangerSignalled
<1>1. Init => IdInv
  <2>1. Init => SnapHeld
    BY DEF Init, SnapHeld, Held
  <2>2. Init => BornBefore /\ ClaimsHold /\ LaunchedLive /\ NoStrangerSignalled
    BY DEF Init, BornBefore, ClaimsHold, Claim, LaunchedLive, Launching, NoStrangerSignalled
  <2>3. QED
    BY <2>1, <2>2, InitType DEF IdInv
<1>2. IdInv /\ [Next]_vars => IdInv'
  BY IdStep
<1>3. IdInv => NoStrangerSignalled
  BY DEF IdInv
<1>4. QED
  BY <1>1, <1>2, <1>3, PTL DEF Spec

-----------------------------------------------------------------------------
(* A close that succeeds.  The pid it waited for was free when it found the     *)
(* browser gone; whoever has the pid since then was created later than          *)
(* anything on record.                                                          *)

Past(t) == t = None \/ t < clock

\* A creation time on record, in hand or in the process table is of the past.
TimesPast ==
    /\ file # NoFile => Past(file.ctime)
    /\ \A p \in Procs : snap[p] # NoFile => Past(snap[p].ctime)
    /\ \A p \in Procs : Past(child[p].ctime)
    /\ BornBefore

\* The process a close has found gone is not under its pid again.
ClosedGone ==
    \A p \in Procs : pc[p] = "unlink_closed" =>
      \A k \in Pids : snap[p].pid = k /\ os[k] # NoProcess => os[k].born # snap[p].ctime

CloseInv == TypeOK /\ SnapHeld /\ TimesPast /\ ClosedGone

\* Every step of a process table: processes keep their creation time, new ones
\* have the time of the clock.
TableAges ==
    /\ clock' \in {clock, clock + 1}
    /\ \A k \in Pids : os'[k] # NoProcess =>
         \/ os[k] # NoProcess /\ os'[k].born = os[k].born
         \/ os[k] = NoProcess /\ os'[k].born = clock /\ clock' = clock + 1

\* Times are copied, and those read of a process that is there.
FileAges ==
    file' # NoFile =>
      \/ file' = file
      \/ file'.ctime = None
      \/ \E p \in Procs : file'.ctime = child[p].ctime
      \/ \E p \in Procs : snap[p] # NoFile /\ file'.ctime = snap[p].ctime

ChildAges ==
    \A p \in Procs :
      child'[p].ctime \in {None, child[p].ctime, CreateTime(child[p].pid)}

\* Only FindGone brings a close to the removal of the state.
ClosedByFinding ==
    \A p \in Procs : pc'[p] = "unlink_closed" =>
      \/ pc[p] = "unlink_closed" /\ snap'[p] = snap[p]
      \/ \A k \in Pids : snap'[p].pid = k => os'[k] = NoProcess

LEMMA AgesStep ==
    ASSUME CloseInv, TypeOK', SnapHeld', TableAges, FileAges, SnapTame, ChildAges, ClosedByFinding
    PROVE  CloseInv'
<1>0. clock \in Nat /\ clock' \in Nat
  BY DEF CloseInv, TypeOK
<1>1. \A t \in 0..MaxClock \cup {None} : Past(t) => Past(t)'
  BY <1>0, DirectAssumption DEF Past, TableAges
<1>2. BornBefore'
  <2>. SUFFICES ASSUME NEW k \in Pids, os'[k] # NoProcess PROVE os'[k].born < clock'
    BY DEF BornBefore
  <2>1. os[k] # NoProcess => os[k].born < clock /\ os[k].born \in Nat
    BY DEF CloseInv, TimesPast, BornBefore, TypeOK, Process
  <2>2. QED
    BY <1>0, <2>1 DEF TableAges
<1>3. \A p \in Procs : Past(CreateTime(child[p].pid))
  BY DEF CloseInv, TimesPast, BornBefore, CreateTime, Past
<1>4. file # NoFile => file.ctime \in 0..MaxClock \cup {None}
  BY DEF CloseInv, TypeOK, State
<1>5. \A p \in Procs : snap[p] # NoFile => snap[p].ctime \in 0..MaxClock \cup {None}
  BY DEF CloseInv, TypeOK, State
<1>6. \A p \in Procs :
        /\ child[p].ctime \in 0..MaxClock \cup {None}
        /\ CreateTime(child[p].pid) \in 0..MaxClock \cup {None}
  BY DEF CloseInv, TypeOK, Process, CreateTime
<1>7. (file # NoFile => Past(file.ctime))'
  <2>1. None \in 0..MaxClock \cup {None} /\ Past(None)
    BY DEF Past
  <2>2. QED
    BY <1>1, <1>4, <1>5, <1>6, <2>1 DEF FileAges, CloseInv, TimesPast
<1>8. \A p \in Procs : (snap[p] # NoFile => Past(snap[p].ctime))'
  BY <1>1, <1>4, <1>5 DEF SnapTame, CloseInv, TimesPast
<1>9. \A p \in Procs : Past(child[p].ctime)'
  <2>1. None \in 0..MaxClock \cup {None} /\ Past(None)
    BY DEF Past
  <2>2. QED
    BY <1>1, <1>3, <1>6, <2>1 DEF ChildAges, CloseInv, TimesPast
<1>10. ClosedGone'
  <2>. SUFFICES ASSUME NEW p \in Procs, pc'[p] = "unlink_closed", NEW k \in Pids,
                       snap'[p].pid = k, os'[k] # NoProcess
       PROVE  os'[k].born # snap'[p].ctime
    BY DEF ClosedGone
  <2>1. pc[p] = "unlink_closed" /\ snap'[p] = snap[p]
    BY DEF ClosedByFinding
  <2>2. snap[p] # NoFile /\ Past(snap[p].ctime)
    BY <2>1 DEF CloseInv, SnapHeld, Held, TimesPast
  <2>3. CASE os[k] # NoProcess /\ os'[k].born = os[k].born
    BY <2>1, <2>3 DEF CloseInv, ClosedGone
  <2>4. CASE os'[k].born = clock
    BY <1>0, <2>1, <2>2, <2>4, DirectAssumption DEF Past
  <2>5. QED
    BY <2>3, <2>4 DEF TableAges
<1>11. QED
  BY <1>2, <1>7, <1>8, <1>9, <1>10 DEF CloseInv, TimesPast

\* The process table ages.
LEMMA Ageing ==
    ASSUME TypeOK, SnapHeld, [Next]_vars
    PROVE  TableAges
<1>0. clock \in Nat
  BY DEF TypeOK
<1>1. CASE UNCHANGED <<os, clock>>
  BY <1>0, <1>1 DEF TableAges
<1>2. ASSUME NEW p \in Procs, NEW k, os' = Reaped(p, k), UNCHANGED clock
      PROVE  TableAges
  BY <1>0, <1>2, ReapedType DEF TableAges
<1>3. ASSUME NEW k \in Pids, NEW owner \in {"browser", "stranger"},
             NEW parent \in Procs \cup {Init1}, NewProcess(k, owner, parent)
      PROVE  TableAges
  <2>. DEFINE new == [born |-> clock, owner |-> owner, parent |-> parent, zombie |-> FALSE,
                      sent |-> "nothing"]
  <2>1. os[k] = NoProcess /\ os' = [os EXCEPT ![k] = new] /\ clock' = clock + 1
    BY <1>3 DEF NewProcess
  <2>2. os'[k] = new /\ \A j \in Pids : j # k => os'[j] = os[j]
    BY <2>1 DEF TypeOK
  <2>3. QED
    BY <1>0, <2>1, <2>2 DEF TableAges
<1>4. ASSUME NEW k \in Pids, os[k] # NoProcess, os' = AfterDeath(k), UNCHANGED clock
      PROVE  TableAges
  <2>1. os[k] \in Process
    BY <1>4 DEF TypeOK
  <2>2. [os[k] EXCEPT !.zombie = TRUE].born = os[k].born
    BY <2>1 DEF Process
  <2>3. QED
    BY <1>0, <1>4, <2>2, AfterDeathType DEF TableAges
<1>5. ASSUME NEW p \in Procs, Die(p)
      PROVE  TableAges
  <2>1. \A k \in Pids : os[k] # NoProcess => os[k] \in Process
    BY DEF TypeOK
  <2>2. \A k \in Pids : os[k] # NoProcess => [os[k] EXCEPT !.parent = Init1].born = os[k].born
    BY <2>1 DEF Process
  <2>3. \A k \in Pids : os'[k] = os[k] \/ (os[k] # NoProcess /\ (os'[k] = NoProcess
                                           \/ os'[k].born = os[k].born))
    BY <1>5, <2>2, DieTable
  <2>4. clock' = clock
    BY <1>5 DEF Die
  <2>5. QED
    BY <1>0, <2>3, <2>4 DEF TableAges
<1>6. ASSUME NEW p \in Procs, Terminate(p) \/ Kill(p)
      PROVE  TableAges
  <2>1. snap[p] # NoFile /\ UNCHANGED clock
    BY <1>6 DEF SnapHeld, Held, Terminate, Kill
  <2>2. PICK signal \in {"SIGTERM", "SIGKILL"}, next \in {"await", "await_kill"} :
          SignalRecorded(p, signal, next)
    BY <1>6 DEF Terminate, Kill
  <2>3. \A k \in Pids : os'[k] = os[k] \/ (os[k] # NoProcess /\ os'[k].born = os[k].born)
    BY <2>1, <2>2, SignalType
  <2>4. QED
    BY <1>0, <2>1, <2>3 DEF TableAges
<1>7. ASSUME NEW p \in Procs, StopSpawned(p)
      PROVE  TableAges
  BY <1>0, <1>7 DEF StopSpawned, TableAges, TypeOK
<1>8. ASSUME NEW p \in Procs, Spawn(p)
      PROVE  TableAges
  BY <1>3, <1>8 DEF Spawn
<1>9. ASSUME NEW p \in Procs,
             Judge(p) \/ StopWaiting(p) \/ Precheck(p) \/ FindGone(p)
      PROVE  TableAges
  BY <1>1, <1>2, <1>9 DEF Judge, StopWaiting, Precheck, FindGone
<1>10. ASSUME NEW p \in Procs,
              \/ Begin(p) \/ ComeBack(p) \/ Read(p) \/ UnlinkStale(p) \/ Create(p)
              \/ WriteInitial(p) \/ WriteInitialFails(p) \/ SpawnFails(p) \/ Identify(p)
              \/ Record(p) \/ RecordFails(p) \/ UnlinkFailed(p) \/ UnlinkReused(p) \/ Reread(p)
              \/ MarkClosing(p) \/ CloseTimeout(p) \/ UnlinkClosed(p)
       PROVE  TableAges
  BY <1>1, <1>10
  DEF Begin, ComeBack, Read, UnlinkStale, Create, WriteInitial, WriteInitialFails, SpawnFails,
      Identify, Record, RecordFails, UnlinkFailed, UnlinkReused, Reread, MarkClosing,
      CloseTimeout, UnlinkClosed
<1>11. ASSUME NEW k \in Pids,
              BrowserExits(k) \/ StrangerStarts(k) \/ StrangerExits(k) \/ Killed(k)
       PROVE  TableAges
  BY <1>3, <1>4, <1>11 DEF BrowserExits, StrangerStarts, StrangerExits, Killed, Running
<1>12. CASE UNCHANGED vars
  BY <1>1, <1>12 DEF vars
<1>13. QED
  BY <1>5, <1>6, <1>7, <1>8, <1>9, <1>10, <1>11, <1>12 DEF Next, Step

\* What is written and read of creation times.
LEMMA Copying ==
    ASSUME TypeOK, SnapHeld, [Next]_vars
    PROVE  FileAges /\ SnapTame /\ ChildAges /\ ClosedByFinding
<1>1. CASE UNCHANGED <<file, pc, snap, child>>
  BY <1>1 DEF FileAges, SnapTame, ChildAges, ClosedByFinding
<1>2. ASSUME NEW p \in Procs, NEW l \in {"idle", "down"}, Leave(p, l)
      PROVE  SnapTame /\ ChildAges /\ ClosedByFinding
  BY <1>2 DEF Leave, Goto, NoChild, TypeOK, SnapTame, ChildAges, ClosedByFinding
<1>3. ASSUME NEW p \in Procs, NEW l, Goto(p, l), l # "unlink_closed", UNCHANGED snap
      PROVE  SnapTame /\ ClosedByFinding
  BY <1>3 DEF Goto, TypeOK, SnapTame, ClosedByFinding
<1>4. UNCHANGED child => ChildAges
  BY DEF ChildAges
<1>5. file' \in {file, NoFile} => FileAges
  BY DEF FileAges
<1>6. ASSUME NEW p \in Procs, Begin(p) \/ ComeBack(p) \/ Judge(p) \/ UnlinkStale(p) \/ Precheck(p)
      PROVE  FileAges /\ SnapTame /\ ChildAges /\ ClosedByFinding
  BY <1>2, <1>3, <1>4, <1>5, <1>6 DEF Begin, ComeBack, Judge, UnlinkStale, Precheck, Return
<1>7. ASSUME NEW p \in Procs, Read(p) \/ Reread(p)
      PROVE  FileAges /\ SnapTame /\ ChildAges /\ ClosedByFinding
  BY <1>2, <1>4, <1>5, <1>7
  DEF Read, Reread, Return, Goto, TypeOK, SnapTame, ClosedByFinding
<1>8. ASSUME NEW p \in Procs, Create(p) \/ WriteInitial(p) \/ WriteInitialFails(p)
      PROVE  FileAges /\ SnapTame /\ ChildAges /\ ClosedByFinding
  <2>1. \A r : Starting(p, r).ctime = None
    BY DEF Starting
  <2>2. FileAges
    BY <1>5, <1>8, <2>1 DEF Create, WriteInitial, WriteInitialFails, Written, FileAges
  <2>3. QED
    BY <1>2, <1>3, <1>4, <1>8, <2>2 DEF Create, WriteInitial, WriteInitialFails, Return
<1>9. ASSUME NEW p \in Procs,
             \/ SpawnFails(p) \/ StopWaiting(p) \/ RecordFails(p)
             \/ StopSpawned(p) \/ UnlinkFailed(p)
      PROVE  FileAges /\ SnapTame /\ ChildAges /\ ClosedByFinding
  BY <1>2, <1>3, <1>4, <1>5, <1>9
  DEF SpawnFails, StopWaiting, RecordFails, StopSpawned, UnlinkFailed, Return
<1>10. ASSUME NEW p \in Procs, Spawn(p) \/ Identify(p)
       PROVE  FileAges /\ SnapTame /\ ChildAges /\ ClosedByFinding
  <2>1. ChildAges
    BY <1>10 DEF Spawn, Identify, ChildAges, TypeOK
  <2>2. QED
    BY <1>3, <1>5, <1>10, <2>1 DEF Spawn, Identify
<1>11. ASSUME NEW p \in Procs, Record(p)
       PROVE  FileAges /\ SnapTame /\ ChildAges /\ ClosedByFinding
  <2>1. file'.ctime = child[p].ctime
    BY <1>11 DEF Record, Starting
  <2>2. QED
    BY <1>2, <1>11, <2>1 DEF Record, Return, FileAges
<1>12. ASSUME NEW p \in Procs, MarkClosing(p)
       PROVE  FileAges /\ SnapTame /\ ChildAges /\ ClosedByFinding
  <2>1. snap[p] \in State /\ snap[p] # NoFile
    BY <1>12 DEF MarkClosing, SnapHeld, Held, TypeOK
  <2>2. [snap[p] EXCEPT !.closing = TRUE].ctime = snap[p].ctime
    BY <2>1 DEF State
  <2>3. FileAges
    BY <1>12, <2>1, <2>2 DEF MarkClosing, FileAges
  <2>4. QED
    BY <1>3, <1>4, <1>12, <2>3 DEF MarkClosing
<1>13. ASSUME NEW p \in Procs, Terminate(p) \/ Kill(p)
       PROVE  FileAges /\ SnapTame /\ ChildAges /\ ClosedByFinding
  BY <1>2, <1>3, <1>4, <1>5, <1>13 DEF Terminate, Kill, SignalRecorded, Return
<1>14. ASSUME NEW p \in Procs, FindGone(p)
       PROVE  FileAges /\ SnapTame /\ ChildAges /\ ClosedByFinding
  <2>1. os' = Reaped(p, snap[p].pid) /\ UNCHANGED <<file, snap, child>>
    BY <1>14 DEF FindGone
  <2>2. \A k \in Pids : snap[p].pid = k => os'[k] = NoProcess
    BY <1>14, <2>1 DEF FindGone, Gone, Alive
  <2>3. \A q \in Procs : q # p => pc'[q] = pc[q]
    BY <1>14 DEF FindGone, Goto, TypeOK
  <2>4. ClosedByFinding
    BY <2>1, <2>2, <2>3 DEF ClosedByFinding
  <2>5. QED
    BY <1>4, <1>5, <2>1, <2>4 DEF SnapTame
<1>15. ASSUME NEW p \in Procs, UnlinkReused(p) \/ CloseTimeout(p) \/ UnlinkClosed(p) \/ Die(p)
       PROVE  FileAges /\ SnapTame /\ ChildAges /\ ClosedByFinding
  BY <1>2, <1>5, <1>15 DEF UnlinkReused, CloseTimeout, UnlinkClosed, Die, Return
<1>16. CASE UNCHANGED vars \/ \E k \in Pids : \/ BrowserExits(k) \/ StrangerStarts(k)
                                             \/ StrangerExits(k) \/ Killed(k)
  BY <1>1, <1>16 DEF vars, BrowserExits, StrangerStarts, StrangerExits, Killed
<1>17. QED
  BY <1>6, <1>7, <1>8, <1>9, <1>10, <1>11, <1>12, <1>13, <1>14, <1>15, <1>16 DEF Next, Step

\* A close that reports success leaves no browser: the process it was asked to
\* close is gone, and no later one passes for it, under any reuse of pids, with any
\* number of other closes, polls, launches and deaths in between.
THEOREM ClosedIsDead == Spec => ClosedBrowserIsDead
<1>1. Init => CloseInv
  <2>1. Init => SnapHeld /\ ClosedGone
    BY DEF Init, SnapHeld, Held, ClosedGone
  <2>2. Init => TimesPast
    BY DEF Init, TimesPast, BornBefore, Past, NoChild
  <2>3. QED
    BY <2>1, <2>2, InitType DEF CloseInv
<1>2. CloseInv /\ [Next]_vars => CloseInv'
  BY TypeStep, HeldStep, Ageing, Copying, AgesStep DEF CloseInv
<1>3. CloseInv /\ [Next]_vars =>
        [\A p \in Procs : pc[p] = "unlink_closed" /\ pc'[p] = "idle" =>
           LET k == snap[p].pid IN
             k # NoPid /\ Running(k) => os[k].born # snap[p].ctime]_vars
  <2>. SUFFICES ASSUME CloseInv, NEW p \in Procs, pc[p] = "unlink_closed",
                       snap[p].pid # NoPid, Running(snap[p].pid)
       PROVE  os[snap[p].pid].born # snap[p].ctime
    OBVIOUS
  <2>1. snap[p] \in State /\ snap[p].pid \in Pids
    BY DEF CloseInv, TypeOK, SnapHeld, Held, State
  <2>2. QED
    BY <2>1 DEF CloseInv, ClosedGone, Running
<1>4. QED
  BY <1>1, <1>2, <1>3, PTL DEF Spec, ClosedBrowserIsDead

-----------------------------------------------------------------------------
(* What a step does to the processes that do not take it, and to the       *)
(* browsers.                                                               *)

LEMMA GotoOne ==
    ASSUME TypeOK, NEW p \in Procs, NEW l, Goto(p, l)
    PROVE  pc'[p] = l /\ \A q \in Procs : q # p => pc'[q] = pc[q]
BY DEF Goto, TypeOK

LEMMA LeaveOne ==
    ASSUME TypeOK, NEW p \in Procs, NEW l, Leave(p, l)
    PROVE  /\ pc'[p] = l
           /\ \A q \in Procs : q # p =>
                pc'[q] = pc[q] /\ snap'[q] = snap[q] /\ child'[q] = child[q]
BY DEF Leave, Goto, TypeOK

Acts(p) == Begin(p) \/ Step(p) \/ Die(p) \/ ComeBack(p)
Happens(k) == BrowserExits(k) \/ StrangerStarts(k) \/ StrangerExits(k) \/ Killed(k)

\* A step of a ProfileDock process is its own.
LEMMA ActsAlone ==
    ASSUME TypeOK, NEW p \in Procs, Acts(p)
    PROVE  \A q \in Procs : q # p =>
             pc'[q] = pc[q] /\ snap'[q] = snap[q] /\ child'[q] = child[q]
<1>1. CASE \E l : Leave(p, l)
  BY <1>1, LeaveOne
<1>2. CASE (\E l : Goto(p, l)) /\ UNCHANGED <<snap, child>>
  BY <1>2, GotoOne
<1>3. CASE Read(p) \/ Spawn(p) \/ Identify(p)
  BY <1>3 DEF Read, Spawn, Identify, Goto, TypeOK
<1>4. CASE Reread(p)
  BY <1>4, <1>1 DEF Reread, Return, Goto, TypeOK
<1>5. CASE Terminate(p) \/ Kill(p)
  BY <1>1, <1>2, <1>5 DEF Terminate, Kill, SignalRecorded, Return
<1>6. CASE \/ Begin(p) \/ ComeBack(p) \/ Die(p) \/ Judge(p) \/ UnlinkStale(p) \/ Create(p)
           \/ WriteInitial(p) \/ WriteInitialFails(p) \/ SpawnFails(p) \/ StopWaiting(p)
  BY <1>1, <1>2, <1>6
  DEF Begin, ComeBack, Die, Judge, UnlinkStale, Create, WriteInitial, WriteInitialFails,
      SpawnFails, StopWaiting, Return
<1>7. CASE \/ Record(p) \/ RecordFails(p) \/ StopSpawned(p) \/ UnlinkFailed(p) \/ Precheck(p)
           \/ UnlinkReused(p) \/ MarkClosing(p) \/ FindGone(p) \/ CloseTimeout(p)
           \/ UnlinkClosed(p)
  BY <1>1, <1>2, <1>7
  DEF Record, RecordFails, StopSpawned, UnlinkFailed, Precheck, UnlinkReused, MarkClosing,
      FindGone, CloseTimeout, UnlinkClosed, Return
<1>8. QED
  BY <1>3, <1>4, <1>5, <1>6, <1>7 DEF Acts, Step

\* Who is in the process table stays who he is, an orphan apart; who is new there is
\* a stranger, or a browser in the hands of its launcher.
TableKeeps ==
    \A k \in Pids : os'[k] # NoProcess =>
      \/ /\ os[k] # NoProcess
         /\ os'[k].born = os[k].born /\ os'[k].owner = os[k].owner
         /\ os[k].zombie => os'[k].zombie
         /\ os'[k].parent = os[k].parent \/ \E p \in Procs : Die(p) /\ os[k].parent = p
      \/ /\ os[k] = NoProcess /\ os'[k].born = clock
         /\ \/ os'[k].owner = "stranger"
            \/ \E p \in Procs : Spawn(p) /\ child'[p].pid = k /\ os'[k].parent = p

LEMMA Keeping ==
    ASSUME TypeOK, SnapHeld, [Next]_vars
    PROVE  TableKeeps
<1>1. CASE UNCHANGED os
  BY <1>1 DEF TableKeeps
<1>2. ASSUME NEW p \in Procs, NEW k, os' = Reaped(p, k)
      PROVE  TableKeeps
  BY <1>2, ReapedType DEF TableKeeps
<1>3. ASSUME NEW k \in Pids, NEW owner \in {"browser", "stranger"},
             NEW parent \in Procs \cup {Init1}, NewProcess(k, owner, parent)
      PROVE  /\ os[k] = NoProcess /\ os'[k].born = clock
             /\ os'[k].owner = owner /\ os'[k].parent = parent
             /\ \A j \in Pids : j # k => os'[j] = os[j]
  BY <1>3 DEF NewProcess, TypeOK
<1>4. ASSUME NEW k \in Pids, os[k] # NoProcess, os' = AfterDeath(k)
      PROVE  TableKeeps
  <2>1. os[k] \in Process
    BY <1>4 DEF TypeOK
  <2>2. LET z == [os[k] EXCEPT !.zombie = TRUE] IN
          z.born = os[k].born /\ z.owner = os[k].owner /\ z.parent = os[k].parent /\ z.zombie
    BY <2>1 DEF Process
  <2>3. QED
    BY <1>4, <2>2, AfterDeathType DEF TableKeeps
<1>5. ASSUME NEW p \in Procs, Die(p)
      PROVE  TableKeeps
  <2>1. \A k \in Pids : os[k] # NoProcess => os[k] \in Process
    BY DEF TypeOK
  <2>2. \A k \in Pids : os[k] # NoProcess =>
          LET o == [os[k] EXCEPT !.parent = Init1] IN
            o.born = os[k].born /\ o.owner = os[k].owner /\ o.zombie = os[k].zombie
    BY <2>1 DEF Process
  <2>3. QED
    <3>1. \A k \in Pids :
            \/ os'[k] = os[k]
            \/ /\ os[k] # NoProcess /\ os[k].parent = p
               /\ \/ os'[k] = NoProcess
                  \/ /\ os'[k].born = os[k].born /\ os'[k].owner = os[k].owner
                     /\ os'[k].zombie = os[k].zombie
      BY <1>5, <2>2, DieTable
    <3>2. QED
      BY <1>5, <3>1 DEF TableKeeps
<1>6. ASSUME NEW p \in Procs, Terminate(p) \/ Kill(p)
      PROVE  TableKeeps
  <2>1. snap[p] # NoFile
    BY <1>6 DEF SnapHeld, Held, Terminate, Kill
  <2>2. PICK signal \in {"SIGTERM", "SIGKILL"}, next \in {"await", "await_kill"} :
          SignalRecorded(p, signal, next)
    BY <1>6 DEF Terminate, Kill
  <2>3. QED
    BY <2>1, <2>2, SignalType DEF TableKeeps
<1>7. ASSUME NEW p \in Procs, StopSpawned(p)
      PROVE  TableKeeps
  BY <1>7 DEF StopSpawned, TableKeeps, TypeOK
<1>8. ASSUME NEW p \in Procs, Spawn(p)
      PROVE  TableKeeps
  <2>1. PICK k \in Pids : /\ NewProcess(k, "browser", p)
                         /\ child' = [child EXCEPT ![p] = [pid |-> k, ctime |-> None]]
    BY <1>8 DEF Spawn
  <2>2. child'[p].pid = k
    BY <2>1 DEF TypeOK
  <2>3. QED
    BY <1>3, <1>8, <2>1, <2>2 DEF TableKeeps
<1>9. ASSUME NEW p \in Procs,
             Judge(p) \/ StopWaiting(p) \/ Precheck(p) \/ FindGone(p)
      PROVE  TableKeeps
  BY <1>1, <1>2, <1>9 DEF Judge, StopWaiting, Precheck, FindGone
<1>10. ASSUME NEW p \in Procs,
              \/ Begin(p) \/ ComeBack(p) \/ Read(p) \/ UnlinkStale(p) \/ Create(p)
              \/ WriteInitial(p) \/ WriteInitialFails(p) \/ SpawnFails(p) \/ Identify(p)
              \/ Record(p) \/ RecordFails(p) \/ UnlinkFailed(p) \/ UnlinkReused(p) \/ Reread(p)
              \/ MarkClosing(p) \/ CloseTimeout(p) \/ UnlinkClosed(p)
       PROVE  TableKeeps
  BY <1>1, <1>10
  DEF Begin, ComeBack, Read, UnlinkStale, Create, WriteInitial, WriteInitialFails, SpawnFails,
      Identify, Record, RecordFails, UnlinkFailed, UnlinkReused, Reread, MarkClosing,
      CloseTimeout, UnlinkClosed
<1>11. ASSUME NEW k \in Pids, Happens(k)
       PROVE  TableKeeps
  <2>1. CASE StrangerStarts(k)
    <3>1. /\ os[k] = NoProcess /\ os'[k].born = clock /\ os'[k].owner = "stranger"
          /\ \A j \in Pids : j # k => os'[j] = os[j]
      BY <1>3, <2>1 DEF StrangerStarts
    <3>2. QED
      BY <3>1 DEF TableKeeps
  <2>2. QED
    BY <1>4, <1>11, <2>1 DEF Happens, BrowserExits, StrangerExits, Killed, Running
<1>12. CASE UNCHANGED vars
  BY <1>1, <1>12 DEF vars
<1>13. QED
  BY <1>5, <1>6, <1>7, <1>8, <1>9, <1>10, <1>11, <1>12 DEF Next, Step, Happens

\* What a launch writes names it, and the browser it records.
LEMMA StartingIs ==
    ASSUME NEW p \in Procs, NEW r \in BOOLEAN
    PROVE  SaysLaunching(Starting(p, r), p) /\ Starting(p, r) # NoFile
<1>1. Starting(p, r) # NoFile
  BY StateTypes, DirectSentinels
<1>2. QED
  BY <1>1 DEF Starting, SaysLaunching

LEMMA OnRecordIs ==
    ASSUME NEW p \in Procs, NEW k \in Pids, NEW t \in 0..MaxClock \cup {None}, t = os[k].born
    PROVE  SaysRunning([Starting(p, TRUE) EXCEPT !.pid = k, !.ctime = t], k)
<1>0. [Starting(p, TRUE) EXCEPT !.pid = k, !.ctime = t] \in State
  BY StateTypes
<1>1. [Starting(p, TRUE) EXCEPT !.pid = k, !.ctime = t] # NoFile
  BY <1>0, DirectSentinels
<1>2. QED
  BY <1>1 DEF Starting, SaysRunning

\* A launch begins to hold running.json by creating it.
LEMMA HoldingBegins ==
    ASSUME TypeOK, NEW p \in Procs, Acts(p), pc'[p] \in Holding, pc[p] \notin Holding
    PROVE  file = NoFile /\ file' = Starting(p, FALSE)
<1>1. \A l : pc' = [pc EXCEPT ![p] = l] => pc'[p] = l
  BY DEF TypeOK
<1>2. \A l : Leave(p, l) \/ Goto(p, l) => l \in Holding
  BY <1>1 DEF Leave, Goto
<1>3. ~Leave(p, "idle") /\ ~Leave(p, "down")
  BY <1>2 DEF Holding
<1>4. \A l \in {"idle", "read", "precheck", "judge", "reread", "unlink_stale", "create",
               "unlink_reused", "mark", "terminate", "await", "await_kill", "unlink_closed"} :
        ~Goto(p, l)
  BY <1>2 DEF Holding
<1>5. ~ \/ Begin(p) \/ ComeBack(p) \/ Die(p) \/ Read(p) \/ Judge(p) \/ UnlinkStale(p)
  BY <1>3, <1>4 DEF Begin, ComeBack, Die, Read, Judge, UnlinkStale, Return
<1>6. ~ \/ Precheck(p) \/ UnlinkReused(p) \/ Reread(p) \/ MarkClosing(p)
  BY <1>3, <1>4 DEF Precheck, UnlinkReused, Reread, MarkClosing, Return
<1>7. ~ \/ Terminate(p) \/ Kill(p) \/ FindGone(p) \/ CloseTimeout(p) \/ UnlinkClosed(p)
  BY <1>3, <1>4
  DEF Terminate, Kill, SignalRecorded, FindGone, CloseTimeout, UnlinkClosed, Return
<1>8. ~ \/ WriteInitial(p) \/ WriteInitialFails(p) \/ Spawn(p) \/ SpawnFails(p)
        \/ StopWaiting(p) \/ Identify(p) \/ Record(p) \/ RecordFails(p) \/ StopSpawned(p)
        \/ UnlinkFailed(p)
  BY DEF WriteInitial, WriteInitialFails, Spawn, SpawnFails, StopWaiting, Identify, Record,
         RecordFails, StopSpawned, UnlinkFailed, Holding
<1>9. Create(p)
  BY <1>5, <1>6, <1>7, <1>8 DEF Acts, Step
<1>10. QED
  BY <1>3, <1>9 DEF Create, Return

\* As long as it goes on with it, what running.json says of it does not change.
LEMMA HoldingGoesOn ==
    ASSUME TypeOK, NEW p \in Procs, Acts(p), pc[p] \in Holding, pc'[p] \in Holding,
           SaysLaunching(file, p)
    PROVE  SaysLaunching(file', p)
<1>1. CASE WriteInitial(p)
  <2>1. file' \in {file, Starting(p, TRUE)}
    BY <1>1 DEF WriteInitial, Written
  <2>2. p \in Procs /\ TRUE \in BOOLEAN
    OBVIOUS
  <2>3. QED
    BY <2>1, <2>2, StartingIs
<1>2. CASE \E l : Leave(p, l) /\ l \notin Holding
  BY <1>2, LeaveOne
<1>3. CASE WriteInitialFails(p) \/ SpawnFails(p) \/ Record(p) \/ UnlinkFailed(p) \/ Die(p)
  BY <1>2, <1>3 DEF WriteInitialFails, SpawnFails, Record, UnlinkFailed, Die, Return, Holding
<1>4. CASE \/ Begin(p) \/ ComeBack(p) \/ Read(p) \/ Judge(p) \/ UnlinkStale(p) \/ Create(p)
           \/ Precheck(p) \/ UnlinkReused(p) \/ Reread(p) \/ MarkClosing(p)
           \/ Terminate(p) \/ Kill(p) \/ FindGone(p) \/ CloseTimeout(p) \/ UnlinkClosed(p)
  BY <1>4
  DEF Begin, ComeBack, Read, Judge, UnlinkStale, Create, Precheck, UnlinkReused, Reread,
      MarkClosing, Terminate, Kill, FindGone, CloseTimeout, UnlinkClosed, Holding
<1>5. CASE Spawn(p) \/ StopWaiting(p) \/ Identify(p) \/ RecordFails(p) \/ StopSpawned(p)
  BY <1>5 DEF Spawn, StopWaiting, Identify, RecordFails, StopSpawned
<1>6. QED
  BY <1>1, <1>3, <1>4, <1>5 DEF Acts, Step

-----------------------------------------------------------------------------
(* What it takes to lose the one browser, or the record of it.              *)

\* The launcher has the browser in hand, and is its parent; once it has identified
\* it, it knows it by its creation time.
Handed(k) ==
    \E p \in Procs :
      /\ pc[p] \in WithBrowser /\ child[p].pid = k /\ os[k].parent = p
      /\ pc[p] = "record" => child[p].ctime = os[k].born

\* Everybody has what he relies on.
Undisputed ==
    /\ \A p \in Procs : pc[p] \in Holding => SaysLaunching(file, p)
    /\ \A k \in Browsers : Handed(k) \/ SaysRunning(file, k)

CauseInv == CloseInv /\ (overruled \/ abandoned \/ Undisputed)

\* A browser is handed on by each step of its launcher, to the record of it.
LEMMA HandedOn ==
    ASSUME TypeOK, NEW p \in Procs, Acts(p), ~Die(p), NEW k \in Pids, pc[p] \in WithBrowser,
           child[p].pid = k, os[k] # NoProcess, os'[k] # NoProcess,
           os[k].parent = p, os'[k].parent = p, os'[k].born = os[k].born,
           pc[p] = "record" => child[p].ctime = os[k].born
    PROVE  Handed(k)' \/ SaysRunning(file, k)'
<1>1. CASE StopWaiting(p) \/ RecordFails(p)
  <2>1. child' = child /\ pc'[p] \in {"identify", "stop"}
    BY <1>1, GotoOne DEF StopWaiting, RecordFails
  <2>2. QED
    BY <2>1 DEF Handed, WithBrowser
<1>2. CASE Identify(p)
  <2>1. pc'[p] = "record"
    BY <1>2, GotoOne DEF Identify
  <2>2. child'[p].pid = k /\ child'[p].ctime = os[k].born
    BY <1>2 DEF Identify, CreateTime, TypeOK
  <2>3. QED
    BY <2>1, <2>2 DEF Handed, WithBrowser
<1>3. CASE Record(p)
  <2>. DEFINE t == child[p].ctime
  <2>1. t \in 0..MaxClock \cup {None} /\ t = os[k].born
    BY <1>3 DEF TypeOK, Record
  <2>2. file' = [Starting(p, TRUE) EXCEPT !.pid = k, !.ctime = t] /\ os' = os
    BY <1>3 DEF Record
  <2>. HIDE DEF t
  <2>3. SaysRunning(file', k)
    BY <2>1, <2>2, OnRecordIs
  <2>4. QED
    BY <2>2, <2>3 DEF SaysRunning
<1>4. CASE StopSpawned(p)
  BY <1>4 DEF StopSpawned, TypeOK
<1>5. CASE \/ Begin(p) \/ ComeBack(p) \/ Read(p) \/ Judge(p) \/ UnlinkStale(p) \/ Create(p)
           \/ WriteInitial(p) \/ WriteInitialFails(p) \/ Spawn(p) \/ SpawnFails(p)
           \/ UnlinkFailed(p) \/ Precheck(p) \/ UnlinkReused(p) \/ Reread(p) \/ MarkClosing(p)
           \/ Terminate(p) \/ Kill(p) \/ FindGone(p) \/ CloseTimeout(p) \/ UnlinkClosed(p)
  BY <1>5
  DEF Begin, ComeBack, Read, Judge, UnlinkStale, Create, WriteInitial, WriteInitialFails, Spawn,
      SpawnFails, UnlinkFailed, Precheck, UnlinkReused, Reread, MarkClosing, Terminate, Kill,
      FindGone, CloseTimeout, UnlinkClosed, WithBrowser
<1>6. QED
  BY <1>1, <1>2, <1>3, <1>4, <1>5 DEF Acts, Step

\* A browser of the next state is one of this state, and who he was, or just spawned.
LEMMA BrowserKept ==
    ASSUME TypeOK, TypeOK', TableKeeps, NEW k \in Pids, k \in Browsers'
    PROVE  \/ /\ k \in Browsers /\ os'[k].born = os[k].born
              /\ os'[k].parent = os[k].parent \/ \E p \in Procs : Die(p) /\ os[k].parent = p
           \/ \E p \in Procs : Spawn(p) /\ child'[p].pid = k /\ os'[k].parent = p
<1>1. k \in Pids /\ os'[k] # NoProcess /\ ~os'[k].zombie /\ os'[k].owner = "browser"
  BY DEF Browsers, Running
<1>2. QED
  BY <1>1 DEF TableKeeps, Browsers, Running

\* A step of a process that overrules nobody and abandons no browser.
LEMMA CauseActs ==
    ASSUME CloseInv, TypeOK', TableKeeps, Undisputed, NEW p \in Procs, Acts(p), ~Overrules(p),
           ~ /\ pc[p] \in WithBrowser /\ pc'[p] = "down" /\ child[p].pid \in Browsers
    PROVE  Undisputed'
<1>0. TypeOK
  BY DEF CloseInv
<1>1. \A q \in Procs : q # p => pc'[q] = pc[q] /\ child'[q] = child[q]
  BY <1>0, ActsAlone
<1>2. ASSUME NEW q \in Procs, pc'[q] \in Holding
      PROVE  SaysLaunching(file', q)
  <2>1. CASE q # p
    BY <1>1, <1>2, <2>1 DEF Undisputed, Overrules
  <2>2. CASE q = p /\ pc[p] \in Holding
    BY <1>0, <1>2, <2>2, HoldingGoesOn DEF Undisputed
  <2>3. CASE q = p /\ pc[p] \notin Holding
    BY <1>0, <1>2, <2>3, HoldingBegins, StartingIs
  <2>4. QED
    BY <2>1, <2>2, <2>3
<1>3. ASSUME NEW k \in Pids, k \in Browsers'
      PROVE  Handed(k)' \/ SaysRunning(file, k)'
  <2>1. CASE \E q \in Procs : Spawn(q) /\ child'[q].pid = k /\ os'[k].parent = q
    <3>1. PICK q \in Procs : Spawn(q) /\ child'[q].pid = k /\ os'[k].parent = q
      BY <2>1
    <3>2. pc'[q] = "wait"
      BY <1>0, <3>1, GotoOne DEF Spawn
    <3>3. QED
      BY <3>1, <3>2 DEF Handed, WithBrowser
  <2>2. CASE /\ k \in Browsers /\ os'[k].born = os[k].born
             /\ os'[k].parent = os[k].parent \/ \E q \in Procs : Die(q) /\ os[k].parent = q
    <3>0. os[k] # NoProcess /\ os'[k] # NoProcess
      BY <1>3, <2>2 DEF Browsers, Running
    <3>1. CASE SaysRunning(file, k)
      BY <2>2, <3>1 DEF Overrules, SaysRunning
    <3>2. CASE Handed(k)
      <4>1. PICK q \in Procs :
              /\ pc[q] \in WithBrowser /\ child[q].pid = k /\ os[k].parent = q
              /\ pc[q] = "record" => child[q].ctime = os[k].born
        BY <3>2 DEF Handed
      <4>2. ~Die(q)
        <5>. SUFFICES ASSUME Die(q) PROVE FALSE
          OBVIOUS
        <5>1. pc'[q] = "down"
          BY <1>0, LeaveOne DEF Die
        <5>2. q = p
          BY <1>1, <4>1, <5>1 DEF WithBrowser
        <5>3. QED
          BY <2>2, <4>1, <5>1, <5>2
      <4>3. os'[k].parent = os[k].parent
        BY <2>2, <4>1, <4>2
      <4>4. CASE q = p
        BY <1>0, <2>2, <3>0, <4>1, <4>2, <4>3, <4>4, HandedOn
      <4>5. CASE q # p
        BY <1>1, <2>2, <4>1, <4>3, <4>5 DEF Handed
      <4>6. QED
        BY <4>4, <4>5
    <3>3. QED
      BY <2>2, <3>1, <3>2 DEF Undisputed
  <2>3. QED
    BY <1>0, <1>3, <2>1, <2>2, BrowserKept
<1>4. \A k : k \in Browsers' => k \in Pids
  BY DEF Browsers
<1>5. QED
  BY <1>2, <1>3, <1>4 DEF Undisputed

\* The end of a browser, a stranger's start or end.
LEMMA CauseHappens ==
    ASSUME CloseInv, TypeOK', TableKeeps, Undisputed,
           UNCHANGED <<file, pc, child>>, \A p \in Procs : ~Spawn(p) /\ ~Die(p)
    PROVE  Undisputed'
<1>0. TypeOK
  BY DEF CloseInv
<1>1. ASSUME NEW k \in Pids, k \in Browsers'
      PROVE  Handed(k)' \/ SaysRunning(file, k)'
  <2>1. k \in Browsers /\ os'[k].born = os[k].born /\ os'[k].parent = os[k].parent
    BY <1>0, <1>1, BrowserKept
  <2>2. Handed(k) \/ SaysRunning(file, k)
    BY <2>1 DEF Undisputed
  <2>3. QED
    BY <2>1, <2>2 DEF Handed, SaysRunning
<1>2. \A k : k \in Browsers' => k \in Pids
  BY DEF Browsers
<1>3. \A p \in Procs : pc'[p] \in Holding => SaysLaunching(file', p)
  BY DEF Undisputed
<1>4. QED
  BY <1>1, <1>2, <1>3 DEF Undisputed

\* A step that changes neither running.json nor where anybody is does not spawn or end
\* a process of ours.
LEMMA NobodyMoves ==
    ASSUME TypeOK, UNCHANGED pc, NEW p \in Procs
    PROVE  ~Spawn(p) /\ ~Die(p)
<1>1. ~Spawn(p)
  <2>. SUFFICES ASSUME Spawn(p) PROVE FALSE
    OBVIOUS
  <2>1. pc[p] = "spawn" /\ pc'[p] = "wait"
    BY GotoOne DEF Spawn
  <2>2. QED
    BY <2>1
<1>2. ~Die(p)
  <2>. SUFFICES ASSUME Die(p) PROVE FALSE
    OBVIOUS
  <2>1. pc[p] # "down" /\ pc'[p] = "down"
    BY LeaveOne DEF Die
  <2>2. QED
    BY <2>1
<1>3. QED
  BY <1>1, <1>2

\* The history only watches.
LEMMA HistorySteps ==
    ASSUME [HNext]_historyVars
    PROVE  /\ [Next]_vars
           /\ \/ \E p \in Procs : Acts(p) /\ Note(p)
              \/ /\ UNCHANGED vars \/ \E k \in Pids : Happens(k)
                 /\ UNCHANGED history /\ UNCHANGED <<file, pc, snap, child>>
<1>1. ASSUME NEW p \in Procs, Actor(p)
      PROVE  Acts(p) /\ Note(p) /\ Next
  BY <1>1 DEF Actor, Acts, Next
<1>2. ASSUME NEW k \in Pids, Happens(k)
      PROVE  Next /\ UNCHANGED <<file, pc, snap, child>>
  BY <1>2 DEF Happens, Next, BrowserExits, StrangerStarts, StrangerExits, Killed
<1>3. CASE UNCHANGED historyVars
  BY <1>3 DEF historyVars, history, vars
<1>4. QED
  BY <1>1, <1>2, <1>3 DEF HNext, Happens

LEMMA CloseInvStep == CloseInv /\ [Next]_vars => CloseInv'
BY TypeStep, HeldStep, Ageing, Copying, AgesStep DEF CloseInv

LEMMA CauseStep == CauseInv /\ [HNext]_historyVars => CauseInv'
<1>. SUFFICES ASSUME CauseInv, [HNext]_historyVars PROVE CauseInv'
  OBVIOUS
<1>1. CloseInv' /\ TypeOK' /\ TypeOK /\ TableKeeps
  BY HistorySteps, CloseInvStep, Keeping DEF CauseInv, CloseInv
<1>2. CASE \E p \in Procs : Acts(p) /\ Note(p)
  <2>1. PICK p \in Procs : Acts(p) /\ Note(p)
    BY <1>2
  <2>2. CASE overruled' \/ abandoned'
    BY <1>1, <2>2 DEF CauseInv
  <2>3. CASE ~(overruled' \/ abandoned')
    BY <1>1, <2>1, <2>3, CauseActs DEF CauseInv, Note
  <2>4. QED
    BY <2>2, <2>3
<1>3. CASE UNCHANGED history /\ UNCHANGED <<file, pc, snap, child>>
  <2>1. overruled' = overruled /\ abandoned' = abandoned
    BY <1>3 DEF history
  <2>2. Undisputed => Undisputed'
    BY <1>1, <1>3, CauseHappens, NobodyMoves DEF CauseInv
  <2>3. QED
    BY <1>1, <2>1, <2>2 DEF CauseInv
<1>4. QED
  BY <1>2, <1>3, HistorySteps

\* As long as everybody has what he relies on, the profile has one browser at most, and
\* that one is on record or in hand.
LEMMA UndisputedKeeps ==
    ASSUME TypeOK, Undisputed
    PROVE  OneBrowser /\ BrowserOnRecord
<1>1. \A k \in Browsers : k \in Pids
  BY DEF Browsers
<1>2. BrowserOnRecord
  BY DEF Undisputed, BrowserOnRecord, Handed, InHand, WithBrowser, SaysRunning
<1>3. ASSUME NEW k \in Browsers, NEW j \in Browsers
      PROVE  k = j
  <2>1. \A p \in Procs : pc[p] \in WithBrowser => SaysLaunching(file, p)
    BY DEF Undisputed, WithBrowser, Holding
  <2>2. CASE SaysRunning(file, k) /\ SaysRunning(file, j)
    BY <2>2 DEF SaysRunning
  <2>3. CASE Handed(k) /\ Handed(j)
    BY <2>1, <2>3 DEF Handed, SaysLaunching
  <2>4. CASE (Handed(k) /\ SaysRunning(file, j)) \/ (Handed(j) /\ SaysRunning(file, k))
    BY <1>1, <2>1, <2>4, DirectAssumption DEF Handed, SaysLaunching, SaysRunning
  <2>5. QED
    BY <2>2, <2>3, <2>4 DEF Undisputed
<1>4. OneBrowser
  <2>1. CASE Browsers = {}
    BY <2>1, FS_EmptySet DEF OneBrowser
  <2>2. CASE Browsers # {}
    <3>1. PICK k \in Browsers : TRUE
      BY <2>2
    <3>2. Browsers = {k}
      BY <1>3, <3>1
    <3>3. QED
      BY <3>2, FS_Singleton DEF OneBrowser
  <2>3. QED
    BY <2>1, <2>2
<1>5. QED
  BY <1>2, <1>4

LEMMA HistoryInit == HInit => CauseInv
<1>. SUFFICES ASSUME HInit PROVE CauseInv
  OBVIOUS
<1>1. Init
  BY DEF HInit
<1>2. SnapHeld /\ ClosedGone
  BY <1>1 DEF Init, SnapHeld, Held, ClosedGone
<1>3. TimesPast
  BY <1>1 DEF Init, TimesPast, BornBefore, Past, NoChild
<1>4. Undisputed
  BY <1>1 DEF Init, Undisputed, Holding, Browsers, Running
<1>5. QED
  BY <1>1, <1>2, <1>3, <1>4, InitType DEF CauseInv, CloseInv

\* A profile has two browsers, or one that running.json does not name, only after
\* somebody removed or replaced a state that counted, or a launcher died holding its
\* browser: for any number of processes that launch, poll, close, exit and crash,
\* browsers that exit when they like, and pids that are recycled.
THEOREM LossNeedsACause == HSpec => []LossHasACause
<1>1. CauseInv => LossHasACause
  BY UndisputedKeeps DEF CauseInv, CloseInv, LossHasACause
<1>2. QED
  BY <1>1, HistoryInit, CauseStep, PTL DEF HSpec

-----------------------------------------------------------------------------
(* What an up-to-date view of running.json is worth.                        *)

\* A launch under way or a running browser relies on the state.
Counted ==
    \/ \E q \in Procs : pc[q] \in Holding /\ SaysLaunching(file, q)
    \/ \E k \in Browsers : SaysRunning(file, k)

SameRecord(s, t) ==
    s # NoFile /\ t # NoFile /\ s.pid = t.pid /\ s.ctime = t.ctime /\ s.launcher = t.launcher

\* What a process whose view has not been overtaken knows of running.json.
Informed(p) ==
    /\ pc[p] \in {"judge", "mark"} => snap[p] = file
    /\ pc[p] \in {"unlink_stale", "unlink_reused"} => ~Counted
    /\ pc[p] \in Holding => SaysLaunching(file, p)
    /\ pc[p] \in {"terminate", "await", "await_kill", "unlink_closed"} => SameRecord(snap[p], file)

ViewInv == CloseInv /\ \A p \in Procs : p \in outdated \/ Informed(p)

\* A state that does not change comes to count by nobody's step.
LEMMA CountedBefore ==
    ASSUME CloseInv, TypeOK', TableKeeps, UNCHANGED file,
           \A q \in Procs : pc'[q] \in Holding => pc[q] \in Holding, Counted'
    PROVE  Counted
<1>0. TypeOK /\ clock \in Nat
  BY DEF CloseInv, TypeOK
<1>1. CASE \E q \in Procs : pc'[q] \in Holding /\ SaysLaunching(file', q)
  BY <1>1 DEF Counted
<1>2. CASE \E k \in Browsers' : SaysRunning(file, k)'
  <2>1. PICK k \in Browsers' : SaysRunning(file, k)'
    BY <1>2
  <2>2. /\ k \in Pids /\ os'[k] # NoProcess /\ ~os'[k].zombie /\ os'[k].owner = "browser"
        /\ file # NoFile /\ file.pid = k /\ file.ctime = os'[k].born
    BY <2>1 DEF Browsers, Running, SaysRunning
  <2>3. os'[k].born # clock
    <3>1. file.ctime = None \/ file.ctime < clock
      BY <2>2 DEF CloseInv, TimesPast, Past
    <3>2. QED
      BY <1>0, <2>2, <3>1, DirectAssumption
  <2>4. k \in Browsers /\ SaysRunning(file, k)
    BY <2>2, <2>3 DEF TableKeeps, Browsers, Running, SaysRunning
  <2>5. QED
    BY <2>4 DEF Counted
<1>3. QED
  BY <1>1, <1>2 DEF Counted

\* Nobody starts to hold a file that stays what it is.
LEMMA HoldingBefore ==
    ASSUME TypeOK, NEW p \in Procs, Acts(p), UNCHANGED file
    PROVE  \A q \in Procs : pc'[q] \in Holding => pc[q] \in Holding
<1>1. \A q \in Procs : q # p => pc'[q] = pc[q]
  BY ActsAlone
<1>2. pc'[p] \in Holding => pc[p] \in Holding
  <2>1. FALSE \in BOOLEAN /\ p \in Procs
    OBVIOUS
  <2>2. QED
    BY <2>1, HoldingBegins, StartingIs
<1>3. QED
  BY <1>1, <1>2

\* A state judged inactive, by the process table as it is, does not count.
LEMMA InactiveUncounted ==
    ASSUME TypeOK, NEW p \in Procs, file # NoFile, ~Active(p, file)
    PROVE  ~Counted
<1>1. \A q \in Procs : ~(pc[q] \in Holding /\ SaysLaunching(file, q))
  BY DEF Active, LauncherStarting, SaysLaunching, Holding
<1>2. \A k \in Browsers : ~SaysRunning(file, k)
  <2>. SUFFICES ASSUME NEW k \in Browsers, SaysRunning(file, k) PROVE FALSE
    OBVIOUS
  <2>1. /\ k \in Pids /\ os[k] # NoProcess /\ ~os[k].zombie
        /\ file.pid = k /\ file.ctime = os[k].born
    BY DEF Browsers, Running, SaysRunning
  <2>2. Reaped(p, k) = os
    BY <2>1 DEF Reaped
  <2>3. QED
    BY <2>1, <2>2 DEF Active, Matching, Alive, CreateTime
<1>3. QED
  BY <1>1, <1>2 DEF Counted

\* Nor does one that names a process born at another time.
LEMMA ReusedUncounted ==
    ASSUME TypeOK, NEW p \in Procs, file # NoFile, Alive(p, file.pid),
           ~Matching(p, file.pid, file.ctime)
    PROVE  ~Counted
<1>1. file.pid \in Pids /\ os[file.pid] # NoProcess /\ file.ctime # os[file.pid].born
  BY DEF Matching, Alive, Reaped, CreateTime, TypeOK
<1>2. QED
  BY <1>1, DirectAssumption DEF Counted, SaysLaunching, SaysRunning

\* A step that leaves running.json alone, as its own process sees it.
LEMMA InformedLooks ==
    ASSUME CloseInv, TypeOK', TableKeeps, NEW p \in Procs, UNCHANGED file,
           Read(p) \/ Precheck(p) \/ Reread(p)
    PROVE  Informed(p)'
<1>0. TypeOK /\ Acts(p)
  BY DEF CloseInv, Acts, Step
<1>1. CASE Read(p)
  <2>1. pc'[p] = "judge" /\ snap'[p] = file
    BY <1>0, <1>1, GotoOne DEF Read, TypeOK
  <2>2. QED
    BY <2>1 DEF Informed, Holding
<1>2. CASE Return(p)
  <2>1. pc'[p] = "idle"
    BY <1>0, <1>2, LeaveOne DEF Return
  <2>2. QED
    BY <2>1 DEF Informed, Holding
<1>3. CASE Precheck(p) /\ ~Return(p)
  <2>1. CASE /\ Goto(p, "unlink_reused")
             /\ file # NoFile /\ Alive(p, file.pid) /\ ~Matching(p, file.pid, file.ctime)
    <3>1. pc'[p] = "unlink_reused"
      BY <1>0, <2>1, GotoOne
    <3>2. ~Counted'
      BY <1>0, <2>1, ReusedUncounted, CountedBefore, HoldingBefore
    <3>3. QED
      BY <3>1, <3>2 DEF Informed, Holding
  <2>2. CASE Goto(p, "read")
    <3>1. pc'[p] = "read"
      BY <1>0, <2>2, GotoOne
    <3>2. QED
      BY <3>1 DEF Informed, Holding
  <2>3. QED
    BY <1>3, <2>1, <2>2 DEF Precheck
<1>4. CASE Reread(p) /\ ~Return(p)
  <2>1. pc'[p] = "mark" /\ snap'[p] = file
    BY <1>0, <1>4, GotoOne DEF Reread, TypeOK
  <2>2. QED
    BY <2>1 DEF Informed, Holding
<1>5. QED
  BY <1>1, <1>2, <1>3, <1>4

LEMMA InformedActs ==
    ASSUME CloseInv, TypeOK', TableKeeps, NEW p \in Procs, Acts(p), UNCHANGED file, Informed(p)
    PROVE  Informed(p)'
<1>0. TypeOK
  BY DEF CloseInv
<1>1. CASE pc'[p] \in {"idle", "down", "read", "precheck", "create", "reread"}
  BY <1>1 DEF Informed, Holding
<1>2. CASE Leave(p, "idle") \/ Leave(p, "down")
  BY <1>0, <1>1, <1>2, LeaveOne
<1>3. CASE \/ Goto(p, "idle") \/ Goto(p, "read") \/ Goto(p, "precheck") \/ Goto(p, "create")
           \/ Goto(p, "reread")
  BY <1>0, <1>1, <1>3, GotoOne
<1>4. CASE Read(p) \/ Precheck(p) \/ Reread(p)
  BY <1>4, InformedLooks
<1>5. CASE Judge(p)
  <2>1. CASE Goto(p, "unlink_stale") /\ snap[p] # NoFile /\ ~Active(p, snap[p])
    <3>1. pc'[p] = "unlink_stale"
      BY <1>0, <2>1, GotoOne
    <3>2. snap[p] = file
      BY <1>5 DEF Informed, Judge
    <3>3. ~Counted'
      BY <1>0, <2>1, <3>2, InactiveUncounted, CountedBefore, HoldingBefore
    <3>4. QED
      BY <3>1, <3>3 DEF Informed, Holding
  <2>2. QED
    BY <1>2, <1>3, <1>5, <2>1 DEF Judge, Return
<1>6. CASE pc[p] \in Holding
  <2>1. CASE pc'[p] \in Holding
    BY <1>6, <2>1 DEF Informed, Holding, SaysLaunching
  <2>2. CASE \/ WriteInitial(p) \/ Spawn(p) \/ StopWaiting(p) \/ Identify(p) \/ RecordFails(p)
             \/ StopSpawned(p)
    <3>1. \E l \in Holding : Goto(p, l)
      BY <2>2 DEF WriteInitial, Spawn, StopWaiting, Identify, RecordFails, StopSpawned, Holding
    <3>2. pc'[p] \in Holding
      BY <1>0, <3>1, GotoOne
    <3>3. QED
      BY <2>1, <3>2
  <2>3. CASE WriteInitialFails(p) \/ SpawnFails(p) \/ Record(p) \/ UnlinkFailed(p) \/ Die(p)
    BY <1>2, <2>3 DEF WriteInitialFails, SpawnFails, Record, UnlinkFailed, Die, Return
  <2>4. ~ \/ Begin(p) \/ ComeBack(p) \/ Read(p) \/ Judge(p) \/ UnlinkStale(p) \/ Create(p)
          \/ Precheck(p) \/ UnlinkReused(p) \/ Reread(p) \/ MarkClosing(p)
          \/ Terminate(p) \/ Kill(p) \/ FindGone(p) \/ CloseTimeout(p) \/ UnlinkClosed(p)
    BY <1>6
    DEF Begin, ComeBack, Read, Judge, UnlinkStale, Create, Precheck, UnlinkReused, Reread,
        MarkClosing, Terminate, Kill, FindGone, CloseTimeout, UnlinkClosed, Holding
  <2>5. QED
    BY <2>2, <2>3, <2>4 DEF Acts, Step
<1>7. CASE Create(p)
  <2>1. TRUE \in BOOLEAN /\ FALSE \in BOOLEAN /\ p \in Procs
    OBVIOUS
  <2>2. file # NoFile
    BY <1>7, <2>1, StartingIs DEF Create
  <2>3. QED
    BY <1>2, <1>7, <2>2 DEF Create, Return
<1>8. CASE MarkClosing(p)
  <2>1. pc'[p] = "terminate" /\ snap' = snap
    BY <1>0, <1>8, GotoOne DEF MarkClosing
  <2>2. snap[p] = file /\ snap[p] # NoFile
    BY <1>8 DEF MarkClosing, Informed, CloseInv, SnapHeld, Held
  <2>3. QED
    BY <2>1, <2>2 DEF Informed, SameRecord, Holding
<1>9. CASE /\ \E l \in {"await", "await_kill", "unlink_closed"} : Goto(p, l)
           /\ pc[p] \in {"terminate", "await", "await_kill"} /\ UNCHANGED snap
  <2>1. pc'[p] \in {"await", "await_kill", "unlink_closed"}
    BY <1>0, <1>9, GotoOne
  <2>2. QED
    BY <1>9, <2>1 DEF Informed, SameRecord, Holding
<1>10. CASE Terminate(p) \/ Kill(p)
  <2>1. PICK l \in {"await", "await_kill"} :
          \/ Goto(p, l) /\ UNCHANGED <<op, snap, child>>
          \/ Return(p)
    BY <1>10 DEF Terminate, Kill, SignalRecorded
  <2>2. QED
    BY <1>2, <1>9, <1>10, <2>1 DEF Terminate, Kill, Return
<1>11. CASE FindGone(p)
  BY <1>9, <1>11 DEF FindGone
<1>12. CASE \/ Begin(p) \/ ComeBack(p) \/ Die(p) \/ UnlinkStale(p) \/ UnlinkReused(p)
            \/ CloseTimeout(p) \/ UnlinkClosed(p)
  BY <1>2, <1>3, <1>12
  DEF Begin, ComeBack, Die, UnlinkStale, UnlinkReused, CloseTimeout, UnlinkClosed, Return
<1>13. CASE \/ WriteInitial(p) \/ WriteInitialFails(p) \/ Spawn(p) \/ SpawnFails(p)
            \/ StopWaiting(p) \/ Identify(p) \/ Record(p) \/ RecordFails(p) \/ StopSpawned(p)
            \/ UnlinkFailed(p)
  BY <1>6, <1>13
  DEF WriteInitial, WriteInitialFails, Spawn, SpawnFails, StopWaiting, Identify, Record,
      RecordFails, StopSpawned, UnlinkFailed, Holding
<1>14. QED
  BY <1>4, <1>5, <1>7, <1>8, <1>10, <1>11, <1>12, <1>13 DEF Acts, Step

\* A step that changes running.json tells its own process what is in there.
LEMMA InformedWrites ==
    ASSUME CloseInv, NEW p \in Procs, Acts(p), file' # file
    PROVE  Informed(p)'
<1>0. TypeOK
  BY DEF CloseInv
<1>1. CASE pc'[p] \in {"idle", "create"}
  BY <1>1 DEF Informed, Holding
<1>2. CASE Leave(p, "idle") \/ Goto(p, "create")
  BY <1>0, <1>1, <1>2, LeaveOne, GotoOne
<1>3. CASE Create(p) /\ file = NoFile
  <2>1. FALSE \in BOOLEAN /\ pc'[p] = "initial" /\ file' = Starting(p, FALSE)
    BY <1>0, <1>3, GotoOne DEF Create
  <2>2. SaysLaunching(file', p)
    BY <2>1, StartingIs
  <2>3. QED
    BY <2>1, <2>2 DEF Informed, SaysLaunching, Holding
<1>4. CASE WriteInitial(p)
  <2>1. TRUE \in BOOLEAN /\ pc'[p] = "spawn" /\ file' = Starting(p, TRUE)
    BY <1>0, <1>4, GotoOne DEF WriteInitial, Written
  <2>2. SaysLaunching(file', p)
    BY <2>1, StartingIs
  <2>3. QED
    BY <2>1, <2>2 DEF Informed, SaysLaunching, Holding
<1>5. CASE MarkClosing(p)
  <2>1. pc'[p] = "terminate" /\ snap' = snap /\ file' = [snap[p] EXCEPT !.closing = TRUE]
    BY <1>0, <1>5, GotoOne DEF MarkClosing
  <2>2. snap[p] \in State /\ snap[p] # NoFile
    BY <1>5 DEF MarkClosing, CloseInv, TypeOK, SnapHeld, Held
  <2>3. /\ file' \in State /\ file'.pid = snap[p].pid /\ file'.ctime = snap[p].ctime
        /\ file'.launcher = snap[p].launcher
    BY <2>1, <2>2, StateTypes DEF State
  <2>4. file' # NoFile
    BY <2>3, DirectSentinels
  <2>5. QED
    BY <2>1, <2>2, <2>3, <2>4 DEF Informed, SameRecord, Holding
<1>6. CASE Create(p) /\ file # NoFile
  BY <1>6 DEF Create
<1>7. CASE \/ UnlinkStale(p) \/ WriteInitialFails(p) \/ SpawnFails(p) \/ Record(p)
           \/ UnlinkFailed(p) \/ UnlinkReused(p) \/ UnlinkClosed(p)
  BY <1>2, <1>7
  DEF UnlinkStale, WriteInitialFails, SpawnFails, Record, UnlinkFailed, UnlinkReused,
      UnlinkClosed, Return
<1>8. CASE \/ Begin(p) \/ ComeBack(p) \/ Die(p) \/ Read(p) \/ Judge(p) \/ Spawn(p)
           \/ StopWaiting(p) \/ Identify(p) \/ RecordFails(p) \/ StopSpawned(p) \/ Precheck(p)
           \/ Reread(p) \/ Terminate(p) \/ Kill(p) \/ FindGone(p) \/ CloseTimeout(p)
  BY <1>8
  DEF Begin, ComeBack, Die, Read, Judge, Spawn, StopWaiting, Identify, RecordFails, StopSpawned,
      Precheck, Reread, Terminate, Kill, FindGone, CloseTimeout
<1>9. QED
  BY <1>3, <1>4, <1>5, <1>6, <1>7, <1>8 DEF Acts, Step

\* Somebody else's step that leaves running.json alone.
LEMMA InformedStays ==
    ASSUME CloseInv, TypeOK', TableKeeps, UNCHANGED file,
           \A q \in Procs : pc'[q] \in Holding => pc[q] \in Holding,
           NEW p \in Procs, pc'[p] = pc[p], snap'[p] = snap[p], Informed(p)
    PROVE  Informed(p)'
<1>1. ~Counted => ~Counted'
  BY CountedBefore
<1>2. QED
  BY <1>1 DEF Informed, SameRecord, SaysLaunching

LEMMA ViewStep == ViewInv /\ [HNext]_historyVars => ViewInv'
<1>. SUFFICES ASSUME ViewInv, [HNext]_historyVars PROVE ViewInv'
  OBVIOUS
<1>1. CloseInv' /\ TypeOK' /\ TypeOK /\ CloseInv /\ TableKeeps
  BY HistorySteps, CloseInvStep, Keeping DEF ViewInv, CloseInv
<1>2. ASSUME NEW p \in Procs, Acts(p), Note(p), NEW q \in Procs, q \notin outdated'
      PROVE  Informed(q)'
  <2>1. CASE file' # file
    <3>1. q = p
      BY <1>2, <2>1 DEF Note
    <3>2. QED
      BY <1>1, <1>2, <2>1, <3>1, InformedWrites
  <2>2. CASE file' = file /\ q # p
    <3>1. Informed(q)
      BY <1>2, <2>2 DEF Note, ViewInv
    <3>2. pc'[q] = pc[q] /\ snap'[q] = snap[q]
      BY <1>1, <1>2, <2>2, ActsAlone
    <3>3. QED
      BY <1>1, <1>2, <2>2, <3>1, <3>2, HoldingBefore, InformedStays
  <2>3. CASE file' = file /\ q = p /\ pc[p] \notin Looking
    BY <1>1, <1>2, <2>3, InformedActs DEF Note, ViewInv
  <2>4. CASE file' = file /\ q = p /\ pc[p] \in Looking
    <3>1. CASE Read(p) \/ Precheck(p) \/ Reread(p)
      BY <1>1, <2>4, <3>1, InformedLooks
    <3>2. CASE Die(p)
      <4>1. pc'[p] = "down"
        BY <1>1, <3>2, LeaveOne DEF Die
      <4>2. QED
        BY <2>4, <4>1 DEF Informed, Holding
    <3>3. ~ \/ Begin(p) \/ ComeBack(p) \/ Judge(p) \/ UnlinkStale(p) \/ Create(p)
            \/ WriteInitial(p) \/ WriteInitialFails(p) \/ Spawn(p) \/ SpawnFails(p)
            \/ StopWaiting(p) \/ Identify(p) \/ Record(p) \/ RecordFails(p) \/ StopSpawned(p)
            \/ UnlinkFailed(p) \/ UnlinkReused(p) \/ MarkClosing(p) \/ Terminate(p) \/ Kill(p)
            \/ FindGone(p) \/ CloseTimeout(p) \/ UnlinkClosed(p)
      BY <2>4
      DEF Looking, Begin, ComeBack, Judge, UnlinkStale, Create, WriteInitial, WriteInitialFails,
          Spawn, SpawnFails, StopWaiting, Identify, Record, RecordFails, StopSpawned,
          UnlinkFailed, UnlinkReused, MarkClosing, Terminate, Kill, FindGone, CloseTimeout,
          UnlinkClosed
    <3>4. QED
      BY <1>2, <3>1, <3>2, <3>3 DEF Acts, Step
  <2>5. QED
    BY <2>1, <2>2, <2>3, <2>4
<1>3. ASSUME UNCHANGED history, UNCHANGED <<file, pc, snap, child>>, NEW q \in Procs,
             q \notin outdated'
      PROVE  Informed(q)'
  <2>1. Informed(q)
    BY <1>3 DEF history, ViewInv
  <2>2. QED
    BY <1>1, <1>3, <2>1, InformedStays
<1>4. QED
  BY <1>1, <1>2, <1>3, HistorySteps DEF ViewInv

\* What somebody relies on counts.
LEMMA OverrulesCounted ==
    ASSUME NEW p \in Procs, Overrules(p)
    PROVE  Counted /\ file # NoFile /\ file' # file
BY DEF Overrules, Counted, SaysLaunching, SaysRunning

LEMMA OverrulingActs ==
    ASSUME CloseInv, NEW p \in Procs, Acts(p), Overrules(p)
    PROVE  pc[p] # "create" /\ (Informed(p) => pc[p] = "unlink_closed" /\ snap[p].pid = NoPid)
<1>0. TypeOK /\ Counted /\ file # NoFile /\ file' # file
  BY OverrulesCounted DEF CloseInv
<1>1. CASE Create(p)
  BY <1>0, <1>1 DEF Create
<1>2. CASE UnlinkStale(p) \/ UnlinkReused(p)
  BY <1>0, <1>2 DEF UnlinkStale, UnlinkReused, Informed
<1>3. CASE \/ WriteInitial(p) \/ WriteInitialFails(p) \/ SpawnFails(p) \/ Record(p)
           \/ UnlinkFailed(p)
  <2>1. pc[p] \in Holding /\ pc[p] # "create"
    BY <1>3 DEF WriteInitial, WriteInitialFails, SpawnFails, Record, UnlinkFailed, Holding
  <2>2. SaysLaunching(file, p) =>
          /\ \A q \in Procs \ {p} : ~SaysLaunching(file, q)
          /\ \A k \in Browsers : ~SaysRunning(file, k)
    BY DirectAssumption DEF SaysLaunching, SaysRunning, Browsers
  <2>3. QED
    BY <2>1, <2>2 DEF Informed, Overrules
<1>4. CASE MarkClosing(p)
  <2>1. pc[p] = "mark" /\ file' = [snap[p] EXCEPT !.closing = TRUE]
    BY <1>0, <1>4 DEF MarkClosing
  <2>2. snap[p] \in State /\ snap[p] # NoFile
    BY <2>1 DEF CloseInv, TypeOK, SnapHeld, Held
  <2>3. /\ file' \in State /\ file'.pid = snap[p].pid /\ file'.ctime = snap[p].ctime
        /\ file'.launcher = snap[p].launcher
    BY <2>1, <2>2, StateTypes DEF State
  <2>4. file' # NoFile
    BY <2>3, DirectSentinels
  <2>5. snap[p] # file
    BY <2>3, <2>4 DEF Overrules, SaysLaunching, SaysRunning
  <2>6. QED
    BY <2>1, <2>5 DEF Informed
<1>5. CASE UnlinkClosed(p)
  <2>1. pc[p] = "unlink_closed"
    BY <1>5 DEF UnlinkClosed
  <2>2. ASSUME Informed(p), snap[p].pid # NoPid
        PROVE  FALSE
    <3>1. SameRecord(snap[p], file)
      BY <2>1, <2>2 DEF Informed
    <3>2. PICK k \in Browsers : SaysRunning(file, k)
      BY <2>2, <3>1 DEF Overrules, SaysLaunching, SameRecord
    <3>3. k \in Pids /\ os[k] # NoProcess /\ snap[p].pid = k /\ snap[p].ctime = os[k].born
      BY <3>1, <3>2 DEF Browsers, Running, SaysRunning, SameRecord
    <3>4. QED
      BY <2>1, <3>3 DEF CloseInv, ClosedGone
  <2>3. QED
    BY <2>1, <2>2
<1>6. CASE \/ Begin(p) \/ ComeBack(p) \/ Die(p) \/ Read(p) \/ Judge(p) \/ Spawn(p)
           \/ StopWaiting(p) \/ Identify(p) \/ RecordFails(p) \/ StopSpawned(p) \/ Precheck(p)
           \/ Reread(p) \/ Terminate(p) \/ Kill(p) \/ FindGone(p) \/ CloseTimeout(p)
  BY <1>0, <1>6
  DEF Begin, ComeBack, Die, Read, Judge, Spawn, StopWaiting, Identify, RecordFails, StopSpawned,
      Precheck, Reread, Terminate, Kill, FindGone, CloseTimeout
<1>7. QED
  BY <1>1, <1>2, <1>3, <1>4, <1>5, <1>6 DEF Acts, Step

\* Nobody removes or replaces a state that counts with an up-to-date view of it, but
\* for a close of a launch that has no browser yet; and the exclusive creation by which
\* a launch claims the profile never does, however old its view: for any number of
\* processes, crashes, exits of browsers and recycled pids.
THEOREM OverrulersAreOutdated == HSpec => OnlyOutdatedOverrule
<1>1. HInit => ViewInv
  <2>. SUFFICES ASSUME HInit PROVE ViewInv
    OBVIOUS
  <2>1. CloseInv /\ Init
    BY HistoryInit DEF CauseInv, HInit
  <2>2. \A p \in Procs : Informed(p)
    BY <2>1 DEF Init, Informed, Holding
  <2>3. QED
    BY <2>1, <2>2 DEF ViewInv
<1>2. ViewInv /\ [HNext]_historyVars => ViewInv'
  BY ViewStep
<1>3. ViewInv /\ [HNext]_historyVars =>
        [\A p \in Procs : pc'[p] # pc[p] /\ Overrules(p) =>
           /\ pc[p] # "create"
           /\ p \in outdated \/ (pc[p] = "unlink_closed" /\ snap[p].pid = NoPid)]_historyVars
  <2>. SUFFICES ASSUME ViewInv, [HNext]_historyVars, NEW p \in Procs, pc'[p] # pc[p],
                       Overrules(p)
       PROVE  /\ pc[p] # "create"
              /\ p \in outdated \/ (pc[p] = "unlink_closed" /\ snap[p].pid = NoPid)
    OBVIOUS
  <2>1. TypeOK /\ CloseInv
    BY DEF ViewInv, CloseInv
  <2>2. PICK q \in Procs : Acts(q)
    BY HistorySteps
  <2>3. q = p
    BY <2>1, <2>2, ActsAlone
  <2>4. QED
    BY <2>1, <2>2, <2>3, OverrulingActs DEF ViewInv
<1>4. QED
  BY <1>1, <1>2, <1>3, PTL DEF HSpec, OnlyOutdatedOverrule

=============================================================================
