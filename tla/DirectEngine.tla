---------------------------- MODULE DirectEngine ----------------------------
(***************************************************************************)
(* One profile of the Direct engine: its runtime/running.json, the browser *)
(* processes its launches spawn, and the ProfileDock processes that start, *)
(* close and poll it (process/direct.py, process/manager.py,               *)
(* process/identity.py).  Nothing but running.json and the operating       *)
(* system's process table coordinates them: there is no lock.              *)
(*                                                                         *)
(* A process is known by its pid and its creation time.  Creation times    *)
(* are ticks of a clock that no two processes of one pid share, a tick     *)
(* being longer than the two seconds within which the code takes two       *)
(* creation times for the same.  The creation time of an existing process  *)
(* can always be read.  Verifying a process and signalling it is one step. *)
(***************************************************************************)
EXTENDS Naturals, FiniteSets

CONSTANTS
    Procs,       \* ProfileDock processes (CLI, TUI, MCP server)
    Starters,    \* of Procs: those that launch the profile,
    Pollers,     \* ... that ask for its status,
    Closers,     \* ... that close it,
    Exiting,     \* ... that exit between two commands, as the CLI does,
    Crashing,    \* ... that may die at any moment
    Pids,        \* process ids of the machine
    ExitPhases,  \* when a browser may exit: while launched, once identified
    MaxClock,    \* bound on the number of processes ever created
    Init1,       \* the process that inherits orphans
    None,        \* Python's None
    NoPid,       \* pid 0
    NoProcess,   \* nothing runs under this pid
    NoFile       \* running.json does not exist

ASSUME DirectAssumption ==
    /\ Starters \cup Pollers \cup Closers \cup Exiting \cup Crashing \subseteq Procs
    /\ Init1 \notin Procs
    /\ NoPid \notin Pids
    /\ ExitPhases \subseteq {"launching", "identified"}
    /\ MaxClock \in Nat
    /\ None \notin Nat

VARIABLES
    file,    \* running.json
    os,      \* the operating system's process table
    clock,   \* the creation time of the next process
    pc,      \* where each ProfileDock process is
    op,      \* the command it runs
    snap,    \* the running.json it read last
    child    \* the browser it spawned, and the creation time it read of it

vars == <<file, os, clock, pc, op, snap, child>>

Process == [born   : 0..MaxClock,
            owner  : {"browser", "stranger"},
            parent : Procs \cup {Init1},
            zombie : BOOLEAN,
            sent   : {"nothing", "SIGTERM", "SIGKILL"}]

\* What running.json says.  It is not readable between its creation and the
\* write of its first content.
State == [readable : BOOLEAN,
          pid      : Pids \cup {NoPid},
          ctime    : 0..MaxClock \cup {None},
          launcher : Procs,
          closing  : BOOLEAN]

Ops == {"start", "status", "close"}

ASSUME DirectSentinels ==
    /\ NoProcess \notin Process
    /\ NoFile \notin State
    /\ None \notin Ops

TypeOK ==
    /\ file \in State \cup {NoFile}
    /\ os \in [Pids -> Process \cup {NoProcess}]
    /\ clock \in 0..MaxClock
    /\ pc \in [Procs ->
         {"down", "idle", "precheck", "unlink_reused", "read", "judge", "unlink_stale",
          "create", "initial", "spawn", "wait", "identify", "record", "stop", "unlink_failed",
          "reread", "mark", "terminate", "await", "await_kill", "unlink_closed"}]
    /\ op \in [Procs -> Ops \cup {None}]
    /\ snap \in [Procs -> State \cup {NoFile}]
    /\ child \in [Procs -> [pid : Pids \cup {NoPid}, ctime : 0..MaxClock \cup {None}]]

NoChild == [pid |-> NoPid, ctime |-> None]

Init ==
    /\ file = NoFile
    /\ os = [k \in Pids |-> NoProcess]
    /\ clock = 0
    /\ pc = [p \in Procs |-> "idle"]
    /\ op = [p \in Procs |-> None]
    /\ snap = [p \in Procs |-> NoFile]
    /\ child = [p \in Procs |-> NoChild]

-----------------------------------------------------------------------------
(* The operating system, as the code sees it. *)

\* os.waitpid(pid, WNOHANG) inside _alive reaps a dead child of the caller.
Reaped(p, k) ==
    IF k \in Pids /\ os[k] # NoProcess /\ os[k].zombie /\ os[k].parent = p
    THEN [os EXCEPT ![k] = NoProcess] ELSE os

\* _alive: a zombie of another process still answers kill(pid, 0).
Alive(p, k) == k \in Pids /\ Reaped(p, k)[k] # NoProcess

\* _get_process_create_time
CreateTime(k) == IF k \in Pids /\ os[k] # NoProcess THEN os[k].born ELSE None

\* _is_matching_process; nothing to compare with is a match.
Matching(p, k, ctime) ==
    Alive(p, k) /\ (ctime = None \/ ctime = CreateTime(k))

Running(k) == os[k] # NoProcess /\ ~os[k].zombie

\* The process ends: a zombie until its parent waits for it.
AfterDeath(k) ==
    [os EXCEPT ![k] = IF @.parent = Init1 THEN NoProcess ELSE [@ EXCEPT !.zombie = TRUE]]

-----------------------------------------------------------------------------
(* Commands begin and end. *)

Goto(p, l) == pc' = [pc EXCEPT ![p] = l]

Leave(p, l) ==
    /\ Goto(p, l)
    /\ op' = [op EXCEPT ![p] = None]
    /\ snap' = [snap EXCEPT ![p] = NoFile]
    /\ child' = [child EXCEPT ![p] = NoChild]

Return(p) == Leave(p, "idle")

\* start_direct_chrome and get_status read the state first, close_controller
\* looks for a recycled pid before that.
Begin(p) ==
    /\ pc[p] = "idle"
    /\ \/ p \in Starters /\ op' = [op EXCEPT ![p] = "start"] /\ Goto(p, "read")
       \/ p \in Pollers /\ op' = [op EXCEPT ![p] = "status"] /\ Goto(p, "read")
       \/ p \in Closers /\ op' = [op EXCEPT ![p] = "close"] /\ Goto(p, "precheck")
    /\ UNCHANGED <<file, os, clock, snap, child>>

-----------------------------------------------------------------------------
(* get_status(clean_stale=True), on the way of all three commands. *)

Read(p) ==
    /\ pc[p] = "read"
    /\ snap' = [snap EXCEPT ![p] = file]
    /\ Goto(p, "judge")
    /\ UNCHANGED <<file, os, clock, op, child>>

\* _launcher_starting: the state of a Direct launch has no launcher_create_time.
LauncherStarting(s) == s.pid = NoPid /\ pc[s.launcher] # "down"

\* "running", "closing", "starting" or "error": is_running.
Active(p, s) ==
    /\ s # NoFile
    /\ ~s.readable \/ Matching(p, s.pid, s.ctime) \/ LauncherStarting(s)

Recorded(s) == IF s = NoFile THEN NoPid ELSE s.pid

\* The verdict on what was read, with the process table as it is now.
Judge(p) ==
    /\ pc[p] = "judge"
    /\ os' = Reaped(p, Recorded(snap[p]))
    /\ IF Active(p, snap[p])
       THEN IF op[p] = "close"
            THEN Goto(p, "reread") /\ UNCHANGED <<op, snap, child>>
            ELSE Return(p)
       ELSE IF snap[p] # NoFile
       THEN Goto(p, "unlink_stale") /\ UNCHANGED <<op, snap, child>>
       ELSE IF op[p] = "start"
       THEN Goto(p, "create") /\ UNCHANGED <<op, snap, child>>
       ELSE Return(p)
    /\ UNCHANGED <<file, clock>>

\* _unlink_quietly(path): whatever the file holds by now.
UnlinkStale(p) ==
    /\ pc[p] = "unlink_stale"
    /\ file' = NoFile
    /\ IF op[p] = "start"
       THEN Goto(p, "create") /\ UNCHANGED <<op, snap, child>>
       ELSE Return(p)
    /\ UNCHANGED <<os, clock>>

-----------------------------------------------------------------------------
(* start_direct_chrome, once is_running said no. *)

Starting(p, readable) ==
    [readable |-> readable, pid |-> NoPid, ctime |-> None, launcher |-> p, closing |-> FALSE]

\* MUTANT of Create: an exists() check before an atomic write, instead of O_EXCL.
CreateOver(p) ==
    /\ pc[p] = "create"
    /\ file' = Starting(p, FALSE)
    /\ Goto(p, "initial")
    /\ UNCHANGED <<os, clock, op, snap, child>>

\* os.open(O_CREAT | O_EXCL)
Create(p) ==
    /\ pc[p] = "create"
    /\ IF file = NoFile
       THEN /\ file' = Starting(p, FALSE)
            /\ Goto(p, "initial")
            /\ UNCHANGED <<op, snap, child>>
       ELSE Return(p) /\ UNCHANGED file
    /\ UNCHANGED <<os, clock>>

\* MUTANT of WriteInitial: a launcher pid that the state does not carry.
WriteInitialBare(p) ==
    /\ pc[p] = "initial"
    /\ file' = IF file = Starting(p, FALSE) THEN [readable |-> TRUE, pid |-> NoPid] ELSE file
    /\ Goto(p, "spawn")
    /\ UNCHANGED <<os, clock, op, snap, child>>

\* json.dump(initial) into the file it opened, which may be unlinked by now.
Written(p) == IF file = Starting(p, FALSE) THEN Starting(p, TRUE) ELSE file

WriteInitial(p) ==
    /\ pc[p] = "initial"
    /\ file' = Written(p)
    /\ Goto(p, "spawn")
    /\ UNCHANGED <<os, clock, op, snap, child>>

\* The disk is full: only FileExistsError is caught, so the file stays behind,
\* empty, or written when it is fsync that fails.
WriteInitialFails(p) ==
    /\ pc[p] = "initial"
    /\ file' \in {file, Written(p)}
    /\ Return(p)
    /\ UNCHANGED <<os, clock>>

NewProcess(k, owner, parent) ==
    /\ os[k] = NoProcess
    /\ clock < MaxClock
    /\ os' = [os EXCEPT ![k] = [born |-> clock, owner |-> owner, parent |-> parent,
                                zombie |-> FALSE, sent |-> "nothing"]]
    /\ clock' = clock + 1

Spawn(p) ==
    /\ pc[p] = "spawn"
    /\ \E k \in Pids :
         /\ NewProcess(k, "browser", p)
         /\ child' = [child EXCEPT ![p] = [pid |-> k, ctime |-> None]]
    /\ Goto(p, "wait")
    /\ UNCHANGED <<file, op, snap>>

\* DevToolsActivePort cannot be removed, or Popen raises.
SpawnFails(p) ==
    /\ pc[p] = "spawn"
    /\ file' = NoFile
    /\ Return(p)
    /\ UNCHANGED <<os, clock>>

\* The port is there, two seconds are over, or poll() reaps a browser that exited.
StopWaiting(p) ==
    /\ pc[p] = "wait"
    /\ os' \in {os, Reaped(p, child[p].pid)}
    /\ Goto(p, "identify")
    /\ UNCHANGED <<file, clock, op, snap, child>>

Identify(p) ==
    /\ pc[p] = "identify"
    /\ child' = [child EXCEPT ![p].ctime = CreateTime(child[p].pid)]
    /\ Goto(p, "record")
    /\ UNCHANGED <<file, os, clock, op, snap>>

Record(p) ==
    /\ pc[p] = "record"
    /\ file' = [Starting(p, TRUE) EXCEPT !.pid = child[p].pid, !.ctime = child[p].ctime]
    /\ Return(p)
    /\ UNCHANGED <<os, clock>>

\* MUTANT of RecordFails: report the error and leave the browser running.
RecordFailsLeavingBrowser(p) ==
    /\ pc[p] = "record"
    /\ Goto(p, "unlink_failed")
    /\ UNCHANGED <<file, os, clock, op, snap, child>>

RecordFails(p) ==
    /\ pc[p] = "record"
    /\ Goto(p, "stop")
    /\ UNCHANGED <<file, os, clock, op, snap, child>>

\* _stop_process: poll() tells whether the child is still there to be signalled.
StopSpawned(p) ==
    /\ pc[p] = "stop"
    /\ LET k == child[p].pid IN
         os' = IF os[k] # NoProcess /\ os[k].parent = p
               THEN [os EXCEPT ![k] = NoProcess] ELSE os
    /\ Goto(p, "unlink_failed")
    /\ UNCHANGED <<file, clock, op, snap, child>>

UnlinkFailed(p) ==
    /\ pc[p] = "unlink_failed"
    /\ file' = NoFile
    /\ Return(p)
    /\ UNCHANGED <<os, clock>>

-----------------------------------------------------------------------------
(* close_controller and _close_direct. *)

\* The state is unreadable, or names a live process born at another time.
Precheck(p) ==
    /\ pc[p] = "precheck"
    /\ os' = Reaped(p, Recorded(file))
    /\ IF file # NoFile /\ ~file.readable
       THEN Return(p)
       ELSE /\ LET recycled == /\ file # NoFile /\ file.ctime # None
                              /\ Alive(p, file.pid) /\ ~Matching(p, file.pid, file.ctime)
               IN Goto(p, IF recycled THEN "unlink_reused" ELSE "read")
            /\ UNCHANGED <<op, snap, child>>
    /\ UNCHANGED <<file, clock>>

UnlinkReused(p) ==
    /\ pc[p] = "unlink_reused"
    /\ file' = NoFile
    /\ Return(p)
    /\ UNCHANGED <<os, clock>>

Reread(p) ==
    /\ pc[p] = "reread"
    /\ IF file # NoFile /\ file.readable
       THEN /\ snap' = [snap EXCEPT ![p] = file]
            /\ Goto(p, "mark")
            /\ UNCHANGED <<op, child>>
       ELSE Return(p)
    /\ UNCHANGED <<file, os, clock>>

\* The state it read, marked as closing, replaces whatever is there; an OSError
\* is ignored.
MarkClosing(p) ==
    /\ pc[p] = "mark"
    /\ file' \in {file, [snap[p] EXCEPT !.closing = TRUE]}
    /\ Goto(p, "terminate")
    /\ UNCHANGED <<os, clock, op, snap, child>>

\* MUTANT of SignalRecorded: only the first signal verifies the process.
SignalOnceVerified(p, signal, next) ==
    LET k == snap[p].pid IN
      IF Matching(p, k, snap[p].ctime) \/ signal = "SIGKILL"
      THEN /\ os' = [os EXCEPT ![k].sent = IF @ = "SIGKILL" THEN @ ELSE signal]
           /\ Goto(p, next)
           /\ UNCHANGED <<op, snap, child>>
      ELSE Return(p) /\ UNCHANGED os

\* Verify the recorded process and signal it, or refuse to.
SignalRecorded(p, signal, next) ==
    LET k == snap[p].pid IN
      IF Matching(p, k, snap[p].ctime)
      THEN /\ os' = [os EXCEPT ![k].sent = IF @ = "SIGKILL" THEN @ ELSE signal]
           /\ Goto(p, next)
           /\ UNCHANGED <<op, snap, child>>
      ELSE Return(p) /\ UNCHANGED os

Gone(p) == ~Alive(p, snap[p].pid)

\* A pid of 0, as a starting launch records it, is not alive.
Terminate(p) ==
    /\ pc[p] = "terminate"
    /\ ~Gone(p)
    /\ SignalRecorded(p, "SIGTERM", "await")
    /\ UNCHANGED <<file, clock>>

\* MUTANT of Kill: give up at the deadline instead of killing the browser.
GiveUp(p) ==
    /\ pc[p] = "await"
    /\ ~Gone(p)
    /\ Return(p)
    /\ UNCHANGED <<file, os, clock>>

\* The deadline passes, and the process is there: kill it.
Kill(p) ==
    /\ pc[p] = "await"
    /\ ~Gone(p)
    /\ SignalRecorded(p, "SIGKILL", "await_kill")
    /\ UNCHANGED <<file, clock>>

FindGone(p) ==
    /\ pc[p] \in {"terminate", "await", "await_kill"}
    /\ Gone(p)
    /\ os' = Reaped(p, snap[p].pid)
    /\ Goto(p, "unlink_closed")
    /\ UNCHANGED <<file, clock, op, snap, child>>

\* MUTANT of CloseTimeout: remove the state without looking once more.
CloseUnchecked(p) ==
    /\ pc[p] = "await_kill"
    /\ ~Gone(p)
    /\ Goto(p, "unlink_closed")
    /\ UNCHANGED <<file, os, clock, op, snap, child>>

\* "browser process did not close within the timeout"
CloseTimeout(p) ==
    /\ pc[p] = "await_kill"
    /\ ~Gone(p)
    /\ Return(p)
    /\ UNCHANGED <<file, os, clock>>

UnlinkClosed(p) ==
    /\ pc[p] = "unlink_closed"
    /\ file' = NoFile
    /\ Return(p)
    /\ UNCHANGED <<os, clock>>

-----------------------------------------------------------------------------
(* The environment. *)

\* A ProfileDock process ends: its zombies are reaped, its children orphaned.
Die(p) ==
    /\ pc[p] # "down"
    /\ p \in Crashing \/ (p \in Exiting /\ pc[p] = "idle")
    /\ Leave(p, "down")
    /\ os' = [k \in Pids |->
                IF os[k] = NoProcess \/ os[k].parent # p THEN os[k]
                ELSE IF os[k].zombie THEN NoProcess
                ELSE [os[k] EXCEPT !.parent = Init1]]
    /\ UNCHANGED <<file, clock>>

\* A later process, under the same pid.
ComeBack(p) ==
    /\ pc[p] = "down"
    /\ Goto(p, "idle")
    /\ UNCHANGED <<file, os, clock, op, snap, child>>

BeingLaunched(k) ==
    \E p \in Procs : pc[p] \in {"wait", "identify"} /\ child[p].pid = k

\* The user closes the browser, it crashes, hands its tabs over to another
\* instance, or obeys SIGTERM.
BrowserExits(k) ==
    /\ Running(k) /\ os[k].owner = "browser"
    /\ (IF BeingLaunched(k) THEN "launching" ELSE "identified") \in ExitPhases
    /\ os' = AfterDeath(k)
    /\ UNCHANGED <<file, clock, pc, op, snap, child>>

\* Any other program of the machine.
StrangerStarts(k) ==
    /\ NewProcess(k, "stranger", Init1)
    /\ UNCHANGED <<file, pc, op, snap, child>>

StrangerExits(k) ==
    /\ Running(k) /\ os[k].owner = "stranger"
    /\ os' = AfterDeath(k)
    /\ UNCHANGED <<file, clock, pc, op, snap, child>>

\* Nobody survives SIGKILL.
Killed(k) ==
    /\ Running(k) /\ os[k].sent = "SIGKILL"
    /\ os' = AfterDeath(k)
    /\ UNCHANGED <<file, clock, pc, op, snap, child>>

-----------------------------------------------------------------------------

Step(p) ==
    \/ Read(p) \/ Judge(p) \/ UnlinkStale(p)
    \/ Create(p) \/ WriteInitial(p) \/ WriteInitialFails(p) \/ Spawn(p) \/ SpawnFails(p)
    \/ StopWaiting(p) \/ Identify(p) \/ Record(p)
    \/ RecordFails(p) \/ StopSpawned(p) \/ UnlinkFailed(p)
    \/ Precheck(p) \/ UnlinkReused(p) \/ Reread(p) \/ MarkClosing(p)
    \/ Terminate(p) \/ Kill(p) \/ FindGone(p) \/ CloseTimeout(p) \/ UnlinkClosed(p)

Next ==
    \/ \E p \in Procs : Begin(p) \/ Step(p) \/ Die(p) \/ ComeBack(p)
    \/ \E k \in Pids : BrowserExits(k) \/ StrangerStarts(k) \/ StrangerExits(k) \/ Killed(k)

Spec == Init /\ [][Next]_vars

\* Every process that runs a command goes on with it, and SIGKILL takes effect.
FairSpec ==
    /\ Spec
    /\ \A p \in Procs : WF_vars(Step(p))
    /\ \A k \in Pids : WF_vars(Killed(k))

-----------------------------------------------------------------------------
(* What the engine promises. *)

Browsers == {k \in Pids : Running(k) /\ os[k].owner = "browser"}

\* ProfileDock never sends a signal to a process that is no browser it launched,
\* however pids are recycled between the launch, the polls, the two signals of a
\* close and the crashes of launchers and closers.
NoStrangerSignalled ==
    \A k \in Pids : os[k] # NoProcess /\ os[k].owner = "stranger" => os[k].sent = "nothing"

\* A launch is refused while the profile is starting or running: two browsers
\* never share a profile's browser-data.
OneBrowser == Cardinality(Browsers) <= 1

\* The launcher still holds the browser it spawned.
InHand(k) ==
    \E p \in Procs : pc[p] \in {"wait", "identify", "record", "stop"} /\ child[p].pid = k

\* A browser nobody is launching any more is the one running.json names: a launch
\* that could not record its browser, or lost the race for the profile, leaves
\* none behind that close could not find.
BrowserOnRecord ==
    \A k \in Browsers : InHand(k) \/ (file # NoFile /\ file.pid = k)

\* A close that succeeds leaves the browser it was asked to close dead, even if
\* another close, a status poll or the user was at it at the same time.
ClosedBrowserIsDead ==
    [][\A p \in Procs : pc[p] = "unlink_closed" /\ pc'[p] = "idle" =>
         LET k == snap[p].pid IN
           k # NoPid /\ Running(k) => os[k].born # snap[p].ctime]_vars

\* A browser that was sent SIGTERM ends, on its own or by SIGKILL, unless its
\* closer dies before it gets there: a time comes when no such browser is left.
Signalled(k) == Running(k) /\ os[k].sent # "nothing"

SignalledBrowserEnds == (\E k \in Pids : Signalled(k)) ~> (\A k \in Pids : ~Signalled(k))

=============================================================================
