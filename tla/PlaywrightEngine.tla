-------------------------- MODULE PlaywrightEngine --------------------------
(***************************************************************************)
(* One profile of the Playwright engine: its runtime/running.json, the     *)
(* controllers its launches spawn and their browsers, and the ProfileDock  *)
(* processes that start, close and poll it (process/playwright.py,         *)
(* process/manager.py, the life of process/controller.py around its        *)
(* request loop, which is ControllerIpc's).                                *)
(*                                                                         *)
(* A launch is known by its token; its controller, its browser and the     *)
(* states they write carry it.  No pid is reused here (DirectEngine is     *)
(* about that) and a browser's pid and creation time are always found.     *)
(* Deadlines may pass at any time.  A process sent SIGKILL is gone before  *)
(* its sender looks again.                                                 *)
(***************************************************************************)
EXTENDS Naturals, FiniteSets

CONSTANTS
    Procs,      \* ProfileDock processes (CLI, TUI, MCP server)
    Starters,   \* of Procs: those that launch the profile, or send it a command,
    Pollers,    \* ... that ask for its status,
    Closers,    \* ... that close it,
    Crashing,   \* ... that may be killed at any moment
    Launches,   \* the launches ever attempted
    Failures,   \* what may go wrong, of FailureKinds
    Nobody,     \* no process
    NoLaunch,   \* no launch
    NoFile      \* running.json does not exist

\* A start deadline passes, Ctrl-C interrupts a start, a state cannot be written,
\* a controller cannot be spawned, a browser cannot be launched, a controller is
\* killed, the user closes the browser.
FailureKinds == {"timeout", "interrupt", "write", "spawn", "launch", "killed", "exit"}

Starting == {"booting", "launching", "launched"}
Ending   == {"closing", "failing", "terminated", "leaving"}
Live     == Starting \cup {"serving"} \cup Ending

\* running.json.  A state is empty between its creation and its first content.
State == [launch : Launches, status : {"empty", "starting", "running", "closing"}]

ASSUME PlaywrightAssumption ==
    /\ Starters \cup Pollers \cup Closers \cup Crashing \subseteq Procs
    /\ Failures \subseteq FailureKinds
    /\ Nobody \notin Procs /\ NoLaunch \notin Launches
    /\ NoFile \notin State

VARIABLES
    file,      \* running.json
    err,       \* controller.error exists
    ctl,       \* the controller of each launch
    browser,   \* its browser
    parent,    \* the process that launched it
    pc,        \* where each ProfileDock process is
    op,        \* the command it runs
    snap,      \* the running.json it read last
    mine,      \* the launch it attempts
    sent,      \* those whose close was acknowledged
    failed     \* history: the launches that were reported as failed

vars == <<file, err, ctl, browser, parent, pc, op, snap, mine, sent, failed>>

TypeOK ==
    /\ file \in State \cup {NoFile}
    /\ err \in BOOLEAN
    /\ ctl \in [Launches -> Live \cup {"none", "zombie", "dead"}]
    /\ browser \in [Launches -> {"none", "up", "down"}]
    /\ parent \in [Launches -> Procs \cup {Nobody}]
    /\ pc \in [Procs ->
         {"down", "idle", "read", "judge", "reap", "unlink", "create", "initial", "spawn",
          "await", "probe", "give_up", "stop", "stopping", "unlink_failed",
          "precheck", "reread", "mark", "send", "wait", "grace", "after", "done"}]
    /\ op \in [Procs -> {"none", "start", "status", "close"}]
    /\ snap \in [Procs -> State \cup {NoFile}]
    /\ mine \in [Procs -> Launches \cup {NoLaunch}]
    /\ sent \subseteq Procs
    /\ failed \subseteq Launches

Init ==
    /\ file = NoFile /\ err = FALSE
    /\ ctl = [l \in Launches |-> "none"]
    /\ browser = [l \in Launches |-> "none"]
    /\ parent = [l \in Launches |-> Nobody]
    /\ pc = [p \in Procs |-> "idle"]
    /\ op = [p \in Procs |-> "none"]
    /\ snap = [p \in Procs |-> NoFile]
    /\ mine = [p \in Procs |-> NoLaunch]
    /\ sent = {}
    /\ failed = {}

-----------------------------------------------------------------------------
(* How commands begin, move on and end. *)

world  == <<file, err, ctl, browser, parent>>
locals == <<op, snap, mine, sent>>

Goto(p, l) == pc' = [pc EXCEPT ![p] = l]

Leave(p, l) ==
    /\ Goto(p, l)
    /\ op' = [op EXCEPT ![p] = "none"]
    /\ snap' = [snap EXCEPT ![p] = NoFile]
    /\ mine' = [mine EXCEPT ![p] = NoLaunch]
    /\ sent' = sent \ {p}

Return(p) == Leave(p, "idle") /\ UNCHANGED failed

Stay(p, l) == Goto(p, l) /\ UNCHANGED <<locals, failed>>

Fresh(l) == parent[l] = Nobody

\* Launches stand for runs of the program in their order: which comes next is
\* no choice of the code.
NextLaunch == CHOOSE l \in Launches : Fresh(l)

\* prepare_runtime_dir removes the error of an earlier launch.  No start begins
\* when Launches are used up.
Begin(p) ==
    /\ pc[p] = "idle"
    /\ \/ p \in Starters /\ (\E l \in Launches : Fresh(l))
          /\ op' = [op EXCEPT ![p] = "start"] /\ Goto(p, "read")
          /\ err' = FALSE
       \/ p \in Pollers /\ op' = [op EXCEPT ![p] = "status"] /\ Goto(p, "read") /\ UNCHANGED err
       \/ p \in Closers /\ op' = [op EXCEPT ![p] = "close"] /\ Goto(p, "precheck") /\ UNCHANGED err
    /\ UNCHANGED <<file, ctl, browser, parent, snap, mine, sent, failed>>

ReadState(p) == snap' = [snap EXCEPT ![p] = file]
Unlink == file' = NoFile

\* _alive: os.waitpid reaps a child of the caller, another's zombie looks alive.
Alive(p, l) == ctl[l] \in Live \/ (ctl[l] = "zombie" /\ parent[l] # p)

\* A process of the controller's launcher that ends is waited for, some time.
Dead(l) == IF pc[parent[l]] = "down" THEN "dead" ELSE "zombie"

-----------------------------------------------------------------------------
(* get_status(clean_stale=True), on the way of all three commands. *)

Read(p) ==
    /\ pc[p] = "read"
    /\ ReadState(p)
    /\ Goto(p, "judge")
    /\ UNCHANGED <<world, op, mine, sent, failed>>

\* The launcher's creation time is recorded: no later process passes for it.
LauncherStarting(s) == pc[parent[s.launch]] # "down"

\* "starting", "running", "closing" or "error".
Active(p, s) ==
    IF s = NoFile THEN err
    ELSE CASE s.status = "empty"    -> TRUE
           [] s.status = "closing"  -> Alive(p, s.launch)
           [] s.status = "starting" -> LauncherStarting(s)
           [] s.status = "running"  -> Alive(p, s.launch) /\ browser[s.launch] = "up"

\* A running state whose controller died: its browser goes before the state.
Abandoned(p, s) == s # NoFile /\ s.status = "running" /\ ~Alive(p, s.launch)

\* MUTANT of Judge: a closing state is somebody else's business.
JudgeNotClosing(p) ==
    /\ pc[p] = "judge"
    /\ IF Active(p, snap[p]) \/ (snap[p] # NoFile /\ snap[p].status = "closing")
       THEN IF op[p] = "close" THEN Stay(p, "reread") ELSE Return(p)
       ELSE IF Abandoned(p, snap[p]) THEN Stay(p, "reap")
       ELSE IF snap[p] # NoFile THEN Stay(p, "unlink")
       ELSE IF op[p] = "start" THEN Stay(p, "create")
       ELSE Return(p)
    /\ UNCHANGED world

\* What the command does next, on the verdict on what was read.
Judge(p) ==
    /\ pc[p] = "judge"
    /\ IF Active(p, snap[p])
       THEN IF op[p] = "close" THEN Stay(p, "reread") ELSE Return(p)
       ELSE IF Abandoned(p, snap[p]) THEN Stay(p, "reap")
       ELSE IF snap[p] # NoFile THEN Stay(p, "unlink")
       ELSE IF op[p] = "start" THEN Stay(p, "create")
       ELSE Return(p)
    /\ UNCHANGED world

\* _terminate_matching_process: SIGTERM, and SIGKILL if that did not help.
EndBrowser(l) ==
    browser' = [browser EXCEPT ![l] = IF @ = "up" THEN "down" ELSE @]

Reap(p) ==
    /\ pc[p] = "reap"
    /\ EndBrowser(snap[p].launch)
    /\ Stay(p, "unlink")
    /\ UNCHANGED <<file, err, ctl, parent>>

\* _unlink_quietly: whatever the file holds by now.
UnlinkStale(p) ==
    /\ pc[p] = "unlink"
    /\ Unlink
    /\ IF op[p] = "start" THEN Stay(p, "create") ELSE Return(p)
    /\ UNCHANGED <<err, ctl, browser, parent>>

-----------------------------------------------------------------------------
(* start_controller, once is_running said no. *)

\* os.open(O_CREAT | O_EXCL)
Create(p) ==
    /\ pc[p] = "create"
    /\ IF file = NoFile
       THEN \E l \in Launches :
              /\ Fresh(l) /\ l = NextLaunch
              /\ file' = [launch |-> l, status |-> "empty"]
              /\ parent' = [parent EXCEPT ![l] = p]
              /\ mine' = [mine EXCEPT ![p] = l]
              /\ Goto(p, "initial")
              /\ UNCHANGED <<op, snap, sent, failed>>
       ELSE Return(p) /\ UNCHANGED <<file, parent>>
    /\ UNCHANGED <<err, ctl, browser>>

\* MUTANT of Written: a misspelt status.
WrittenMisspelt(p) ==
    IF file = [launch |-> mine[p], status |-> "empty"]
    THEN [launch |-> mine[p], status |-> "started"] ELSE file

\* json.dump(initial) into the file it opened, which may be unlinked by now.
Written(p) ==
    IF file = [launch |-> mine[p], status |-> "empty"]
    THEN [launch |-> mine[p], status |-> "starting"] ELSE file

WriteInitial(p) ==
    /\ pc[p] = "initial"
    /\ file' = Written(p)
    /\ Stay(p, "spawn")
    /\ UNCHANGED <<err, ctl, browser, parent>>

\* Only FileExistsError is caught: the file stays behind, empty or written.
WriteInitialFails(p) ==
    /\ pc[p] = "initial" /\ "write" \in Failures
    /\ file' \in {file, Written(p)}
    /\ Return(p)
    /\ UNCHANGED <<err, ctl, browser, parent>>

Spawn(p) ==
    /\ pc[p] = "spawn"
    /\ ctl' = [ctl EXCEPT ![mine[p]] = "booting"]
    /\ Stay(p, "await")
    /\ UNCHANGED <<file, err, browser, parent>>

\* The launch raises BrowserLaunchError: a failed start.
Fail(p) == Leave(p, "idle") /\ failed' = failed \cup {mine[p]}

SpawnFails(p) ==
    /\ pc[p] = "spawn" /\ "spawn" \in Failures
    /\ Unlink /\ err' = TRUE
    /\ Fail(p)
    /\ UNCHANGED <<ctl, browser, parent>>

AwaitRead(p) ==
    /\ pc[p] = "await"
    /\ ReadState(p)
    /\ Goto(p, "probe")
    /\ UNCHANGED <<world, op, mine, sent, failed>>

\* The state has a port, and whoever wrote it answers a probe with its token.
Answers(s) == s # NoFile /\ s.status \in {"running", "closing"} /\ ctl[s.launch] = "serving"

LaunchSucceeds(p) ==
    /\ pc[p] = "probe"
    /\ Answers(snap[p])
    /\ err' = FALSE
    /\ Return(p)
    /\ UNCHANGED <<file, ctl, browser, parent>>

\* Not ready yet: poll() tells whether the controller is still there.
NotReady(p) ==
    /\ pc[p] = "probe"
    /\ ~Answers(snap[p])
    /\ Stay(p, IF ctl[mine[p]] \in Live THEN "await" ELSE "give_up")
    /\ UNCHANGED world

StartTimeout(p) ==
    /\ pc[p] = "await" /\ "timeout" \in Failures
    /\ Stay(p, "give_up")
    /\ UNCHANGED world

\* Ctrl-C: stop the controller, remove the state.
Interrupt(p) ==
    /\ pc[p] \in {"await", "probe"} /\ "interrupt" \in Failures
    /\ Stay(p, "stop")
    /\ UNCHANGED world

\* The first removal of the state, while the controller may still write it.
GiveUp(p) ==
    /\ pc[p] = "give_up"
    /\ Unlink
    /\ Stay(p, "stop")
    /\ UNCHANGED <<err, ctl, browser, parent>>

\* MUTANT of StopController: a controller that is still starting is left alone.
StopServing(p) ==
    /\ pc[p] = "stop"
    /\ LET l == mine[p] IN
         ctl' = [ctl EXCEPT ![l] =
                   IF @ \in {"serving", "closing", "failing"} THEN "terminated" ELSE @]
    /\ Stay(p, IF ctl[mine[p]] = "serving" THEN "stopping" ELSE "unlink_failed")
    /\ UNCHANGED <<file, err, browser, parent>>

\* _stop_process: SIGTERM, which ends a controller that has no handler yet and
\* makes SystemExit of any other's work, unless the controller is gone.
StopController(p) ==
    /\ pc[p] = "stop"
    /\ LET l == mine[p] IN
         ctl' = [ctl EXCEPT ![l] =
                   IF @ \in {"booting", "zombie"} THEN "dead"
                   ELSE IF @ \in Live \ {"leaving"} THEN "terminated"
                   ELSE @]
    /\ Stay(p, IF ctl'[mine[p]] \in Live THEN "stopping" ELSE "unlink_failed")
    /\ UNCHANGED <<file, err, browser, parent>>

\* It ends within five seconds, or is killed; communicate() reaps it.
AwaitStopped(p) ==
    /\ pc[p] = "stopping"
    /\ \/ ctl[mine[p]] \in {"zombie", "dead"}
       \/ "timeout" \in Failures
    /\ ctl' = [ctl EXCEPT ![mine[p]] = "dead"]
    /\ Stay(p, "unlink_failed")
    /\ UNCHANGED <<file, err, browser, parent>>

\* The last removal, and an error file if the controller left none (an
\* interrupted launch leaves none at all).
UnlinkFailed(p) ==
    /\ pc[p] = "unlink_failed"
    /\ Unlink
    /\ err' \in {err, TRUE}
    /\ Fail(p)
    /\ UNCHANGED <<ctl, browser, parent>>

-----------------------------------------------------------------------------
(* The controller of a launch. *)

Become(l, stage) == ctl' = [ctl EXCEPT ![l] = stage]
ProcsUnchanged == UNCHANGED <<pc, locals, failed>>

\* Its signal handlers are installed, its socket is bound.
Boot(l) ==
    /\ ctl[l] = "booting"
    /\ Become(l, "launching")
    /\ ProcsUnchanged /\ UNCHANGED <<file, err, browser, parent>>

\* Playwright cannot be imported: it returns without removing the state.
BootFails(l) ==
    /\ ctl[l] = "booting" /\ "launch" \in Failures
    /\ err' = TRUE
    /\ Become(l, Dead(l))
    /\ ProcsUnchanged /\ UNCHANGED <<file, browser, parent>>

LaunchContext(l) ==
    /\ ctl[l] = "launching"
    /\ browser' = [browser EXCEPT ![l] = "up"]
    /\ Become(l, "launched")
    /\ ProcsUnchanged /\ UNCHANGED <<file, err, parent>>

LaunchContextFails(l) ==
    /\ ctl[l] = "launching" /\ "launch" \in Failures
    /\ err' = TRUE
    /\ Become(l, "leaving")
    /\ ProcsUnchanged /\ UNCHANGED <<file, browser, parent>>

\* The running state replaces whatever is there.
Publish(l) ==
    /\ ctl[l] = "launched"
    /\ file' = [launch |-> l, status |-> "running"]
    /\ Become(l, "serving")
    /\ ProcsUnchanged /\ UNCHANGED <<err, browser, parent>>

PublishFails(l) ==
    /\ ctl[l] = "launched" /\ "write" \in Failures
    /\ Become(l, "failing")
    /\ ProcsUnchanged /\ UNCHANGED <<file, err, browser, parent>>

\* The request loop ends without a page, or with an error of the lost browser.
LoseBrowser(l) ==
    /\ ctl[l] = "serving" /\ browser[l] = "down"
    /\ \/ Become(l, "closing")
       \/ Become(l, "failing")
    /\ ProcsUnchanged /\ UNCHANGED <<file, err, browser, parent>>

\* context.close(), the error file, and what is left is the final removal.
CloseContext(l) ==
    /\ ctl[l] \in {"closing", "failing", "terminated"}
    /\ EndBrowser(l)
    /\ err' = CASE ctl[l] = "closing"    -> FALSE
                [] ctl[l] = "failing"    -> TRUE
                [] ctl[l] = "terminated" -> err
    /\ Become(l, "leaving")
    /\ ProcsUnchanged /\ UNCHANGED <<file, parent>>

\* _unlink_quietly(path): whatever the file holds by now.
LeaveController(l) ==
    /\ ctl[l] = "leaving"
    /\ Unlink
    /\ Become(l, Dead(l))
    /\ ProcsUnchanged /\ UNCHANGED <<err, browser, parent>>

-----------------------------------------------------------------------------
(* close_controller and _close_playwright. *)

Precheck(p) ==
    /\ pc[p] = "precheck"
    /\ IF file # NoFile /\ file.status = "empty"
       THEN Return(p)
       ELSE /\ ReadState(p)
            /\ Goto(p, IF Abandoned(p, file) THEN "reap" ELSE "read")
            /\ UNCHANGED <<op, mine, sent, failed>>
    /\ UNCHANGED world

\* A state without a port is not ready to be closed.
Reread(p) ==
    /\ pc[p] = "reread"
    /\ IF file # NoFile /\ file.status \in {"running", "closing"}
       THEN /\ ReadState(p)
            /\ Goto(p, "mark")
            /\ UNCHANGED <<op, mine, sent, failed>>
       ELSE Return(p)
    /\ UNCHANGED world

\* The state it read, marked as closing, replaces whatever is there; an OSError
\* is ignored.
MarkClosing(p) ==
    /\ pc[p] = "mark"
    /\ file' \in {[snap[p] EXCEPT !.status = "closing"]}
                  \cup (IF "write" \in Failures THEN {file} ELSE {})
    /\ Stay(p, "send")
    /\ UNCHANGED <<err, ctl, browser, parent>>

\* The close request: acknowledged, received with its answer lost, or never
\* received, as by a controller that is at its limit of connections.
SendClose(p) ==
    /\ pc[p] = "send"
    /\ LET l == snap[p].launch IN
         \/ /\ ctl[l] = "serving"
            /\ Become(l, "closing")
            /\ sent' \in {sent \cup {p}} \cup (IF "timeout" \in Failures THEN {sent} ELSE {})
         \/ /\ ctl[l] # "serving" \/ "timeout" \in Failures
            /\ UNCHANGED <<ctl, sent>>
    /\ Goto(p, "wait")
    /\ UNCHANGED <<file, err, browser, parent, op, snap, mine, failed>>

\* The state is there and its controller is not.
FindControllerDead(p) ==
    /\ pc[p] = "wait"
    /\ file # NoFile /\ ~Alive(p, snap[p].launch)
    /\ Stay(p, "reap")
    /\ UNCHANGED world

FindStateGone(p) ==
    /\ pc[p] \in {"wait", "grace"}
    /\ file = NoFile
    /\ IF p \in sent THEN Stay(p, "after") ELSE Return(p)
    /\ UNCHANGED world

\* The deadline passes with the state still there: end the browser.
CloseTimeout(p) ==
    /\ pc[p] = "wait" /\ "timeout" \in Failures
    /\ file # NoFile
    /\ EndBrowser(snap[p].launch)
    /\ Stay(p, "grace")
    /\ UNCHANGED <<file, err, ctl, parent>>

\* The grace time is over as well: "did not close within the timeout", or the
\* controller is dead and its state goes.
GraceOver(p) ==
    /\ pc[p] = "grace"
    /\ file # NoFile
    /\ IF Alive(p, snap[p].launch) THEN UNCHANGED file ELSE Unlink
    /\ Leave(p, "idle") /\ UNCHANGED failed
    /\ UNCHANGED <<err, ctl, browser, parent>>

\* MUTANT of EndClosed: the state is gone, so the browser must be.
EndNothing(p) ==
    /\ pc[p] = "after"
    /\ ~Alive(p, snap[p].launch) \/ "timeout" \in Failures
    /\ Stay(p, "done")
    /\ UNCHANGED world

\* The state is gone.  Wait for the controller as long as the deadline allows,
\* then see to it that the browser has ended.
EndClosed(p) ==
    /\ pc[p] = "after"
    /\ ~Alive(p, snap[p].launch) \/ "timeout" \in Failures
    /\ EndBrowser(snap[p].launch)
    /\ Stay(p, "done")
    /\ UNCHANGED <<file, err, ctl, parent>>

CloseSucceeds(p) ==
    /\ pc[p] = "done"
    /\ Return(p)
    /\ UNCHANGED world

-----------------------------------------------------------------------------
(* The environment. *)

\* A ProfileDock process is killed: its zombies are reaped.
Die(p) ==
    /\ p \in Crashing /\ pc[p] # "down"
    /\ Leave(p, "down")
    /\ ctl' = [l \in Launches |->
                 IF ctl[l] = "zombie" /\ parent[l] = p THEN "dead" ELSE ctl[l]]
    /\ UNCHANGED <<file, err, browser, parent, failed>>

\* Its launcher polls a controller that ended, or spawns another process.
ReapController(l) ==
    /\ ctl[l] = "zombie"
    /\ Become(l, "dead")
    /\ ProcsUnchanged /\ UNCHANGED <<file, err, browser, parent>>

KillController(l) ==
    /\ ctl[l] \in Live /\ "killed" \in Failures
    /\ Become(l, Dead(l))
    /\ ProcsUnchanged /\ UNCHANGED <<file, err, browser, parent>>

\* The user closes it, or it notices that its controller is gone, which nothing
\* guarantees.
BrowserExits(l) ==
    /\ browser[l] = "up"
    /\ "exit" \in Failures \/ ctl[l] \notin Live
    /\ EndBrowser(l)
    /\ ProcsUnchanged /\ UNCHANGED <<file, err, ctl, parent>>

-----------------------------------------------------------------------------

Status(p) == Read(p) \/ Judge(p) \/ Reap(p) \/ UnlinkStale(p)

Start(p) ==
    \/ Create(p) \/ WriteInitial(p) \/ WriteInitialFails(p) \/ Spawn(p) \/ SpawnFails(p)
    \/ AwaitRead(p) \/ LaunchSucceeds(p) \/ NotReady(p) \/ StartTimeout(p) \/ Interrupt(p)
    \/ GiveUp(p) \/ StopController(p) \/ AwaitStopped(p) \/ UnlinkFailed(p)

Close(p) ==
    \/ Precheck(p) \/ Reread(p) \/ MarkClosing(p) \/ SendClose(p)
    \/ FindControllerDead(p) \/ FindStateGone(p) \/ CloseTimeout(p) \/ GraceOver(p)
    \/ EndClosed(p) \/ CloseSucceeds(p)

Step(p) == Status(p) \/ Start(p) \/ Close(p)

Control(l) ==
    \/ Boot(l) \/ BootFails(l) \/ LaunchContext(l) \/ LaunchContextFails(l)
    \/ Publish(l) \/ PublishFails(l) \/ LoseBrowser(l)
    \/ CloseContext(l) \/ LeaveController(l)

Next ==
    \/ \E p \in Procs : Begin(p) \/ Step(p) \/ Die(p)
    \/ \E l \in Launches :
         Control(l) \/ ReapController(l) \/ KillController(l) \/ BrowserExits(l)

Spec == Init /\ [][Next]_vars

\* Every process goes on with its command and every controller with its life
\* until it is killed; pollers poll for ever, as the TUI does.
FairSpec ==
    /\ Spec
    /\ \A p \in Procs : WF_vars(Step(p))
    /\ \A p \in Pollers : WF_vars(Begin(p))
    /\ \A l \in Launches : WF_vars(Control(l))

-----------------------------------------------------------------------------
(* What the engine promises. *)

Browsers == {l \in Launches : browser[l] = "up"}

\* A launch is refused while the profile is starting or running: two browsers
\* never share a profile's browser-data.
OneBrowser == Cardinality(Browsers) <= 1

\* A close that succeeds leaves the browser of the controller it closed ended,
\* whoever removed the state it was waiting for, however the controller ended and
\* whether or not its deadline passed in between.
ClosedBrowserIsDown ==
    [][\A p \in Procs : p \in sent /\ pc'[p] = "idle" =>
         browser[snap[p].launch] # "up"]_vars

\* A launch reported as failed is over: its controller is gone, and running.json
\* does not name it, unless a close that had read its state puts it back, to
\* remove it in the end ("a failed startup rolls back all runtime artifacts").
InHandOfClose(l) ==
    \E p \in Procs : /\ pc[p] \in {"send", "wait", "reap", "unlink", "grace"}
                     /\ op[p] = "close" /\ snap[p] # NoFile /\ snap[p].launch = l

FailedLaunchIsOver ==
    \A l \in failed :
      /\ ctl[l] \notin Live
      /\ file # NoFile /\ file.launch = l => InHandOfClose(l)

\* Crashed runtime state is recovered automatically: a state whose launcher or
\* whose controller is no more does not stay, whoever died in the middle of what.
Stale(l) ==
    /\ file # NoFile /\ file.launch = l
    /\ IF file.status = "starting" THEN pc[parent[l]] = "down"
       ELSE file.status # "empty" /\ ctl[l] = "dead"

StaleStateGoes == (\E l \in Launches : Stale(l)) ~> (\A l \in Launches : ~Stale(l))

=============================================================================
