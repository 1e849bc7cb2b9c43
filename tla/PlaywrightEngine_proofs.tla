----------------------- MODULE PlaywrightEngine_proofs -----------------------
(***************************************************************************)
(* Theorems about PlaywrightEngine, for any processes, launches and        *)
(* failures: its type invariant; that a failed launch is over as long as   *)
(* no process that closes the profile is killed in the middle of it; and   *)
(* that a close which was acknowledged leaves the browser down.            *)
(***************************************************************************)
EXTENDS PlaywrightEngine, TLAPS

-----------------------------------------------------------------------------
(* Type correctness. *)

LEMMA TypeInit == Init => TypeOK
<1> SUFFICES ASSUME Init PROVE TypeOK
  OBVIOUS
<1>1. err \in BOOLEAN
  BY DEF Init
<1> QED
  BY <1>1 DEF Init, TypeOK

\* The states that are written are states.
LEMMA StateTypes ==
  /\ \A l \in Launches : [launch |-> l, status |-> "empty"] \in State
  /\ \A l \in Launches : [launch |-> l, status |-> "starting"] \in State
  /\ \A l \in Launches : [launch |-> l, status |-> "running"] \in State
  /\ \A s \in State : [s EXCEPT !.status = "closing"] \in State
  /\ \A s \in State : [s EXCEPT !.status = "closing"].launch = s.launch
  /\ \A s \in State : s.launch \in Launches
  BY DEF State

\* A command that ends leaves its locals well typed.
LEMMA TypeLeave ==
  ASSUME TypeOK, NEW p \in Procs, NEW l \in {"idle", "down"}, Leave(p, l)
  PROVE  /\ pc' \in [Procs ->
              {"down", "idle", "read", "judge", "reap", "unlink", "create", "initial", "spawn",
               "await", "probe", "give_up", "stop", "stopping", "unlink_failed",
               "precheck", "reread", "mark", "send", "wait", "grace", "after", "done"}]
         /\ op' \in [Procs -> {"none", "start", "status", "close"}]
         /\ snap' \in [Procs -> State \cup {NoFile}]
         /\ mine' \in [Procs -> Launches \cup {NoLaunch}]
         /\ sent' \subseteq Procs
  BY DEF TypeOK, Leave, Goto

\* The status commands keep every variable in its type.
LEMMA TypeStatus ==
  ASSUME TypeOK, NEW p \in Procs, Begin(p) \/ Status(p)
  PROVE  TypeOK'
<1> USE DEF TypeOK, locals, world
<1>1. CASE Begin(p)
  BY <1>1, PlaywrightAssumption DEF Begin, Goto
<1>2. CASE Read(p)
  BY <1>2 DEF Read, ReadState, Goto
<1>3. CASE Judge(p)
  BY <1>3, TypeLeave DEF Judge, Stay, Return, Goto
<1>4. CASE Reap(p)
  BY <1>4 DEF Reap, EndBrowser, Stay, Goto
<1>5. CASE UnlinkStale(p)
  BY <1>5, TypeLeave DEF UnlinkStale, Unlink, Stay, Return, Goto
<1> QED BY <1>1, <1>2, <1>3, <1>4, <1>5 DEF Status


-----------------------------------------------------------------------------
(* A launch under way owns its launch, a close holds the state it marks. *)

LaunchSteps ==
  {"initial", "spawn", "await", "probe", "give_up", "stop", "stopping", "unlink_failed"}

OwnLaunch ==
  /\ \A p \in Procs : pc[p] \in LaunchSteps =>
       mine[p] \in Launches \ failed /\ parent[mine[p]] = p
  /\ \A l \in failed : ~Fresh(l)

CloseSteps == {"mark", "send", "wait", "grace"}

CloseHolds ==
  \A p \in Procs :
    /\ pc[p] \in CloseSteps => snap[p] \in State
    /\ pc[p] \in CloseSteps \cup {"reread"} => op[p] = "close"
    /\ op[p] = "close" => p \in Closers

LEMMA TypeCreate ==
  ASSUME TypeOK, NEW p \in Procs, Create(p)
  PROVE  TypeOK'
<1> USE DEF TypeOK
<1>1. CASE file = NoFile
  BY <1>1, StateTypes DEF Create, Goto
<1>2. CASE file # NoFile
  BY <1>2, TypeLeave DEF Create, Return
<1> QED BY <1>1, <1>2

\* A launch that fails names a launch.
LEMMA TypeFail ==
  ASSUME TypeOK, OwnLaunch, NEW p \in Procs, pc[p] \in LaunchSteps, Fail(p)
  PROVE  failed' \subseteq Launches /\ Leave(p, "idle")
  BY DEF TypeOK, OwnLaunch, Fail

\* A launch keeps every variable in its type.
LEMMA TypeStart ==
  ASSUME TypeOK, OwnLaunch, NEW p \in Procs, Start(p)
  PROVE  TypeOK'
<1>1. CASE Create(p)
  BY <1>1, TypeCreate
<1>2. CASE WriteInitial(p) \/ WriteInitialFails(p)
  <2>1. pc[p] = "initial"
    BY <1>2 DEF WriteInitial, WriteInitialFails
  <2>2. Written(p) \in State \cup {NoFile}
    BY <2>1, StateTypes DEF Written, OwnLaunch, LaunchSteps, TypeOK
  <2> QED
    BY <1>2, <2>2, TypeLeave
    DEF WriteInitial, WriteInitialFails, TypeOK, Stay, Return, Goto, locals
<1>3. CASE Spawn(p)
  BY <1>3 DEF Spawn, TypeOK, Stay, Goto, locals, Live, Starting
<1>4. CASE SpawnFails(p)
  BY <1>4, TypeLeave, TypeFail DEF SpawnFails, Unlink, TypeOK, LaunchSteps
<1>5. CASE AwaitRead(p)
  BY <1>5 DEF AwaitRead, ReadState, Goto, TypeOK, world
<1>6. CASE LaunchSucceeds(p)
  BY <1>6, TypeLeave DEF LaunchSucceeds, Return, TypeOK
<1>7. CASE NotReady(p) \/ StartTimeout(p) \/ Interrupt(p)
  BY <1>7 DEF NotReady, StartTimeout, Interrupt, Stay, Goto, world, locals, TypeOK
<1>8. CASE GiveUp(p)
  BY <1>8 DEF GiveUp, Unlink, Stay, Goto, locals, TypeOK
<1>9. CASE StopController(p)
  <2>1. ctl' \in [Launches -> Live \cup {"none", "zombie", "dead"}]
    BY <1>9 DEF StopController, TypeOK, Live, Starting, Ending
  <2> QED
    BY <1>9, <2>1 DEF StopController, Stay, Goto, locals, TypeOK
<1>10. CASE AwaitStopped(p)
  BY <1>10 DEF AwaitStopped, Stay, Goto, locals, TypeOK
<1>11. CASE UnlinkFailed(p)
  BY <1>11, TypeLeave, TypeFail DEF UnlinkFailed, Unlink, TypeOK, LaunchSteps
<1> QED
  BY <1>1, <1>2, <1>3, <1>4, <1>5, <1>6, <1>7, <1>8, <1>9, <1>10, <1>11 DEF Start

\* A close keeps every variable in its type.
LEMMA TypeClose ==
  ASSUME TypeOK, CloseHolds, NEW p \in Procs, Close(p)
  PROVE  TypeOK'
<1>1. CASE Precheck(p)
  BY <1>1, TypeLeave DEF Precheck, Return, ReadState, Goto, world, TypeOK
<1>2. CASE Reread(p)
  BY <1>2, TypeLeave DEF Reread, Return, ReadState, Goto, world, TypeOK
<1>3. CASE MarkClosing(p)
  <2>1. [snap[p] EXCEPT !.status = "closing"] \in State
    BY <1>3, StateTypes DEF MarkClosing, CloseHolds, CloseSteps
  <2> QED
    BY <1>3, <2>1 DEF MarkClosing, Stay, Goto, locals, TypeOK
<1>4. CASE SendClose(p)
  BY <1>4 DEF SendClose, Become, Goto, TypeOK, Live, Ending
<1>5. CASE FindControllerDead(p)
  BY <1>5 DEF FindControllerDead, Stay, Goto, world, locals, TypeOK
<1>6. CASE FindStateGone(p) \/ CloseSucceeds(p)
  BY <1>6, TypeLeave DEF FindStateGone, CloseSucceeds, Stay, Return, Goto, world, locals, TypeOK
<1>7. CASE CloseTimeout(p) \/ EndClosed(p)
  BY <1>7 DEF CloseTimeout, EndClosed, EndBrowser, Stay, Goto, locals, TypeOK
<1>8. CASE GraceOver(p)
  BY <1>8, TypeLeave DEF GraceOver, Unlink, TypeOK
<1> QED
  BY <1>1, <1>2, <1>3, <1>4, <1>5, <1>6, <1>7, <1>8 DEF Close

\* So do the controllers and the environment.
LEMMA TypeControl ==
  ASSUME TypeOK, NEW l \in Launches,
         Control(l) \/ ReapController(l) \/ KillController(l) \/ BrowserExits(l)
  PROVE  TypeOK'
<1> USE DEF TypeOK, Become, ProcsUnchanged, locals
<1>1. CASE Boot(l) \/ LaunchContext(l) \/ PublishFails(l) \/ LoseBrowser(l)
  BY <1>1 DEF Boot, LaunchContext, PublishFails, LoseBrowser, Live, Starting, Ending
<1>2. CASE BootFails(l) \/ LaunchContextFails(l)
  BY <1>2 DEF BootFails, LaunchContextFails, Dead, Live, Ending
<1>3. CASE Publish(l)
  BY <1>3, StateTypes DEF Publish, Live
<1>4. CASE CloseContext(l)
  BY <1>4 DEF CloseContext, EndBrowser, Live, Ending
<1>5. CASE LeaveController(l) \/ ReapController(l) \/ KillController(l)
  BY <1>5 DEF LeaveController, ReapController, KillController, Unlink, Dead
<1>6. CASE BrowserExits(l)
  BY <1>6 DEF BrowserExits, EndBrowser
<1> QED
  BY <1>1, <1>2, <1>3, <1>4, <1>5, <1>6 DEF Control

LEMMA TypeDie ==
  ASSUME TypeOK, NEW p \in Procs, Die(p)
  PROVE  TypeOK'
  BY TypeLeave DEF Die, TypeOK

\* A step of a process leaves the locals of the others alone.
LEMMA OthersStay ==
  ASSUME TypeOK, NEW p \in Procs, NEW q \in Procs, p # q, Begin(p) \/ Step(p) \/ Die(p)
  PROVE  pc'[q] = pc[q] /\ op'[q] = op[q] /\ snap'[q] = snap[q] /\ mine'[q] = mine[q]
<1> USE DEF TypeOK, Stay, Return, Leave, Goto, locals, world, ReadState
<1>1. CASE Begin(p) \/ Die(p)
  BY <1>1 DEF Begin, Die
<1>2. CASE Status(p)
  BY <1>2 DEF Status, Read, Judge, Reap, UnlinkStale
<1>3. CASE Start(p)
  BY <1>3 DEF Start, Create, WriteInitial, WriteInitialFails, Spawn, SpawnFails, AwaitRead,
     LaunchSucceeds, NotReady, StartTimeout, Interrupt, GiveUp, StopController,
     AwaitStopped, UnlinkFailed, Fail
<1>4. CASE Close(p)
  BY <1>4 DEF Close, Precheck, Reread, MarkClosing, SendClose, FindControllerDead,
     FindStateGone, CloseTimeout, GraceOver, EndClosed, CloseSucceeds
<1> QED BY <1>1, <1>2, <1>3, <1>4 DEF Step

\* Launches are taken and failed by those who attempt them only.
LEMMA LaunchesStay ==
  ASSUME TypeOK, OwnLaunch, NEW p \in Procs, Begin(p) \/ Step(p) \/ Die(p)
  PROVE  \/ parent' = parent /\ failed' = failed
         \/ /\ pc[p] \in LaunchSteps /\ parent' = parent /\ failed' = failed \cup {mine[p]}
         \/ /\ pc[p] = "create" /\ failed' = failed
            /\ \E l \in Launches : Fresh(l) /\ parent' = [parent EXCEPT ![l] = p]
<1> USE DEF TypeOK, Stay, Return, locals, world
<1>1. CASE Begin(p) \/ Die(p)
  BY <1>1 DEF Begin, Die
<1>2. CASE Status(p)
  BY <1>2 DEF Status, Read, Judge, Reap, UnlinkStale
<1>3. CASE Start(p)
  BY <1>3 DEF Start, Create, WriteInitial, WriteInitialFails, Spawn, SpawnFails, AwaitRead,
     LaunchSucceeds, NotReady, StartTimeout, Interrupt, GiveUp, StopController,
     AwaitStopped, UnlinkFailed, Fail, LaunchSteps
<1>4. CASE Close(p)
  BY <1>4 DEF Close, Precheck, Reread, MarkClosing, SendClose, FindControllerDead,
     FindStateGone, CloseTimeout, GraceOver, EndClosed, CloseSucceeds
<1> QED BY <1>1, <1>2, <1>3, <1>4 DEF Step

\* The launch that a process attempts after its step, if it attempts one.
LEMMA OwnMine ==
  ASSUME TypeOK, OwnLaunch, NEW p \in Procs, Begin(p) \/ Step(p) \/ Die(p),
         pc'[p] \in LaunchSteps
  PROVE  mine'[p] \in Launches \ failed' /\ parent'[mine'[p]] = p
<1> USE DEF TypeOK, Stay, Return, Leave, Goto, locals, world, LaunchSteps
<1>1. CASE Begin(p) \/ Die(p)
  BY <1>1 DEF Begin, Die
<1>2. CASE Status(p)
  BY <1>2 DEF Status, Read, Judge, Reap, UnlinkStale
<1>3. CASE Create(p)
  BY <1>3 DEF Create, OwnLaunch
<1>4. CASE Start(p) /\ ~Create(p)
  BY <1>4 DEF OwnLaunch, Start, WriteInitial, WriteInitialFails, Spawn, SpawnFails,
     AwaitRead, LaunchSucceeds, NotReady, StartTimeout, Interrupt, GiveUp, StopController,
     AwaitStopped, UnlinkFailed, Fail
<1>5. CASE Close(p)
  BY <1>5 DEF Close, Precheck, Reread, MarkClosing, SendClose, FindControllerDead,
     FindStateGone, CloseTimeout, GraceOver, EndClosed, CloseSucceeds, ReadState
<1> QED BY <1>1, <1>2, <1>3, <1>4, <1>5 DEF Step

LEMMA OwnStep ==
  ASSUME TypeOK, OwnLaunch, NEW p \in Procs, Begin(p) \/ Step(p) \/ Die(p)
  PROVE  OwnLaunch'
<1>0. \A l \in failed' : ~Fresh(l)'
  BY LaunchesStay, PlaywrightAssumption DEF Fresh, TypeOK, OwnLaunch
<1> SUFFICES ASSUME NEW q \in Procs, pc'[q] \in LaunchSteps
             PROVE  mine'[q] \in Launches \ failed' /\ parent'[mine'[q]] = q
  BY <1>0 DEF OwnLaunch
<1>1. CASE q = p
  BY <1>1, OwnMine
<1>2. CASE q # p
  <2>1. pc[q] \in LaunchSteps /\ mine'[q] = mine[q]
    BY <1>2, OthersStay
  <2>2. mine[q] \in Launches \ failed /\ parent[mine[q]] = q
    BY <2>1 DEF OwnLaunch
  <2>3. parent'[mine[q]] = q
    BY <2>2, LaunchesStay, PlaywrightAssumption DEF Fresh, TypeOK
  <2>4. mine[q] \notin failed'
    BY <1>2, <2>2, LaunchesStay DEF OwnLaunch
  <2> QED BY <2>1, <2>2, <2>3, <2>4
<1> QED BY <1>1, <1>2

\* A launch goes on or ends.
LEMMA StartGoes ==
  ASSUME TypeOK, NEW p \in Procs, Start(p)
  PROVE  pc'[p] \in LaunchSteps \cup {"idle"}
<1> USE DEF TypeOK, Stay, Return, Leave, Goto, locals, LaunchSteps
<1>1. CASE Create(p)
  BY <1>1 DEF Create
<1>2. CASE WriteInitial(p) \/ WriteInitialFails(p) \/ Spawn(p) \/ SpawnFails(p) \/ AwaitRead(p)
  BY <1>2 DEF WriteInitial, WriteInitialFails, Spawn, SpawnFails, AwaitRead, Fail
<1>3. CASE LaunchSucceeds(p) \/ NotReady(p) \/ StartTimeout(p) \/ Interrupt(p) \/ GiveUp(p)
  BY <1>3 DEF LaunchSucceeds, NotReady, StartTimeout, Interrupt, GiveUp
<1>4. CASE StopController(p) \/ AwaitStopped(p) \/ UnlinkFailed(p)
  BY <1>4 DEF StopController, AwaitStopped, UnlinkFailed, Fail
<1> QED BY <1>1, <1>2, <1>3, <1>4 DEF Start

LEMMA HoldsStep ==
  ASSUME TypeOK, CloseHolds, NEW p \in Procs, Begin(p) \/ Step(p) \/ Die(p)
  PROVE  CloseHolds'
<1> SUFFICES ASSUME NEW q \in Procs
             PROVE  /\ pc'[q] \in CloseSteps => snap'[q] \in State
                    /\ pc'[q] \in CloseSteps \cup {"reread"} => op'[q] = "close"
                    /\ op'[q] = "close" => q \in Closers
  BY DEF CloseHolds
<1>1. CASE q # p
  BY <1>1, OthersStay DEF CloseHolds
<1>2. CASE q = p
  <2> USE <1>2 DEF TypeOK, CloseHolds, Stay, Return, Leave, Goto, locals, world, CloseSteps
  <2>1. CASE Begin(p) \/ Die(p)
    BY <2>1 DEF Begin, Die
  <2>2. CASE Status(p)
    BY <2>2 DEF Status, Read, Judge, Reap, UnlinkStale
  <2>3. CASE Start(p)
    <3>1. pc'[p] \notin CloseSteps \cup {"reread"}
      BY <2>3, StartGoes DEF LaunchSteps
    <3>2. UNCHANGED op \/ op' = [op EXCEPT ![p] = "none"]
      BY <2>3 DEF Start, Create, WriteInitial, WriteInitialFails, Spawn, SpawnFails, AwaitRead,
         LaunchSucceeds, NotReady, StartTimeout, Interrupt, GiveUp, StopController,
         AwaitStopped, UnlinkFailed, Fail
    <3> QED BY <3>1, <3>2
  <2>4. CASE Reread(p)
    BY <2>4 DEF Reread, ReadState
  <2>5. CASE Precheck(p)
    BY <2>5 DEF Precheck, ReadState
  <2>6. CASE Close(p) /\ ~Reread(p) /\ ~Precheck(p)
    BY <2>6 DEF Close, MarkClosing, SendClose, FindControllerDead,
       FindStateGone, CloseTimeout, GraceOver, EndClosed, CloseSucceeds
  <2> QED BY <2>1, <2>2, <2>3, <2>4, <2>5, <2>6 DEF Step
<1> QED BY <1>1, <1>2

-----------------------------------------------------------------------------
(* Types again, with what they rest on. *)

TypedInv == TypeOK /\ OwnLaunch /\ CloseHolds

LEMMA TypedStep == TypedInv /\ [Next]_vars => TypedInv'
<1> SUFFICES ASSUME TypedInv, [Next]_vars PROVE TypedInv'
  OBVIOUS
<1> USE DEF TypedInv
<1>1. CASE \E p \in Procs : Begin(p) \/ Step(p) \/ Die(p)
  BY <1>1, TypeStatus, TypeStart, TypeClose, TypeDie, OwnStep, HoldsStep DEF Step
<1>2. CASE \E l \in Launches :
             Control(l) \/ ReapController(l) \/ KillController(l) \/ BrowserExits(l)
  <2>1. PICK l \in Launches :
          Control(l) \/ ReapController(l) \/ KillController(l) \/ BrowserExits(l)
    BY <1>2
  <2>2. TypeOK'
    BY <2>1, TypeControl
  <2>3. UNCHANGED <<pc, op, snap, mine, failed, parent>>
    BY <2>1 DEF Control, Boot, BootFails, LaunchContext, LaunchContextFails, Publish,
       PublishFails, LoseBrowser, CloseContext, LeaveController, ReapController,
       KillController, BrowserExits, ProcsUnchanged, locals
  <2> QED
    BY <2>2, <2>3 DEF OwnLaunch, CloseHolds, Fresh
<1>3. CASE UNCHANGED vars
  BY <1>3 DEF vars, TypeOK, OwnLaunch, CloseHolds, Fresh
<1> QED BY <1>1, <1>2, <1>3 DEF Next

LEMMA TypedInit == Init => TypedInv
  BY TypeInit DEF Init, TypedInv, OwnLaunch, CloseHolds, LaunchSteps, CloseSteps

THEOREM Typed == Spec => []TypedInv
  BY TypedInit, TypedStep, PTL DEF Spec

\* Every variable keeps its type, and with it the shape of running.json.
THEOREM TypeCorrect == Spec => []TypeOK
<1>1. TypedInv => TypeOK
  BY DEF TypedInv
<1> QED BY <1>1, Typed, PTL

-----------------------------------------------------------------------------
(* The controller of a failed launch is gone for good. *)

Over(l) == ctl[l] \in {"none", "dead"}

FailedStopped ==
  /\ \A l \in Launches : Fresh(l) => ctl[l] = "none"
  /\ \A p \in Procs : pc[p] \in {"initial", "spawn"} => ctl[mine[p]] = "none"
  /\ \A p \in Procs : pc[p] = "unlink_failed" => Over(mine[p])
  /\ \A l \in failed : Over(l)

\* Only its launcher gives a launch that has no controller one.
LEMMA OverStays ==
  ASSUME TypeOK, NEW p \in Procs, Begin(p) \/ Step(p) \/ Die(p),
         NEW l \in Launches, Over(l), ~(pc[p] \in LaunchSteps /\ mine[p] = l)
  PROVE  ctl'[l] = ctl[l]
<1> USE DEF TypeOK, Over, Stay, Return, locals, world, LaunchSteps
<1>1. CASE Begin(p) \/ Die(p)
  BY <1>1 DEF Begin, Die
<1>2. CASE Status(p)
  BY <1>2 DEF Status, Read, Judge, Reap, UnlinkStale
<1>3. CASE Start(p)
  BY <1>3 DEF Start, Create, WriteInitial, WriteInitialFails, Spawn, SpawnFails, AwaitRead,
     LaunchSucceeds, NotReady, StartTimeout, Interrupt, GiveUp, StopController,
     AwaitStopped, UnlinkFailed, Fail
<1>4. CASE SendClose(p)
  BY <1>4 DEF SendClose, Become
<1>5. CASE Close(p) /\ ~SendClose(p)
  BY <1>5 DEF Close, Precheck, Reread, MarkClosing, FindControllerDead,
     FindStateGone, CloseTimeout, GraceOver, EndClosed, CloseSucceeds
<1> QED BY <1>1, <1>2, <1>3, <1>4, <1>5 DEF Step

\* A launcher that is about to spawn, or has stopped its controller.
LEMMA OverMine ==
  ASSUME TypedInv, FailedStopped, NEW p \in Procs, Begin(p) \/ Step(p) \/ Die(p)
  PROVE  /\ pc'[p] \in {"initial", "spawn"} => ctl'[mine'[p]] = "none"
         /\ pc'[p] = "unlink_failed" => Over(mine[p])'
         /\ failed' # failed => ctl'[mine[p]] \in {"none", "dead"}
<1> USE DEF TypedInv, TypeOK, Over, Stay, Return, Leave, Goto, locals, world
<1>1. CASE Begin(p) \/ Die(p)
  BY <1>1 DEF Begin, Die
<1>2. CASE Status(p)
  BY <1>2 DEF Status, Read, Judge, Reap, UnlinkStale
<1>3. CASE Create(p)
  BY <1>3 DEF Create, FailedStopped
<1>4. CASE WriteInitial(p) \/ WriteInitialFails(p) \/ SpawnFails(p)
  BY <1>4 DEF WriteInitial, WriteInitialFails, SpawnFails, Fail, FailedStopped
<1>5. CASE Spawn(p) \/ AwaitRead(p) \/ LaunchSucceeds(p) \/ NotReady(p) \/ StartTimeout(p)
           \/ Interrupt(p) \/ GiveUp(p)
  BY <1>5 DEF Spawn, AwaitRead, LaunchSucceeds, NotReady, StartTimeout, Interrupt, GiveUp
<1>6. CASE StopController(p) \/ AwaitStopped(p)
  <2>1. mine[p] \in Launches
    BY <1>6 DEF StopController, AwaitStopped, OwnLaunch, LaunchSteps
  <2> QED
    BY <1>6, <2>1 DEF StopController, AwaitStopped, Live, Starting, Ending
<1>7. CASE UnlinkFailed(p)
  BY <1>7 DEF UnlinkFailed, Fail, FailedStopped
<1>8. CASE Close(p)
  <2>1. pc'[p] \notin {"initial", "spawn", "unlink_failed"} /\ failed' = failed
    BY <1>8 DEF Close, Precheck, Reread, MarkClosing, SendClose, FindControllerDead,
       FindStateGone, CloseTimeout, GraceOver, EndClosed, CloseSucceeds, ReadState
  <2> QED BY <2>1
<1> QED BY <1>1, <1>2, <1>3, <1>4, <1>5, <1>6, <1>7, <1>8 DEF Step, Start

LEMMA FailedStoppedByProc ==
  ASSUME TypedInv, FailedStopped, NEW p \in Procs, Begin(p) \/ Step(p) \/ Die(p)
  PROVE  FailedStopped'
<1> USE DEF TypedInv
<1>1. ASSUME NEW l \in Launches, Fresh(l)'
      PROVE  ctl'[l] = "none"
  <2>1. Fresh(l)
    BY <1>1, LaunchesStay, PlaywrightAssumption DEF Fresh, TypeOK
  <2> QED
    BY <2>1, OverStays, PlaywrightAssumption DEF FailedStopped, OwnLaunch, Over, Fresh
<1>2. ASSUME NEW q \in Procs
      PROVE  /\ pc'[q] \in {"initial", "spawn"} => ctl'[mine'[q]] = "none"
             /\ pc'[q] = "unlink_failed" => Over(mine[q])'
  <2>1. CASE q = p
    BY <2>1, OverMine
  <2>2. CASE q # p
    BY <2>2, OthersStay, OverStays DEF FailedStopped, OwnLaunch, LaunchSteps, Over
  <2> QED BY <2>1, <2>2
<1>3. ASSUME NEW l \in failed'
      PROVE  Over(l)'
  <2>1. CASE l \in failed
    BY <2>1, OverStays DEF FailedStopped, OwnLaunch, TypeOK, Over
  <2>2. CASE l \notin failed
    BY <1>3, <2>2, LaunchesStay, OverMine DEF Over
  <2> QED BY <2>1, <2>2
<1> QED BY <1>1, <1>2, <1>3 DEF FailedStopped

\* A controller that was never started or is dead stays so.
LEMMA FailedStoppedStep ==
  TypedInv /\ FailedStopped /\ [Next]_vars => FailedStopped'
<1> SUFFICES ASSUME TypedInv, FailedStopped, [Next]_vars PROVE FailedStopped'
  OBVIOUS
<1>1. CASE \E p \in Procs : Begin(p) \/ Step(p) \/ Die(p)
  BY <1>1, FailedStoppedByProc
<1>2. CASE \E l \in Launches :
             Control(l) \/ ReapController(l) \/ KillController(l) \/ BrowserExits(l)
  <2>1. PICK l \in Launches :
          Control(l) \/ ReapController(l) \/ KillController(l) \/ BrowserExits(l)
    BY <1>2
  <2>2. UNCHANGED <<pc, mine, failed, parent>>
    BY <2>1 DEF Control, Boot, BootFails, LaunchContext, LaunchContextFails, Publish,
       PublishFails, LoseBrowser, CloseContext, LeaveController, ReapController,
       KillController, BrowserExits, ProcsUnchanged, locals
  <2>3. \A k \in Launches : Over(k) => ctl'[k] = ctl[k]
    BY <2>1 DEF TypedInv, TypeOK, Over, Control, Boot, BootFails, LaunchContext,
       LaunchContextFails, Publish, PublishFails, LoseBrowser, CloseContext, LeaveController,
       ReapController, KillController, BrowserExits, Become, Live, Starting, Ending
  <2> QED
    BY <2>2, <2>3 DEF FailedStopped, TypedInv, TypeOK, OwnLaunch, LaunchSteps, Over, Fresh
<1>3. CASE UNCHANGED vars
  BY <1>3 DEF vars, FailedStopped, Over, Fresh
<1> QED BY <1>1, <1>2, <1>3 DEF Next

-----------------------------------------------------------------------------
(* running.json names a failed launch only in the hands of a close. *)

OnlyInHand ==
  \A l \in failed : file # NoFile /\ file.launch = l => InHandOfClose(l)

\* What a step puts into running.json names the launch that it named before, a
\* launch under way, or the launch of a state that a close marks.
LEMMA FileGoes ==
  ASSUME TypedInv, NEW p \in Procs, Begin(p) \/ Step(p) \/ Die(p), file' # NoFile
  PROVE  \/ file # NoFile /\ file'.launch = file.launch
         \/ pc[p] = "create" /\ Fresh(file'.launch)
         \/ MarkClosing(p) /\ file'.launch = snap[p].launch
<1> USE DEF TypedInv, TypeOK, Stay, Return, locals, world
<1>1. CASE Begin(p) \/ Die(p)
  BY <1>1 DEF Begin, Die
<1>2. CASE Status(p)
  BY <1>2 DEF Status, Read, Judge, Reap, UnlinkStale, Unlink
<1>3. CASE Create(p)
  BY <1>3 DEF Create
<1>4. CASE WriteInitial(p) \/ WriteInitialFails(p)
  <2>1. CASE file = [launch |-> mine[p], status |-> "empty"]
    <3>1. file \in State /\ file # NoFile
      BY <1>4, <2>1, StateTypes, PlaywrightAssumption
      DEF WriteInitial, WriteInitialFails, OwnLaunch, LaunchSteps
    <3>2. file' = file \/ file' = [launch |-> mine[p], status |-> "starting"]
      BY <1>4, <2>1 DEF WriteInitial, WriteInitialFails, Written
    <3> QED BY <2>1, <3>1, <3>2
  <2>2. CASE file # [launch |-> mine[p], status |-> "empty"]
    BY <1>4, <2>2 DEF WriteInitial, WriteInitialFails, Written
  <2> QED BY <2>1, <2>2
<1>5. CASE Start(p) /\ ~Create(p) /\ ~WriteInitial(p) /\ ~WriteInitialFails(p)
  BY <1>5 DEF Start, Spawn, SpawnFails, AwaitRead,
     LaunchSucceeds, NotReady, StartTimeout, Interrupt, GiveUp, StopController,
     AwaitStopped, UnlinkFailed, Unlink
<1>6. CASE MarkClosing(p)
  <2>1. snap[p] \in State
    BY <1>6 DEF MarkClosing, CloseHolds, CloseSteps
  <2> QED
    BY <1>6, <2>1, StateTypes DEF MarkClosing
<1>7. CASE Close(p) /\ ~MarkClosing(p)
  BY <1>7 DEF Close, Precheck, Reread, SendClose, FindControllerDead,
     FindStateGone, CloseTimeout, GraceOver, EndClosed, CloseSucceeds, Unlink
<1> QED BY <1>1, <1>2, <1>3, <1>4, <1>5, <1>6, <1>7 DEF Step

Holds(p, l) ==
  /\ pc[p] \in {"send", "wait", "reap", "unlink", "grace"}
  /\ op[p] = "close" /\ snap[p] # NoFile /\ snap[p].launch = l

\* A close that holds the state of a launch that is over lets go of it with the
\* state removed, or not at all.
LEMMA HoldsOn ==
  ASSUME TypedInv, NEW p \in Procs, NEW l \in Launches, Step(p), Holds(p, l), Over(l),
         file' # NoFile
  PROVE  Holds(p, l)'
<1> USE DEF Holds, TypedInv, TypeOK, Stay, Goto, locals
<1>1. CASE Status(p)
  BY <1>1 DEF Status, Read, Judge, Reap, UnlinkStale, Unlink
<1>2. CASE Start(p)
  BY <1>2 DEF Start, Create, WriteInitial, WriteInitialFails, Spawn, SpawnFails, AwaitRead,
     LaunchSucceeds, NotReady, StartTimeout, Interrupt, GiveUp, StopController,
     AwaitStopped, UnlinkFailed
<1>3. CASE GraceOver(p)
  BY <1>3 DEF GraceOver, Alive, Over, Live, Starting, Ending, Unlink
<1>4. CASE Close(p) /\ ~GraceOver(p)
  BY <1>4 DEF Close, Precheck, Reread, MarkClosing, SendClose, FindControllerDead,
     FindStateGone, CloseTimeout, EndClosed, CloseSucceeds, world
<1> QED BY <1>1, <1>2, <1>3, <1>4 DEF Step

\* A launch is reported as failed once its state is removed.
LEMMA FailUnlinks ==
  ASSUME NEW p \in Procs, Begin(p) \/ Step(p) \/ Die(p), failed' # failed
  PROVE  file' = NoFile
<1> USE DEF Stay, Return, locals
<1>1. CASE Begin(p) \/ Die(p) \/ Status(p)
  BY <1>1 DEF Begin, Die, Status, Read, Judge, Reap, UnlinkStale
<1>2. CASE Start(p)
  BY <1>2 DEF Start, Create, WriteInitial, WriteInitialFails, Spawn, SpawnFails, AwaitRead,
     LaunchSucceeds, NotReady, StartTimeout, Interrupt, GiveUp, StopController,
     AwaitStopped, UnlinkFailed, Unlink
<1>3. CASE Close(p)
  BY <1>3 DEF Close, Precheck, Reread, MarkClosing, SendClose, FindControllerDead,
     FindStateGone, CloseTimeout, GraceOver, EndClosed, CloseSucceeds
<1> QED BY <1>1, <1>2, <1>3 DEF Step

LEMMA OnlyInHandByProc ==
  ASSUME Closers \cap Crashing = {}, TypedInv, FailedStopped, OnlyInHand,
         NEW p \in Procs, Begin(p) \/ Step(p) \/ Die(p)
  PROVE  OnlyInHand'
<1> SUFFICES ASSUME NEW l \in failed', file' # NoFile, file'.launch = l
             PROVE  InHandOfClose(l)'
  BY DEF OnlyInHand
<1> USE DEF TypedInv
<1>1. l \in failed
  BY FailUnlinks
<1>2. l \in Launches /\ ~Fresh(l) /\ Over(l)
  BY <1>1 DEF TypeOK, OwnLaunch, FailedStopped
<1>3. SUFFICES \E q \in Procs : Holds(q, l)'
  BY DEF Holds, InHandOfClose
<1>4. CASE file # NoFile /\ file.launch = l
  <2>1. PICK q \in Procs : Holds(q, l)
    BY <1>1, <1>4 DEF OnlyInHand, InHandOfClose, Holds
  <2>2. CASE q # p
    BY <2>1, <2>2, OthersStay DEF Holds
  <2>3. CASE q = p
    <3>1. ~Begin(p)
      BY <2>1, <2>3 DEF Begin, Holds
    <3>2. ~Die(p)
      BY <2>1, <2>3 DEF Die, Holds, CloseHolds
    <3> QED
      BY <1>2, <2>1, <2>3, <3>1, <3>2, HoldsOn
  <2> QED BY <2>2, <2>3
<1>5. CASE MarkClosing(p) /\ snap[p].launch = l
  <2>1. op[p] = "close" /\ snap[p] \in State
    BY <1>5 DEF MarkClosing, CloseHolds, CloseSteps
  <2>2. Holds(p, l)'
    BY <1>5, <2>1, PlaywrightAssumption DEF MarkClosing, Holds, Stay, Goto, locals, TypeOK
  <2> QED BY <2>2
<1> QED
  BY <1>2, <1>4, <1>5, FileGoes

LEMMA OnlyInHandStep ==
  ASSUME Closers \cap Crashing = {}
  PROVE  TypedInv /\ FailedStopped /\ OnlyInHand /\ [Next]_vars => OnlyInHand'
<1> SUFFICES ASSUME TypedInv, FailedStopped, OnlyInHand, [Next]_vars PROVE OnlyInHand'
  OBVIOUS
<1>1. CASE \E p \in Procs : Begin(p) \/ Step(p) \/ Die(p)
  BY <1>1, OnlyInHandByProc
<1>2. CASE \E l \in Launches :
             Control(l) \/ ReapController(l) \/ KillController(l) \/ BrowserExits(l)
  <2>1. PICK k \in Launches :
          Control(k) \/ ReapController(k) \/ KillController(k) \/ BrowserExits(k)
    BY <1>2
  <2>2. UNCHANGED <<pc, op, snap, failed>>
    BY <2>1 DEF Control, Boot, BootFails, LaunchContext, LaunchContextFails, Publish,
       PublishFails, LoseBrowser, CloseContext, LeaveController, ReapController,
       KillController, BrowserExits, ProcsUnchanged, locals
  <2>3. file' = file \/ file' = NoFile \/ (Publish(k) /\ file'.launch = k)
    <3>1. CASE Publish(k)
      BY <3>1 DEF Publish
    <3>2. CASE CloseContext(k) \/ LeaveController(k)
      BY <3>2 DEF CloseContext, LeaveController, Unlink
    <3>3. CASE ~Publish(k) /\ ~CloseContext(k) /\ ~LeaveController(k)
      BY <2>1, <3>3 DEF Control, Boot, BootFails, LaunchContext, LaunchContextFails,
         PublishFails, LoseBrowser, ReapController, KillController, BrowserExits
    <3> QED BY <3>1, <3>2, <3>3
  <2>4. Publish(k) => k \notin failed
    BY DEF FailedStopped, Over, Publish
  <2> QED
    BY <2>2, <2>3, <2>4 DEF OnlyInHand, InHandOfClose
<1>3. CASE UNCHANGED vars
  BY <1>3 DEF vars, OnlyInHand, InHandOfClose
<1> QED BY <1>1, <1>2, <1>3 DEF Next

\* A launch reported as failed is over, unless a process dies while it closes the
\* profile: its controller is gone, and running.json does not name it but in the
\* hands of a close that read its state before.
THEOREM FailedIsOver ==
  ASSUME Closers \cap Crashing = {}
  PROVE  Spec => []FailedLaunchIsOver
<1> DEFINE IInv == TypedInv /\ FailedStopped /\ OnlyInHand
<1>1. Init => IInv
  BY TypedInit DEF Init, FailedStopped, OnlyInHand, Over, Fresh
<1>2. IInv /\ [Next]_vars => IInv'
  BY TypedStep, FailedStoppedStep, OnlyInHandStep
<1>3. IInv => FailedLaunchIsOver
  BY DEF TypedInv, TypeOK, FailedStopped, OnlyInHand, FailedLaunchIsOver, Over,
     Live, Starting, Ending
<1> HIDE DEF IInv
<1> QED BY <1>1, <1>2, <1>3, PTL DEF Spec

-----------------------------------------------------------------------------
(* A close that was acknowledged.  The controller it was sent to has left its   *)
(* request loop and never launches again, so that its browser, once it has      *)
(* ended, stays so.                                                             *)

Ended(l) == ctl[l] \in Ending \cup {"zombie", "dead"}
Down(l)  == browser[l] # "up"

AcknowledgedSteps == {"wait", "grace", "after", "done", "reap", "unlink"}

Acknowledged ==
  \A p \in sent :
    /\ pc[p] \in AcknowledgedSteps /\ op[p] = "close" /\ snap[p] \in State
    /\ Ended(snap[p].launch)
    /\ pc[p] \in {"grace", "done", "unlink"} => Down(snap[p].launch)

\* No command brings back a controller that is ending, or its browser.
LEMMA EndedByProc ==
  ASSUME TypedInv, FailedStopped, NEW p \in Procs, Begin(p) \/ Step(p) \/ Die(p),
         NEW l \in Launches, Ended(l)
  PROVE  Ended(l)' /\ (Down(l) => Down(l)')
<1> USE DEF TypedInv, TypeOK, Ended, Down, Ending, Stay, Return, locals, world
<1>1. CASE Begin(p) \/ Die(p)
  BY <1>1 DEF Begin, Die
<1>2. CASE Status(p)
  BY <1>2 DEF Status, Read, Judge, Reap, UnlinkStale, EndBrowser
<1>3. CASE Spawn(p)
  <2>1. mine[p] # l
    BY <1>3 DEF Spawn, FailedStopped
  <2> QED BY <1>3, <2>1 DEF Spawn
<1>4. CASE StopController(p) \/ AwaitStopped(p)
  BY <1>4 DEF StopController, AwaitStopped, Live, Starting
<1>5. CASE Start(p) /\ ~Spawn(p) /\ ~StopController(p) /\ ~AwaitStopped(p)
  BY <1>5 DEF Start, Create, WriteInitial, WriteInitialFails, SpawnFails, AwaitRead,
     LaunchSucceeds, NotReady, StartTimeout, Interrupt, GiveUp, UnlinkFailed, Fail
<1>6. CASE SendClose(p)
  BY <1>6 DEF SendClose, Become
<1>7. CASE CloseTimeout(p) \/ EndClosed(p)
  BY <1>7 DEF CloseTimeout, EndClosed, EndBrowser
<1>8. CASE Close(p) /\ ~SendClose(p) /\ ~CloseTimeout(p) /\ ~EndClosed(p)
  BY <1>8 DEF Close, Precheck, Reread, MarkClosing, FindControllerDead, FindStateGone,
     GraceOver, CloseSucceeds
<1> QED BY <1>1, <1>2, <1>3, <1>4, <1>5, <1>6, <1>7, <1>8 DEF Step

\* Nor does a controller, or the environment.
LEMMA EndedByControl ==
  ASSUME TypeOK, NEW k \in Launches,
         Control(k) \/ ReapController(k) \/ KillController(k) \/ BrowserExits(k),
         NEW l \in Launches, Ended(l)
  PROVE  Ended(l)' /\ (Down(l) => Down(l)')
<1> USE DEF TypeOK, Ended, Down, Ending, Become
<1>1. CASE LaunchContext(k)
  BY <1>1 DEF LaunchContext
<1>2. CASE CloseContext(k) \/ BrowserExits(k)
  BY <1>2 DEF CloseContext, BrowserExits, EndBrowser
<1>3. CASE LeaveController(k) \/ KillController(k) \/ ReapController(k)
  BY <1>3 DEF LeaveController, KillController, ReapController, Dead
<1>4. CASE Control(k) /\ ~LaunchContext(k) /\ ~CloseContext(k) /\ ~LeaveController(k)
  BY <1>4 DEF Control, Boot, BootFails, LaunchContextFails, Publish, PublishFails, LoseBrowser,
     Dead
<1> QED BY <1>1, <1>2, <1>3, <1>4

\* Who is in sent after a step was so before, or is acknowledged by it.
LEMMA SentGoes ==
  ASSUME TypedInv, NEW p \in Procs, Begin(p) \/ Step(p) \/ Die(p)
  PROVE  \/ sent' = sent
         \/ sent' = sent \ {p}
         \/ /\ SendClose(p) /\ sent' = sent \cup {p}
            /\ ctl[snap[p].launch] = "serving" /\ Become(snap[p].launch, "closing")
<1> USE DEF Stay, Return, Leave, locals, world
<1>1. CASE Begin(p) \/ Die(p) \/ Status(p)
  BY <1>1 DEF Begin, Die, Status, Read, Judge, Reap, UnlinkStale
<1>2. CASE Start(p)
  BY <1>2 DEF Start, Create, WriteInitial, WriteInitialFails, Spawn, SpawnFails, AwaitRead,
     LaunchSucceeds, NotReady, StartTimeout, Interrupt, GiveUp, StopController,
     AwaitStopped, UnlinkFailed, Fail
<1>3. CASE Close(p)
  BY <1>3 DEF Close, Precheck, Reread, MarkClosing, SendClose, FindControllerDead,
     FindStateGone, CloseTimeout, GraceOver, EndClosed, CloseSucceeds
<1> QED BY <1>1, <1>2, <1>3 DEF Step

\* What the acknowledged close itself does next: it goes on with the state it
\* holds, and has seen to the browser where it says so; or it returns with the
\* browser down.
LEMMA AcknowledgedGoes ==
  ASSUME TypedInv, FailedStopped, Acknowledged, NEW p \in sent, Step(p)
  PROVE  \/ /\ p \in sent' /\ pc'[p] \in AcknowledgedSteps
            /\ op'[p] = op[p] /\ snap'[p] = snap[p]
            /\ pc'[p] \in {"grace", "done", "unlink"} => Down(snap[p].launch)'
         \/ p \notin sent' /\ pc'[p] = "idle" /\ Down(snap[p].launch)
<1>0. /\ p \in Procs /\ pc[p] \in AcknowledgedSteps /\ op[p] = "close"
      /\ snap[p].launch \in Launches
      /\ pc[p] \in {"grace", "done", "unlink"} => Down(snap[p].launch)
  BY StateTypes DEF TypedInv, TypeOK, Acknowledged
<1> USE <1>0 DEF TypedInv, TypeOK, Down, AcknowledgedSteps, Stay, Return, Leave, Goto, locals, world
<1>1. CASE Status(p)
  BY <1>1 DEF Status, Read, Judge, Reap, UnlinkStale, EndBrowser
<1>2. CASE Start(p)
  BY <1>2 DEF Start, Create, WriteInitial, WriteInitialFails, Spawn, SpawnFails, AwaitRead,
     LaunchSucceeds, NotReady, StartTimeout, Interrupt, GiveUp, StopController,
     AwaitStopped, UnlinkFailed
<1>3. CASE CloseTimeout(p) \/ EndClosed(p)
  BY <1>3 DEF CloseTimeout, EndClosed, EndBrowser
<1>4. CASE FindControllerDead(p) \/ FindStateGone(p)
  BY <1>4 DEF FindControllerDead, FindStateGone
<1>5. CASE GraceOver(p) \/ CloseSucceeds(p)
  BY <1>5 DEF GraceOver, CloseSucceeds
<1>6. CASE Precheck(p) \/ Reread(p) \/ MarkClosing(p) \/ SendClose(p)
  BY <1>6 DEF Precheck, Reread, MarkClosing, SendClose
<1> QED BY <1>1, <1>2, <1>3, <1>4, <1>5, <1>6 DEF Step, Close

LEMMA AcknowledgedByProc ==
  ASSUME TypedInv, FailedStopped, Acknowledged, NEW p \in Procs, Begin(p) \/ Step(p) \/ Die(p)
  PROVE  Acknowledged'
<1> SUFFICES ASSUME NEW q \in sent'
             PROVE  /\ pc'[q] \in AcknowledgedSteps /\ op'[q] = "close" /\ snap'[q] \in State
                    /\ Ended(snap[q].launch)'
                    /\ pc'[q] \in {"grace", "done", "unlink"} => Down(snap[q].launch)'
  BY DEF Acknowledged
<1>1. CASE q \in sent /\ q # p
  <2>1. /\ q \in Procs /\ snap[q].launch \in Launches /\ Ended(snap[q].launch)
        /\ pc'[q] = pc[q] /\ op'[q] = op[q] /\ snap'[q] = snap[q]
    BY <1>1, OthersStay, StateTypes DEF TypedInv, TypeOK, Acknowledged
  <2>2. Ended(snap[q].launch)' /\ (Down(snap[q].launch) => Down(snap[q].launch)')
    <3>1. ASSUME NEW l \in Launches, Ended(l)
          PROVE  Ended(l)' /\ (Down(l) => Down(l)')
      BY <3>1, EndedByProc
    <3> QED BY <2>1, <3>1 DEF Ended, Down
  <2> QED BY <1>1, <2>1, <2>2 DEF Acknowledged
<1>2. CASE q \in sent /\ q = p
  <2>1. ~Begin(p) /\ ~Die(p)
    BY <1>2 DEF Begin, Die, Leave, Acknowledged, AcknowledgedSteps
  <2>2. /\ pc'[p] \in AcknowledgedSteps /\ op'[p] = op[p] /\ snap'[p] = snap[p]
        /\ pc'[p] \in {"grace", "done", "unlink"} => Down(snap[p].launch)'
    BY <1>2, <2>1, AcknowledgedGoes
  <2>3. snap[p].launch \in Launches /\ Ended(snap[p].launch) /\ snap[p] \in State /\ op[p] = "close"
    BY <1>2, StateTypes DEF Acknowledged
  <2>4. ASSUME NEW l \in Launches, Ended(l)
        PROVE  Ended(l)'
    BY <2>4, EndedByProc
  <2> QED BY <1>2, <2>2, <2>3, <2>4 DEF Ended, Down
<1>3. CASE q \notin sent
  <2>1. /\ q = p /\ SendClose(p)
        /\ ctl[snap[p].launch] = "serving" /\ Become(snap[p].launch, "closing")
    BY <1>3, SentGoes
  <2>2. snap[p] \in State /\ snap[p].launch \in Launches /\ op[p] = "close"
    BY <2>1, StateTypes DEF SendClose, TypedInv, CloseHolds, CloseSteps
  <2>3. pc'[p] = "wait" /\ UNCHANGED <<op, snap>> /\ ctl' = [ctl EXCEPT ![snap[p].launch] = "closing"]
    BY <2>1 DEF SendClose, Become, Goto, TypedInv, TypeOK
  <2> QED
    BY <2>1, <2>2, <2>3 DEF TypedInv, TypeOK, Ended, Ending, AcknowledgedSteps
<1> QED BY <1>1, <1>2, <1>3

LEMMA AcknowledgedStep ==
  TypedInv /\ FailedStopped /\ Acknowledged /\ [Next]_vars => Acknowledged'
<1> SUFFICES ASSUME TypedInv, FailedStopped, Acknowledged, [Next]_vars PROVE Acknowledged'
  OBVIOUS
<1>1. CASE \E p \in Procs : Begin(p) \/ Step(p) \/ Die(p)
  BY <1>1, AcknowledgedByProc
<1>2. CASE \E k \in Launches :
             Control(k) \/ ReapController(k) \/ KillController(k) \/ BrowserExits(k)
  <2>1. PICK k \in Launches :
          Control(k) \/ ReapController(k) \/ KillController(k) \/ BrowserExits(k)
    BY <1>2
  <2>2. UNCHANGED <<pc, op, snap, sent>>
    BY <2>1 DEF Control, Boot, BootFails, LaunchContext, LaunchContextFails, Publish,
       PublishFails, LoseBrowser, CloseContext, LeaveController, ReapController,
       KillController, BrowserExits, ProcsUnchanged, locals
  <2>3. \A l \in Launches : Ended(l) => Ended(l)' /\ (Down(l) => Down(l)')
    BY <2>1, EndedByControl DEF TypedInv
  <2>4. \A p \in sent : snap[p].launch \in Launches
    BY StateTypes DEF Acknowledged
  <2> QED BY <2>2, <2>3, <2>4 DEF Acknowledged, Ended, Down
<1>3. CASE UNCHANGED vars
  BY <1>3 DEF vars, Acknowledged, Ended, Down
<1> QED BY <1>1, <1>2, <1>3 DEF Next

\* A close that was acknowledged returns, by success or by its deadline, with the
\* browser of the controller it closed ended: whoever removed the state, and
\* whatever became of the controller, in the meantime.
THEOREM ClosedIsDown == Spec => ClosedBrowserIsDown
<1> DEFINE IInv == TypedInv /\ FailedStopped /\ Acknowledged
<1>1. Init => IInv
  BY TypedInit DEF Init, FailedStopped, Acknowledged, Over, Fresh
<1>2. IInv /\ [Next]_vars => IInv'
  BY TypedStep, FailedStoppedStep, AcknowledgedStep
<1>3. IInv /\ [Next]_vars =>
        [\A p \in Procs : p \in sent /\ pc'[p] = "idle" => browser[snap[p].launch] # "up"]_vars
  <2> SUFFICES ASSUME IInv, Next, NEW p \in Procs, p \in sent, pc'[p] = "idle"
               PROVE  Down(snap[p].launch)
    BY DEF Down
  <2>1. pc[p] \in AcknowledgedSteps
    BY DEF Acknowledged
  <2>2. CASE Step(p)
    BY <2>2, AcknowledgedGoes DEF AcknowledgedSteps
  <2>3. ~Begin(p) /\ ~Die(p)
    BY <2>1 DEF Begin, Die, Leave, Goto, TypedInv, TypeOK, AcknowledgedSteps
  <2>4. ASSUME NEW q \in Procs, q # p, Begin(q) \/ Step(q) \/ Die(q)
        PROVE  FALSE
    BY <2>1, <2>4, OthersStay DEF TypedInv, AcknowledgedSteps
  <2>5. ASSUME NEW k \in Launches,
               Control(k) \/ ReapController(k) \/ KillController(k) \/ BrowserExits(k)
        PROVE  FALSE
    <3>1. pc' = pc
      BY <2>5 DEF Control, Boot, BootFails, LaunchContext, LaunchContextFails, Publish,
         PublishFails, LoseBrowser, CloseContext, LeaveController, ReapController,
         KillController, BrowserExits, ProcsUnchanged
    <3> QED BY <2>1, <3>1 DEF AcknowledgedSteps
  <2> QED BY <2>2, <2>3, <2>4, <2>5 DEF Next
<1> HIDE DEF IInv
<1> QED BY <1>1, <1>2, <1>3, PTL DEF Spec, ClosedBrowserIsDown

=============================================================================
