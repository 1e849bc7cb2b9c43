---------------------------- MODULE ControllerIpc ----------------------------
(***************************************************************************)
(* The threads of a Playwright controller and the connections of its       *)
(* clients (process/controller.py, _wait_for_close).  A listener thread    *)
(* accepts connections and gives each a worker thread, unless there are    *)
(* Limit workers or queued items already.  A worker reads one request: it  *)
(* answers a probe, a close or nonsense itself and queues a command.  The  *)
(* main thread, the only one that may touch the browser, takes commands    *)
(* from the queue, and leaves the loop when the browser is gone, when a    *)
(* close was acknowledged, or on a signal.                                 *)
(*                                                                         *)
(* A connection's state is also that of its worker.  Reading a request is  *)
(* one step, as is sending an answer; a client that went away makes the    *)
(* first fail and the second pointless.  The waits with a deadline (accept,*)
(* get, join) may end at any time.                                         *)
(***************************************************************************)
EXTENDS Naturals, Sequences, FiniteSets

CONSTANTS
    Conns,   \* the connections ever made to this controller
    Limit,   \* 32, the bound on workers and on queued items
    StopItem \* the None that tells the main thread to leave its loop

ASSUME IpcAssumption ==
    /\ IsFiniteSet(Conns)
    /\ Limit \in Nat \ {0}
    /\ StopItem \notin Conns

VARIABLES
    conn,      \* each connection, and the worker that serves it
    req,       \* what its client asks for
    queue,     \* command_queue
    shutdown,  \* the Event
    server,    \* the listening socket is open
    listener,  \* where the listener thread is
    main,      \* where the main thread is
    alive,     \* the browser context has a page
    late       \* history: the commands that began after shutdown was set

vars == <<conn, req, queue, shutdown, server, listener, main, alive, late>>

Requests == {"command", "close", "other"}
Serving  == {"startup", "check", "get", "execute"}
Unserved == {"backlog", "accepted", "reading", "queued", "executing"}

TypeOK ==
    /\ conn \in [Conns -> {"new", "acked", "setting", "answered", "refused", "cut"} \cup Unserved]
    /\ req \in [Conns -> Requests \cup {"none"}]
    /\ queue \in Seq(Conns \cup {StopItem})
    /\ shutdown \in BOOLEAN /\ server \in BOOLEAN
    /\ listener \in {"check", "accept", "admit", "failed", "done"}
    /\ main \in Serving \cup {"cleanup", "close_server", "drain", "close_context", "gone"}
    /\ alive \in BOOLEAN
    /\ late \subseteq Conns

\* The controller listens and its browser is up; the state file says "running".
Init ==
    /\ conn = [c \in Conns |-> "new"]
    /\ req = [c \in Conns |-> "none"]
    /\ queue = <<>>
    /\ shutdown = FALSE /\ server = TRUE
    /\ listener = "check"
    /\ main = "startup"
    /\ alive = TRUE
    /\ late = {}

Turn(c, s) == conn' = [conn EXCEPT ![c] = s]

-----------------------------------------------------------------------------
(* Clients. *)

Connect(c) ==
    /\ conn[c] = "new" /\ server
    /\ Turn(c, "backlog")
    /\ \E r \in Requests : req' = [req EXCEPT ![c] = r]
    /\ UNCHANGED <<queue, shutdown, server, listener, main, alive, late>>

-----------------------------------------------------------------------------
(* The listener thread. *)

ListenerCheck ==
    /\ listener = "check"
    /\ listener' = IF shutdown THEN "done" ELSE "accept"
    /\ UNCHANGED <<conn, req, queue, shutdown, server, main, alive, late>>

Accept ==
    /\ listener = "accept" /\ server
    /\ \E c \in Conns : conn[c] = "backlog" /\ Turn(c, "accepted")
    /\ listener' = "admit"
    /\ UNCHANGED <<req, queue, shutdown, server, main, alive, late>>

AcceptTimeout ==
    /\ listener = "accept"
    /\ ~ \E c \in Conns : conn[c] = "backlog"
    /\ listener' = "check"
    /\ UNCHANGED <<conn, req, queue, shutdown, server, main, alive, late>>

\* The worker threads that are alive.
Workers == {c \in Conns : conn[c] \in {"reading", "acked", "setting"}}

\* MUTANT of Admit: no reply, and no end, for a connection beyond the limit.
AdmitOrForget ==
    /\ listener = "admit"
    /\ \E c \in Conns :
         /\ conn[c] = "accepted"
         /\ IF Cardinality(Workers) < Limit /\ Len(queue) < Limit
            THEN Turn(c, "reading") ELSE UNCHANGED conn
    /\ listener' = "accept"
    /\ UNCHANGED <<req, queue, shutdown, server, main, alive, late>>

Admit ==
    /\ listener = "admit"
    /\ \E c \in Conns :
         /\ conn[c] = "accepted"
         /\ Turn(c, IF Cardinality(Workers) < Limit /\ Len(queue) < Limit
                    THEN "reading" ELSE "refused")
    /\ listener' = "check"
    /\ UNCHANGED <<req, queue, shutdown, server, main, alive, late>>

\* accept raises OSError: the main thread has closed the socket, or the system
\* lacks what a new connection needs (descriptors, memory).
AcceptFails ==
    /\ listener = "accept"
    /\ shutdown' = TRUE
    /\ listener' = "failed"
    /\ UNCHANGED <<conn, req, queue, server, main, alive, late>>

\* No thread can be started.  The worker that never ran keeps the connection
\* open until the controller ends; the guard around the listener shuts it down,
\* and queues None only when it is the first to do so.
AdmitFails ==
    /\ listener = "admit"
    /\ Cardinality(Workers) < Limit /\ Len(queue) < Limit
    /\ shutdown' = TRUE
    /\ listener' = IF shutdown THEN "done" ELSE "failed"
    /\ UNCHANGED <<conn, req, queue, server, main, alive, late>>

ListenerStops ==
    /\ listener = "failed"
    /\ queue' = Append(queue, StopItem)
    /\ listener' = "done"
    /\ UNCHANGED <<conn, req, shutdown, server, main, alive, late>>

-----------------------------------------------------------------------------
(* A worker thread. *)

\* Nothing came within 30 seconds, or the client went away.
ReadFails(c) ==
    /\ conn[c] = "reading"
    /\ Turn(c, "refused")
    /\ UNCHANGED <<req, queue, shutdown, server, listener, main, alive, late>>

\* A probe, a wrong token, a malformed or oversized request.
AnswerOther(c) ==
    /\ conn[c] = "reading" /\ req[c] = "other"
    /\ Turn(c, "answered")
    /\ UNCHANGED <<req, queue, shutdown, server, listener, main, alive, late>>

\* A close is acknowledged first, announced then.
AcknowledgeClose(c) ==
    /\ conn[c] = "reading" /\ req[c] = "close"
    /\ Turn(c, "acked")
    /\ UNCHANGED <<req, queue, shutdown, server, listener, main, alive, late>>

\* MUTANT of SetShutdown: the event is forgotten, the item alone must do.
SetNothing(c) ==
    /\ conn[c] = "acked"
    /\ Turn(c, "answered")
    /\ UNCHANGED <<req, queue, shutdown, server, listener, main, alive, late>>

SetShutdown(c) ==
    /\ conn[c] = "acked"
    /\ shutdown' = TRUE
    /\ Turn(c, "setting")
    /\ UNCHANGED <<req, queue, server, listener, main, alive, late>>

\* MUTANT of QueueStop: the request itself is queued.
QueueRequest(c) ==
    /\ conn[c] = "setting"
    /\ queue' = Append(queue, req[c])
    /\ Turn(c, "answered")
    /\ UNCHANGED <<req, shutdown, server, listener, main, alive, late>>

\* MUTANT of QueueStop: a None for each worker, as if they were to be stopped.
QueueStopEach(c) ==
    /\ conn[c] = "setting"
    /\ queue' = queue \o [i \in 1..Cardinality(Workers) |-> StopItem]
    /\ Turn(c, "answered")
    /\ UNCHANGED <<req, shutdown, server, listener, main, alive, late>>

QueueStop(c) ==
    /\ conn[c] = "setting"
    /\ queue' = Append(queue, StopItem)
    /\ Turn(c, "answered")
    /\ UNCHANGED <<req, shutdown, server, listener, main, alive, late>>

QueueCommand(c) ==
    /\ conn[c] = "reading" /\ req[c] = "command"
    /\ queue' = Append(queue, c)
    /\ Turn(c, "queued")
    /\ UNCHANGED <<req, shutdown, server, listener, main, alive, late>>

-----------------------------------------------------------------------------
(* The main thread. *)

\* The start URLs are opened, or fail to.
StartupDone ==
    /\ main = "startup"
    /\ main' = "check"
    /\ UNCHANGED <<conn, req, queue, shutdown, server, listener, alive, late>>

\* MUTANT of MainCheck: the None item is left to end the loop.
MainCheckContext ==
    /\ main = "check"
    /\ main' = IF alive THEN "get" ELSE "cleanup"
    /\ UNCHANGED <<conn, req, queue, shutdown, server, listener, alive, late>>

\* while not shutdown.is_set() and _context_alive(context)
MainCheck ==
    /\ main = "check"
    /\ main' = IF ~shutdown /\ alive THEN "get" ELSE "cleanup"
    /\ UNCHANGED <<conn, req, queue, shutdown, server, listener, alive, late>>

GetNothing ==
    /\ main = "get" /\ queue = <<>>
    /\ main' = IF alive THEN "check" ELSE "cleanup"
    /\ UNCHANGED <<conn, req, queue, shutdown, server, listener, alive, late>>

GetStop ==
    /\ main = "get" /\ queue # <<>> /\ Head(queue) = StopItem
    /\ queue' = Tail(queue)
    /\ main' = "cleanup"
    /\ UNCHANGED <<conn, req, shutdown, server, listener, alive, late>>

\* MUTANT of GetCommand: the item stays in the queue while the command runs.
PeekCommand ==
    /\ main = "get" /\ queue # <<>> /\ Head(queue) # StopItem
    /\ conn[Head(queue)] = "queued"
    /\ Turn(Head(queue), "executing")
    /\ late' = IF shutdown THEN late \cup {Head(queue)} ELSE late
    /\ main' = "execute"
    /\ UNCHANGED <<req, queue, shutdown, server, listener, alive>>

GetCommand ==
    /\ main = "get" /\ queue # <<>> /\ Head(queue) # StopItem
    /\ queue' = Tail(queue)
    /\ Turn(Head(queue), "executing")
    /\ late' = IF shutdown THEN late \cup {Head(queue)} ELSE late
    /\ main' = "execute"
    /\ UNCHANGED <<req, shutdown, server, listener, alive>>

\* _execute_ipc_command returned or raised; the answer is sent either way.
Reply ==
    /\ main = "execute"
    /\ \E c \in Conns : conn[c] = "executing" /\ Turn(c, "answered")
    /\ main' = "check"
    /\ UNCHANGED <<req, queue, shutdown, server, listener, alive, late>>

Cleanup ==
    /\ main = "cleanup"
    /\ shutdown' = TRUE
    /\ main' = "close_server"
    /\ UNCHANGED <<conn, req, queue, server, listener, alive, late>>

\* What the listener has not accepted is reset.
CloseServer ==
    /\ main = "close_server"
    /\ conn' = [c \in Conns |-> IF conn[c] = "backlog" THEN "refused" ELSE conn[c]]
    /\ server' = FALSE
    /\ main' = "drain"
    /\ UNCHANGED <<req, queue, shutdown, listener, alive, late>>

Drain ==
    /\ main = "drain" /\ queue # <<>>
    /\ queue' = Tail(queue)
    /\ IF Head(queue) = StopItem THEN UNCHANGED conn ELSE Turn(Head(queue), "refused")
    /\ UNCHANGED <<req, shutdown, server, listener, main, alive, late>>

Drained ==
    /\ main = "drain" /\ queue = <<>>
    /\ main' = "close_context"
    /\ UNCHANGED <<conn, req, queue, shutdown, server, listener, alive, late>>

\* The process is over, and with it every thread and every open connection.
Over ==
    /\ main' = "gone"
    /\ conn' = [c \in Conns |-> IF conn[c] \in Unserved THEN "cut" ELSE conn[c]]
    /\ server' = FALSE
    /\ UNCHANGED <<req, queue, shutdown, listener, alive, late>>

\* context.close() returned.
Exit == main = "close_context" /\ Over

-----------------------------------------------------------------------------
(* The environment. *)

\* The user closes the last window, or the browser crashes.
BrowserGone ==
    /\ alive
    /\ alive' = FALSE
    /\ UNCHANGED <<conn, req, queue, shutdown, server, listener, main, late>>

\* SIGTERM or SIGINT: SystemExit in the main thread, which leaves the loop or
\* what it was cleaning up.
Terminate ==
    /\ main \notin {"close_context", "gone"}
    /\ main' = IF main \in Serving THEN "cleanup" ELSE "close_context"
    /\ UNCHANGED <<conn, req, queue, shutdown, server, listener, alive, late>>

Kill == Over

-----------------------------------------------------------------------------

Listen ==
    \/ ListenerCheck \/ Accept \/ AcceptTimeout \/ Admit
    \/ AcceptFails \/ AdmitFails \/ ListenerStops

Work(c) ==
    \/ ReadFails(c) \/ AnswerOther(c) \/ AcknowledgeClose(c)
    \/ SetShutdown(c) \/ QueueStop(c) \/ QueueCommand(c)

Loop == StartupDone \/ MainCheck \/ GetNothing \/ GetStop \/ GetCommand \/ Reply
Finish == Cleanup \/ CloseServer \/ Drain \/ Drained \/ Exit

Next ==
    /\ main # "gone"
    /\ \/ \E c \in Conns : Connect(c) \/ Work(c)
       \/ Listen \/ Loop \/ Finish
       \/ BrowserGone \/ Terminate \/ Kill

Spec == Init /\ [][Next]_vars

\* Every thread goes on.  A read ends after 30 seconds, as do most navigations and
\* browser commands; that of the main thread assumes besides that the Playwright
\* calls without a time-out (content(), title(), cookies(), the accessibility
\* queries, context.close()) return, as they do while the browser answers or is gone.
FairSpec ==
    /\ Spec
    /\ WF_vars(main # "gone" /\ Listen)
    /\ WF_vars(Loop \/ Finish)
    /\ \A c \in Conns : WF_vars(main # "gone" /\ Work(c))

-----------------------------------------------------------------------------
(* What the controller promises. *)

\* The listener looks at workers and queue before it starts one more worker, and
\* a worker of either kind may end up as an item of the queue: together they stay
\* below twice the limit, however many clients come.  The listener itself adds an
\* item when it fails.
WorkBounded ==
    Cardinality(Workers) + Len(queue) <= 2 * Limit - (IF listener = "done" THEN 0 ELSE 1)

\* After the controller was told to shut down at most one more command begins:
\* the one the main thread was about to take when the event was set.
OneLateCommand == Cardinality(late) <= 1

Phase(s) ==
    IF s = "new" THEN "none"
    ELSE IF s \in {"backlog", "accepted", "reading", "queued"} THEN "pending"
    ELSE IF s = "executing" THEN "running"
    ELSE IF s \in {"acked", "setting", "answered"} THEN "served"
    ELSE s

Service == INSTANCE RequestService
    WITH phase <- [c \in Conns |-> Phase(conn[c])], up <- (main # "gone")

\* Commands run one at a time, are answered after they ran, and one that was
\* turned away (at the limit, in the backlog or the queue of a controller that
\* shuts down) never ran, so that sending it again is safe.
ImplementsService == Service!SSpec

\* A close the controller acknowledged ends it, whatever else is queued.
CloseEndsController ==
    (\E c \in Conns : conn[c] = "acked") ~> main = "gone"

\* Every connection is answered or closed: no client is left waiting, in the
\* backlog, in the queue of a main thread that has left its loop, or on a worker.
EveryConnectionEnds ==
    (\E c \in Conns : conn[c] \in Unserved) ~> (\A c \in Conns : conn[c] \notin Unserved)

=============================================================================
