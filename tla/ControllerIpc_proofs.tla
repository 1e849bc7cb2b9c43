------------------------ MODULE ControllerIpc_proofs ------------------------
(***************************************************************************)
(* Proofs about ControllerIpc, for any number of connections and any       *)
(* limit: its type invariant, the bound on its workers and its queue, the  *)
(* one late command, and that it implements RequestService.                *)
(***************************************************************************)
EXTENDS ControllerIpc, FiniteSetTheorems, SequenceTheorems, TLAPS

Item == Conns \cup {StopItem}

-----------------------------------------------------------------------------
(* The queue. *)

\* What the main thread takes is an item, and the rest is the queue shifted.
LEMMA TakeItem ==
    ASSUME NEW S, NEW q \in Seq(S), q # <<>>
    PROVE  /\ Head(q) \in S /\ Head(q) = q[1] /\ 1 \in 1..Len(q)
           /\ Tail(q) \in Seq(S)
           /\ Len(Tail(q)) = Len(q) - 1
           /\ \A i \in 1..Len(Tail(q)) : i + 1 \in 1..Len(q) /\ Tail(q)[i] = q[i + 1]
<1>1. Len(q) \in Nat /\ Len(q) # 0
  BY EmptySeq, LenProperties
<1>2. Head(q) \in S /\ Tail(q) \in Seq(S) /\ Len(Tail(q)) = Len(q) - 1
  BY HeadTailProperties
<1>3. \A i \in 1..Len(Tail(q)) : Tail(q)[i] = q[i + 1]
  BY HeadTailProperties
<1>4. QED
  BY <1>1, <1>2, <1>3

\* What a thread puts is the last item.
LEMMA PutItem ==
    ASSUME NEW S, NEW q \in Seq(S), NEW x \in S
    PROVE  /\ Append(q, x) \in Seq(S)
           /\ Len(Append(q, x)) = Len(q) + 1
           /\ \A i \in 1..Len(q) : Append(q, x)[i] = q[i]
           /\ Append(q, x)[Len(q) + 1] = x
           /\ Len(q) \in Nat
BY AppendProperties, LenProperties

-----------------------------------------------------------------------------
(* Type correctness. *)

\* A fresh controller is well typed.
LEMMA InitType == Init => TypeOK
BY EmptySeq DEF Init, TypeOK, Serving

\* The listener's steps keep the types.
LEMMA TypeListen ==
    ASSUME TypeOK, Listen
    PROVE  TypeOK'
<1>1. CASE ListenerCheck
  BY <1>1 DEF TypeOK, ListenerCheck
<1>2. CASE Accept
  BY <1>2 DEF TypeOK, Accept, Turn, Unserved
<1>3. CASE AcceptTimeout
  BY <1>3 DEF TypeOK, AcceptTimeout
<1>4. CASE Admit
  BY <1>4 DEF TypeOK, Admit, Turn, Unserved
<1>5. CASE AcceptFails \/ AdmitFails
  BY <1>5 DEF TypeOK, AcceptFails, AdmitFails
<1>6. CASE ListenerStops
  <2>1. Append(queue, StopItem) \in Seq(Conns \cup {StopItem})
    BY PutItem DEF TypeOK
  <2>2. QED
    BY <1>6, <2>1 DEF TypeOK, ListenerStops
<1>7. QED
  BY <1>1, <1>2, <1>3, <1>4, <1>5, <1>6 DEF Listen

\* A worker's steps keep the types.
LEMMA TypeWork ==
    ASSUME TypeOK, NEW c \in Conns, Work(c)
    PROVE  TypeOK'
<1>1. CASE ReadFails(c)
  BY <1>1 DEF TypeOK, ReadFails, Turn
<1>2. CASE AnswerOther(c)
  BY <1>2 DEF TypeOK, AnswerOther, Turn
<1>3. CASE AcknowledgeClose(c)
  BY <1>3 DEF TypeOK, AcknowledgeClose, Turn
<1>4. CASE SetShutdown(c)
  BY <1>4 DEF TypeOK, SetShutdown, Turn
<1>5. CASE QueueStop(c)
  <2>1. Append(queue, StopItem) \in Seq(Conns \cup {StopItem})
    BY PutItem DEF TypeOK
  <2>2. QED
    BY <1>5, <2>1 DEF TypeOK, QueueStop, Turn
<1>6. CASE QueueCommand(c)
  <2>1. Append(queue, c) \in Seq(Conns \cup {StopItem})
    BY PutItem DEF TypeOK
  <2>2. QED
    BY <1>6, <2>1 DEF TypeOK, QueueCommand, Turn, Unserved
<1>7. QED
  BY <1>1, <1>2, <1>3, <1>4, <1>5, <1>6 DEF Work

\* The main thread's loop keeps the types.
LEMMA TypeLoop ==
    ASSUME TypeOK, Loop
    PROVE  TypeOK'
<1>1. CASE StartupDone
  BY <1>1 DEF TypeOK, StartupDone, Serving
<1>2. CASE MainCheck
  BY <1>2 DEF TypeOK, MainCheck, Serving
<1>3. CASE GetNothing
  BY <1>3 DEF TypeOK, GetNothing, Serving
<1>4. CASE GetStop
  <2>1. Tail(queue) \in Seq(Conns \cup {StopItem})
    BY <1>4, TakeItem DEF TypeOK, GetStop
  <2>2. QED
    BY <1>4, <2>1 DEF TypeOK, GetStop, Serving
<1>5. CASE GetCommand
  <2>1. Tail(queue) \in Seq(Conns \cup {StopItem}) /\ Head(queue) \in Conns
    BY <1>5, TakeItem DEF TypeOK, GetCommand
  <2>2. QED
    BY <1>5, <2>1 DEF TypeOK, GetCommand, Serving, Turn, Unserved
<1>6. CASE Reply
  BY <1>6 DEF TypeOK, Reply, Serving, Turn
<1>7. QED
  BY <1>1, <1>2, <1>3, <1>4, <1>5, <1>6 DEF Loop

\* The main thread's cleanup keeps the types.
LEMMA TypeFinish ==
    ASSUME TypeOK, Finish
    PROVE  TypeOK'
<1>1. CASE Cleanup
  BY <1>1 DEF TypeOK, Cleanup
<1>2. CASE CloseServer
  BY <1>2 DEF TypeOK, CloseServer, Unserved
<1>3. CASE Drain
  <2>1. Tail(queue) \in Seq(Conns \cup {StopItem}) /\ Head(queue) \in Conns \cup {StopItem}
    BY <1>3, TakeItem DEF TypeOK, Drain
  <2>2. QED
    BY <1>3, <2>1 DEF TypeOK, Drain, Turn
<1>4. CASE Drained
  BY <1>4 DEF TypeOK, Drained
<1>5. CASE Exit
  BY <1>5 DEF TypeOK, Exit, Over, Unserved
<1>6. QED
  BY <1>1, <1>2, <1>3, <1>4, <1>5 DEF Finish

\* Every step keeps the types.
LEMMA TypeStep == TypeOK /\ [Next]_vars => TypeOK'
<1>. SUFFICES ASSUME TypeOK, [Next]_vars PROVE TypeOK'
  OBVIOUS
<1>1. CASE \E c \in Conns : Connect(c)
  BY <1>1 DEF TypeOK, Connect, Turn, Unserved, Requests
<1>2. CASE \E c \in Conns : Work(c)
  BY <1>2, TypeWork
<1>3. CASE Listen
  BY <1>3, TypeListen
<1>4. CASE Loop
  BY <1>4, TypeLoop
<1>5. CASE Finish
  BY <1>5, TypeFinish
<1>6. CASE BrowserGone
  BY <1>6 DEF TypeOK, BrowserGone
<1>7. CASE Terminate
  BY <1>7 DEF TypeOK, Terminate
<1>8. CASE Kill
  BY <1>8 DEF TypeOK, Kill, Over, Unserved
<1>9. CASE UNCHANGED vars
  BY <1>9 DEF TypeOK, vars
<1>10. QED
  BY <1>1, <1>2, <1>3, <1>4, <1>5, <1>6, <1>7, <1>8, <1>9 DEF Next

\* The variables of the controller always have their types.
THEOREM TypeCorrect == Spec => []TypeOK
BY InitType, TypeStep, PTL DEF Spec

-----------------------------------------------------------------------------
(* The bound on workers and queued items. *)

\* The workers can be counted.
LEMMA WorkersFinite == IsFiniteSet(Workers) /\ Cardinality(Workers) \in Nat
<1>1. Workers \in SUBSET Conns
  BY DEF Workers
<1>2. IsFiniteSet(Workers)
  BY <1>1, FS_Subset, IpcAssumption
<1>3. QED
  BY <1>2, FS_CardinalityType

\* A worker that ends, or a connection that gets none, leaves no more workers.
LEMMA NoNewWorker ==
    ASSUME Workers' \subseteq Workers
    PROVE  Cardinality(Workers') \in Nat /\ Cardinality(Workers') <= Cardinality(Workers)
<1>1. IsFiniteSet(Workers') /\ Cardinality(Workers') <= Cardinality(Workers)
  BY WorkersFinite, FS_Subset
<1>2. QED
  BY <1>1, FS_CardinalityType

\* A connection in the backlog has no worker yet.
LEMMA BoundConnect ==
    ASSUME TypeOK, WorkBounded, NEW c \in Conns, Connect(c)
    PROVE  WorkBounded'
<1>1. Workers' = Workers
  BY DEF TypeOK, Connect, Turn, Workers
<1>2. QED
  BY <1>1 DEF Connect, WorkBounded

\* The listener starts a worker only below both limits; its own item is its last.
LEMMA BoundListen ==
    ASSUME TypeOK, WorkBounded, Listen
    PROVE  WorkBounded'
<1>. USE IpcAssumption, WorkersFinite
<1>0. Len(queue) \in Nat
  BY LenProperties DEF TypeOK
<1>1. CASE ListenerCheck \/ AcceptTimeout \/ AcceptFails \/ AdmitFails
  <2>1. UNCHANGED <<conn, queue>> /\ listener # "done"
    BY <1>1 DEF ListenerCheck, AcceptTimeout, AcceptFails, AdmitFails
  <2>2. Workers' = Workers
    BY <2>1 DEF Workers
  <2>3. QED
    BY <1>0, <2>1, <2>2 DEF WorkBounded
<1>2. CASE Accept
  <2>1. Workers' = Workers
    BY <1>2 DEF TypeOK, Accept, Turn, Workers
  <2>2. QED
    BY <1>2, <2>1 DEF Accept, WorkBounded
<1>3. CASE Admit
  <2>1. PICK c \in Conns :
          /\ conn[c] = "accepted"
          /\ Turn(c, IF Cardinality(Workers) < Limit /\ Len(queue) < Limit
                     THEN "reading" ELSE "refused")
    BY <1>3 DEF Admit
  <2>2. UNCHANGED queue /\ listener = "admit" /\ listener' = "check"
    BY <1>3 DEF Admit
  <2>3. CASE Cardinality(Workers) < Limit /\ Len(queue) < Limit
    <3>1. Workers' = Workers \cup {c} /\ c \notin Workers
      BY <2>1, <2>3 DEF TypeOK, Turn, Workers
    <3>2. Cardinality(Workers') = Cardinality(Workers) + 1
      BY <3>1, FS_AddElement
    <3>3. QED
      BY <1>0, <2>2, <2>3, <3>2 DEF WorkBounded
  <2>4. CASE ~(Cardinality(Workers) < Limit /\ Len(queue) < Limit)
    <3>1. Workers' = Workers
      BY <2>1, <2>4 DEF TypeOK, Turn, Workers
    <3>2. QED
      BY <2>2, <3>1 DEF WorkBounded
  <2>5. QED
    BY <2>3, <2>4
<1>4. CASE ListenerStops
  <2>1. Workers' = Workers /\ listener = "failed" /\ listener' = "done"
    BY <1>4 DEF ListenerStops, Workers
  <2>2. Len(queue') = Len(queue) + 1
    BY <1>4, PutItem DEF ListenerStops, TypeOK
  <2>3. QED
    BY <1>0, <2>1, <2>2 DEF WorkBounded
<1>5. QED
  BY <1>1, <1>2, <1>3, <1>4 DEF Listen

\* A worker that queues something ends: the sum stays.
LEMMA BoundWork ==
    ASSUME TypeOK, WorkBounded, NEW c \in Conns, Work(c)
    PROVE  WorkBounded'
<1>. USE IpcAssumption, WorkersFinite
<1>0. Len(queue) \in Nat
  BY LenProperties DEF TypeOK
<1>1. CASE ReadFails(c) \/ AnswerOther(c) \/ AcknowledgeClose(c) \/ SetShutdown(c)
  <2>1. UNCHANGED <<queue, listener>>
    BY <1>1 DEF ReadFails, AnswerOther, AcknowledgeClose, SetShutdown
  <2>2. Workers' \subseteq Workers
    BY <1>1 DEF TypeOK, ReadFails, AnswerOther, AcknowledgeClose, SetShutdown, Turn, Workers
  <2>3. QED
    BY <1>0, <2>1, <2>2, NoNewWorker DEF WorkBounded
<1>2. CASE QueueStop(c) \/ QueueCommand(c)
  <2>1. Workers' = Workers \ {c} /\ c \in Workers /\ UNCHANGED listener
    BY <1>2 DEF TypeOK, QueueStop, QueueCommand, Turn, Workers
  <2>2. Cardinality(Workers') = Cardinality(Workers) - 1
    BY <2>1, FS_RemoveElement
  <2>3. Len(queue') = Len(queue) + 1
    BY <1>2, PutItem DEF QueueStop, QueueCommand, TypeOK
  <2>4. QED
    BY <1>0, <2>1, <2>2, <2>3 DEF WorkBounded
<1>3. QED
  BY <1>1, <1>2 DEF Work

\* The main thread starts no worker and puts nothing in the queue.
LEMMA BoundMain ==
    ASSUME TypeOK, WorkBounded, Loop \/ Finish \/ BrowserGone \/ Terminate \/ Kill
    PROVE  WorkBounded'
<1>. USE IpcAssumption, WorkersFinite
<1>0. Len(queue) \in Nat
  BY LenProperties DEF TypeOK
<1>1. UNCHANGED listener
  BY DEF Loop, Finish, StartupDone, MainCheck, GetNothing, GetStop, GetCommand, Reply, Cleanup,
         CloseServer, Drain, Drained, Exit, Over, BrowserGone, Terminate, Kill
<1>2. UNCHANGED queue \/ (queue # <<>> /\ queue' = Tail(queue))
  BY DEF Loop, Finish, StartupDone, MainCheck, GetNothing, GetStop, GetCommand, Reply, Cleanup,
         CloseServer, Drain, Drained, Exit, Over, BrowserGone, Terminate, Kill
<1>3. Len(queue') \in Nat /\ Len(queue') <= Len(queue)
  BY <1>0, <1>2, TakeItem DEF TypeOK
<1>4. Workers' \subseteq Workers
  BY DEF TypeOK, Loop, Finish, StartupDone, MainCheck, GetNothing, GetStop, GetCommand, Reply,
         Cleanup, CloseServer, Drain, Drained, Exit, Over, BrowserGone, Terminate, Kill,
         Turn, Workers
<1>5. QED
  BY <1>0, <1>1, <1>3, <1>4, NoNewWorker DEF WorkBounded

\* Every step keeps the bound.
LEMMA BoundStep == TypeOK /\ WorkBounded /\ [Next]_vars => WorkBounded'
<1>. SUFFICES ASSUME TypeOK, WorkBounded, [Next]_vars PROVE WorkBounded'
  OBVIOUS
<1>1. CASE UNCHANGED vars
  BY <1>1 DEF vars, WorkBounded, Workers
<1>2. QED
  BY <1>1, BoundConnect, BoundListen, BoundWork, BoundMain DEF Next

\* Workers and queued items together stay below twice the limit.
THEOREM Bounded == Spec => []WorkBounded
<1>1. Init => WorkBounded
  <2>. SUFFICES ASSUME Init PROVE WorkBounded
    OBVIOUS
  <2>1. Workers = {}
    BY DEF Init, Workers
  <2>2. Cardinality(Workers) = 0 /\ Len(queue) = 0
    BY <2>1, FS_EmptySet, EmptySeq DEF Init
  <2>3. QED
    BY <2>2, IpcAssumption DEF Init, WorkBounded
<1>2. QED
  BY <1>1, BoundStep, TypeCorrect, PTL DEF Spec

-----------------------------------------------------------------------------
(* One late command. *)

\* A command that began after shutdown was set is the last one: the main thread
\* looks at the event before it comes back to the queue.
LateIsLast ==
    late = {} \/ /\ \E c \in Conns : late = {c}
                 /\ shutdown
                 /\ main \notin {"startup", "get"}

\* Every step keeps a late command the last one.
LEMMA LateStep == TypeOK /\ LateIsLast /\ [Next]_vars => LateIsLast'
<1>. SUFFICES ASSUME TypeOK, LateIsLast, [Next]_vars PROVE LateIsLast'
  OBVIOUS
<1>1. CASE (\E c \in Conns : Connect(c) \/ Work(c)) \/ Listen
  <2>1. UNCHANGED <<late, main>> /\ (shutdown => shutdown')
    BY <1>1 DEF Connect, Work, Listen, ListenerCheck, Accept, AcceptTimeout, Admit, AcceptFails,
                AdmitFails, ListenerStops, ReadFails, AnswerOther, AcknowledgeClose, SetShutdown,
                QueueStop, QueueCommand
  <2>2. QED
    BY <2>1 DEF LateIsLast
<1>2. CASE GetCommand
  <2>1. late = {} /\ main' = "execute" /\ UNCHANGED shutdown
    BY <1>2 DEF GetCommand, LateIsLast
  <2>2. Head(queue) \in Conns
    BY <1>2, TakeItem DEF TypeOK, GetCommand
  <2>3. late' = IF shutdown THEN {Head(queue)} ELSE {}
    BY <1>2, <2>1 DEF GetCommand
  <2>4. QED
    BY <2>1, <2>2, <2>3 DEF LateIsLast, TypeOK
<1>3. CASE MainCheck
  BY <1>3 DEF MainCheck, LateIsLast
<1>4. CASE StartupDone \/ GetNothing \/ GetStop \/ Reply \/ Finish \/ BrowserGone \/ Terminate \/ Kill
  BY <1>4 DEF LateIsLast, StartupDone, GetNothing, GetStop, Reply, Finish, Cleanup, CloseServer,
              Drain, Drained, Exit, Over, BrowserGone, Terminate, Kill
<1>5. CASE UNCHANGED vars
  BY <1>5 DEF vars, LateIsLast
<1>6. QED
  BY <1>1, <1>2, <1>3, <1>4, <1>5 DEF Next, Loop

\* At most one command begins after the controller was told to shut down.
THEOREM OneLate == Spec => []OneLateCommand
<1>1. Init => LateIsLast
  BY DEF Init, LateIsLast
<1>2. LateIsLast => OneLateCommand
  <2>. SUFFICES ASSUME LateIsLast PROVE Cardinality(late) <= 1
    BY DEF OneLateCommand
  <2>1. CASE late = {}
    <3>1. Cardinality(late) = 0
      BY <2>1, FS_EmptySet
    <3>2. QED
      BY <3>1
  <2>2. CASE \E c \in Conns : late = {c}
    <3>1. Cardinality(late) = 1
      BY <2>2, FS_Singleton
    <3>2. QED
      BY <3>1
  <2>3. QED
    BY <2>1, <2>2 DEF LateIsLast
<1>3. QED
  BY <1>1, <1>2, LateStep, TypeCorrect, PTL DEF Spec

-----------------------------------------------------------------------------
(* The requests in hand: what the queue and the main thread know of them.  The *)
(* queue is abandoned when the process ends.                                   *)

QueuedCommands ==
    main # "gone" =>
      \A i \in 1..Len(queue) : queue[i] # StopItem => conn[queue[i]] = "queued"

QueuedOnce ==
    main # "gone" =>
      \A i, j \in 1..Len(queue) : queue[i] # StopItem /\ queue[i] = queue[j] => i = j

OneExecutes ==
    /\ \A c, d \in Conns : conn[c] = "executing" /\ conn[d] = "executing" => c = d
    /\ \A c \in Conns : conn[c] = "executing" => main \notin {"startup", "check", "get"}

OnlyCommands ==
    \A c \in Conns : conn[c] \in {"queued", "executing"} => req[c] = "command"

InHand == TypeOK /\ QueuedCommands /\ QueuedOnce /\ OneExecutes /\ OnlyCommands

\* A step that leaves queue and main thread alone, and neither queues nor starts
\* anything.
LEMMA HandUntouched ==
    ASSUME InHand, TypeOK',
           UNCHANGED <<queue, main>>,
           \A c \in Conns : req'[c] = req[c] \/ conn'[c] \notin {"queued", "executing"},
           \A c \in Conns :
             \/ conn'[c] = conn[c]
             \/ /\ conn[c] \notin {"queued", "executing"}
                /\ conn'[c] \notin {"queued", "executing"}
    PROVE  InHand'
<1>1. \A c \in Conns : /\ conn[c] = "queued" <=> conn'[c] = "queued"
                       /\ conn[c] = "executing" <=> conn'[c] = "executing"
  OBVIOUS
<1>2. \A i \in 1..Len(queue) : queue[i] \in Conns \cup {StopItem}
  BY ElementOfSeq DEF InHand, TypeOK
<1>3. QueuedCommands' /\ QueuedOnce'
  BY <1>1, <1>2 DEF InHand, QueuedCommands, QueuedOnce
<1>4. OneExecutes' /\ OnlyCommands'
  BY <1>1 DEF InHand, OneExecutes, OnlyCommands
<1>5. QED
  BY <1>3, <1>4 DEF InHand

\* One item more in the queue: the command of a worker, or the one that stops it.
LEMMA HandPut ==
    ASSUME InHand, TypeOK', main # "gone", UNCHANGED <<main, req>>,
           NEW x \in Conns \cup {StopItem}, queue' = Append(queue, x),
           \A c \in Conns :
             \/ conn'[c] = conn[c]
             \/ conn[c] \notin {"queued", "executing"} /\ conn'[c] # "executing",
           \A c \in Conns : conn[c] # "queued" /\ conn'[c] = "queued" => c = x /\ req[c] = "command",
           x # StopItem => conn[x] # "queued" /\ conn'[x] = "queued"
    PROVE  InHand'
<1>1. /\ Len(queue) \in Nat /\ Len(queue') = Len(queue) + 1
      /\ \A i \in 1..Len(queue) : queue'[i] = queue[i]
      /\ queue'[Len(queue) + 1] = x
  BY PutItem DEF InHand, TypeOK
<1>2. \A i \in 1..Len(queue) : queue[i] \in Conns \cup {StopItem}
  BY ElementOfSeq DEF InHand, TypeOK
<1>3. \A i \in 1..Len(queue) : queue[i] # StopItem => conn[queue[i]] = "queued" /\ queue[i] # x
  BY <1>2 DEF InHand, QueuedCommands
<1>4. QueuedCommands'
  BY <1>1, <1>2, <1>3 DEF InHand, QueuedCommands
<1>5. QueuedOnce'
  BY <1>1, <1>3 DEF InHand, QueuedOnce
<1>6. OneExecutes' /\ OnlyCommands'
  BY DEF InHand, OneExecutes, OnlyCommands
<1>7. QED
  BY <1>4, <1>5, <1>6 DEF InHand

\* One item less: its connection, if it has one, is no longer queued.
LEMMA HandTake ==
    ASSUME InHand, TypeOK', main # "gone", UNCHANGED req,
           queue # <<>>, queue' = Tail(queue),
           Head(queue) = StopItem => UNCHANGED conn,
           Head(queue) # StopItem => conn' = [conn EXCEPT ![Head(queue)] = conn'[Head(queue)]],
           OneExecutes',
           Head(queue) # StopItem => conn'[Head(queue)] # "queued"
    PROVE  InHand'
<1>0. queue \in Seq(Conns \cup {StopItem})
  BY DEF InHand, TypeOK
<1>1. /\ Head(queue) = queue[1] /\ 1 \in 1..Len(queue)
      /\ \A i \in 1..Len(queue') : i + 1 \in 1..Len(queue) /\ queue'[i] = queue[i + 1]
  BY <1>0, TakeItem
<1>2. \A i \in 1..Len(queue) : queue[i] \in Conns \cup {StopItem}
  BY <1>0, ElementOfSeq
<1>3. \A i \in 1..Len(queue') : queue'[i] # StopItem => queue'[i] # Head(queue)
  BY <1>1 DEF InHand, QueuedOnce
<1>4. QueuedCommands'
  BY <1>1, <1>2, <1>3 DEF InHand, QueuedCommands, TypeOK
<1>5. QueuedOnce'
  BY <1>1 DEF InHand, QueuedOnce
<1>6. OnlyCommands'
  <2>1. Head(queue) # StopItem => Head(queue) \in Conns /\ conn[Head(queue)] = "queued"
    BY <1>1, <1>2 DEF InHand, QueuedCommands
  <2>2. QED
    BY <2>1 DEF InHand, OnlyCommands, TypeOK
<1>7. QED
  BY <1>4, <1>5, <1>6 DEF InHand

\* The listener's steps keep track of the requests in hand.
LEMMA HandListen ==
    ASSUME InHand, TypeOK', main # "gone", Listen
    PROVE  InHand'
<1>1. CASE ListenerCheck \/ AcceptTimeout \/ AcceptFails \/ AdmitFails
  BY <1>1, HandUntouched DEF ListenerCheck, AcceptTimeout, AcceptFails, AdmitFails
<1>2. CASE Accept
  BY <1>2, HandUntouched DEF Accept, Turn, InHand, TypeOK
<1>3. CASE Admit
  BY <1>3, HandUntouched DEF Admit, Turn, InHand, TypeOK
<1>4. CASE ListenerStops
  <2>1. UNCHANGED <<main, req, conn>> /\ queue' = Append(queue, StopItem)
    BY <1>4 DEF ListenerStops
  <2>2. QED
    BY <2>1, HandPut
<1>5. QED
  BY <1>1, <1>2, <1>3, <1>4 DEF Listen

\* A worker's steps keep track of the requests in hand.
LEMMA HandWork ==
    ASSUME InHand, TypeOK', main # "gone", NEW c \in Conns, Work(c)
    PROVE  InHand'
<1>1. CASE ReadFails(c) \/ AnswerOther(c) \/ AcknowledgeClose(c) \/ SetShutdown(c)
  BY <1>1, HandUntouched
  DEF ReadFails, AnswerOther, AcknowledgeClose, SetShutdown, Turn, InHand, TypeOK
<1>2. CASE QueueStop(c)
  <2>1. /\ UNCHANGED <<main, req>> /\ queue' = Append(queue, StopItem)
        /\ conn[c] = "setting" /\ conn' = [conn EXCEPT ![c] = "answered"]
    BY <1>2 DEF QueueStop, Turn
  <2>2. QED
    BY <2>1, HandPut DEF InHand, TypeOK
<1>3. CASE QueueCommand(c)
  <2>1. /\ UNCHANGED <<main, req>> /\ queue' = Append(queue, c)
        /\ conn[c] = "reading" /\ req[c] = "command" /\ conn' = [conn EXCEPT ![c] = "queued"]
    BY <1>3 DEF QueueCommand, Turn
  <2>2. QED
    BY <2>1, HandPut DEF InHand, TypeOK
<1>4. QED
  BY <1>1, <1>2, <1>3 DEF Work

\* The main thread's loop keeps track of the requests in hand.
LEMMA HandLoop ==
    ASSUME InHand, TypeOK', main # "gone", Loop
    PROVE  InHand'
<1>1. CASE StartupDone \/ MainCheck \/ GetNothing
  BY <1>1 DEF StartupDone, MainCheck, GetNothing, InHand, QueuedCommands, QueuedOnce,
              OneExecutes, OnlyCommands
<1>2. CASE GetStop
  <2>1. OneExecutes'
    BY <1>2 DEF GetStop, InHand, OneExecutes
  <2>2. QED
    BY <1>2, <2>1, HandTake DEF GetStop
<1>3. CASE GetCommand
  <2>1. Head(queue) \in Conns
    BY <1>3, TakeItem DEF InHand, TypeOK, GetCommand
  <2>2. conn' = [conn EXCEPT ![Head(queue)] = "executing"] /\ conn'[Head(queue)] = "executing"
    BY <1>3, <2>1 DEF GetCommand, Turn, InHand, TypeOK
  <2>3. OneExecutes'
    BY <1>3, <2>2 DEF GetCommand, InHand, TypeOK, OneExecutes
  <2>4. QED
    BY <1>3, <2>2, <2>3, HandTake DEF GetCommand
<1>4. CASE Reply
  <2>1. PICK c \in Conns : conn[c] = "executing" /\ conn' = [conn EXCEPT ![c] = "answered"]
    BY <1>4 DEF Reply, Turn
  <2>2. \A d \in Conns : conn'[d] # "executing"
    BY <2>1 DEF InHand, OneExecutes, TypeOK
  <2>3. \A d \in Conns : conn'[d] = conn[d] \/ d = c
    BY <2>1 DEF InHand, TypeOK
  <2>4. \A i \in 1..Len(queue) : queue[i] \in Conns \cup {StopItem}
    BY ElementOfSeq DEF InHand, TypeOK
  <2>5. UNCHANGED <<req, queue>>
    BY <1>4 DEF Reply
  <2>6. QueuedCommands' /\ QueuedOnce'
    BY <1>4, <2>1, <2>3, <2>4, <2>5 DEF Reply, InHand, QueuedCommands, QueuedOnce
  <2>7. OneExecutes' /\ OnlyCommands'
    BY <2>1, <2>2, <2>3, <2>5 DEF InHand, OneExecutes, OnlyCommands, TypeOK
  <2>8. QED
    BY <2>6, <2>7 DEF InHand
<1>5. QED
  BY <1>1, <1>2, <1>3, <1>4 DEF Loop

\* So do the cleanup and the end of the process.
LEMMA HandFinish ==
    ASSUME InHand, TypeOK', main # "gone", Finish \/ Terminate \/ Kill
    PROVE  InHand'
<1>1. CASE Cleanup \/ Drained \/ Terminate
  BY <1>1 DEF Cleanup, Drained, Terminate, InHand, QueuedCommands, QueuedOnce, OneExecutes,
              OnlyCommands, Serving
<1>2. CASE CloseServer
  <2>1. \A c \in Conns : /\ conn[c] = "queued" <=> conn'[c] = "queued"
                         /\ conn[c] = "executing" <=> conn'[c] = "executing"
    BY <1>2 DEF CloseServer
  <2>2. \A i \in 1..Len(queue) : queue[i] \in Conns \cup {StopItem}
    BY ElementOfSeq DEF InHand, TypeOK
  <2>3. QED
    BY <1>2, <2>1, <2>2 DEF CloseServer, InHand, QueuedCommands, QueuedOnce, OneExecutes, OnlyCommands
<1>3. CASE Drain
  <2>1. Head(queue) \in Conns \cup {StopItem}
    BY <1>3, TakeItem DEF InHand, TypeOK, Drain
  <2>2. \/ Head(queue) = StopItem /\ UNCHANGED conn
        \/ /\ Head(queue) \in Conns
           /\ conn' = [conn EXCEPT ![Head(queue)] = "refused"]
           /\ conn'[Head(queue)] = "refused"
    BY <1>3, <2>1 DEF Drain, Turn, InHand, TypeOK
  <2>3. OneExecutes'
    BY <1>3, <2>2 DEF Drain, InHand, TypeOK, OneExecutes
  <2>4. QED
    BY <1>3, <2>2, <2>3, HandTake, IpcAssumption DEF Drain
<1>4. CASE Exit \/ Kill
  <2>1. main' = "gone" /\ UNCHANGED req
    BY <1>4 DEF Exit, Kill, Over
  <2>2. \A c \in Conns : conn'[c] \notin {"queued", "executing"}
    BY <1>4 DEF Exit, Kill, Over, Unserved
  <2>3. QED
    BY <2>1, <2>2 DEF InHand, QueuedCommands, QueuedOnce, OneExecutes, OnlyCommands
<1>5. QED
  BY <1>1, <1>2, <1>3, <1>4 DEF Finish

\* Every step keeps track of the requests in hand.
LEMMA HandStep == InHand /\ [Next]_vars => InHand'
<1>. SUFFICES ASSUME InHand, [Next]_vars PROVE InHand'
  OBVIOUS
<1>1. TypeOK'
  BY TypeStep DEF InHand
<1>2. CASE \E c \in Conns : Connect(c)
  BY <1>1, <1>2, HandUntouched DEF Connect, Turn, InHand, TypeOK
<1>3. CASE BrowserGone
  BY <1>1, <1>3, HandUntouched DEF BrowserGone
<1>4. CASE UNCHANGED vars
  BY <1>1, <1>4, HandUntouched DEF vars
<1>5. QED
  BY <1>1, <1>2, <1>3, <1>4, HandListen, HandWork, HandLoop, HandFinish DEF Next

\* The controller never loses track of the requests in hand.
LEMMA HandAlways == Spec => []InHand
<1>1. Init => InHand
  <2>. SUFFICES ASSUME Init PROVE InHand
    OBVIOUS
  <2>1. Len(queue) = 0
    BY EmptySeq DEF Init
  <2>2. QED
    BY <2>1, InitType DEF Init, InHand, QueuedCommands, QueuedOnce, OneExecutes, OnlyCommands
<1>2. QED
  BY <1>1, HandStep, PTL DEF Spec

-----------------------------------------------------------------------------
(* The controller implements the service. *)

Mapped == [c \in Conns |-> Phase(conn[c])]

\* The phase of every state of a connection.
LEMMA PhaseValues ==
    /\ Phase("new") = "none"
    /\ \A s \in {"backlog", "accepted", "reading", "queued"} : Phase(s) = "pending"
    /\ Phase("executing") = "running"
    /\ \A s \in {"acked", "setting", "answered"} : Phase(s) = "served"
    /\ Phase("refused") = "refused" /\ Phase("cut") = "cut"
BY DEF Phase

\* A connection that changes its state changes its own phase only.
LEMMA MappedTurn ==
    ASSUME TypeOK, NEW c \in Conns, NEW s, Turn(c, s)
    PROVE  Mapped' = [Mapped EXCEPT ![c] = Phase(s)] /\ Mapped[c] = Phase(conn[c])
<1>1. conn' = [conn EXCEPT ![c] = s]
  BY DEF Turn
<1>2. \A d \in Conns : conn'[d] = IF d = c THEN s ELSE conn[d]
  BY <1>1 DEF TypeOK
<1>3. QED
  BY <1>2 DEF Mapped

\* A change of state within one phase changes nothing for the clients.
LEMMA MappedSame ==
    ASSUME TypeOK, NEW c \in Conns, NEW s, Turn(c, s), Phase(s) = Phase(conn[c])
    PROVE  Mapped' = Mapped
BY MappedTurn DEF Mapped

\* A connection made is a request asked.
LEMMA StepAsk ==
    ASSUME TypeOK, NEW c \in Conns, Connect(c), main # "gone"
    PROVE  Service!SNext
<1>1. Mapped[c] = "none" /\ Mapped' = [Mapped EXCEPT ![c] = "pending"]
  BY MappedTurn, PhaseValues DEF Connect
<1>2. Service!Ask(c)
  BY <1>1 DEF Service!Ask, Connect, Requests, Mapped
<1>3. QED
  BY <1>2 DEF Service!SNext, Connect

\* Whoever is turned away was pending.
LEMMA RefusedMany ==
    ASSUME TypeOK, TypeOK', UNCHANGED req, main # "gone", main' # "gone",
           \A c \in Conns :
             \/ conn'[c] = conn[c]
             \/ Phase(conn[c]) = "pending" /\ conn'[c] = "refused"
    PROVE  Service!SNext
<1>1. Mapped' \in [Conns -> Service!Phases]
  <2>1. \A c \in Conns :
          conn'[c] \in {"new", "acked", "setting", "answered", "refused", "cut"} \cup Unserved
    BY DEF TypeOK
  <2>2. \A c \in Conns : Phase(conn'[c]) \in Service!Phases
    BY <2>1, PhaseValues DEF Unserved, Service!Phases
  <2>3. QED
    BY <2>2 DEF Mapped
<1>2. \A c \in Conns :
        \/ Mapped'[c] = Mapped[c]
        \/ Mapped[c] = "pending" /\ Mapped'[c] = "refused"
  BY PhaseValues DEF Mapped
<1>3. Service!TurnAway
  BY <1>1, <1>2 DEF Service!TurnAway, Mapped
<1>4. QED
  BY <1>3 DEF Service!SNext

\* One connection that is turned away.
LEMMA RefusedOne ==
    ASSUME TypeOK, UNCHANGED req, main # "gone", main' # "gone",
           NEW c \in Conns, Phase(conn[c]) = "pending", Turn(c, "refused"), TypeOK'
    PROVE  Service!SNext
<1>1. \A d \in Conns : conn'[d] = conn[d] \/ (Phase(conn[d]) = "pending" /\ conn'[d] = "refused")
  BY DEF Turn, TypeOK
<1>2. QED
  BY <1>1, RefusedMany

\* Whoever is answered was pending, or running if it asked for a command.
LEMMA Answered ==
    ASSUME TypeOK, UNCHANGED req, main # "gone", main' # "gone", NEW c \in Conns,
           Phase(conn[c]) = IF req[c] = "command" THEN "running" ELSE "pending",
           NEW s \in {"acked", "answered"}, Turn(c, s)
    PROVE  Service!SNext
<1>1. Mapped' = [Mapped EXCEPT ![c] = "served"] /\ Mapped[c] = Phase(conn[c])
  BY MappedTurn, PhaseValues
<1>2. Service!Answer(c)
  BY <1>1 DEF Service!Answer, Mapped
<1>3. QED
  BY <1>2 DEF Service!SNext

\* Nothing the listener does but a refusal at the limit can be seen.
LEMMA StepListen ==
    ASSUME InHand, TypeOK', Listen, main # "gone"
    PROVE  Service!SNext \/ UNCHANGED <<Mapped, req, main # "gone">>
<1>1. CASE ListenerCheck \/ AcceptTimeout \/ AcceptFails \/ AdmitFails \/ ListenerStops
  BY <1>1 DEF ListenerCheck, AcceptTimeout, AcceptFails, AdmitFails, ListenerStops, Mapped
<1>2. CASE Accept
  <2>1. Mapped' = Mapped
    BY <1>2, MappedSame, PhaseValues DEF Accept, InHand
  <2>2. QED
    BY <1>2, <2>1 DEF Accept
<1>3. CASE Admit
  <2>1. PICK c \in Conns : conn[c] = "accepted" /\ (Turn(c, "reading") \/ Turn(c, "refused"))
    BY <1>3 DEF Admit
  <2>2. UNCHANGED <<req, main>>
    BY <1>3 DEF Admit
  <2>3. CASE Turn(c, "reading")
    <3>1. Mapped' = Mapped
      BY <2>1, <2>3, MappedSame, PhaseValues DEF InHand
    <3>2. QED
      BY <2>2, <3>1
  <2>4. CASE Turn(c, "refused")
    <3>1. Phase(conn[c]) = "pending"
      BY <2>1, PhaseValues
    <3>2. QED
      BY <2>2, <2>4, <3>1, RefusedOne DEF InHand
  <2>5. QED
    BY <2>1, <2>3, <2>4
<1>4. QED
  BY <1>1, <1>2, <1>3 DEF Listen

\* A worker turns away, answers, or hands on a command unseen.
LEMMA StepWork ==
    ASSUME InHand, TypeOK', NEW c \in Conns, Work(c), main # "gone"
    PROVE  Service!SNext \/ UNCHANGED <<Mapped, req, main # "gone">>
<1>0. UNCHANGED <<req, main>>
  BY DEF Work, ReadFails, AnswerOther, AcknowledgeClose, SetShutdown, QueueStop, QueueCommand
<1>1. CASE ReadFails(c)
  <2>1. Phase(conn[c]) = "pending" /\ Turn(c, "refused")
    BY <1>1, PhaseValues DEF ReadFails
  <2>2. QED
    BY <1>0, <2>1, RefusedOne DEF InHand
<1>2. CASE AnswerOther(c)
  <2>1. Phase(conn[c]) = "pending" /\ req[c] # "command" /\ Turn(c, "answered")
    BY <1>2, PhaseValues DEF AnswerOther
  <2>2. QED
    BY <1>0, <2>1, Answered DEF InHand
<1>3. CASE AcknowledgeClose(c)
  <2>1. Phase(conn[c]) = "pending" /\ req[c] # "command" /\ Turn(c, "acked")
    BY <1>3, PhaseValues DEF AcknowledgeClose
  <2>2. QED
    BY <1>0, <2>1, Answered DEF InHand
<1>4. CASE SetShutdown(c) \/ QueueStop(c) \/ QueueCommand(c)
  <2>1. PICK s : Turn(c, s) /\ Phase(s) = Phase(conn[c])
    BY <1>4, PhaseValues DEF SetShutdown, QueueStop, QueueCommand
  <2>2. Mapped' = Mapped
    BY <2>1, MappedSame DEF InHand
  <2>3. QED
    BY <1>0, <2>2
<1>5. QED
  BY <1>1, <1>2, <1>3, <1>4 DEF Work

\* The main thread starts a queued command when none runs, and answers the one
\* that runs.
LEMMA StepLoop ==
    ASSUME InHand, TypeOK', Loop, main # "gone"
    PROVE  Service!SNext \/ UNCHANGED <<Mapped, req, main # "gone">>
<1>1. CASE StartupDone \/ MainCheck \/ GetNothing \/ GetStop
  BY <1>1 DEF StartupDone, MainCheck, GetNothing, GetStop, Mapped
<1>2. CASE GetCommand
  <2>. DEFINE c == Head(queue)
  <2>1. c \in Conns /\ c = queue[1] /\ 1 \in 1..Len(queue)
    BY <1>2, TakeItem DEF InHand, TypeOK, GetCommand
  <2>2. conn[c] = "queued" /\ req[c] = "command"
    BY <1>2, <2>1 DEF GetCommand, InHand, QueuedCommands, OnlyCommands
  <2>3. Mapped[c] = "pending" /\ Mapped' = [Mapped EXCEPT ![c] = "running"]
    BY <1>2, <2>1, <2>2, MappedTurn, PhaseValues DEF GetCommand, InHand
  <2>4. \A d \in Conns : Mapped[d] # "running"
    <3>1. \A d \in Conns : conn[d] # "executing"
      BY <1>2 DEF GetCommand, InHand, OneExecutes
    <3>2. QED
      BY <3>1 DEF Mapped, Phase, InHand, TypeOK, Unserved
  <2>5. Service!Start(c)
    BY <1>2, <2>2, <2>3, <2>4 DEF Service!Start, GetCommand, Mapped
  <2>6. QED
    BY <1>2, <2>1, <2>5 DEF Service!SNext, GetCommand
<1>3. CASE Reply
  <2>1. PICK c \in Conns : conn[c] = "executing" /\ Turn(c, "answered")
    BY <1>3 DEF Reply
  <2>2. Phase(conn[c]) = "running" /\ req[c] = "command"
    BY <2>1, PhaseValues DEF InHand, OnlyCommands
  <2>3. UNCHANGED req /\ main' # "gone"
    BY <1>3 DEF Reply
  <2>4. QED
    BY <2>1, <2>2, <2>3, Answered DEF InHand
<1>4. QED
  BY <1>1, <1>2, <1>3 DEF Loop

\* The end of the process cuts off whatever is pending or running.
LEMMA StepOver ==
    ASSUME TypeOK, Over, main # "gone"
    PROVE  Service!SNext
<1>1. \A c \in Conns :
        Mapped'[c] = IF Mapped[c] \in {"pending", "running"} THEN "cut" ELSE Mapped[c]
  <2>. SUFFICES ASSUME NEW c \in Conns
       PROVE  Phase(conn'[c]) = IF Phase(conn[c]) \in {"pending", "running"} THEN "cut" ELSE Phase(conn[c])
    BY DEF Mapped
  <2>1. conn'[c] = IF conn[c] \in Unserved THEN "cut" ELSE conn[c]
    BY DEF Over
  <2>2. conn[c] \in {"new", "acked", "setting", "answered", "refused", "cut"} \cup Unserved
    BY DEF TypeOK
  <2>3. QED
    BY <2>1, <2>2 DEF Phase, Unserved
<1>2. Mapped' = [c \in Conns |-> IF Mapped[c] \in {"pending", "running"} THEN "cut" ELSE Mapped[c]]
  BY <1>1 DEF Mapped
<1>3. Service!Stop
  BY <1>2 DEF Service!Stop, Over, Mapped
<1>4. QED
  BY <1>3 DEF Service!SNext

\* Closing the server and draining the queue turn requests away.
LEMMA StepFinish ==
    ASSUME InHand, TypeOK', Finish \/ Terminate \/ Kill, main # "gone"
    PROVE  Service!SNext \/ UNCHANGED <<Mapped, req, main # "gone">>
<1>1. CASE Cleanup \/ Drained \/ Terminate
  BY <1>1 DEF Cleanup, Drained, Terminate, Mapped
<1>2. CASE CloseServer
  <2>1. \A c \in Conns :
          \/ conn'[c] = conn[c]
          \/ Phase(conn[c]) = "pending" /\ conn'[c] = "refused"
    BY <1>2, PhaseValues DEF CloseServer
  <2>2. QED
    BY <1>2, <2>1, RefusedMany DEF CloseServer, InHand
<1>3. CASE Drain
  <2>1. Head(queue) \in Conns \cup {StopItem} /\ Head(queue) = queue[1] /\ 1 \in 1..Len(queue)
    BY <1>3, TakeItem DEF InHand, TypeOK, Drain
  <2>2. CASE Head(queue) = StopItem
    BY <1>3, <2>2 DEF Drain, Mapped
  <2>3. CASE Head(queue) # StopItem
    <3>1. Head(queue) \in Conns /\ conn[Head(queue)] = "queued" /\ Turn(Head(queue), "refused")
      BY <1>3, <2>1, <2>3 DEF Drain, InHand, QueuedCommands
    <3>2. Phase(conn[Head(queue)]) = "pending"
      BY <3>1, PhaseValues
    <3>3. UNCHANGED <<req, main>>
      BY <1>3 DEF Drain
    <3>4. QED
      BY <3>1, <3>2, <3>3, RefusedOne DEF InHand
  <2>4. QED
    BY <2>2, <2>3
<1>4. CASE Exit \/ Kill
  BY <1>4, StepOver DEF Exit, Kill, InHand
<1>5. QED
  BY <1>1, <1>2, <1>3, <1>4 DEF Finish

\* The controller implements the service its clients rely on: commands one at a
\* time, answers after the command ran, no trace of a request turned away.
THEOREM Refinement == Spec => ImplementsService
<1>1. Init => Service!SInit
  BY PhaseValues DEF Init, Service!SInit
<1>2. InHand /\ InHand' /\ [Next]_vars => [Service!SNext]_<<Mapped, req, main # "gone">>
  <2>. SUFFICES ASSUME InHand, InHand', [Next]_vars
       PROVE  Service!SNext \/ UNCHANGED <<Mapped, req, main # "gone">>
    OBVIOUS
  <2>0. TypeOK'
    BY DEF InHand
  <2>1. CASE BrowserGone \/ UNCHANGED vars
    BY <2>1 DEF BrowserGone, vars, Mapped
  <2>2. QED
    BY <2>0, <2>1, StepAsk, StepListen, StepWork, StepLoop, StepFinish DEF Next, InHand
<1>3. QED
  BY <1>1, <1>2, HandAlways, PTL
  DEF Spec, ImplementsService, Service!SSpec, Service!svars, Mapped

=============================================================================
