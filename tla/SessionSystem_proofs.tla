----------------------- MODULE SessionSystem_proofs -----------------------
(***************************************************************************)
(* Theorems about SessionSystem, for any number of tabs, elements, calls   *)
(* and events: its type invariant, which says too that a controller works  *)
(* on one command, and that with a controller the refs of a tab belong to  *)
(* its most recent snapshot.                                               *)
(***************************************************************************)
EXTENDS SessionSystem, FiniteSetTheorems, SequenceTheorems, TLAPS

-----------------------------------------------------------------------------
(* The inductive invariant. *)

\* What an interaction would find on the tab is listed there by its snapshot.
Synced(p) ==
    \A r \in Refs : \/ refs[p][r] = Nothing
                    \/ r <= Len(listed[p]) /\ refs[p][r] = listed[p][r]

\* A session begins with nothing running and no registry.
OffInv == engine = "off" => Executing = {} /\ \A p \in Pages : refs[p] = NoRef

\* With a controller: a snapshot in progress lists what its tab's most recent one lists,
\* the document that replaced its own has no registry, and every other tab is synced.
SnapInv ==
    engine = "playwright" =>
        /\ \A k \in current : call[k].seen = listed[call[k].page]
        /\ \A k \in Calls : call[k].st = "tree" /\ k \notin current => refs[call[k].page] = NoRef
        /\ \A p \in Pages : Synced(p) \/ \E k \in Calls : call[k].st = "tree" /\ call[k].page = p

Inv == SessionTypeOK /\ OffInv /\ SnapInv

-----------------------------------------------------------------------------
(* Sequences, trees and records. *)

LEMMA ConstTypes ==
  /\ MaxTabs \in Nat /\ MaxCalls \in Nat /\ MaxEvents \in Nat
  /\ Cardinality(Nodes) \in Nat /\ Nothing \notin Nodes
  /\ Refs \subseteq Nat /\ NoRef \in [Refs -> Nodes \cup {Nothing}]
  BY SessionAssumption, FS_CardinalityType DEF SessionAssumption, Refs, NoRef

LEMMA TreeFacts ==
  /\ <<>> \in Trees
  /\ \A t \in Trees : t \in Seq(Nodes) /\ Range(t) \subseteq Nodes
<1>1. SeqOf(Nodes, Cardinality(Nodes)) = UNION {[1..m -> Nodes] : m \in 0..Cardinality(Nodes)}
  BY DEF SeqOf
<1>2. <<>> \in Trees
  <2>1. <<>> \in [1..0 -> Nodes]
    OBVIOUS
  <2>2. 0 \in 0..Cardinality(Nodes)
    BY ConstTypes
  <2>3. IsInjective(<<>>)
    BY DEF IsInjective
  <2> QED BY <1>1, <2>1, <2>2, <2>3 DEF Trees
<1>3. ASSUME NEW t \in Trees PROVE t \in Seq(Nodes) /\ Range(t) \subseteq Nodes
  <2>1. PICK m \in 0..Cardinality(Nodes) : t \in [1..m -> Nodes]
    BY <1>1, <1>3 DEF Trees
  <2>2. m \in Nat
    BY <2>1, ConstTypes
  <2>3. t \in Seq(Nodes)
    BY <2>1, <2>2
  <2>4. Range(t) \subseteq Nodes
    BY <2>1 DEF Range
  <2> QED BY <2>3, <2>4
<1> QED BY <1>2, <1>3

LEMMA RemoveAtType ==
  ASSUME NEW S, NEW s \in Seq(S), NEW i \in DOMAIN s
  PROVE  RemoveAt(s, i) \in Seq(S)
<1>1. i \in 1..Len(s) /\ Len(s) \in Nat
  OBVIOUS
<1>2. SubSeq(s, 1, i - 1) \in Seq(S)
  BY <1>1, SubSeqProperties
<1>3. SubSeq(s, i + 1, Len(s)) \in Seq(S)
  BY <1>1, SubSeqProperties
<1> QED BY <1>2, <1>3, ConcatProperties DEF RemoveAt

LEMMA CallTypes ==
  /\ NoCall \in Call
  /\ \A c \in Call, s \in States : [c EXCEPT !.st = s] \in Call
  /\ \A c \in Call : c.cmd \in Commands /\ c.st \in States /\ c.tab \in Nat /\ c.from \in Nat
       /\ c.ref \in Nat /\ c.page \in Nat /\ c.gen \in Nat /\ c.seen \in Seq(Pages \cup Nodes)
<1>1. NoCall \in Call
  <2>1. <<>> \in Seq(Pages \cup Nodes)
    OBVIOUS
  <2> QED BY <2>1 DEF NoCall, Call, States, Commands
<1>2. ASSUME NEW c \in Call, NEW s \in States PROVE [c EXCEPT !.st = s] \in Call
  BY DEF Call
<1>3. \A c \in Call : c.cmd \in Commands /\ c.st \in States /\ c.tab \in Nat /\ c.from \in Nat
       /\ c.ref \in Nat /\ c.page \in Nat /\ c.gen \in Nat /\ c.seen \in Seq(Pages \cup Nodes)
  BY DEF Call
<1> QED BY <1>1, <1>2, <1>3

-----------------------------------------------------------------------------
(* Steps that take no part in a snapshot. *)

\* What the pages and their user may do to the documents in one step.
BrowserStep ==
    \/ UNCHANGED Browser
    \/ \E p \in Pages : Navigates(p) \/ Changes(p)
    \/ \E gone \in SUBSET Pages : Gone(gone)

\* The documents stay documents, and a snapshot in progress at most loses its own.
LEMMA BrowserTypes ==
  ASSUME SessionTypeOK, BrowserStep
  PROVE  /\ tree' \in [Pages -> Trees] /\ listed' \in [Pages -> Trees]
         /\ refs' \in [Pages -> [Refs -> Nodes \cup {Nothing}]]
         /\ current' \subseteq current
<1> USE ConstTypes, TreeFacts DEF SessionTypeOK
<1>1. CASE UNCHANGED Browser
  BY <1>1 DEF Browser
<1>2. ASSUME NEW p \in Pages, Navigates(p) \/ Changes(p)
      PROVE  /\ tree' \in [Pages -> Trees] /\ listed' \in [Pages -> Trees]
             /\ refs' \in [Pages -> [Refs -> Nodes \cup {Nothing}]]
             /\ current' \subseteq current
  BY <1>2 DEF Navigates, Changes
<1>3. ASSUME NEW gone \in SUBSET Pages, Gone(gone)
      PROVE  /\ tree' \in [Pages -> Trees] /\ listed' \in [Pages -> Trees]
             /\ refs' \in [Pages -> [Refs -> Nodes \cup {Nothing}]]
             /\ current' \subseteq current
  BY <1>3 DEF Gone
<1> QED BY <1>1, <1>2, <1>3 DEF BrowserStep

\* A tab keeps its registry and its list, or loses the registry and the snapshots
\* that were reading its document.
LEMMA BrowserRefs ==
  ASSUME SessionTypeOK, BrowserStep, NEW p \in Pages
  PROVE  \/ /\ refs'[p] = refs[p] /\ listed'[p] = listed[p]
            /\ \A k \in Calls : call[k].page = p => (k \in current <=> k \in current')
         \/ /\ refs'[p] = NoRef
            /\ \A k \in Calls : call[k].page = p => k \notin current'
<1> USE DEF SessionTypeOK
<1>1. CASE UNCHANGED Browser
  BY <1>1 DEF Browser
<1>2. ASSUME NEW q \in Pages, Navigates(q)
      PROVE  \/ /\ refs'[p] = refs[p] /\ listed'[p] = listed[p]
                /\ \A k \in Calls : call[k].page = p => (k \in current <=> k \in current')
             \/ /\ refs'[p] = NoRef
                /\ \A k \in Calls : call[k].page = p => k \notin current'
  BY <1>2 DEF Navigates
<1>3. ASSUME NEW q \in Pages, Changes(q)
      PROVE  /\ refs'[p] = refs[p] /\ listed'[p] = listed[p]
             /\ \A k \in Calls : call[k].page = p => (k \in current <=> k \in current')
  BY <1>3 DEF Changes
<1>4. ASSUME NEW gone \in SUBSET Pages, Gone(gone)
      PROVE  \/ /\ refs'[p] = refs[p] /\ listed'[p] = listed[p]
                /\ \A k \in Calls : call[k].page = p => (k \in current <=> k \in current')
             \/ /\ refs'[p] = NoRef
                /\ \A k \in Calls : call[k].page = p => k \notin current'
  BY <1>4 DEF Gone
<1> QED BY <1>1, <1>2, <1>3, <1>4 DEF BrowserStep

\* The session's own variables stay in their types.
SessionVarsType ==
    /\ engine \in {"off", "playwright", "direct"}
    /\ pages \in Seq(Pages) /\ opened \in 0..MaxTabs
    /\ generation \in Nat /\ events \in 0..MaxEvents
    /\ call \in [Calls -> Call] /\ void \subseteq Calls

\* No call begins, makes or ends a snapshot.
SnapshotsRest ==
    \A l \in Calls : Snapping(l) \/ Snapping(l)' => call'[l] = call[l]

\* At most one more call is worked on, where the engine allows it.
WorkStep ==
    \/ Executing' \subseteq Executing
    \/ Executing = {} /\ engine # "off" /\ \E k \in Calls : Executing' \subseteq {k}
    \/ engine = "direct"

\* The session goes on, or one begins where there was none.
EngineStep ==
    \/ engine' = engine
    \/ engine = "off" /\ UNCHANGED Browser /\ Executing' \subseteq Executing

Aside == SessionVarsType' /\ SnapshotsRest /\ WorkStep /\ EngineStep /\ BrowserStep

\* A step aside of the snapshots keeps the invariant.
LEMMA AsideKeeps ==
  ASSUME Inv, Aside
  PROVE  Inv'
<1> USE DEF Inv, Aside, SessionTypeOK
<1>1. /\ tree' \in [Pages -> Trees] /\ listed' \in [Pages -> Trees]
      /\ refs' \in [Pages -> [Refs -> Nodes \cup {Nothing}]]
      /\ current' \subseteq current
  BY BrowserTypes
<1>2. ASSUME NEW l \in Calls PROVE Snapping(l)' = Snapping(l) /\ (Snapping(l) => call'[l] = call[l])
  BY DEF SnapshotsRest, Snapping
<1>3. \A l \in Calls : call'[l].st \in {"tree", "refs"} => call'[l] = call[l]
  BY <1>2 DEF Snapping
<1>4. \A l \in Calls : call[l].st \in {"tree", "refs"} => call'[l] = call[l]
  BY <1>2 DEF Snapping
<1>5. engine' = "playwright" => \A k, l \in Executing' : k = l
  BY DEF WorkStep, EngineStep, OffInv
<1>6. SessionTypeOK'
  <2>1. \A k \in current' : k \in Calls /\ Snapping(k)'
    BY <1>1, <1>2
  <2>2. \A k \in Calls : Snapping(k)' => call'[k].page \in Pages /\ call'[k].seen \in Trees
    BY <1>2
  <2>3. \A k \in Calls : call'[k].st = "refs" => call'[k].ref > 0
    BY <1>3
  <2> QED BY <1>1, <1>5, <2>1, <2>2, <2>3 DEF SessionVarsType
<1>7. OffInv'
  <2> SUFFICES ASSUME engine' = "off" PROVE Executing' = {} /\ \A p \in Pages : refs'[p] = NoRef
    BY DEF OffInv
  <2>1. engine = "off"
    BY DEF EngineStep
  <2>2. Executing' = {}
    BY <2>1 DEF OffInv, WorkStep
  <2>3. \A p \in Pages : refs'[p] = NoRef
    BY <2>1, BrowserRefs DEF OffInv
  <2> QED BY <2>2, <2>3
<1>8. SnapInv'
  <2> SUFFICES ASSUME engine' = "playwright"
               PROVE  /\ \A k \in current' : call'[k].seen = listed'[call'[k].page]
                      /\ \A k \in Calls : call'[k].st = "tree" /\ k \notin current'
                           => refs'[call'[k].page] = NoRef
                      /\ \A p \in Pages : Synced(p)' \/ \E k \in Calls : call'[k].st = "tree" /\ call'[k].page = p
    BY DEF SnapInv
  <2>1. CASE engine = "playwright"
    <3>1. ASSUME NEW k \in current' PROVE call'[k].seen = listed'[call'[k].page]
      <4>1. k \in current /\ k \in Calls /\ Snapping(k) /\ call'[k] = call[k] /\ call[k].page \in Pages
        BY <1>1, <1>2
      <4>2. listed'[call[k].page] = listed[call[k].page]
        BY <4>1, BrowserRefs
      <4> QED BY <4>1, <4>2, <2>1 DEF SnapInv
    <3>2. ASSUME NEW k \in Calls, call'[k].st = "tree", k \notin current'
          PROVE  refs'[call'[k].page] = NoRef
      <4>1. Snapping(k) /\ call'[k] = call[k] /\ call[k].page \in Pages
        BY <1>3, <3>2 DEF Snapping
      <4>2. CASE k \in current
        BY <4>1, <4>2, <3>2, BrowserRefs
      <4>3. CASE k \notin current
        BY <4>1, <4>3, <3>2, <2>1, BrowserRefs DEF SnapInv
      <4> QED BY <4>2, <4>3
    <3>3. ASSUME NEW p \in Pages
          PROVE  Synced(p)' \/ \E k \in Calls : call'[k].st = "tree" /\ call'[k].page = p
      <4>1. CASE \E k \in Calls : call[k].st = "tree" /\ call[k].page = p
        BY <4>1, <1>4
      <4>2. CASE Synced(p)
        <5>1. CASE refs'[p] = refs[p] /\ listed'[p] = listed[p]
          BY <4>2, <5>1 DEF Synced
        <5>2. CASE refs'[p] = NoRef
          BY <5>2 DEF Synced, NoRef
        <5> QED BY <5>1, <5>2, BrowserRefs
      <4> QED BY <4>1, <4>2, <2>1 DEF SnapInv
    <3> QED BY <3>1, <3>2, <3>3
  <2>2. CASE engine = "off"
    <3>1. Executing = {} /\ Executing' = {} /\ \A p \in Pages : refs'[p] = NoRef
      BY <2>2 DEF OffInv, EngineStep, Browser
    <3>2. \A k \in Calls : call'[k].st \notin {"tree", "refs"}
      BY <3>1 DEF Executing
    <3>3. current' = {}
      BY <1>1, <1>4, <3>2 DEF Snapping
    <3>4. \A p \in Pages : Synced(p)'
      BY <3>1 DEF Synced, NoRef
    <3> QED BY <3>2, <3>3, <3>4
  <2> QED BY <2>1, <2>2 DEF EngineStep
<1> QED BY <1>6, <1>7, <1>8

-----------------------------------------------------------------------------
(* Calls that take no snapshot. *)

Working == {"ready", "opening", "tree", "refs", "deleting"}

\* One call takes another value.
LEMMA CallStep ==
  ASSUME SessionTypeOK, NEW k \in Calls, NEW c \in Call, call' = [call EXCEPT ![k] = c],
         ~Snapping(k), c.st \notin {"tree", "refs"}
  PROVE  /\ call' \in [Calls -> Call] /\ SnapshotsRest
         /\ Executing' \subseteq Executing \cup {k}
         /\ (c.st \in Working => call[k].st \in Working) => Executing' \subseteq Executing
<1> USE DEF SessionTypeOK
<1>1. call' \in [Calls -> Call] /\ call'[k] = c /\ \A l \in Calls : l # k => call'[l] = call[l]
  OBVIOUS
<1>2. SnapshotsRest
  BY <1>1 DEF SnapshotsRest, Snapping
<1>3. Executing' \subseteq Executing \cup {k}
  BY <1>1 DEF Executing
<1>4. (c.st \in Working => call[k].st \in Working) => Executing' \subseteq Executing
  BY <1>1 DEF Executing, Working
<1> QED BY <1>1, <1>2, <1>3, <1>4

\* Turn, Done and Fails are such steps.
LEMMA TurnStep ==
  ASSUME SessionTypeOK, NEW k \in Calls, NEW s \in States \ {"tree", "refs"}, Turn(k, s), ~Snapping(k)
  PROVE  /\ call' \in [Calls -> Call] /\ SnapshotsRest
         /\ Executing' \subseteq Executing \cup {k}
         /\ (s \in Working => call[k].st \in Working) => Executing' \subseteq Executing
<1> DEFINE c == [call[k] EXCEPT !.st = s]
<1>1. call[k] \in Call
  BY DEF SessionTypeOK
<1>2. c \in Call
  BY <1>1, CallTypes
<1>3. c.st = s
  BY <1>1 DEF Call
<1>4. call' = [call EXCEPT ![k] = c]
  BY DEF Turn
<1> HIDE DEF c
<1> QED BY <1>2, <1>3, <1>4, CallStep

LEMMA DoneCall ==
  ASSUME SessionTypeOK, NEW k \in Calls, NEW p \in Nat, Done(k, p)
  PROVE  \E c \in Call : call' = [call EXCEPT ![k] = c] /\ c.st = "done"
<1>1. call[k] \in Call /\ call[k].cmd \in Commands
  BY CallTypes DEF SessionTypeOK
<1>2. [NoCall EXCEPT !.cmd = call[k].cmd, !.st = "done"] \in Call
  BY <1>1, CallTypes DEF Call, States
<1>3. [NoCall EXCEPT !.cmd = call[k].cmd, !.st = "done"].st = "done"
  BY DEF NoCall
<1>4. [call[k] EXCEPT !.st = "done", !.page = p] \in Call
  BY <1>1 DEF Call, States
<1>5. [call[k] EXCEPT !.st = "done", !.page = p].st = "done"
  BY <1>1 DEF Call
<1>6. CASE call[k].from = 0
  BY <1>2, <1>3, <1>6 DEF Done
<1>7. CASE call[k].from # 0
  BY <1>4, <1>5, <1>7 DEF Done
<1> QED BY <1>6, <1>7

LEMMA FailsCall ==
  ASSUME SessionTypeOK, NEW k \in Calls, Fails(k)
  PROVE  \E c \in Call : call' = [call EXCEPT ![k] = c] /\ c.st = "failed"
<1>1. call[k] \in Call /\ call[k].cmd \in Commands
  BY CallTypes DEF SessionTypeOK
<1>2. [NoCall EXCEPT !.cmd = call[k].cmd, !.st = "failed"] \in Call
  BY <1>1, CallTypes DEF Call, States
<1>3. [NoCall EXCEPT !.cmd = call[k].cmd, !.st = "failed"].st = "failed"
  BY DEF NoCall
<1> QED BY <1>2, <1>3 DEF Fails

LEMMA EndStep ==
  ASSUME SessionTypeOK, NEW k \in Calls, ~Snapping(k), Fails(k) \/ \E p \in Nat : Done(k, p)
  PROVE  call' \in [Calls -> Call] /\ SnapshotsRest /\ Executing' \subseteq Executing
<1>1. PICK c \in Call : call' = [call EXCEPT ![k] = c] /\ c.st \in {"failed", "done"}
  BY DoneCall, FailsCall
<1>2. c.st \notin {"tree", "refs"} /\ c.st \notin Working
  BY <1>1 DEF Working
<1> QED BY <1>1, <1>2, CallStep

-----------------------------------------------------------------------------
(* The actions, one after the other. *)

\* The index of a command that is not refused is a tab's.
LEMMA PageOfType ==
  ASSUME SessionTypeOK, NEW k \in Calls, InRange(k)
  PROVE  PageOf(k) \in Pages /\ PageOf(k) \in Nat
<1>1. call[k].tab \in Nat /\ pages \in Seq(Pages)
  BY CallTypes DEF SessionTypeOK
<1>2. call[k].tab + 1 \in 1..Len(pages)
  BY <1>1 DEF InRange
<1> QED BY <1>1, <1>2, ConstTypes DEF PageOf, Pages

LEMMA OpensType ==
  ASSUME SessionTypeOK, NEW p \in Pages, Opens(p)
  PROVE  opened' \in 0..MaxTabs /\ <<p>> \in Seq(Pages) /\ Append(pages, p) \in Seq(Pages)
  BY ConstTypes DEF SessionTypeOK, Opens, Pages

LEMMA ClosesType ==
  ASSUME SessionTypeOK, NEW i \in DOMAIN pages, Closes(i)
  PROVE  pages' \in Seq(Pages) /\ BrowserStep
<1>1. pages \in Seq(Pages) /\ pages[i] \in Pages
  BY DEF SessionTypeOK
<1>2. pages' \in Seq(Pages)
  BY <1>1, RemoveAtType DEF Closes
<1>3. {pages[i]} \in SUBSET Pages /\ Gone({pages[i]})
  BY <1>1 DEF Closes
<1> QED BY <1>2, <1>3 DEF BrowserStep

\* A tab that closes uncounted outdates the lists there are.
LEMMA UncountedType ==
  ASSUME SessionTypeOK, NEW i \in DOMAIN pages, ClosesUncounted(i)
  PROVE  pages' \in Seq(Pages) /\ BrowserStep /\ void' \subseteq Calls
<1>1. pages' \in Seq(Pages) /\ BrowserStep
  BY ClosesType DEF ClosesUncounted
<1>2. void' \subseteq Calls
  BY DEF ClosesUncounted, Lists, SessionTypeOK
<1> QED BY <1>1, <1>2

\* Whatever a page does, it does to its own tab, or it opens one.
LEMMA BehavesType ==
  ASSUME SessionTypeOK, NEW p \in Pages, Behaves(p)
  PROVE  /\ pages' \in Seq(Pages) /\ opened' \in 0..MaxTabs
         /\ void' \subseteq Calls /\ BrowserStep
<1>1. CASE (Navigates(p) \/ Changes(p)) /\ UNCHANGED <<pages, opened, void>>
  BY <1>1 DEF BrowserStep, SessionTypeOK
<1>2. CASE \E q \in Pages : Opens(q) /\ pages' = Append(pages, q) /\ UNCHANGED <<Browser, void>>
  BY <1>2, OpensType DEF BrowserStep, SessionTypeOK
<1>3. CASE \E i \in DOMAIN pages : pages[i] = p /\ ClosesUncounted(i) /\ UNCHANGED opened
  BY <1>3, UncountedType DEF SessionTypeOK
<1> QED BY <1>1, <1>2, <1>3 DEF Behaves

LEMMA EventType ==
  ASSUME SessionTypeOK, Event
  PROVE  events' \in 0..MaxEvents
  BY ConstTypes DEF SessionTypeOK, Event

\* Where nothing but calls change, or nothing at all.
LEMMA StillAside ==
  ASSUME SessionTypeOK, UNCHANGED <<engine, pages, opened, generation, Browser, void, events>>,
         call' \in [Calls -> Call], SnapshotsRest, WorkStep
  PROVE  Aside
  BY DEF SessionTypeOK, Aside, SessionVarsType, EngineStep, BrowserStep

\* A call that stays as it is.
LEMMA CallRests ==
  ASSUME SessionTypeOK, UNCHANGED call
  PROVE  call' \in [Calls -> Call] /\ SnapshotsRest /\ Executing' = Executing
  BY DEF SessionTypeOK, SnapshotsRest, Executing

\* Sending is aside of the snapshots.
LEMMA ReachType ==
  ASSUME SessionTypeOK, NEW auto \in BOOLEAN, Reach(auto)
  PROVE  /\ pages' \in Seq(Pages) /\ opened' \in 0..MaxTabs
         /\ engine' \in {"off", "playwright", "direct"}
         /\ engine' = engine \/ engine = "off"
<1>1. CASE UNCHANGED <<engine, pages, opened>>
  BY <1>1 DEF SessionTypeOK
<1>2. CASE Starts("playwright")
  BY <1>2, OpensType DEF Starts, SessionTypeOK
<1> QED BY <1>1, <1>2 DEF Reach

LEMMA SendAside ==
  ASSUME SessionTypeOK, NEW k \in Calls, NEW auto \in BOOLEAN, NEW request \in Call,
         request.st = "sent", Send(k, auto, request)
  PROVE  Aside
<1>1. call[k].st = "new" /\ ~Snapping(k) /\ call[k] \in Call
  BY DEF Send, Snapping, SessionTypeOK
<1>2. UNCHANGED <<generation, Browser, void, events>>
  BY DEF Send
<1>3. CASE Reach(auto) /\ call' = [call EXCEPT ![k] = request]
  <2>1. call' \in [Calls -> Call] /\ SnapshotsRest /\ Executing' \subseteq Executing
    BY <1>1, <1>3, CallStep DEF Working
  <2> QED BY <1>2, <1>3, <2>1, ReachType
          DEF Aside, SessionVarsType, SessionTypeOK, WorkStep, EngineStep, BrowserStep
<1>4. CASE /\ call' = [call EXCEPT ![k].cmd = request.cmd, ![k].st = "failed"]
           /\ UNCHANGED <<engine, pages, opened>>
  <2> DEFINE c == [call[k] EXCEPT !.cmd = request.cmd, !.st = "failed"]
  <2>0. request.cmd \in Commands /\ "failed" \in States
    BY CallTypes DEF States
  <2>1. c \in Call /\ c.st = "failed"
    BY <1>1, <2>0 DEF Call
  <2>2. call' = [call EXCEPT ![k] = c]
    BY <1>4 DEF SessionTypeOK
  <2> HIDE DEF c
  <2>3. call' \in [Calls -> Call] /\ SnapshotsRest /\ Executing' \subseteq Executing
    BY <1>1, <2>1, <2>2, CallStep DEF Working
  <2> QED BY <1>2, <1>4, <2>3, StillAside DEF WorkStep
<1> QED BY <1>3, <1>4 DEF Send

LEMMA RequestType ==
  ASSUME NEW c \in Commands, NEW i \in Nat, NEW j \in Nat, NEW r \in Nat
  PROVE  Request(c, i, j, r) \in Call /\ Request(c, i, j, r).st = "sent"
<1>1. NoCall \in Call
  BY CallTypes
<1>2. "sent" \in States
  BY DEF States
<1> QED BY <1>1, <1>2 DEF Request, Call

LEMMA IndicesType == Indices \subseteq Nat
  BY SessionAssumption DEF SessionAssumption

LEMMA CallsType == Calls \subseteq Nat
  BY ConstTypes DEF Calls

\* Each client's commands are requests.
LEMMA ClientAside ==
  ASSUME SessionTypeOK, NEW k \in Calls, Client(k)
  PROVE  Aside
<1> DEFINE Sends == \E auto \in BOOLEAN, c \in Commands, i \in Nat, j \in Nat, r \in Nat :
                      Send(k, auto, Request(c, i, j, r))
<1>1. ASSUME Sends PROVE Aside
  BY <1>1, RequestType, SendAside
<1>2. ASSUME NEW auto \in BOOLEAN, NEW c \in Commands, SendOnTab(k, auto, c) PROVE Sends
  BY <1>2, IndicesType DEF SendOnTab
<1>3. ASSUME NEW c \in Commands, NEW keys, Ask(k, c, keys) PROVE Sends
  BY <1>3 DEF Ask
<1> HIDE DEF Sends
<1>4. CASE SendTabs(k) \/ SendOpenTab(k)
  <2>1. Sends
    BY <1>4 DEF SendTabs, SendOpenTab, Sends, Commands
  <2> QED BY <2>1, <1>1
<1>5. CASE SendCloseTab(k) \/ SendReadPage(k) \/ SendEval(k) \/ SendCapture(k)
  <2>1. Sends
    BY <1>2, <1>5 DEF SendCloseTab, SendReadPage, SendEval, SendCapture, Commands
  <2> QED BY <2>1, <1>1
<1>6. CASE SendOnTab(k, FALSE, "read_page") \/ SendOnTab(k, FALSE, "eval")
  <2>1. Sends
    BY <1>2, <1>6 DEF Commands
  <2> QED BY <2>1, <1>1
<1>7. CASE SendGuarded(k)
  <2>0. PICK c \in {"close_tab", "read_page", "eval", "capture"}, j \in Lists :
             \E i \in 0..(Len(call[j].seen) - 1) : Send(k, FALSE, Request(c, i, j, 0))
    BY <1>7 DEF SendGuarded
  <2>1. PICK i \in 0..(Len(call[j].seen) - 1) : Send(k, FALSE, Request(c, i, j, 0))
    BY <2>0
  <2>2. c \in Commands /\ j \in Nat
    BY CallsType DEF Commands, Lists
  <2>3. i \in Nat
    <3>1. j \in Calls /\ call[j].seen \in Seq(Pages \cup Nodes)
      BY CallTypes DEF Lists, SessionTypeOK
    <3> QED BY <3>1
  <2>4. Sends
    BY <2>1, <2>2, <2>3 DEF Sends
  <2> QED BY <2>4, <1>1
<1>8. CASE SendSnapshot(k) \/ SendInteract(k)
  <2>1. Sends
    BY <1>8, IndicesType, ConstTypes DEF SendSnapshot, SendInteract, Sends, Commands
  <2> QED BY <2>1, <1>1
<1>9. CASE \E c \in {"read_page", "capture"} : Send(k, TRUE, Request(c, 0, 0, 0))
  <2>1. Sends
    BY <1>9 DEF Sends, Commands
  <2> QED BY <2>1, <1>1
<1>10. CASE SendCookies(k) \/ SendImport(k) \/ SendClear(k) \/ SendDelete(k)
  <2>1. Sends
    BY <1>3, <1>10 DEF SendCookies, SendImport, SendClear, SendDelete, Commands
  <2> QED BY <2>1, <1>1
<1>11. CASE SendMatches(k)
  <2>1. call[k].st = "listed" /\ ~Snapping(k) /\ call[k] \in Call
    BY <1>11 DEF SendMatches, Snapping, SessionTypeOK
  <2> DEFINE c == [call[k] EXCEPT !.st = "sent", !.cmd = "delete_cookies"]
  <2>2. c \in Call /\ c.st = "sent"
    BY <2>1 DEF Call, States, Commands
  <2>3. call' = [call EXCEPT ![k] = c]
    BY <1>11 DEF SendMatches, SessionTypeOK
  <2> HIDE DEF c
  <2>4. call' \in [Calls -> Call] /\ SnapshotsRest /\ Executing' \subseteq Executing
    BY <2>1, <2>2, <2>3, CallStep DEF Working
  <2>5. Reach(TRUE) /\ UNCHANGED <<generation, Browser, void, events>>
    BY <1>11 DEF SendMatches
  <2> QED BY <2>4, <2>5, ReachType
          DEF Aside, SessionVarsType, SessionTypeOK, WorkStep, EngineStep, BrowserStep
<1>12. Cli(k) => Aside
  BY <1>4, <1>5, <1>7, <1>10, <1>11 DEF Cli, TabClient, PageClient, CookieClient
<1>13. McpTool(k) => Aside
  BY <1>4, <1>5, <1>6, <1>8, <1>10 DEF McpTool
<1>14. TuiTabs(k) \/ TuiCookies(k) => Aside
  BY <1>4, <1>9, <1>10, <1>11 DEF TuiTabs, TuiCookies
<1> QED BY <1>12, <1>13, <1>14 DEF Client

\* Taking a command up.
LEMMA TakeUpAside ==
  ASSUME SessionTypeOK, NEW k \in Calls, (engine = "playwright" /\ Dequeue(k)) \/ Connect(k)
  PROVE  Aside
<1>1. call[k].st = "sent" /\ ~Snapping(k) /\ Turn(k, "ready")
  BY DEF Dequeue, Connect, Snapping
<1>2. call' \in [Calls -> Call] /\ SnapshotsRest /\ Executing' \subseteq Executing \cup {k}
  BY <1>1, TurnStep DEF States
<1>3. CASE engine = "playwright" /\ Dequeue(k)
  <2>1. WorkStep
    BY <1>2, <1>3 DEF Dequeue, WorkStep
  <2> QED BY <1>2, <1>3, <2>1, StillAside DEF Dequeue
<1>4. CASE Connect(k)
  <2>1. pages' \in Seq(Pages) /\ opened' \in 0..MaxTabs
    BY <1>4, OpensType DEF Connect, SessionTypeOK
  <2>2. UNCHANGED <<engine, generation, Browser, void, events>> /\ WorkStep
    BY <1>4 DEF Connect, WorkStep
  <2> QED BY <1>2, <2>1, <2>2
          DEF Aside, SessionVarsType, SessionTypeOK, EngineStep, BrowserStep
<1> QED BY <1>3, <1>4

\* Commands on tabs.
LEMMA TabCommandAside ==
  ASSUME SessionTypeOK, NEW k \in Calls, TabCommand(k)
  PROVE  Aside
<1>0. call[k] \in Call /\ call[k].st \in States
  BY CallTypes DEF SessionTypeOK
<1>1. CASE Refuse(k)
  <2>1. ~Snapping(k) /\ Fails(k)
    BY <1>1 DEF Refuse, Snapping
  <2>2. call' \in [Calls -> Call] /\ SnapshotsRest /\ WorkStep
    BY <2>1, EndStep DEF WorkStep
  <2> QED BY <1>1, <2>2, StillAside DEF Refuse
<1>2. CASE Tabs(k)
  <2> DEFINE c == [call[k] EXCEPT !.st = "done", !.seen = pages, !.gen = generation]
  <2>1. ~Snapping(k)
    BY <1>2 DEF Tabs, Ready, Snapping
  <2>2. pages \in Seq(Pages \cup Nodes) /\ generation \in Nat /\ "done" \in States
    BY DEF SessionTypeOK, States
  <2>3. c \in Call /\ c.st = "done"
    BY <1>0, <2>2 DEF Call
  <2>4. call' = [call EXCEPT ![k] = c]
    BY <1>2 DEF Tabs, SessionTypeOK
  <2> HIDE DEF c
  <2>5. call' \in [Calls -> Call] /\ SnapshotsRest /\ WorkStep
    BY <2>1, <2>3, <2>4, CallStep DEF Working, WorkStep
  <2> QED BY <1>2, <2>5, StillAside DEF Tabs
<1>3. CASE OpenTab(k)
  <2>1. PICK p \in Pages : /\ Opens(p) /\ pages' = Append(pages, p)
                           /\ call' = [call EXCEPT ![k].st = "opening", ![k].page = p]
    BY <1>3 DEF OpenTab
  <2> DEFINE c == [call[k] EXCEPT !.st = "opening", !.page = p]
  <2>2. ~Snapping(k) /\ call[k].st \in Working
    BY <1>3 DEF OpenTab, Ready, Snapping, Working
  <2>3. p \in Nat /\ "opening" \in States
    BY ConstTypes DEF Pages, States
  <2>4. c \in Call /\ c.st = "opening"
    BY <1>0, <2>3 DEF Call
  <2>5. call' = [call EXCEPT ![k] = c]
    BY <2>1 DEF SessionTypeOK
  <2> HIDE DEF c
  <2>6. call' \in [Calls -> Call] /\ SnapshotsRest /\ WorkStep
    BY <2>2, <2>4, <2>5, CallStep DEF WorkStep
  <2>7. opened' \in 0..MaxTabs /\ pages' \in Seq(Pages)
    BY <2>1, OpensType
  <2>8. UNCHANGED <<engine, generation, Browser, void, events>>
    BY <1>3 DEF OpenTab
  <2> QED BY <2>6, <2>7, <2>8 DEF Aside, SessionVarsType, SessionTypeOK, EngineStep, BrowserStep
<1>4. CASE TabOpened(k)
  <2>1. ~Snapping(k) /\ call[k].page \in Pages /\ call[k].page \in Nat
    <3>1. Range(pages) \subseteq Pages
      BY DEF SessionTypeOK, Range
    <3> QED BY <1>4, <3>1, CallTypes, <1>0 DEF TabOpened, Snapping
  <2>2. call' \in [Calls -> Call] /\ SnapshotsRest /\ WorkStep
    BY <1>4, <2>1, EndStep DEF TabOpened, WorkStep
  <2>3. BrowserStep
    BY <1>4, <2>1 DEF TabOpened, BrowserStep
  <2>4. generation' \in Nat /\ UNCHANGED <<engine, pages, opened, void, events>>
    BY <1>4 DEF TabOpened, Bump, SessionTypeOK
  <2> QED BY <2>2, <2>3, <2>4 DEF Aside, SessionVarsType, SessionTypeOK, EngineStep
<1>5. CASE OpenTabFails(k)
  <2>1. ~Snapping(k) /\ Fails(k)
    BY <1>5 DEF OpenTabFails, Snapping
  <2>2. call' \in [Calls -> Call] /\ SnapshotsRest /\ WorkStep
    BY <2>1, EndStep DEF WorkStep
  <2>3. BrowserStep /\ pages' \in Seq(Pages)
    BY <1>5, ClosesType DEF OpenTabFails, BrowserStep, SessionTypeOK
  <2>4. UNCHANGED <<engine, opened, generation, void, events>>
    BY <1>5 DEF OpenTabFails
  <2> QED BY <2>2, <2>3, <2>4 DEF Aside, SessionVarsType, SessionTypeOK, EngineStep
<1>6. CASE CloseTab(k)
  <2>1. ~Snapping(k) /\ InRange(k)
    BY <1>6 DEF CloseTab, Ready, Snapping
  <2>2. call' \in [Calls -> Call] /\ SnapshotsRest /\ WorkStep
    BY <1>6, <2>1, PageOfType, EndStep DEF CloseTab, WorkStep
  <2>3. call[k].tab + 1 \in DOMAIN pages
    BY <2>1, <1>0, CallTypes DEF InRange, SessionTypeOK
  <2>4. BrowserStep /\ pages' \in Seq(Pages)
    BY <1>6, <2>3, ClosesType DEF CloseTab
  <2>5. generation' \in Nat /\ UNCHANGED <<engine, opened, void, events>>
    BY <1>6 DEF CloseTab, Bump, SessionTypeOK
  <2> QED BY <2>2, <2>4, <2>5 DEF Aside, SessionVarsType, SessionTypeOK, EngineStep
<1>7. CASE CloseTabFails(k)
  <2>1. ~Snapping(k) /\ InRange(k) /\ Fails(k)
    BY <1>7 DEF CloseTabFails, Ready, Snapping
  <2>2. call' \in [Calls -> Call] /\ SnapshotsRest /\ WorkStep
    BY <2>1, EndStep DEF WorkStep
  <2>3. call[k].tab + 1 \in DOMAIN pages
    BY <2>1, <1>0, CallTypes DEF InRange, SessionTypeOK
  <2>4. BrowserStep /\ pages' \in Seq(Pages) /\ void' \subseteq Calls
    BY <1>7, <2>3, UncountedType DEF CloseTabFails
  <2>5. UNCHANGED <<engine, opened, generation, events>>
    BY <1>7 DEF CloseTabFails
  <2> QED BY <2>2, <2>4, <2>5 DEF Aside, SessionVarsType, SessionTypeOK, EngineStep
<1> QED BY <1>1, <1>2, <1>3, <1>4, <1>5, <1>6, <1>7 DEF TabCommand

\* Reading, evaluating, capturing and interacting.
LEMMA ReadAside ==
  ASSUME SessionTypeOK, NEW k \in Calls, ReadPage(k) \/ Capture(k) \/ Eval(k) \/ Interact(k)
  PROVE  Aside
<1>1. ~Snapping(k) /\ InRange(k) /\ (Done(k, PageOf(k)) \/ Fails(k))
  BY DEF ReadPage, Capture, Eval, Interact, Ready, Snapping
<1>2. call' \in [Calls -> Call] /\ SnapshotsRest /\ WorkStep
  BY <1>1, PageOfType, EndStep DEF WorkStep
<1>3. CASE ReadPage(k) \/ Capture(k)
  <2>1. Quiet /\ (Navigates(PageOf(k)) \/ UNCHANGED Browser)
    BY <1>3 DEF ReadPage, Capture
  <2>2. BrowserStep
    BY <1>1, <2>1, PageOfType DEF BrowserStep
  <2> QED BY <1>2, <2>1, <2>2 DEF Quiet, Aside, SessionVarsType, SessionTypeOK, EngineStep
<1>4. CASE Eval(k) \/ Interact(k)
  <2>1. Behaves(PageOf(k)) /\ UNCHANGED <<engine, generation, events>>
    BY <1>4 DEF Eval, Interact
  <2>2. /\ pages' \in Seq(Pages) /\ opened' \in 0..MaxTabs
        /\ void' \subseteq Calls /\ BrowserStep
    BY <1>1, <2>1, PageOfType, BehavesType
  <2> QED BY <1>2, <2>1, <2>2 DEF Aside, SessionVarsType, SessionTypeOK, EngineStep
<1> QED BY <1>3, <1>4

\* Commands on cookies.
LEMMA CookieCommandAside ==
  ASSUME SessionTypeOK, NEW k \in Calls, CookieCommand(k)
  PROVE  Aside
<1>1. call[k].st \in {"ready", "deleting"} /\ ~Snapping(k) /\ Still
  BY DEF CookieCommand, Cookies, ListMatches, SetCookies, CheckDoomed, DeleteCookie, Ready, Snapping
<1>2. \/ Fails(k) \/ Done(k, 0) \/ UNCHANGED call
      \/ \E s \in {"listed", "deleting"} : Turn(k, s)
  BY DEF CookieCommand, Cookies, ListMatches, SetCookies, CheckDoomed, DeleteCookie
<1>3. call' \in [Calls -> Call] /\ SnapshotsRest /\ Executing' \subseteq Executing
  <2>1. CASE Fails(k) \/ Done(k, 0)
    BY <1>1, <2>1, EndStep
  <2>2. CASE UNCHANGED call
    BY <2>2, CallRests
  <2>3. ASSUME NEW s \in {"listed", "deleting"}, Turn(k, s)
        PROVE  call' \in [Calls -> Call] /\ SnapshotsRest /\ Executing' \subseteq Executing
    BY <1>1, <2>3, TurnStep DEF States, Working
  <2> QED BY <1>2, <2>1, <2>2, <2>3
<1> QED BY <1>1, <1>3, StillAside DEF Still, WorkStep

\* The user and the pages, while the session goes on or begins.
LEMMA UserAside ==
  ASSUME SessionTypeOK, Launch \/ UserOpens \/ UserCloses \/ PageActs \/ PageSetsCookie
  PROVE  Aside
<1>1. UNCHANGED call
  BY DEF Launch, UserOpens, UserCloses, PageActs, PageSetsCookie
<1>2. call' \in [Calls -> Call] /\ SnapshotsRest /\ Executing' \subseteq Executing
  BY <1>1, CallRests
<1>3. CASE Launch
  <2>1. PICK e \in {"playwright", "direct"} : Starts(e)
    BY <1>3 DEF Launch
  <2>2. pages' \in Seq(Pages) /\ opened' \in 0..MaxTabs /\ engine = "off" /\ engine' = e
    BY <2>1, OpensType DEF Starts
  <2>3. UNCHANGED <<generation, Browser, call, void, events>>
    BY <1>3 DEF Launch
  <2> QED BY <1>2, <2>2, <2>3
          DEF Aside, SessionVarsType, SessionTypeOK, WorkStep, EngineStep, BrowserStep
<1>4. CASE UserOpens
  <2>1. pages' \in Seq(Pages) /\ opened' \in 0..MaxTabs
    BY <1>4, OpensType DEF UserOpens
  <2>2. events' \in 0..MaxEvents /\ UNCHANGED <<engine, generation, Browser, void>>
    BY <1>4, EventType DEF UserOpens
  <2> QED BY <1>2, <2>1, <2>2
          DEF Aside, SessionVarsType, SessionTypeOK, WorkStep, EngineStep, BrowserStep
<1>5. CASE UserCloses
  <2>1. pages' \in Seq(Pages) /\ BrowserStep /\ void' \subseteq Calls
    BY <1>5, UncountedType DEF UserCloses
  <2>2. events' \in 0..MaxEvents /\ UNCHANGED <<engine, opened, generation>>
    BY <1>5, EventType DEF UserCloses
  <2> QED BY <1>2, <2>1, <2>2 DEF Aside, SessionVarsType, SessionTypeOK, WorkStep, EngineStep
<1>6. CASE PageActs
  <2>1. PICK p \in Range(pages) : Behaves(p)
    BY <1>6 DEF PageActs
  <2>2. p \in Pages
    BY DEF SessionTypeOK, Range
  <2>3. /\ pages' \in Seq(Pages) /\ opened' \in 0..MaxTabs
        /\ void' \subseteq Calls /\ BrowserStep
    BY <2>1, <2>2, BehavesType
  <2>4. events' \in 0..MaxEvents /\ UNCHANGED <<engine, generation>>
    BY <1>6, EventType DEF PageActs
  <2> QED BY <1>2, <2>3, <2>4 DEF Aside, SessionVarsType, SessionTypeOK, WorkStep, EngineStep
<1>7. CASE PageSetsCookie
  <2>1. events' \in 0..MaxEvents /\ UNCHANGED <<engine, pages, opened, generation, Browser, void>>
    BY <1>7, EventType DEF PageSetsCookie
  <2> QED BY <1>2, <2>1 DEF Aside, SessionVarsType, SessionTypeOK, WorkStep, EngineStep, BrowserStep
<1> QED BY <1>3, <1>4, <1>5, <1>6, <1>7

-----------------------------------------------------------------------------
(* The end of a session, and the steps of a snapshot. *)

LEMMA EndSessionKeeps ==
  ASSUME Inv, EndSession
  PROVE  Inv'
<1> USE DEF Inv, SessionTypeOK
<1>1. \A k \in Calls : call'[k] \in Call /\ call'[k].st \notin Working
  <2> SUFFICES ASSUME NEW k \in Calls PROVE call'[k] \in Call /\ call'[k].st \notin Working
    OBVIOUS
  <2>1. call[k] \in Call /\ call[k].cmd \in Commands
    BY CallTypes
  <2>2. CASE k \in Executing \/ call[k].st = "sent"
    <3> DEFINE c == [NoCall EXCEPT !.cmd = call[k].cmd, !.st = "failed"]
    <3>1. NoCall \in Call /\ "failed" \in States
      BY CallTypes DEF States
    <3>2. c \in Call /\ c.st = "failed"
      BY <2>1, <3>1 DEF Call
    <3>3. call'[k] = c
      BY <2>2 DEF EndSession
    <3> QED BY <3>2, <3>3 DEF Working
  <2>3. CASE ~(k \in Executing \/ call[k].st = "sent")
    <3>1. call'[k] = call[k]
      BY <2>3 DEF EndSession
    <3> QED BY <2>1, <2>3, <3>1 DEF Executing, Working
  <2> QED BY <2>2, <2>3
<1>2. call' \in [Calls -> Call]
  <2>1. DOMAIN call' = Calls /\ call' = [k \in Calls |-> call'[k]]
    BY DEF EndSession
  <2> QED BY <1>1, <2>1
<1>3. Executing' = {} /\ \A k \in Calls : ~Snapping(k)'
  BY <1>1 DEF Executing, Working, Snapping
<1>4. BrowserStep /\ current' = {} /\ \A p \in Pages : refs'[p] = NoRef
  BY DEF EndSession, BrowserStep, Gone
<1>5. /\ tree' \in [Pages -> Trees] /\ listed' \in [Pages -> Trees]
      /\ refs' \in [Pages -> [Refs -> Nodes \cup {Nothing}]]
  BY <1>4, BrowserTypes
<1>6. /\ engine' = "off" /\ pages' \in Seq(Pages) /\ opened' \in 0..MaxTabs
      /\ generation' \in Nat
  <2>1. engine' = "off" /\ pages' = <<>> /\ generation' = 0 /\ UNCHANGED opened
    BY DEF EndSession
  <2>2. <<>> \in Seq(Pages)
    OBVIOUS
  <2> QED BY <2>1, <2>2
<1>7. events' \in 0..MaxEvents /\ void' \subseteq Calls
  BY EventType DEF EndSession, Lists
<1>8. SessionTypeOK'
  BY <1>2, <1>3, <1>4, <1>5, <1>6, <1>7 DEF Snapping
<1> QED BY <1>3, <1>4, <1>6, <1>8 DEF OffInv, SnapInv

\* What a step of a snapshot leaves alone.
LEMMA QuietTypes ==
  ASSUME SessionTypeOK, Quiet
  PROVE  /\ pages' \in Seq(Pages) /\ opened' \in 0..MaxTabs /\ generation' \in Nat
         /\ events' \in 0..MaxEvents /\ void' \subseteq Calls
         /\ engine' = engine /\ engine' \in {"off", "playwright", "direct"}
  BY DEF SessionTypeOK, Quiet

LEMMA ReadTreeKeeps ==
  ASSUME Inv, NEW k \in Calls, ReadTree(k)
  PROVE  Inv'
<1> USE DEF Inv, SessionTypeOK
<1> DEFINE p == PageOf(k)
           c == [call[k] EXCEPT !.st = "tree", !.page = p, !.seen = tree[p]]
<1>1. call[k].st = "ready" /\ InRange(k) /\ call[k] \in Call /\ Quiet
  BY DEF ReadTree, Ready
<1>2. p \in Pages /\ p \in Nat
  BY <1>1, PageOfType
<1>3. tree[p] \in Trees /\ tree[p] \in Seq(Pages \cup Nodes) /\ "tree" \in States
  <2>1. tree[p] \in Trees /\ tree[p] \in Seq(Nodes)
    BY <1>2, TreeFacts
  <2>2. Seq(Nodes) \subseteq Seq(Pages \cup Nodes)
    OBVIOUS
  <2> QED BY <2>1, <2>2 DEF States
<1>4. c \in Call /\ c.st = "tree" /\ c.page = p /\ c.seen = tree[p]
  <2> HIDE DEF p
  <2> QED BY <1>1, <1>2, <1>3 DEF Call
<1>5. call' = [call EXCEPT ![k] = c]
  BY DEF ReadTree
<1>6. /\ listed' = [listed EXCEPT ![p] = tree[p]] /\ current' = current \cup {k}
      /\ UNCHANGED <<tree, refs>>
  BY DEF ReadTree
<1> HIDE DEF c, p
<1>7. call' \in [Calls -> Call] /\ call'[k] = c /\ \A l \in Calls : l # k => call'[l] = call[l]
  BY <1>4, <1>5
<1>8. k \in Executing /\ Executing' = Executing
  BY <1>1, <1>4, <1>7 DEF Executing
<1>9. SessionTypeOK'
  <2>1. \A l \in current' : l \in Calls /\ Snapping(l)'
    BY <1>4, <1>6, <1>7 DEF Snapping
  <2>2. \A l \in Calls : Snapping(l)' => call'[l].page \in Pages /\ call'[l].seen \in Trees
    BY <1>2, <1>3, <1>4, <1>7 DEF Snapping
  <2>3. \A l \in Calls : call'[l].st = "refs" => call'[l].ref > 0
    BY <1>4, <1>7
  <2>4. listed' \in [Pages -> Trees]
    BY <1>2, <1>3, <1>6
  <2> QED BY <1>1, <1>6, <1>7, <1>8, <2>1, <2>2, <2>3, <2>4, QuietTypes
<1>10. OffInv'
  BY <1>1, <1>8, QuietTypes DEF OffInv
<1>11. SnapInv'
  <2> SUFFICES ASSUME engine' = "playwright"
               PROVE  /\ \A l \in current' : call'[l].seen = listed'[call'[l].page]
                      /\ \A l \in Calls : call'[l].st = "tree" /\ l \notin current'
                           => refs'[call'[l].page] = NoRef
                      /\ \A q \in Pages : Synced(q)' \/ \E l \in Calls : call'[l].st = "tree" /\ call'[l].page = q
    BY DEF SnapInv
  <2>1. engine = "playwright" /\ \A l \in Calls : call[l].st \in {"tree", "refs"} => l = k
    BY <1>1, <1>8, QuietTypes DEF Executing
  <2>2. \A l \in Calls : call[l].st \notin {"tree", "refs"}
    BY <1>1, <2>1
  <2>3. current' = {k}
    BY <1>6, <2>2 DEF Snapping
  <2>4. \A l \in Calls : call'[l].st = "tree" => l = k
    BY <1>7, <2>2
  <2>5. call'[k].seen = listed'[call'[k].page]
    BY <1>2, <1>4, <1>6, <1>7
  <2>6. ASSUME NEW q \in Pages
        PROVE Synced(q)' \/ \E l \in Calls : call'[l].st = "tree" /\ call'[l].page = q
    <3>1. CASE q = p
      BY <3>1, <1>4, <1>7
    <3>2. CASE q # p
      <4>1. Synced(q)
        BY <2>1, <2>2 DEF SnapInv
      <4>2. listed'[q] = listed[q] /\ refs'[q] = refs[q]
        BY <3>2, <1>6
      <4> QED BY <4>1, <4>2 DEF Synced
    <3> QED BY <3>1, <3>2
  <2> QED BY <2>3, <2>4, <2>5, <2>6
<1> QED BY <1>9, <1>10, <1>11

LEMMA NewRegistryKeeps ==
  ASSUME Inv, NEW k \in Calls, NewRegistry(k)
  PROVE  Inv'
<1> USE DEF Inv, SessionTypeOK
<1> DEFINE p == call[k].page
           c == [call[k] EXCEPT !.st = "refs", !.ref = 1]
<1>1. call[k].st = "tree" /\ call[k] \in Call /\ Quiet /\ p \in Pages
  BY DEF NewRegistry, Snapping
<1>2. c \in Call /\ c.st = "refs" /\ c.ref = 1 /\ c.page = p /\ c.seen = call[k].seen
  <2>1. "refs" \in States
    BY DEF States
  <2> QED BY <1>1, <2>1 DEF Call
<1>3. call' = [call EXCEPT ![k] = c]
  BY DEF NewRegistry
<1>4. refs' = [refs EXCEPT ![p] = NoRef] /\ UNCHANGED <<tree, current, listed>>
  BY DEF NewRegistry
<1> HIDE DEF c
<1>5. call' \in [Calls -> Call] /\ call'[k] = c /\ \A l \in Calls : l # k => call'[l] = call[l]
  BY <1>2, <1>3
<1>6. k \in Executing /\ Executing' = Executing
  BY <1>1, <1>2, <1>5 DEF Executing
<1>7. SessionTypeOK'
  <2>1. \A l \in current' : l \in Calls /\ Snapping(l)'
    BY <1>2, <1>4, <1>5 DEF Snapping
  <2>2. \A l \in Calls : Snapping(l)' => call'[l].page \in Pages /\ call'[l].seen \in Trees
    BY <1>1, <1>2, <1>5 DEF Snapping
  <2>3. \A l \in Calls : call'[l].st = "refs" => call'[l].ref > 0
    BY <1>2, <1>5
  <2>4. refs' \in [Pages -> [Refs -> Nodes \cup {Nothing}]]
    BY <1>4, ConstTypes
  <2> QED BY <1>1, <1>4, <1>5, <1>6, <2>1, <2>2, <2>3, <2>4, QuietTypes
<1>8. OffInv'
  BY <1>1, <1>6, QuietTypes DEF OffInv
<1>9. SnapInv'
  <2> SUFFICES ASSUME engine' = "playwright"
               PROVE  /\ \A l \in current' : call'[l].seen = listed'[call'[l].page]
                      /\ \A l \in Calls : call'[l].st = "tree" /\ l \notin current'
                           => refs'[call'[l].page] = NoRef
                      /\ \A q \in Pages : Synced(q)' \/ \E l \in Calls : call'[l].st = "tree" /\ call'[l].page = q
    BY DEF SnapInv
  <2>1. engine = "playwright" /\ \A l \in Calls : call[l].st \in {"tree", "refs"} => l = k
    BY <1>1, <1>6, QuietTypes DEF Executing
  <2>2. \A l \in current' : l = k /\ call[l].seen = listed[call[l].page]
    BY <1>4, <2>1 DEF Snapping, SnapInv
  <2>3. \A l \in current' : call'[l].seen = listed'[call'[l].page]
    BY <1>2, <1>4, <1>5, <2>2
  <2>4. \A l \in Calls : call'[l].st # "tree"
    BY <1>2, <1>5, <2>1
  <2>5. ASSUME NEW q \in Pages PROVE Synced(q)'
    <3>1. CASE q = p
      BY <3>1, <1>4 DEF Synced, NoRef
    <3>2. CASE q # p
      <4>1. Synced(q)
        BY <3>2, <2>1 DEF SnapInv
      <4> QED BY <3>2, <4>1, <1>4 DEF Synced
    <3> QED BY <3>1, <3>2
  <2> QED BY <2>3, <2>4, <2>5
<1> QED BY <1>7, <1>8, <1>9

LEMMA SetRefKeeps ==
  ASSUME Inv, NEW k \in Calls, SetRef(k)
  PROVE  Inv'
<1> USE DEF Inv, SessionTypeOK
<1> DEFINE p == call[k].page
           n == call[k].ref
           c == [call[k] EXCEPT !.ref = @ + 1]
<1>1. /\ call[k].st = "refs" /\ call[k] \in Call /\ Quiet /\ p \in Pages /\ k \in current
      /\ n \in Nat /\ n > 0 /\ n <= Len(call[k].seen) /\ call[k].seen \in Trees
  BY CallTypes DEF SetRef, Snapping
<1>2. c \in Call /\ c.st = "refs" /\ c.ref = n + 1 /\ c.page = p /\ c.seen = call[k].seen
  <2>1. \A d \in Call, m \in Nat :
          LET e == [d EXCEPT !.ref = m]
          IN e \in Call /\ e.st = d.st /\ e.ref = m /\ e.page = d.page /\ e.seen = d.seen
    BY DEF Call
  <2>2. c = [call[k] EXCEPT !.ref = n + 1] /\ n + 1 \in Nat
    BY <1>1
  <2> QED BY <1>1, <2>1, <2>2
<1>3. call' = [call EXCEPT ![k] = c]
  BY DEF SetRef
<1>4. /\ refs' = [refs EXCEPT ![p][n] = call[k].seen[n]] \/ refs' = refs
      /\ UNCHANGED <<tree, current, listed>>
  BY DEF SetRef
<1> HIDE DEF c
<1>5. call' \in [Calls -> Call] /\ call'[k] = c /\ \A l \in Calls : l # k => call'[l] = call[l]
  BY <1>2, <1>3
<1>6. k \in Executing /\ Executing' = Executing
  BY <1>1, <1>2, <1>5 DEF Executing
<1>7. call[k].seen[n] \in Nodes
  BY <1>1, TreeFacts
<1>8. SessionTypeOK'
  <2>1. \A l \in current' : l \in Calls /\ Snapping(l)'
    BY <1>2, <1>4, <1>5 DEF Snapping
  <2>2. \A l \in Calls : Snapping(l)' => call'[l].page \in Pages /\ call'[l].seen \in Trees
    BY <1>1, <1>2, <1>5 DEF Snapping
  <2>3. \A l \in Calls : call'[l].st = "refs" => call'[l].ref > 0
    BY <1>1, <1>2, <1>5
  <2>4. refs' \in [Pages -> [Refs -> Nodes \cup {Nothing}]]
    <3>1. refs[p] \in [Refs -> Nodes \cup {Nothing}]
      BY <1>1
    <3>2. [refs[p] EXCEPT ![n] = call[k].seen[n]] \in [Refs -> Nodes \cup {Nothing}]
      BY <3>1, <1>7
    <3>3. refs' = [refs EXCEPT ![p] = [refs[p] EXCEPT ![n] = call[k].seen[n]]] \/ refs' = refs
      BY <1>4
    <3> QED BY <1>1, <3>2, <3>3
  <2> QED BY <1>1, <1>4, <1>5, <1>6, <2>1, <2>2, <2>3, <2>4, QuietTypes
<1>9. OffInv'
  BY <1>1, <1>6, QuietTypes DEF OffInv
<1>10. SnapInv'
  <2> SUFFICES ASSUME engine' = "playwright"
               PROVE  /\ \A l \in current' : call'[l].seen = listed'[call'[l].page]
                      /\ \A l \in Calls : call'[l].st = "tree" /\ l \notin current'
                           => refs'[call'[l].page] = NoRef
                      /\ \A q \in Pages : Synced(q)' \/ \E l \in Calls : call'[l].st = "tree" /\ call'[l].page = q
    BY DEF SnapInv
  <2>1. engine = "playwright" /\ \A l \in Calls : call[l].st \in {"tree", "refs"} => l = k
    BY <1>1, <1>6, QuietTypes DEF Executing
  <2>2. \A l \in current' : l = k
    BY <1>4, <2>1 DEF Snapping
  <2>3. call[k].seen = listed[p]
    BY <1>1, <2>1 DEF SnapInv
  <2>4. \A l \in current' : call'[l].seen = listed'[call'[l].page]
    BY <1>2, <1>4, <1>5, <2>2, <2>3
  <2>5. \A l \in Calls : call'[l].st # "tree"
    BY <1>1, <1>2, <1>5, <2>1
  <2>6. ASSUME NEW q \in Pages PROVE Synced(q)'
    <3>1. Synced(q)
      BY <1>1, <2>1 DEF SnapInv
    <3>2. ASSUME NEW r \in Refs
          PROVE  \/ refs'[q][r] = Nothing
                 \/ r <= Len(listed'[q]) /\ refs'[q][r] = listed'[q][r]
      <4>1. CASE q = p /\ r = n /\ refs' = [refs EXCEPT ![p][n] = call[k].seen[n]]
        <5>1. refs'[q][r] = call[k].seen[n]
          BY <4>1, <1>1, <3>2
        <5> QED BY <4>1, <5>1, <1>1, <1>4, <2>3
      <4>2. CASE ~(q = p /\ r = n /\ refs' = [refs EXCEPT ![p][n] = call[k].seen[n]])
        <5>1. refs'[q][r] = refs[q][r]
          BY <4>2, <1>1, <1>4
        <5> QED BY <5>1, <3>1, <1>4 DEF Synced
      <4> QED BY <4>1, <4>2
    <3> QED BY <3>2 DEF Synced
  <2> QED BY <2>4, <2>5, <2>6
<1> QED BY <1>8, <1>9, <1>10

LEMMA SnapshotEndKeeps ==
  ASSUME Inv, NEW k \in Calls, SnapshotFails(k) \/ Render(k)
  PROVE  Inv'
<1> USE DEF Inv, SessionTypeOK
<1>1. /\ \/ call[k].st = "tree" /\ k \notin current
         \/ call[k].st = "refs"
      /\ Quiet /\ current' = current \ {k} /\ UNCHANGED <<tree, refs, listed>>
      /\ call[k].page \in Pages
  BY DEF SnapshotFails, Render, Snapping
<1>2. call[k].page \in Nat
  BY CallTypes
<1>3. PICK c \in Call : call' = [call EXCEPT ![k] = c] /\ c.st \in {"failed", "done"}
  BY <1>2, DoneCall, FailsCall DEF SnapshotFails, Render
<1>4. call' \in [Calls -> Call] /\ call'[k] = c /\ \A l \in Calls : l # k => call'[l] = call[l]
  BY <1>3
<1>5. Executing' \subseteq Executing
  BY <1>3, <1>4 DEF Executing
<1>6. \A l \in Calls : call'[l].st \in {"tree", "refs"} => l # k /\ call'[l] = call[l]
  BY <1>3, <1>4
<1>7. SessionTypeOK'
  <2>1. \A l \in current' : l \in Calls /\ Snapping(l)'
    BY <1>1, <1>4 DEF Snapping
  <2>2. \A l \in Calls : Snapping(l)' => call'[l].page \in Pages /\ call'[l].seen \in Trees
    BY <1>6 DEF Snapping
  <2>3. \A l \in Calls : call'[l].st = "refs" => call'[l].ref > 0
    BY <1>6
  <2> QED BY <1>1, <1>4, <1>5, <2>1, <2>2, <2>3, QuietTypes
<1>8. OffInv'
  BY <1>1, <1>5, QuietTypes DEF OffInv
<1>9. SnapInv'
  <2> SUFFICES ASSUME engine' = "playwright"
               PROVE  /\ \A l \in current' : call'[l].seen = listed'[call'[l].page]
                      /\ \A l \in Calls : call'[l].st = "tree" /\ l \notin current'
                           => refs'[call'[l].page] = NoRef
                      /\ \A q \in Pages : Synced(q)' \/ \E l \in Calls : call'[l].st = "tree" /\ call'[l].page = q
    BY DEF SnapInv
  <2>1. engine = "playwright"
    BY <1>1, QuietTypes
  <2>2. \A l \in current' : call'[l].seen = listed'[call'[l].page]
    BY <1>1, <1>4, <2>1 DEF SnapInv
  <2>3. \A l \in Calls : call'[l].st = "tree" /\ l \notin current' => refs'[call'[l].page] = NoRef
    BY <1>1, <1>6, <2>1 DEF SnapInv
  <2>4. ASSUME NEW q \in Pages
        PROVE  Synced(q)' \/ \E l \in Calls : call'[l].st = "tree" /\ call'[l].page = q
    <3>1. CASE Synced(q)
      BY <3>1, <1>1 DEF Synced
    <3>2. CASE ~Synced(q)
      <4>1. PICK l \in Calls : call[l].st = "tree" /\ call[l].page = q
        BY <3>2, <2>1 DEF SnapInv
      <4>2. CASE l # k
        BY <4>1, <4>2, <1>4
      <4>3. CASE l = k
        <5>1. refs'[q] = NoRef
          BY <4>1, <4>3, <1>1, <2>1 DEF SnapInv
        <5> QED BY <5>1 DEF Synced, NoRef
      <4> QED BY <4>2, <4>3
    <3> QED BY <3>1, <3>2
  <2> QED BY <2>2, <2>3, <2>4
<1> QED BY <1>7, <1>8, <1>9

-----------------------------------------------------------------------------
(* The invariant is inductive. *)

LEMMA InvInit == SystemInit => Inv
<1> SUFFICES ASSUME SystemInit PROVE Inv
  OBVIOUS
<1>1. \A k \in Calls : call[k] = NoCall /\ call[k].st = "new"
  BY DEF SystemInit, Init, NoCall
<1>2. Executing = {} /\ \A k \in Calls : ~Snapping(k)
  BY <1>1 DEF Executing, Snapping
<1>3. call \in [Calls -> Call]
  BY CallTypes DEF SystemInit, Init
<1>4. pages = <<>> /\ <<>> \in Seq(Pages)
  BY DEF SystemInit, Init
<1>5. /\ engine = "off" /\ opened = 0 /\ generation = 0 /\ events = MaxEvents /\ void = {}
      /\ current = {} /\ tree = [p \in Pages |-> <<>>] /\ refs = [p \in Pages |-> NoRef]
      /\ listed = [p \in Pages |-> <<>>]
  BY DEF SystemInit, Init
<1>6. SessionTypeOK
  <2>1. opened \in 0..MaxTabs /\ generation \in Nat /\ events \in 0..MaxEvents
    BY <1>5, ConstTypes
  <2>2. /\ tree \in [Pages -> Trees] /\ listed \in [Pages -> Trees]
        /\ refs \in [Pages -> [Refs -> Nodes \cup {Nothing}]]
    BY <1>5, TreeFacts, ConstTypes
  <2>3. \A k \in Calls : call[k].st # "refs"
    BY <1>1
  <2> QED BY <1>2, <1>3, <1>4, <1>5, <2>1, <2>2, <2>3 DEF SessionTypeOK
<1> QED BY <1>2, <1>5, <1>6 DEF Inv, OffInv, SnapInv

LEMMA InvNext == Inv /\ [Next]_allVars => Inv'
<1> SUFFICES ASSUME Inv, [Next]_allVars PROVE Inv'
  OBVIOUS
<1>0. SessionTypeOK
  BY DEF Inv
<1>1. ASSUME NEW k \in Calls, Client(k) PROVE Inv'
  BY <1>0, <1>1, ClientAside, AsideKeeps
<1>2. ASSUME NEW k \in Calls, Command(k) PROVE Inv'
  <2>1. CASE TabCommand(k) \/ CookieCommand(k) \/ ReadPage(k) \/ Capture(k) \/ Eval(k) \/ Interact(k)
    BY <1>0, <2>1, TabCommandAside, CookieCommandAside, ReadAside, AsideKeeps
  <2>2. CASE ReadTree(k)
    BY <2>2, ReadTreeKeeps
  <2>3. CASE NewRegistry(k)
    BY <2>3, NewRegistryKeeps
  <2>4. CASE SetRef(k)
    BY <2>4, SetRefKeeps
  <2>5. CASE SnapshotFails(k) \/ Render(k)
    BY <2>5, SnapshotEndKeeps
  <2> QED BY <1>2, <2>1, <2>2, <2>3, <2>4, <2>5 DEF Command, PageCommand
<1>3. ASSUME NEW k \in Calls, Controller(k) \/ Bridge(k) PROVE Inv'
  <2>1. (engine = "playwright" /\ Dequeue(k)) \/ Connect(k) \/ Command(k)
    BY <1>3 DEF Controller, Bridge
  <2> QED BY <1>0, <1>2, <2>1, TakeUpAside, AsideKeeps
<1>4. ASSUME User PROVE Inv'
  BY <1>0, <1>4, EndSessionKeeps, UserAside, AsideKeeps DEF User
<1>5. ASSUME UNCHANGED allVars PROVE Inv'
  BY <1>0, <1>5, StillAside, CallRests, AsideKeeps DEF allVars, sessionVars, Browser, WorkStep
<1> QED BY <1>1, <1>3, <1>4, <1>5 DEF Next

\* The jar and what calls ask of it.
LEMMA CookieTypeInit == SystemInit => CookieTypeOK
  BY DEF SystemInit, CookieInit, CookieTypeOK

LEMMA CookieTypeNext == CookieTypeOK /\ [Next]_allVars => CookieTypeOK'
<1> SUFFICES ASSUME CookieTypeOK, [Next]_allVars PROVE CookieTypeOK'
  OBVIOUS
<1> USE DEF CookieTypeOK
<1>1. CASE UNCHANGED cookieVars
  BY <1>1 DEF cookieVars
<1>2. ASSUME NEW k \in Calls, NEW c, NEW keys \in SUBSET Keys, Ask(k, c, keys) PROVE CookieTypeOK'
  BY <1>2 DEF Ask
<1>3. ASSUME NEW k \in Calls, SendCookies(k) \/ SendImport(k) \/ SendClear(k) \/ SendDelete(k)
      PROVE  CookieTypeOK'
  BY <1>2, <1>3 DEF SendCookies, SendImport, SendClear, SendDelete
<1>4. ASSUME NEW k \in Calls, Client(k) PROVE CookieTypeOK'
  BY <1>1, <1>3, <1>4
     DEF Client, Cli, McpTool, TuiTabs, TuiCookies, CookieClient, SendMatches
<1>5. \A k \in Calls : KeysOf(Matching(k)) \subseteq Keys
  BY DEF KeysOf, Matching, Cookie
<1>6. ASSUME NEW k \in Calls, CookieCommand(k) PROVE CookieTypeOK'
  <2>1. CASE Cookies(k)
    BY <2>1, <1>1 DEF Cookies
  <2>2. CASE ListMatches(k)
    BY <2>2, <1>5 DEF ListMatches
  <2>3. CASE SetCookies(k)
    <3>1. PICK b \in BOOLEAN : jar' = jar \cup {[key |-> x, partitioned |-> b] : x \in want[k]}
      BY <2>3 DEF SetCookies
    <3>2. jar' \subseteq Cookie
      BY <3>1 DEF Cookie
    <3> QED BY <2>3, <3>2 DEF SetCookies
  <2>4. CASE CheckDoomed(k)
    <3>1. PICK f \in Doomed(k) : UNCHANGED doomed \/ doomed' = [doomed EXCEPT ![k] = DOMAIN f]
      BY <2>4 DEF CheckDoomed
    <3>2. DOMAIN f \subseteq Keys
      BY <3>1, <1>5 DEF Doomed
    <3> QED BY <2>4, <3>1, <3>2 DEF CheckDoomed
  <2>5. CASE DeleteCookie(k)
    BY <2>5 DEF DeleteCookie
  <2> QED BY <1>6, <2>1, <2>2, <2>3, <2>4, <2>5 DEF CookieCommand
<1>7. ASSUME NEW k \in Calls, Controller(k) \/ Bridge(k) PROVE CookieTypeOK'
  BY <1>1, <1>6, <1>7 DEF Controller, Bridge, Command
<1>8. CASE PageSetsCookie
  BY <1>8 DEF PageSetsCookie
<1>9. CASE UNCHANGED allVars
  BY <1>9 DEF allVars, cookieVars
<1> QED BY <1>1, <1>4, <1>7, <1>8, <1>9 DEF Next, User

-----------------------------------------------------------------------------
(* The theorems. *)

\* Every reachable state is well typed; in particular a controller never works on two
\* commands (the command queue of process/controller.py), however many are sent and
\* whatever the user does meanwhile.
THEOREM SessionTypes == Spec => []TypeOK
<1>1. SystemInit => Inv /\ CookieTypeOK
  BY InvInit, CookieTypeInit
<1>2. Inv /\ CookieTypeOK /\ [Next]_allVars => (Inv /\ CookieTypeOK)'
  BY InvNext, CookieTypeNext
<1>3. Inv /\ CookieTypeOK => TypeOK
  BY DEF Inv, TypeOK
<1> QED BY <1>1, <1>2, <1>3, PTL DEF Spec

\* With a controller, an element that an interaction would find under a ref is the one
\* that its tab's most recent snapshot lists there (ax_snapshot.py), for any number of
\* clients, tabs and elements, also where a snapshot failed half-way.
THEOREM RefsAreOfLastSnapshot == Spec => []RefsOfLastSnapshot
<1>1. Inv => RefsOfLastSnapshot
  <2> SUFFICES ASSUME Inv, engine = "playwright", NEW p \in Pages, NEW r \in Refs
               PROVE  \/ refs[p][r] \notin Range(tree[p])
                      \/ r <= Len(listed[p]) /\ refs[p][r] = listed[p][r]
                      \/ \E k \in Calls : call[k].st = "tree" /\ call[k].page = p
    BY DEF RefsOfLastSnapshot, RefsAreListed
  <2>1. tree[p] \in Trees
    BY DEF Inv, SessionTypeOK
  <2>2. Nothing \notin Range(tree[p])
    BY <2>1, TreeFacts, ConstTypes
  <2> QED BY <2>2 DEF Inv, SnapInv, Synced
<1> QED BY <1>1, InvInit, InvNext, PTL DEF Spec

=============================================================================
