--------------------------- MODULE BrowserSession ---------------------------
(***************************************************************************)
(* A profile's browser as the automation commands see it: the session that *)
(* a command may start, the tabs with their indices, and the commands on   *)
(* tabs (process/ipc.py, process/controller.py, process/direct_bridge.py,  *)
(* and the clients of commands/automation.py, commands/mcp.py and          *)
(* tui/backend.py).                                                        *)
(*                                                                         *)
(* A Playwright controller executes one command at a time; on a Direct     *)
(* session every client has a DevTools connection of its own and the steps *)
(* of their commands interleave.  Meanwhile the user opens, closes and     *)
(* navigates tabs, and so do pages and the scripts in them, which nobody   *)
(* counts.  A call is one command of one client; a client that     *)
(* gave up waiting repeats it as another call while the first may still be *)
(* queued, so no step is needed for a time-out.                            *)
(***************************************************************************)
EXTENDS Integers, Sequences, FiniteSets, SequencesExt

CONSTANTS
    MaxTabs,    \* how many tabs are opened
    Nodes,      \* the elements a document may show
    MaxCalls,   \* how many commands are sent
    Mixes,      \* the sets of commands that are tried together
    Indices,    \* the indices that clients use unread
    Nothing,    \* no element
    MaxEvents   \* how often the user or a page acts on its own

ASSUME SessionAssumption ==
    /\ MaxTabs \in Nat /\ MaxCalls \in Nat /\ MaxEvents \in Nat
    /\ Indices \subseteq Nat
    /\ IsFiniteSet(Nodes) /\ Nothing \notin Nodes

Pages == 1..MaxTabs    \* in the order in which they are opened
Calls == 1..MaxCalls   \* in the order in which they are sent

VARIABLES
    engine,      \* of the running session, "off" when there is none
    pages,       \* context.pages
    opened,      \* how many tabs have been
    generation,  \* _tabs_generation of the controller
    tree,        \* the named elements of each tab's document, in order
    current,     \* the snapshots in progress whose document is still there
    refs,        \* the snapshot registry of each tab's document
    listed,      \* history: what each tab's most recent snapshot lists
    call,        \* the commands
    void,        \* history: the tab lists that an uncounted close or a restart has outdated
    events       \* what is left of MaxEvents

sessionVars == <<engine, pages, opened, generation, tree, current, refs, listed, call, void, events>>

Refs  == 1..Cardinality(Nodes)
NoRef == [r \in Refs |-> Nothing]
Trees == {t \in SeqOf(Nodes, Cardinality(Nodes)) : IsInjective(t)}

NoCall == [cmd |-> "none", st |-> "new", tab |-> 0, from |-> 0, ref |-> 0,
           page |-> 0, gen |-> 0, seen |-> <<>>]

\* Where the browser works on a call.
Executing == {k \in Calls : call[k].st \in {"ready", "opening", "tree", "refs", "deleting"}}

Init ==
    /\ engine = "off" /\ pages = <<>> /\ opened = 0 /\ generation = 0
    /\ tree = [p \in Pages |-> <<>>] /\ current = {}
    /\ refs = [p \in Pages |-> NoRef] /\ listed = [p \in Pages |-> <<>>]
    /\ call = [k \in Calls |-> NoCall] /\ void = {} /\ events = MaxEvents

Turn(k, s) == call' = [call EXCEPT ![k].st = s]

\* What is kept of a call: what a command made from a list acted on.
Done(k, p) ==
    call' = [call EXCEPT ![k] =
               IF call[k].from = 0 THEN [NoCall EXCEPT !.cmd = call[k].cmd, !.st = "done"]
               ELSE [call[k] EXCEPT !.st = "done", !.page = p]]

Fails(k) == call' = [call EXCEPT ![k] = [NoCall EXCEPT !.cmd = call[k].cmd, !.st = "failed"]]

Browser == <<tree, current, refs, listed>>
Event   == events > 0 /\ events' = events - 1

\* A tab opens blank.
Opens(p) == p = opened + 1 /\ opened' = p

\* A closed tab's documents are gone.
Gone(gone) ==
    /\ tree' = [p \in Pages |-> IF p \in gone THEN <<>> ELSE tree[p]]
    /\ current' = {k \in current : call[k].page \notin gone}
    /\ refs' = [p \in Pages |-> IF p \in gone THEN NoRef ELSE refs[p]]
    /\ listed' = [p \in Pages |-> IF p \in gone THEN <<>> ELSE listed[p]]

Closes(i) == pages' = RemoveAt(pages, i) /\ Gone({pages[i]})

\* A new document has a registry of its own.
Navigates(p) ==
    /\ current' = {k \in current : call[k].page # p}
    /\ refs' = [refs EXCEPT ![p] = NoRef]
    /\ \E t \in Trees : tree' = [tree EXCEPT ![p] = t]
    /\ UNCHANGED listed

\* Elements come and go within a document.
Changes(p) ==
    /\ \E t \in Trees : tree' = [tree EXCEPT ![p] = t]
    /\ UNCHANGED <<current, refs, listed>>

\* The tab lists that were answered; any client may use one.
Lists == {j \in Calls : call[j].cmd = "tabs" /\ call[j].st = "done"}

\* A tab closes other than by a command that succeeds: no generation tells.
ClosesUncounted(i) == Closes(i) /\ void' = void \cup Lists

\* What a page, a script in it or a click may do: replace or change its document,
\* open a tab, close its own.
Behaves(p) ==
    \/ (Navigates(p) \/ Changes(p)) /\ UNCHANGED <<pages, opened, void>>
    \/ \E q \in Pages : Opens(q) /\ pages' = Append(pages, q) /\ UNCHANGED <<Browser, void>>
    \/ \E i \in DOMAIN pages : pages[i] = p /\ ClosesUncounted(i) /\ UNCHANGED opened

-----------------------------------------------------------------------------
(* The session. *)

\* A launch, by command or for a command: one tab, and a new generation counter.
Starts(e) ==
    /\ engine = "off" /\ engine' = e
    /\ \E p \in Pages : Opens(p) /\ pages' = <<p>>

Launch ==
    /\ \E e \in {"playwright", "direct"} : Starts(e)
    /\ UNCHANGED <<generation, Browser, call, void, events>>

\* A close, a crash, or the user's quitting the browser; a controller whose last tab
\* was closed leaves by itself.  What was asked and not answered fails.
EndSession ==
    /\ \/ engine # "off" /\ Event
       \/ engine = "playwright" /\ pages = <<>> /\ Executing = {} /\ UNCHANGED events
    /\ engine' = "off" /\ pages' = <<>> /\ Gone(Pages) /\ generation' = 0
    /\ void' = void \cup Lists
    /\ call' = [k \in Calls |-> IF k \in Executing \/ call[k].st = "sent"
                                THEN [NoCall EXCEPT !.cmd = call[k].cmd, !.st = "failed"]
                                ELSE call[k]]
    /\ UNCHANGED opened

\* send_controller_command: a session of either engine is used; without one a
\* Playwright session is started, or the command refused.
Reach(auto) ==
    \/ engine # "off" /\ UNCHANGED <<engine, pages, opened>>
    \/ auto /\ Starts("playwright")

Tried == {call[k].cmd : k \in {l \in Calls : call[l].st # "new"}}

Send(k, auto, request) ==
    /\ call[k].st = "new" /\ \A l \in Calls : l < k => call[l].st # "new"
    /\ \E m \in Mixes : Tried \cup {request.cmd} \subseteq m
    /\ \/ Reach(auto) /\ call' = [call EXCEPT ![k] = request]
       \/ /\ engine = "off" /\ ~auto
          /\ call' = [call EXCEPT ![k].cmd = request.cmd, ![k].st = "failed"]
          /\ UNCHANGED <<engine, pages, opened>>
    /\ UNCHANGED <<generation, Browser, void, events>>

Request(c, i, j, r) == [NoCall EXCEPT !.cmd = c, !.st = "sent", !.tab = i, !.from = j, !.ref = r]

\* A command on a tab by its index alone, as all of ProfileDock's own clients send it.
SendOnTab(k, auto, c) == \E i \in Indices : Send(k, auto, Request(c, i, 0, 0))

\* A client of the controller's protocol may name the generation of a tab list.
SendGuarded(k) ==
    /\ engine = "playwright"
    /\ \E c \in {"close_tab", "read_page", "eval", "capture"}, j \in Lists :
         \E i \in 0..(Len(call[j].seen) - 1) : Send(k, FALSE, Request(c, i, j, 0))

SendTabs(k) == Send(k, FALSE, Request("tabs", 0, 0, 0))

SendOpenTab(k) == Send(k, TRUE, Request("open_tab", 0, 0, 0))

SendCloseTab(k) == SendOnTab(k, FALSE, "close_tab")

-----------------------------------------------------------------------------
(* Commands. *)

\* MUTANT of Dequeue: commands are not queued behind each other.
DequeueAtOnce(k) ==
    /\ engine = "playwright"
    /\ call[k].st = "sent" /\ Turn(k, "ready")
    /\ UNCHANGED <<engine, pages, opened, generation, Browser, void, events>>

\* The controller takes a command when it has finished the one before.
Dequeue(k) ==
    /\ engine = "playwright" /\ Executing = {}
    /\ call[k].st = "sent" /\ Turn(k, "ready")
    /\ UNCHANGED <<engine, pages, opened, generation, Browser, void, events>>

\* A Direct session: the bridge connects, and opens a tab if there is none.
Connect(k) ==
    /\ engine = "direct"
    /\ call[k].st = "sent" /\ Turn(k, "ready")
    /\ \/ pages # <<>> /\ UNCHANGED <<pages, opened>>
       \/ pages = <<>> /\ \E p \in Pages : Opens(p) /\ pages' = <<p>>
    /\ UNCHANGED <<engine, generation, Browser, void, events>>

Ready(k, commands) == call[k].st = "ready" /\ call[k].cmd \in commands

\* A browser that refuses, or an argument that does.
Refuse(k) ==
    /\ call[k].st \in {"ready", "deleting"} /\ Fails(k)
    /\ UNCHANGED <<engine, pages, opened, generation, Browser, void, events>>

\* The bridge answers generation 0.
Tabs(k) ==
    /\ Ready(k, {"tabs"})
    /\ call' = [call EXCEPT ![k].st = "done", ![k].seen = pages, ![k].gen = generation]
    /\ UNCHANGED <<engine, pages, opened, generation, Browser, void, events>>

\* _bump_tabs_generation; the bridge keeps no count.
Bump == generation' = IF engine = "playwright" THEN generation + 1 ELSE generation

OpenTab(k) ==
    /\ Ready(k, {"open_tab"})
    /\ \E p \in Pages :
         /\ Opens(p) /\ pages' = Append(pages, p)
         /\ call' = [call EXCEPT ![k].st = "opening", ![k].page = p]
    /\ UNCHANGED <<engine, generation, Browser, void, events>>

\* The URL is about:blank, or its page has come.
TabOpened(k) ==
    /\ call[k].st = "opening" /\ call[k].page \in Range(pages)
    /\ Navigates(call[k].page) \/ UNCHANGED Browser
    /\ Done(k, call[k].page) /\ Bump
    /\ UNCHANGED <<engine, pages, opened, void, events>>

\* The navigation fails, or the tab was closed meanwhile: no extra tab remains, unless
\* closing it fails too.
OpenTabFails(k) ==
    /\ call[k].st = "opening" /\ Fails(k)
    /\ \/ \E i \in DOMAIN pages : pages[i] = call[k].page /\ Closes(i)
       \/ UNCHANGED <<pages, Browser>>
    /\ UNCHANGED <<engine, opened, generation, void, events>>

\* _generation_stale: a call that names no generation is not checked.
GenerationStale(k) ==
    /\ engine = "playwright" /\ call[k].from # 0
    /\ call[call[k].from].gen # generation

InRange(k) == call[k].tab < Len(pages)

PageOf(k) == pages[call[k].tab + 1]

\* MUTANT of CloseTab: the generation is that of before.
CloseTabUnnoticed(k) ==
    /\ Ready(k, {"close_tab"})
    /\ ~GenerationStale(k) /\ InRange(k)
    /\ Closes(call[k].tab + 1) /\ Done(k, PageOf(k))
    /\ UNCHANGED <<engine, opened, generation, void, events>>

CloseTab(k) ==
    /\ Ready(k, {"close_tab"})
    /\ ~GenerationStale(k) /\ InRange(k)
    /\ Closes(call[k].tab + 1) /\ Done(k, PageOf(k))
    /\ Bump
    /\ UNCHANGED <<engine, opened, void, events>>

\* close() raises, though the tab goes.
CloseTabFails(k) ==
    /\ Ready(k, {"close_tab"})
    /\ ~GenerationStale(k) /\ InRange(k)
    /\ ClosesUncounted(call[k].tab + 1) /\ Fails(k)
    /\ UNCHANGED <<engine, opened, generation, events>>

TabClient(k) == SendTabs(k) \/ SendOpenTab(k) \/ SendCloseTab(k) \/ SendGuarded(k)

TabCommand(k) ==
    \/ Refuse(k) \/ Tabs(k) \/ OpenTab(k) \/ TabOpened(k) \/ OpenTabFails(k)
    \/ CloseTab(k) \/ CloseTabFails(k)

-----------------------------------------------------------------------------
(* What the user and the pages do. *)

UserOpens ==
    /\ engine # "off" /\ Event
    /\ \E p \in Pages : Opens(p) /\ pages' = Append(pages, p)
    /\ UNCHANGED <<engine, generation, Browser, call, void>>

UserCloses ==
    /\ Event
    /\ \E i \in DOMAIN pages : ClosesUncounted(i)
    /\ UNCHANGED <<engine, opened, generation, call>>

PageActs ==
    /\ Event
    /\ \E p \in Range(pages) : Behaves(p)
    /\ UNCHANGED <<engine, generation, call>>

-----------------------------------------------------------------------------
(* Types. *)

States ==
    {"new", "sent", "ready", "opening", "tree", "refs", "listed", "deleting", "done", "failed"}

Commands ==
    {"none", "tabs", "open_tab", "close_tab", "read_page", "eval", "capture", "snapshot",
     "interact", "cookies", "set_cookies", "clear", "delete_cookies"}

Call == [cmd : Commands, st : States, tab : Nat, from : Nat, ref : Nat, page : Nat, gen : Nat,
         seen : Seq(Pages \cup Nodes)]

\* A call that takes a snapshot.
Snapping(k) == call[k].st \in {"tree", "refs"}

\* The type invariant of a session; a controller works on one command.
SessionTypeOK ==
    /\ engine \in {"off", "playwright", "direct"}
    /\ pages \in Seq(Pages) /\ opened \in 0..MaxTabs
    /\ generation \in Nat /\ events \in 0..MaxEvents
    /\ tree \in [Pages -> Trees] /\ listed \in [Pages -> Trees]
    /\ refs \in [Pages -> [Refs -> Nodes \cup {Nothing}]]
    /\ call \in [Calls -> Call] /\ void \subseteq Calls
    /\ \A k \in current : k \in Calls /\ Snapping(k)
    /\ \A k \in Calls : Snapping(k) => call[k].page \in Pages /\ call[k].seen \in Trees
    /\ \A k \in Calls : call[k].st = "refs" => call[k].ref > 0
    /\ engine = "playwright" => \A k, l \in Executing : k = l

=============================================================================
