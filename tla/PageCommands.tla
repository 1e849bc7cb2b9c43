---------------------------- MODULE PageCommands ----------------------------
(***************************************************************************)
(* The commands that act within a tab (ax_snapshot.py, and read_page,      *)
(* eval, screenshot and pdf of process/controller.py and                   *)
(* process/direct_bridge.py).                                              *)
(*                                                                         *)
(* A snapshot reads the accessibility tree, starts a new registry in the   *)
(* page and puts the elements into it one by one; an interaction takes its *)
(* element from the registry.  The page may change between any two steps.  *)
(***************************************************************************)
EXTENDS BrowserSession

Quiet == UNCHANGED <<engine, pages, opened, generation, void, events>>

(* Clients. *)

SendReadPage(k) == SendOnTab(k, TRUE, "read_page")

SendEval(k) == SendOnTab(k, TRUE, "eval")

SendCapture(k) == SendOnTab(k, TRUE, "capture")

\* profile_get_snapshot and profile_interact of the MCP server.
SendSnapshot(k) == \E i \in Indices : Send(k, FALSE, Request("snapshot", i, 0, 0))

SendInteract(k) ==
    \E i \in Indices, r \in Refs : Send(k, FALSE, Request("interact", i, 0, r))

-----------------------------------------------------------------------------
(* Reading, evaluating and capturing. *)

\* With a URL the tab navigates there first.
ReadPage(k) ==
    /\ Ready(k, {"read_page"})
    /\ ~GenerationStale(k) /\ InRange(k)
    /\ Navigates(PageOf(k)) \/ UNCHANGED Browser
    /\ Done(k, PageOf(k))
    /\ Quiet

\* A screenshot or a PDF; its file is written outside the profile's own directory.
Capture(k) ==
    /\ Ready(k, {"capture"})
    /\ ~GenerationStale(k) /\ InRange(k)
    /\ Navigates(PageOf(k)) \/ UNCHANGED Browser
    /\ Done(k, PageOf(k))
    /\ Quiet

\* A script may do what the page itself may, and then end, throw or be too slow.
Eval(k) ==
    /\ Ready(k, {"eval"})
    /\ ~GenerationStale(k) /\ InRange(k)
    /\ Behaves(PageOf(k))
    /\ Done(k, PageOf(k)) \/ Fails(k)
    /\ UNCHANGED <<engine, generation, events>>

-----------------------------------------------------------------------------
(* Snapshots. *)

\* Accessibility.getFullAXTree; what the answer will list is settled here.
ReadTree(k) ==
    /\ Ready(k, {"snapshot"}) /\ InRange(k)
    /\ call' = [call EXCEPT ![k].st = "tree", ![k].page = PageOf(k),
                            ![k].seen = tree[PageOf(k)]]
    /\ listed' = [listed EXCEPT ![PageOf(k)] = tree[PageOf(k)]]
    /\ current' = current \cup {k}
    /\ UNCHANGED <<tree, refs>> /\ Quiet

\* MUTANT of NewRegistry: the Map of the snapshot before is kept.
KeepRegistry(k) ==
    /\ call[k].st = "tree" /\ call[k].page \in Range(pages)
    /\ call' = [call EXCEPT ![k].st = "refs", ![k].ref = 1]
    /\ UNCHANGED Browser /\ Quiet

NewRegistry(k) ==
    /\ call[k].st = "tree" /\ call[k].page \in Range(pages)
    /\ refs' = [refs EXCEPT ![call[k].page] = NoRef]
    /\ call' = [call EXCEPT ![k].st = "refs", ![k].ref = 1]
    /\ UNCHANGED <<tree, current, listed>> /\ Quiet

\* DOM.resolveNode and registry.set.  A node of the accessibility tree may have no
\* element; an element that has left the document may still be found.
SetRef(k) ==
    /\ call[k].st = "refs" /\ call[k].ref <= Len(call[k].seen)
    /\ k \in current
    /\ \/ refs' = [refs EXCEPT ![call[k].page][call[k].ref] = call[k].seen[call[k].ref]]
       \/ UNCHANGED refs
    /\ call' = [call EXCEPT ![k].ref = @ + 1]
    /\ UNCHANGED <<tree, current, listed>> /\ Quiet

\* The tab or its document is gone, or an element, or the tab has no title to give.
SnapshotFails(k) ==
    /\ \/ call[k].st = "tree" /\ k \notin current
       \/ call[k].st = "refs"
    /\ Fails(k) /\ current' = current \ {k}
    /\ UNCHANGED <<tree, refs, listed>> /\ Quiet

Render(k) ==
    /\ call[k].st = "refs" /\ call[k].ref > Len(call[k].seen)
    /\ Done(k, call[k].page) /\ current' = current \ {k}
    /\ UNCHANGED <<tree, refs, listed>> /\ Quiet

\* The element must still be in the document; what it does when clicked is up to
\* the page, and the click may yet be reported as failed.
Interact(k) ==
    /\ Ready(k, {"interact"}) /\ InRange(k)
    /\ refs[PageOf(k)][call[k].ref] \in Range(tree[PageOf(k)])
    /\ Behaves(PageOf(k))
    /\ Done(k, PageOf(k)) \/ Fails(k)
    /\ UNCHANGED <<engine, generation, events>>

PageClient(k) == SendReadPage(k) \/ SendEval(k) \/ SendCapture(k)

PageCommand(k) ==
    \/ ReadPage(k) \/ Capture(k) \/ Eval(k)
    \/ ReadTree(k) \/ NewRegistry(k) \/ SetRef(k) \/ SnapshotFails(k) \/ Render(k)
    \/ Interact(k)

=============================================================================
