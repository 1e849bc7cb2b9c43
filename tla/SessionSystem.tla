--------------------------- MODULE SessionSystem ---------------------------
(***************************************************************************)
(* The automation of one profile: commands on tabs, pages and cookies from *)
(* clients that know nothing of each other, in sessions of either engine   *)
(* that come and go, next to a user who uses the same browser.             *)
(***************************************************************************)
EXTENDS PageCommands, CookieCommands

allVars == <<sessionVars, cookieVars>>

SystemInit == Init /\ CookieInit

-----------------------------------------------------------------------------
(* Who sends commands, and who runs them. *)

\* The command line.
Cli(k) ==
    \/ (TabClient(k) \/ PageClient(k)) /\ UNCHANGED cookieVars
    \/ CookieClient(k)

\* The tools of the MCP server, of which only a new tab, a capture and cookies start a
\* session.
McpTool(k) ==
    \/ /\ \/ SendTabs(k) \/ SendOpenTab(k) \/ SendCloseTab(k) \/ SendCapture(k)
          \/ SendOnTab(k, FALSE, "read_page") \/ SendOnTab(k, FALSE, "eval")
          \/ SendSnapshot(k) \/ SendInteract(k)
       /\ UNCHANGED cookieVars
    \/ SendCookies(k) \/ SendImport(k) \/ SendDelete(k)

\* The terminal interface reads and captures the first tab.
TuiTabs(k) ==
    /\ \/ SendTabs(k) \/ SendOpenTab(k)
       \/ \E c \in {"read_page", "capture"} : Send(k, TRUE, Request(c, 0, 0, 0))
    /\ UNCHANGED cookieVars

TuiCookies(k) == SendCookies(k) \/ SendImport(k) \/ SendClear(k) \/ SendMatches(k)

Client(k) == Cli(k) \/ McpTool(k) \/ TuiTabs(k) \/ TuiCookies(k)

Command(k) ==
    \/ (TabCommand(k) \/ PageCommand(k)) /\ UNCHANGED cookieVars
    \/ CookieCommand(k)

Controller(k) == engine = "playwright" /\ ((Dequeue(k) /\ UNCHANGED cookieVars) \/ Command(k))

Bridge(k) == engine = "direct" /\ ((Connect(k) /\ UNCHANGED cookieVars) \/ Command(k))

User ==
    \/ (Launch \/ EndSession \/ UserOpens \/ UserCloses \/ PageActs) /\ UNCHANGED cookieVars
    \/ PageSetsCookie

Next == (\E k \in Calls : Client(k) \/ Controller(k) \/ Bridge(k)) \/ User

Spec == SystemInit /\ [][Next]_allVars

-----------------------------------------------------------------------------
(* Properties. *)

\* The type invariant; a controller works on one command.
TypeOK == SessionTypeOK /\ CookieTypeOK

\* The elements that an interaction would find in a tab are, ref by ref, those that
\* its most recent snapshot lists.
RefsAreListed(p) ==
    \A r \in Refs :
        \/ refs[p][r] \notin Range(tree[p])
        \/ r <= Len(listed[p]) /\ refs[p][r] = listed[p][r]

\* The refs of a tab belong to its most recent snapshot: with a controller, whoever
\* else took snapshots, also while one is taken and where one failed half-way.
RefsOfLastSnapshot ==
    engine = "playwright" =>
        \A p \in Pages :
            RefsAreListed(p) \/ \E k \in Calls : call[k].st = "tree" /\ call[k].page = p

\* A command that names the generation of the tab list it was made from acts on the
\* tab which that list shows at its index, however often it is repeated and whatever
\* tabs the commands of other clients opened and closed since.  A tab that closed in
\* any other way (by the user, its own page, a script or click that a client sent, a
\* close that reported an error) or a new session can mislead it: nothing counts those.
GuardedIndex ==
    \A k \in Calls :
        LET j == call[k].from
        IN engine = "playwright" /\ call[k].st = "done" /\ j # 0 /\ j \notin void
           => call[k].page = call[j].seen[call[k].tab + 1]

\* "Partitioned-cookie deletion is refused before any deletion": no deletion begins while
\* one of the cookies asked for is partitioned.
PartitionedRefused ==
    [][\A k \in Calls : call[k].st = "ready" /\ call'[k].st = "deleting" =>
         \A c \in Matching(k) : ~c.partitioned]_allVars

=============================================================================
