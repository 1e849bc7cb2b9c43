--------------------------- MODULE CookieCommands ---------------------------
(***************************************************************************)
(* The commands on the cookie jar of a session (process/controller.py,     *)
(* process/direct_bridge.py, commands/automation.py, commands/mcp.py,      *)
(* tui/backend.py).  A cookie is known by its key, which stands for name,  *)
(* domain and path, and by whether it is partitioned.                      *)
(*                                                                         *)
(* "profiledock cookies --clear" is two commands: it lists the jar, looks  *)
(* for partitioned cookies, and sends the keys it found; the controller    *)
(* looks again and deletes them one by one.                                *)
(***************************************************************************)
EXTENDS BrowserSession

CONSTANT Keys   \* the cookies' names, domains and paths

VARIABLES
    jar,        \* the browser's cookies; they outlive the session
    want,       \* the keys each call asks for
    doomed      \* the keys a deletion has still to delete

cookieVars == <<jar, want, doomed>>

Cookie == [key : Keys, partitioned : BOOLEAN]

\* Cookies come from pages, and from imports.
CookieInit ==
    /\ jar = {}
    /\ want = [k \in Calls |-> {}] /\ doomed = [k \in Calls |-> {}]

KeysOf(cookies) == {c.key : c \in cookies}

Matching(k) == {c \in jar : c.key \in want[k]}

Still == UNCHANGED <<engine, pages, opened, generation, Browser, void, events>>

-----------------------------------------------------------------------------
(* Clients: all of them start a session where there is none. *)

Ask(k, c, keys) ==
    /\ Send(k, TRUE, Request(c, 0, 0, 0))
    /\ want' = [want EXCEPT ![k] = keys] /\ UNCHANGED <<jar, doomed>>

SendCookies(k) == Ask(k, "cookies", {})

SendImport(k) == \E keys \in (SUBSET Keys) \ {{}} : Ask(k, "set_cookies", keys)

\* --clear with filters that keep the keys given.
SendClear(k) == \E keys \in (SUBSET Keys) \ {{}} : Ask(k, "clear", keys)

\* profile_cookies_delete of the MCP server names its entries itself.
SendDelete(k) == \E keys \in (SUBSET Keys) \ {{}} : Ask(k, "delete_cookies", keys)

\* The second command of a --clear.
SendMatches(k) ==
    /\ call[k].st = "listed" /\ Reach(TRUE)
    /\ call' = [call EXCEPT ![k].st = "sent", ![k].cmd = "delete_cookies"]
    /\ UNCHANGED <<generation, Browser, void, events>> /\ UNCHANGED cookieVars

-----------------------------------------------------------------------------
(* Commands. *)

Cookies(k) ==
    /\ Ready(k, {"cookies"}) /\ Done(k, 0)
    /\ Still /\ UNCHANGED cookieVars

\* The answer to the first command of a --clear, and what the client makes of it.
ListMatches(k) ==
    /\ Ready(k, {"clear"})
    /\ IF \E c \in Matching(k) : c.partitioned THEN Fails(k) ELSE Turn(k, "listed")
    /\ want' = [want EXCEPT ![k] = KeysOf(Matching(k))]
    /\ Still /\ UNCHANGED <<jar, doomed>>

\* What an import adds is not partitioned or is, as its file says.
SetCookies(k) ==
    /\ Ready(k, {"set_cookies"}) /\ Done(k, 0)
    /\ \E b \in BOOLEAN : jar' = jar \cup {[key |-> x, partitioned |-> b] : x \in want[k]}
    /\ Still /\ UNCHANGED <<want, doomed>>

\* _delete_cookies_live: of several cookies with one key the dictionary holds the
\* one that came last, and only what it holds is looked at.
Doomed(k) ==
    {f \in [KeysOf(Matching(k)) -> jar] : \A x \in DOMAIN f : f[x].key = x}

CheckDoomed(k) ==
    /\ Ready(k, {"delete_cookies"})
    /\ \E f \in Doomed(k) :
         \/ (\E x \in DOMAIN f : f[x].partitioned) /\ Fails(k) /\ UNCHANGED doomed
         \/ DOMAIN f = {} /\ Done(k, 0) /\ UNCHANGED doomed
         \/ /\ DOMAIN f # {} /\ \A x \in DOMAIN f : ~f[x].partitioned
            /\ pages # <<>>
            /\ Turn(k, "deleting") /\ doomed' = [doomed EXCEPT ![k] = DOMAIN f]
    /\ Still /\ UNCHANGED <<jar, want>>

\* Network.deleteCookies without a partition key; whether partitioned cookies of that
\* name go too is the browser's business.
DeleteCookie(k) ==
    /\ call[k].st = "deleting"
    /\ \E x \in doomed[k] :
         /\ \/ jar' = {c \in jar : c.key # x}
            \/ jar' = {c \in jar : c.key # x \/ c.partitioned}
         /\ doomed' = [doomed EXCEPT ![k] = @ \ {x}]
         /\ IF doomed[k] = {x} THEN Done(k, 0) ELSE UNCHANGED call
    /\ Still /\ UNCHANGED want

\* A page sets a cookie, or removes one.
PageSetsCookie ==
    /\ Event /\ pages # <<>>
    /\ \E c \in Cookie : jar' = jar \cup {c} \/ jar' = jar \ {c}
    /\ UNCHANGED <<engine, pages, opened, generation, Browser, call, void, want, doomed>>

CookieClient(k) == SendCookies(k) \/ SendImport(k) \/ SendClear(k) \/ SendMatches(k)

CookieCommand(k) ==
    \/ Cookies(k) \/ ListMatches(k) \/ SetCookies(k) \/ CheckDoomed(k) \/ DeleteCookie(k)

\* The types of the jar and of what calls ask of it.
CookieTypeOK ==
    /\ jar \subseteq Cookie
    /\ want \in [Calls -> SUBSET Keys] /\ doomed \in [Calls -> SUBSET Keys]

=============================================================================
