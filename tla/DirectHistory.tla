--------------------------- MODULE DirectHistory ---------------------------
(***************************************************************************)
(* The Direct engine with a record of who got in whose way.  The steps are *)
(* those of DirectEngine and none is restricted; three history variables   *)
(* note which processes act on a running.json that has changed since they  *)
(* read it, whether a state that still counted was removed or replaced,    *)
(* and whether a launcher died holding a browser.  They tell what has to   *)
(* happen before a profile has two browsers, or one that is on no record.  *)
(***************************************************************************)
EXTENDS DirectEngine

VARIABLES
    outdated,   \* history: those whose view of running.json has been overtaken
    overruled,  \* history: a state that counted has been removed or replaced
    abandoned   \* history: a launcher has died holding a browser

history     == <<outdated, overruled, abandoned>>
historyVars == <<vars, history>>

HInit == Init /\ outdated = {} /\ overruled = FALSE /\ abandoned = FALSE

-----------------------------------------------------------------------------

\* From the creation of running.json to the record or the end of the launch.
Holding == {"initial", "spawn", "wait", "identify", "record", "stop", "unlink_failed"}

\* ... with a browser in hand.
WithBrowser == {"wait", "identify", "record", "stop"}

\* The state says that q is launching; that the browser k runs.
SaysLaunching(s, q) == s # NoFile /\ s.pid = NoPid /\ s.launcher = q
SaysRunning(s, k)   == s # NoFile /\ s.pid = k /\ s.ctime = os[k].born

\* What somebody relies on: the state of a launch under way, or of a running browser.
Overrules(p) ==
    \/ \E q \in Procs \ {p} :
         pc[q] \in Holding /\ SaysLaunching(file, q) /\ ~SaysLaunching(file', q)
    \/ \E k \in Browsers : SaysRunning(file, k) /\ ~SaysRunning(file', k)

\* Where a step reads running.json.
Looking == {"read", "precheck", "reread"}

\* A change of running.json overtakes everybody else.
Note(p) ==
    /\ outdated' =
         IF file' # file THEN Procs \ {p}
         ELSE IF pc[p] \in Looking THEN outdated \ {p}
         ELSE outdated
    /\ overruled' = (overruled \/ Overrules(p))
    /\ abandoned' = (abandoned \/ /\ pc[p] \in WithBrowser /\ pc'[p] = "down"
                                  /\ child[p].pid \in Browsers)

Actor(p) == (Begin(p) \/ Step(p) \/ Die(p) \/ ComeBack(p)) /\ Note(p)

HNext ==
    \/ \E p \in Procs : Actor(p)
    \/ /\ \E k \in Pids : BrowserExits(k) \/ StrangerStarts(k) \/ StrangerExits(k) \/ Killed(k)
       /\ UNCHANGED history

HSpec == HInit /\ [][HNext]_historyVars

\* The fairness of DirectEngine: who runs a command goes on with it.
HFairSpec ==
    /\ HSpec
    /\ \A p \in Procs : WF_historyVars(Step(p) /\ Note(p))
    /\ \A k \in Pids : WF_historyVars(Killed(k) /\ UNCHANGED history)

-----------------------------------------------------------------------------

\* A profile has two browsers, or one that running.json does not name, only after a
\* state that counted was removed or replaced, or after a launcher died holding its
\* browser: however many launches, polls and closes race, whichever browsers exit,
\* whatever pids are recycled, and whoever else crashes.
LossHasACause ==
    overruled \/ abandoned \/ (OneBrowser /\ BrowserOnRecord)

\* Nobody removes or replaces a state that counts with an up-to-date view of it, but
\* for a close of a launch that has no browser yet (process/direct.py, _close_direct);
\* and no launch does when it claims the profile, however outdated its view.
OnlyOutdatedOverrule ==
    [][\A p \in Procs : pc'[p] # pc[p] /\ Overrules(p) =>
         /\ pc[p] # "create"
         /\ p \in outdated \/ (pc[p] = "unlink_closed" /\ snap[p].pid = NoPid)]_historyVars

=============================================================================
