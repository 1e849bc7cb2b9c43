------------------------ MODULE SessionGuard_proofs ------------------------
(***************************************************************************)
(* A proof, for any number of tabs, calls and clients, that a command      *)
(* which names the generation of a tab list acts on the tab that the list  *)
(* shows at its index (_generation_stale of process/controller.py).        *)
(***************************************************************************)
EXTENDS SessionSystem_proofs

\* The commands that may name a generation, and where a call is when it is neither one of
\* them nor asks for a list.
Guarded == {"close_tab", "read_page", "eval", "capture"}
Apart == {"new", "opening", "tree", "refs", "listed", "deleting"}

\* A guarded call was made from an answered tab list, for one of its tabs.
MadeFrom(c) ==
    c.from # 0 => /\ c.cmd \in Guarded
                  /\ c.from \in Lists /\ c.tab < Len(call[c.from].seen)

\* The tabs of a list are still at their places; others come behind them.
Agrees(j) ==
    /\ Len(call[j].seen) <= Len(pages)
    /\ \A i \in 1..Len(call[j].seen) : call[j].seen[i] = pages[i]

\* A tab that is being opened, and will be closed if that fails, is none of a list's.
NotOpening(j) ==
    \A k \in Calls : call[k].st = "opening" =>
        \A i \in 1..Len(call[j].seen) : call[j].seen[i] # call[k].page

KeptApart(c) == c.st \in Apart => c.cmd \notin Guarded \cup {"tabs"}

GuardInv ==
    /\ \A k \in Calls : MadeFrom(call[k]) /\ KeptApart(call[k])
    /\ \A i \in 1..Len(pages) : pages[i] \in 1..opened
    /\ \A j \in Lists : \A i \in 1..Len(call[j].seen) : call[j].seen[i] \in 1..opened
    /\ engine = "off" => Lists \subseteq void
    /\ engine = "playwright" =>
         \A j \in Lists \ void :
            /\ call[j].gen <= generation
            /\ call[j].gen = generation => Agrees(j) /\ NotOpening(j)
    /\ GuardedIndex

-----------------------------------------------------------------------------
(* What the steps have in common. *)

\* Whether a value of a call is an answered tab list.
IsList(c) == c.cmd = "tabs" /\ c.st = "done"

\* What a guarded call that has been executed was to act on.
ActedRight(c) ==
    engine = "playwright" /\ c.st = "done" /\ c.from # 0 /\ c.from \notin void
        => c.page = call[c.from].seen[c.tab + 1]

\* A call may take this value in a step that answers no tab list.
Fine(c) ==
    /\ ~IsList(c) /\ KeptApart(c) /\ MadeFrom(c) /\ ActedRight(c)
    /\ c.st = "opening" => c.page > opened

\* No tab list is answered or lost, a tab that is being opened is a new one, and every
\* call that is executed acted on what it was to act on.
CallsFine ==
    \A k \in Calls : call'[k] = call[k] \/ (~IsList(call[k]) /\ Fine(call'[k]))

\* The lists that are not void stay behind the generation, or right.
PagesFollow ==
    engine' = "playwright" =>
        \A j \in Lists \ void' :
            /\ engine = "playwright" /\ generation <= generation'
            /\ generation = generation' /\ call[j].gen = generation =>
                 /\ Len(call[j].seen) <= Len(pages')
                 /\ \A i \in 1..Len(call[j].seen) : call[j].seen[i] = pages'[i]

PagesStep ==
    /\ opened <= opened' /\ void \subseteq void'
    /\ \A i \in 1..Len(pages') : pages'[i] \in 1..opened'
    /\ engine' = "off" => Lists \subseteq void'
    /\ PagesFollow

Session == SessionTypeOK /\ GuardInv

LEMMA CallFields ==
  ASSUME SessionTypeOK, NEW k \in Calls
  PROVE  /\ call[k] \in Call /\ call[k].gen \in Nat /\ call[k].page \in Nat /\ call[k].tab \in Nat
         /\ call[k].seen \in Seq(Pages \cup Nodes) /\ Len(call[k].seen) \in Nat
         /\ call[k].from \in Nat
  BY CallTypes DEF SessionTypeOK

LEMMA SessionNats ==
  ASSUME SessionTypeOK
  PROVE  opened \in Nat /\ generation \in Nat /\ Len(pages) \in Nat /\ pages \in Seq(Pages)
  BY ConstTypes DEF SessionTypeOK

\* Such a step keeps the invariant.
LEMMA FineKeeps ==
  ASSUME Session, SessionTypeOK', CallsFine, PagesStep
  PROVE  GuardInv'
<1> USE DEF Session
<1>0. /\ opened \in Nat /\ opened' \in Nat /\ generation \in Nat /\ generation' \in Nat
      /\ \A k \in Calls : call'[k] \in Call
  BY ConstTypes DEF SessionTypeOK
<1>1. \A j \in Lists : j \in Calls /\ IsList(call[j]) /\ call'[j] = call[j]
  BY DEF Lists, IsList, CallsFine
<1>2. Lists' = Lists
  <2>1. \A j \in Calls : j \in Lists <=> IsList(call[j])
    BY DEF Lists, IsList
  <2>2. \A j \in Calls : j \in Lists' <=> IsList(call'[j])
    BY DEF Lists, IsList
  <2>3. \A j \in Calls : IsList(call'[j]) <=> IsList(call[j])
    BY DEF CallsFine, Fine
  <2>4. Lists \subseteq Calls /\ Lists' \subseteq Calls
    BY DEF Lists
  <2> QED BY <2>1, <2>2, <2>3, <2>4
<1>3. ASSUME NEW k \in Calls PROVE MadeFrom(call[k])' /\ KeptApart(call[k])'
  <2>1. MadeFrom(call'[k]) /\ KeptApart(call'[k])
    BY DEF CallsFine, Fine, GuardInv
  <2> QED BY <2>1, <1>1, <1>2 DEF MadeFrom, KeptApart
<1>4. \A j \in Lists' : \A i \in 1..Len(call'[j].seen) : call'[j].seen[i] \in 1..opened'
  BY <1>0, <1>1, <1>2 DEF GuardInv, PagesStep
<1>5. ASSUME engine' = "playwright", NEW j \in Lists' \ void'
      PROVE  /\ call'[j].gen <= generation'
             /\ call'[j].gen = generation' => Agrees(j)' /\ NotOpening(j)'
  <2>1. j \in Lists \ void /\ j \in Lists \ void' /\ call'[j] = call[j] /\ j \in Calls
    BY <1>1, <1>2, <1>5 DEF PagesStep
  <2>2. engine = "playwright" /\ generation <= generation'
    BY <1>5, <2>1 DEF PagesStep, PagesFollow
  <2>3. call[j].gen <= generation
    BY <2>1, <2>2 DEF GuardInv
  <2>4. call[j].gen \in Nat /\ generation \in Nat /\ generation' \in Nat
    BY <1>0, <2>1, CallFields
  <2>5. ASSUME call'[j].gen = generation' PROVE Agrees(j)' /\ NotOpening(j)'
    <3>1. generation = generation' /\ call[j].gen = generation
      BY <2>1, <2>2, <2>3, <2>4, <2>5
    <3>2. Agrees(j)'
      BY <1>5, <2>1, <3>1 DEF PagesStep, PagesFollow, Agrees
    <3>3. NotOpening(j)
      BY <2>1, <2>2, <3>1 DEF GuardInv
    <3>4. ASSUME NEW k \in Calls, call'[k].st = "opening", NEW i \in 1..Len(call[j].seen)
          PROVE  call[j].seen[i] # call'[k].page
      <4>1. CASE call'[k] = call[k]
        BY <3>3, <3>4, <4>1 DEF NotOpening
      <4>2. CASE call'[k].page > opened
        <5>1. call[j].seen[i] \in 1..opened /\ opened \in Nat /\ call'[k].page \in Nat
          BY <1>0, <2>1, CallTypes DEF GuardInv
        <5> QED BY <4>2, <5>1
      <4> QED BY <3>4, <4>1, <4>2 DEF CallsFine, Fine
    <3> QED BY <2>1, <3>2, <3>4 DEF NotOpening
  <2> QED BY <2>1, <2>2, <2>3, <2>4, <2>5
<1>6. GuardedIndex'
  <2> SUFFICES ASSUME NEW k \in Calls, engine' = "playwright", call'[k].st = "done",
                      call'[k].from # 0, call'[k].from \notin void'
               PROVE  call'[k].page = call'[call'[k].from].seen[call'[k].tab + 1]
    BY DEF GuardedIndex
  <2> DEFINE j == call'[k].from
  <2>1. j \in Lists
    BY <1>2, <1>3 DEF MadeFrom
  <2>2. call'[j] = call[j] /\ j \notin void /\ engine = "playwright"
    BY <1>1, <2>1 DEF PagesStep, PagesFollow
  <2>3. CASE call'[k] = call[k]
    BY <2>2, <2>3 DEF GuardInv, GuardedIndex
  <2>4. CASE Fine(call'[k])
    BY <2>2, <2>4 DEF Fine, ActedRight
  <2> QED BY <2>3, <2>4 DEF CallsFine
<1>7. engine' = "off" => Lists' \subseteq void'
  BY <1>2 DEF PagesStep
<1> QED BY <1>3, <1>4, <1>5, <1>6, <1>7 DEF GuardInv, PagesStep

-----------------------------------------------------------------------------
(* What happens to the tabs. *)

LEMMA RemoveAtFacts ==
  ASSUME NEW S, NEW s \in Seq(S), NEW i \in 1..Len(s)
  PROVE  /\ Len(RemoveAt(s, i)) = Len(s) - 1
         /\ \A m \in 1..(i - 1) : RemoveAt(s, i)[m] = s[m]
         /\ \A m \in i..(Len(s) - 1) : RemoveAt(s, i)[m] = s[m + 1]
<1> DEFINE a == SubSeq(s, 1, i - 1)
           b == SubSeq(s, i + 1, Len(s))
<1>1. Len(s) \in Nat /\ i \in Nat /\ i >= 1 /\ i <= Len(s)
  OBVIOUS
<1>2. a \in Seq(S) /\ Len(a) = i - 1 /\ \A m \in 1..(i - 1) : a[m] = s[m]
  BY <1>1
<1>3. b \in Seq(S) /\ Len(b) = Len(s) - i /\ \A m \in 1..(Len(s) - i) : b[m] = s[i + m]
  BY <1>1
<1>4. RemoveAt(s, i) = a \o b
  BY DEF RemoveAt
<1> HIDE DEF a, b
<1>5. /\ Len(a \o b) = Len(a) + Len(b)
      /\ \A m \in 1..(Len(a) + Len(b)) : (a \o b)[m] = IF m <= Len(a) THEN a[m] ELSE b[m - Len(a)]
  BY <1>2, <1>3, ConcatProperties
<1>6. Len(a \o b) = Len(s) - 1
  BY <1>1, <1>2, <1>3, <1>5
<1>7. \A m \in 1..(i - 1) : (a \o b)[m] = s[m]
  BY <1>1, <1>2, <1>3, <1>5
<1>8. ASSUME NEW m \in i..(Len(s) - 1) PROVE (a \o b)[m] = s[m + 1]
  <2>1. (a \o b)[m] = b[m - (i - 1)] /\ m - (i - 1) \in 1..(Len(s) - i)
    BY <1>1, <1>2, <1>3, <1>5
  <2>2. b[m - (i - 1)] = s[i + (m - (i - 1))] /\ i + (m - (i - 1)) = m + 1
    BY <2>1, <1>1, <1>3
  <2> QED BY <2>1, <2>2
<1> QED BY <1>4, <1>6, <1>7, <1>8

\* The tabs and the session stay as they are.
LEMMA StillPages ==
  ASSUME Session, UNCHANGED <<engine, pages, opened, generation, void>>
  PROVE  PagesStep
  BY SessionNats DEF Session, GuardInv, PagesStep, PagesFollow, Agrees

\* A session starts.
LEMMA StartsPages ==
  ASSUME Session, NEW e \in {"playwright", "direct"}, Starts(e), UNCHANGED <<generation, void>>
  PROVE  PagesStep
<1>1. engine = "off" /\ engine' = e /\ Lists \subseteq void
  BY DEF Starts, Session, GuardInv
<1>2. PICK p \in Pages : p = opened + 1 /\ opened' = p /\ pages' = <<p>>
  BY DEF Starts, Opens
<1>3. opened \in Nat
  BY SessionNats DEF Session
<1> QED BY <1>1, <1>2, <1>3 DEF PagesStep, PagesFollow

LEMMA ReachPages ==
  ASSUME Session, NEW auto \in BOOLEAN, Reach(auto), UNCHANGED <<generation, void>>
  PROVE  PagesStep
  BY StillPages, StartsPages DEF Reach

\* A tab is opened, behind the others.
LEMMA AppendPages ==
  ASSUME Session, NEW p \in Pages, Opens(p), pages' = Append(pages, p),
         UNCHANGED <<engine, generation, void>>
  PROVE  PagesStep
<1>1. opened \in Nat /\ p = opened + 1 /\ opened' = p /\ Len(pages) \in Nat /\ pages \in Seq(Pages)
  BY SessionNats DEF Opens, Session
<1>2. Len(pages') = Len(pages) + 1 /\ \A i \in 1..Len(pages) : pages'[i] = pages[i]
  BY <1>1
<1>3. pages'[Len(pages) + 1] = p
  BY <1>1
<1>4. \A i \in 1..Len(pages') : pages'[i] \in 1..opened'
  <2> SUFFICES ASSUME NEW i \in 1..Len(pages') PROVE pages'[i] \in 1..opened'
    OBVIOUS
  <2>1. CASE i \in 1..Len(pages)
    BY <2>1, <1>1, <1>2 DEF Session, GuardInv
  <2>2. CASE i = Len(pages) + 1
    BY <2>2, <1>1, <1>3
  <2> QED BY <2>1, <2>2, <1>1, <1>2
<1>5. PagesFollow
  <2> SUFFICES ASSUME engine' = "playwright", NEW j \in Lists \ void', call[j].gen = generation
               PROVE  /\ Len(call[j].seen) <= Len(pages')
                      /\ \A i \in 1..Len(call[j].seen) : call[j].seen[i] = pages'[i]
    BY SessionNats DEF PagesFollow, Session
  <2>1. Agrees(j) /\ j \in Calls
    BY DEF Session, GuardInv, Lists
  <2>2. Len(call[j].seen) \in Nat
    BY <2>1, CallFields DEF Session
  <2> QED BY <2>1, <2>2, <1>1, <1>2 DEF Agrees
<1> QED BY <1>1, <1>4, <1>5 DEF PagesStep, Session, GuardInv

\* What is left when a tab was closed.
LEMMA ClosePages ==
  ASSUME Session, NEW i \in 1..Len(pages), pages' = RemoveAt(pages, i), UNCHANGED opened
  PROVE  \A m \in 1..Len(pages') : pages'[m] \in 1..opened'
<1>1. pages \in Seq(Pages) /\ Len(pages) \in Nat
  BY SessionNats DEF Session
<1> SUFFICES ASSUME NEW m \in 1..Len(pages') PROVE pages'[m] \in 1..opened'
  OBVIOUS
<1>2. /\ Len(pages') = Len(pages) - 1
      /\ \A n \in 1..(i - 1) : pages'[n] = pages[n]
      /\ \A n \in i..(Len(pages) - 1) : pages'[n] = pages[n + 1]
  BY <1>1, RemoveAtFacts
<1>3. CASE m \in 1..(i - 1)
  BY <1>1, <1>2, <1>3 DEF Session, GuardInv
<1>4. CASE m \in i..(Len(pages) - 1)
  BY <1>1, <1>2, <1>4 DEF Session, GuardInv
<1> QED BY <1>1, <1>2, <1>3, <1>4

\* A tab that closes uncounted outdates every list there is.
LEMMA UncountedPages ==
  ASSUME Session, NEW i \in 1..Len(pages), ClosesUncounted(i),
         UNCHANGED <<engine, opened, generation>>
  PROVE  PagesStep
<1>1. pages' = RemoveAt(pages, i) /\ void' = void \cup Lists /\ opened \in Nat
  BY SessionNats DEF ClosesUncounted, Closes, Session
<1>2. \A m \in 1..Len(pages') : pages'[m] \in 1..opened'
  BY <1>1, ClosePages
<1> QED BY <1>1, <1>2 DEF PagesStep, PagesFollow

\* Whatever a page does, no list is misled that is not outdated.
LEMMA BehavesPages ==
  ASSUME Session, NEW p, Behaves(p), UNCHANGED <<engine, generation>>
  PROVE  PagesStep
<1>1. CASE UNCHANGED <<pages, opened, void>>
  BY <1>1, StillPages
<1>2. CASE \E q \in Pages : Opens(q) /\ pages' = Append(pages, q) /\ UNCHANGED <<Browser, void>>
  BY <1>2, AppendPages
<1>3. CASE \E i \in DOMAIN pages : pages[i] = p /\ ClosesUncounted(i) /\ UNCHANGED opened
  <2>1. DOMAIN pages = 1..Len(pages)
    BY SessionNats DEF Session
  <2> QED BY <1>3, <2>1, UncountedPages
<1> QED BY <1>1, <1>2, <1>3 DEF Behaves

\* A tab that could not be opened goes again: it is none of a list's.
LEMMA FailedTabPages ==
  ASSUME Session, NEW k \in Calls, OpenTabFails(k)
  PROVE  PagesStep
<1>1. UNCHANGED <<engine, opened, generation, void>> /\ call[k].st = "opening"
  BY DEF OpenTabFails
<1>2. CASE UNCHANGED pages
  BY <1>1, <1>2, StillPages
<1>3. CASE \E i \in DOMAIN pages : pages[i] = call[k].page /\ Closes(i)
  <2>1. pages \in Seq(Pages) /\ Len(pages) \in Nat /\ DOMAIN pages = 1..Len(pages)
    BY SessionNats DEF Session
  <2>2. PICK i \in 1..Len(pages) : pages[i] = call[k].page /\ pages' = RemoveAt(pages, i)
    BY <1>3, <2>1 DEF Closes
  <2>3. \A m \in 1..Len(pages') : pages'[m] \in 1..opened'
    BY <1>1, <2>2, ClosePages
  <2>4. PagesFollow
    <3> SUFFICES ASSUME engine' = "playwright", NEW j \in Lists \ void', call[j].gen = generation
                 PROVE  /\ Len(call[j].seen) <= Len(pages')
                        /\ \A m \in 1..Len(call[j].seen) : call[j].seen[m] = pages'[m]
      BY <1>1, SessionNats DEF PagesFollow, Session
    <3>1. Agrees(j) /\ NotOpening(j) /\ j \in Calls
      BY <1>1 DEF Session, GuardInv, Lists
    <3>2. Len(call[j].seen) \in Nat
      BY <3>1, CallFields DEF Session
    <3>3. i \notin 1..Len(call[j].seen)
      BY <1>1, <2>2, <3>1 DEF Agrees, NotOpening
    <3>4. Len(call[j].seen) <= i - 1
      BY <2>2, <3>2, <3>3
    <3>5. Len(pages') = Len(pages) - 1 /\ \A m \in 1..(i - 1) : pages'[m] = pages[m]
      BY <2>1, <2>2, RemoveAtFacts
    <3> QED BY <2>1, <3>1, <3>2, <3>4, <3>5 DEF Agrees
  <2> QED BY <1>1, <2>3, <2>4, SessionNats DEF PagesStep, Session, GuardInv
<1> QED BY <1>2, <1>3 DEF OpenTabFails

-----------------------------------------------------------------------------
(* What happens to the calls. *)

\* One call takes another value.
LEMMA OneCall ==
  ASSUME Session, NEW k \in Calls, NEW c, call' = [call EXCEPT ![k] = c],
         ~IsList(call[k]), Fine(c)
  PROVE  CallsFine
<1>1. call' \in [Calls -> Call \cup {c}] /\ call'[k] = c /\ \A l \in Calls : l # k => call'[l] = call[l]
  BY DEF Session, SessionTypeOK
<1> QED BY <1>1 DEF CallsFine

LEMMA CallRestsFine ==
  ASSUME UNCHANGED call
  PROVE  CallsFine
  BY DEF CallsFine

\* Nothing is said of a call that is not made from a list.
LEMMA FreshFine ==
  ASSUME NEW c, c.from = 0, ~IsList(c), KeptApart(c), c.st # "opening"
  PROVE  Fine(c)
  BY DEF Fine, MadeFrom, ActedRight

LEMMA FailsFine ==
  ASSUME Session, NEW k \in Calls, ~IsList(call[k]), Fails(k)
  PROVE  CallsFine
<1> DEFINE c == [NoCall EXCEPT !.cmd = call[k].cmd, !.st = "failed"]
<1>1. c.from = 0 /\ c.st = "failed"
  BY DEF NoCall
<1>2. call' = [call EXCEPT ![k] = c]
  BY DEF Fails
<1> HIDE DEF c
<1>3. Fine(c)
  BY <1>1, FreshFine DEF IsList, KeptApart, Apart
<1> QED BY <1>2, <1>3, OneCall

\* A call goes on; where it leaves the queue for good it was never a guarded one.
LEMMA TurnFine ==
  ASSUME Session, NEW k \in Calls, NEW s \in {"ready", "listed", "deleting"}, Turn(k, s),
         ~IsList(call[k]), s # "ready" => call[k].cmd \notin Guarded \cup {"tabs"}
  PROVE  CallsFine
<1> DEFINE c == [call[k] EXCEPT !.st = s]
<1>1. call[k] \in Call
  BY CallFields DEF Session
<1>2. c.st = s /\ c.cmd = call[k].cmd /\ c.from = call[k].from /\ c.tab = call[k].tab
  BY <1>1 DEF Call
<1>3. call' = [call EXCEPT ![k] = c]
  BY DEF Turn
<1> HIDE DEF c
<1>4. MadeFrom(c)
  BY <1>2 DEF MadeFrom, Session, GuardInv
<1>5. Fine(c)
  BY <1>2, <1>4 DEF Fine, IsList, KeptApart, Apart, ActedRight
<1> QED BY <1>3, <1>5, OneCall

\* A call is done, and acted on what it was to act on.
LEMMA DoneFine ==
  ASSUME Session, NEW k \in Calls, NEW p, Done(k, p), ~IsList(call[k]), call[k].cmd # "tabs",
         engine = "playwright" /\ call[k].from # 0 /\ call[k].from \notin void
           => p = call[call[k].from].seen[call[k].tab + 1]
  PROVE  CallsFine
<1>1. call[k] \in Call
  BY CallFields DEF Session
<1>2. CASE call[k].from = 0
  <2> DEFINE c == [NoCall EXCEPT !.cmd = call[k].cmd, !.st = "done"]
  <2>1. c.from = 0 /\ c.st = "done" /\ c.cmd = call[k].cmd
    BY DEF NoCall
  <2>2. call' = [call EXCEPT ![k] = c]
    BY <1>2 DEF Done
  <2> HIDE DEF c
  <2>3. Fine(c)
    BY <2>1, FreshFine DEF IsList, KeptApart, Apart
  <2> QED BY <2>2, <2>3, OneCall
<1>3. CASE call[k].from # 0
  <2> DEFINE c == [call[k] EXCEPT !.st = "done", !.page = p]
  <2>1. c.st = "done" /\ c.page = p /\ c.cmd = call[k].cmd /\ c.from = call[k].from
        /\ c.tab = call[k].tab
    BY <1>1 DEF Call
  <2>2. call' = [call EXCEPT ![k] = c]
    BY <1>3 DEF Done
  <2> HIDE DEF c
  <2>3. MadeFrom(c)
    BY <2>1 DEF MadeFrom, Session, GuardInv
  <2>4. Fine(c)
    BY <2>1, <2>3 DEF Fine, IsList, KeptApart, Apart, ActedRight
  <2> QED BY <2>2, <2>4, OneCall
<1> QED BY <1>2, <1>3

\* Where no generation is named nothing is to be acted on.
LEMMA DoneApart ==
  ASSUME Session, NEW k \in Calls, NEW p, Done(k, p), ~IsList(call[k]),
         call[k].cmd \notin Guarded \cup {"tabs"}
  PROVE  CallsFine
<1>1. call[k].from = 0
  BY DEF Session, GuardInv, MadeFrom
<1> QED BY <1>1, DoneFine

\* The tab at the index of a call whose generation is still right is the list's.
LEMMA GuardHits ==
  ASSUME Session, NEW k \in Calls, engine = "playwright", call[k].from # 0,
         call[k].from \notin void, ~GenerationStale(k)
  PROVE  PageOf(k) = call[call[k].from].seen[call[k].tab + 1]
<1> DEFINE j == call[k].from
<1>1. j \in Lists /\ call[k].tab < Len(call[j].seen)
  BY DEF Session, GuardInv, MadeFrom
<1>2. Agrees(j) /\ j \in Calls
  BY <1>1 DEF GenerationStale, Session, GuardInv, Lists
<1>3. call[k].tab \in Nat /\ Len(call[j].seen) \in Nat
  BY <1>2, CallFields DEF Session
<1>4. call[k].tab + 1 \in 1..Len(call[j].seen)
  BY <1>1, <1>3
<1> QED BY <1>2, <1>4 DEF Agrees, PageOf

LEMMA GuardedDone ==
  ASSUME Session, NEW k \in Calls, Ready(k, Guarded), ~GenerationStale(k), Done(k, PageOf(k))
  PROVE  CallsFine
<1>1. ~IsList(call[k]) /\ call[k].cmd # "tabs"
  BY DEF Ready, Guarded, IsList
<1> QED BY <1>1, GuardHits, DoneFine

-----------------------------------------------------------------------------
(* The actions. *)

\* A tab list is answered: it is that of the moment, and no tab is being opened.
LEMMA TabsKeeps ==
  ASSUME Session, NEW k \in Calls, Tabs(k), engine # "off"
  PROVE  GuardInv'
<1> USE DEF Session
<1> DEFINE c == [call[k] EXCEPT !.st = "done", !.seen = pages, !.gen = generation]
<1>1. call[k] \in Call /\ call[k].st = "ready" /\ call[k].cmd = "tabs"
  BY CallFields DEF Tabs, Ready
<1>2. /\ c.st = "done" /\ c.seen = pages /\ c.gen = generation /\ c.cmd = "tabs"
      /\ c.from = call[k].from /\ c.tab = call[k].tab
  BY <1>1 DEF Call
<1>3. call' = [call EXCEPT ![k] = c]
  BY DEF Tabs
<1> HIDE DEF c
<1>4. call'[k] = c /\ \A l \in Calls : l # k => call'[l] = call[l]
  BY <1>3 DEF SessionTypeOK
<1>5. UNCHANGED <<engine, pages, opened, generation, void>>
  BY DEF Tabs
<1>6. c.from = 0
  BY <1>1, <1>2 DEF GuardInv, MadeFrom, Guarded
<1>7. k \notin Lists /\ Lists' = Lists \cup {k} /\ Lists \subseteq Calls
  BY <1>1, <1>2, <1>4 DEF Lists
<1>8. \A j \in Lists : call'[j] = call[j]
  BY <1>4, <1>7
<1>9. ASSUME NEW l \in Calls PROVE MadeFrom(call[l])' /\ KeptApart(call[l])'
  <2>1. CASE l = k
    BY <2>1, <1>2, <1>4, <1>6 DEF MadeFrom, KeptApart, Apart
  <2>2. CASE l # k
    <3>1. MadeFrom(call[l]) /\ KeptApart(call[l]) /\ call'[l] = call[l]
      BY <2>2, <1>4 DEF GuardInv
    <3> QED BY <3>1, <1>7, <1>8 DEF MadeFrom, KeptApart
  <2> QED BY <2>1, <2>2
<1>10. \A i \in 1..Len(pages') : pages'[i] \in 1..opened'
  BY <1>5 DEF GuardInv
<1>11. \A j \in Lists' : \A i \in 1..Len(call'[j].seen) : call'[j].seen[i] \in 1..opened'
  BY <1>2, <1>4, <1>5, <1>7, <1>8 DEF GuardInv
<1>12. engine' # "off"
  BY <1>5
<1>13. ASSUME engine' = "playwright", NEW j \in Lists' \ void'
       PROVE  /\ call'[j].gen <= generation'
              /\ call'[j].gen = generation' => Agrees(j)' /\ NotOpening(j)'
  <2>1. generation \in Nat /\ Len(pages) \in Nat
    BY SessionNats
  <2>2. CASE j = k
    <3>1. Agrees(j)'
      BY <2>1, <2>2, <1>2, <1>4, <1>5 DEF Agrees
    <3>2. \A l \in Calls : call'[l].st # "opening"
      <4>1. k \in Executing /\ \A l \in Executing : l = k
        BY <1>1, <1>5, <1>13 DEF Executing, SessionTypeOK
      <4> QED BY <4>1, <1>2, <1>4 DEF Executing
    <3> QED BY <2>1, <2>2, <3>1, <3>2, <1>2, <1>4, <1>5 DEF NotOpening
  <2>3. CASE j # k
    <3>1. j \in Lists \ void /\ engine = "playwright" /\ call'[j] = call[j]
      BY <2>3, <1>5, <1>7, <1>8, <1>13
    <3>2. /\ call[j].gen <= generation
          /\ call[j].gen = generation => Agrees(j) /\ NotOpening(j)
      BY <3>1 DEF GuardInv
    <3>3. \A l \in Calls : call'[l].st = "opening" => call'[l] = call[l]
      BY <1>2, <1>4
    <3> QED BY <3>1, <3>2, <3>3, <1>5 DEF Agrees, NotOpening
  <2> QED BY <2>2, <2>3
<1>14. GuardedIndex'
  <2> SUFFICES ASSUME NEW l \in Calls, engine' = "playwright", call'[l].st = "done",
                      call'[l].from # 0, call'[l].from \notin void'
               PROVE  call'[l].page = call'[call'[l].from].seen[call'[l].tab + 1]
    BY DEF GuardedIndex
  <2>1. l # k /\ call'[l] = call[l]
    BY <1>2, <1>4, <1>6
  <2>2. call[l].from \in Lists
    BY <2>1 DEF GuardInv, MadeFrom
  <2>3. call'[call[l].from] = call[call[l].from]
    BY <2>2, <1>8
  <2> QED BY <2>1, <2>3, <1>5 DEF GuardInv, GuardedIndex
<1> QED BY <1>9, <1>10, <1>11, <1>12, <1>13, <1>14 DEF GuardInv

\* A step of the session and one of the calls.
Good == CallsFine /\ PagesStep

LEMMA SentFine ==
  ASSUME Session, NEW k \in Calls, NEW request, call' = [call EXCEPT ![k] = request],
         call[k].st # "done", request.st = "sent", MadeFrom(request)
  PROVE  CallsFine
<1>1. ~IsList(call[k])
  BY DEF IsList
<1>2. Fine(request)
  BY DEF Fine, IsList, KeptApart, Apart, ActedRight
<1> QED BY <1>1, <1>2, OneCall

LEMMA SendGood ==
  ASSUME Session, NEW k \in Calls, NEW auto \in BOOLEAN, NEW request,
         request.st = "sent", MadeFrom(request), Send(k, auto, request)
  PROVE  Good
<1>1. call[k].st = "new" /\ call[k] \in Call /\ UNCHANGED <<generation, void>>
  BY CallFields DEF Send, Session
<1>2. CASE Reach(auto) /\ call' = [call EXCEPT ![k] = request]
  BY <1>1, <1>2, ReachPages, SentFine DEF Good
<1>3. CASE /\ call' = [call EXCEPT ![k].cmd = request.cmd, ![k].st = "failed"]
           /\ UNCHANGED <<engine, pages, opened>>
  <2> DEFINE c == [call[k] EXCEPT !.cmd = request.cmd, !.st = "failed"]
  <2>1. c.st = "failed" /\ c.from = call[k].from
    BY <1>1 DEF Call
  <2>2. call' = [call EXCEPT ![k] = c]
    BY <1>3
  <2> HIDE DEF c
  <2>3. call[k].from = 0
    BY <1>1 DEF Session, GuardInv, MadeFrom, KeptApart, Apart
  <2>4. Fine(c) /\ ~IsList(call[k])
    BY <2>1, <2>3, <1>1, FreshFine DEF IsList, KeptApart, Apart
  <2> QED BY <1>1, <1>3, <2>2, <2>4, OneCall, StillPages DEF Good
<1> QED BY <1>2, <1>3 DEF Send

\* Most requests name no generation.
LEMMA RequestGood ==
  ASSUME Session, NEW k \in Calls, NEW auto \in BOOLEAN, NEW c, NEW i, NEW r,
         Send(k, auto, Request(c, i, 0, r))
  PROVE  Good
<1>1. Request(c, i, 0, r).st = "sent" /\ Request(c, i, 0, r).from = 0
  BY DEF Request, NoCall
<1>2. MadeFrom(Request(c, i, 0, r))
  BY <1>1 DEF MadeFrom
<1> HIDE DEF Request
<1> QED BY <1>1, <1>2, SendGood

LEMMA GuardedRequestGood ==
  ASSUME Session, NEW k \in Calls, SendGuarded(k)
  PROVE  Good
<1>1. PICK c \in Guarded, j \in Lists :
        \E i \in 0..(Len(call[j].seen) - 1) : Send(k, FALSE, Request(c, i, j, 0))
  BY DEF SendGuarded, Guarded
<1>2. PICK i \in 0..(Len(call[j].seen) - 1) : Send(k, FALSE, Request(c, i, j, 0))
  BY <1>1
<1> DEFINE q == Request(c, i, j, 0)
<1>3. q.st = "sent" /\ q.from = j /\ q.tab = i /\ q.cmd = c
  BY DEF Request, NoCall
<1> HIDE DEF q
<1>4. Len(call[j].seen) \in Nat
  BY CallFields DEF Lists, Session
<1>5. i < Len(call[j].seen)
  BY <1>4
<1>6. MadeFrom(q)
  BY <1>1, <1>3, <1>5 DEF MadeFrom
<1>7. Send(k, FALSE, q)
  BY <1>2 DEF q
<1> QED BY <1>3, <1>6, <1>7, SendGood

\* Each client's commands are requests.
LEMMA ClientGood ==
  ASSUME Session, NEW k \in Calls, Client(k)
  PROVE  Good
<1> DEFINE Sends == \E auto \in BOOLEAN : \E c, i, r : Send(k, auto, Request(c, i, 0, r))
<1>1. ASSUME Sends PROVE Good
  BY <1>1, RequestGood
<1>2. ASSUME NEW auto \in BOOLEAN, NEW c, SendOnTab(k, auto, c) PROVE Sends
  BY <1>2 DEF SendOnTab
<1>3. ASSUME NEW c, NEW keys, Ask(k, c, keys) PROVE Sends
  BY <1>3 DEF Ask
<1>4. ASSUME \/ SendTabs(k) \/ SendOpenTab(k) \/ SendSnapshot(k) \/ SendInteract(k)
             \/ \E c \in {"read_page", "capture"} : Send(k, TRUE, Request(c, 0, 0, 0))
      PROVE  Sends
  BY <1>4 DEF SendTabs, SendOpenTab, SendSnapshot, SendInteract
<1> HIDE DEF Sends
<1>5. CASE \/ SendCloseTab(k) \/ SendReadPage(k) \/ SendEval(k) \/ SendCapture(k)
           \/ SendOnTab(k, FALSE, "read_page") \/ SendOnTab(k, FALSE, "eval")
  BY <1>1, <1>2, <1>5 DEF SendCloseTab, SendReadPage, SendEval, SendCapture
<1>6. CASE SendCookies(k) \/ SendImport(k) \/ SendClear(k) \/ SendDelete(k)
  BY <1>1, <1>3, <1>6 DEF SendCookies, SendImport, SendClear, SendDelete
<1>7. CASE SendMatches(k)
  <2> DEFINE c == [call[k] EXCEPT !.st = "sent", !.cmd = "delete_cookies"]
  <2>1. call[k].st = "listed" /\ call[k] \in Call
    BY <1>7, CallFields DEF SendMatches, Session
  <2>2. c.st = "sent" /\ c.from = call[k].from
    BY <2>1 DEF Call
  <2>3. call' = [call EXCEPT ![k] = c]
    BY <1>7 DEF SendMatches
  <2> HIDE DEF c
  <2>4. call[k].from = 0
    BY <2>1 DEF Session, GuardInv, MadeFrom, KeptApart, Apart
  <2>5. MadeFrom(c)
    BY <2>2, <2>4 DEF MadeFrom
  <2>6. Reach(TRUE) /\ UNCHANGED <<generation, void>>
    BY <1>7 DEF SendMatches
  <2> QED BY <2>1, <2>2, <2>3, <2>5, <2>6, SentFine, ReachPages DEF Good
<1>8. Cli(k) => Good
  BY <1>1, <1>4, <1>5, <1>6, <1>7, GuardedRequestGood
     DEF Cli, TabClient, PageClient, CookieClient
<1>9. McpTool(k) => Good
  BY <1>1, <1>4, <1>5, <1>6 DEF McpTool
<1>10. TuiTabs(k) \/ TuiCookies(k) => Good
  BY <1>1, <1>4, <1>6, <1>7 DEF TuiTabs, TuiCookies
<1> QED BY <1>8, <1>9, <1>10 DEF Client

\* Taking a command up.
LEMMA TakeUpGood ==
  ASSUME Session, NEW k \in Calls, Dequeue(k) \/ Connect(k)
  PROVE  Good
<1>1. Turn(k, "ready") /\ ~IsList(call[k])
  BY DEF Dequeue, Connect, IsList
<1>2. CallsFine
  BY <1>1, TurnFine
<1>3. CASE Dequeue(k)
  BY <1>2, <1>3, StillPages DEF Dequeue, Good
<1>4. CASE Connect(k)
  <2>1. UNCHANGED <<engine, generation, void>> /\ engine = "direct"
    BY <1>4 DEF Connect
  <2>2. ASSUME UNCHANGED <<pages, opened>> PROVE PagesStep
    <3>1. UNCHANGED <<engine, pages, opened, generation, void>>
      BY <2>1, <2>2
    <3> QED BY <3>1, StillPages
  <2>3. ASSUME \E p \in Pages : Opens(p) /\ pages' = <<p>> PROVE PagesStep
    <3>1. PICK p \in Pages : p = opened + 1 /\ opened' = p /\ pages' = <<p>>
      BY <2>3 DEF Opens
    <3>2. opened \in Nat
      BY SessionNats DEF Session
    <3>3. engine' = "direct" /\ void' = void
      BY <2>1
    <3> QED BY <3>1, <3>2, <3>3 DEF PagesStep, PagesFollow
  <2> QED BY <1>2, <1>4, <2>2, <2>3 DEF Connect, Good
<1> QED BY <1>3, <1>4

\* A new generation leaves every list behind.
LEMMA BumpPages ==
  ASSUME Session, Bump, UNCHANGED <<engine, opened, void>>,
         \A i \in 1..Len(pages') : pages'[i] \in 1..opened'
  PROVE  PagesStep
<1>1. opened \in Nat /\ generation \in Nat
  BY SessionNats DEF Session
<1>2. engine' = "playwright" => engine = "playwright" /\ generation' = generation + 1
  BY DEF Bump
<1>3. PagesFollow
  BY <1>1, <1>2 DEF PagesFollow
<1> QED BY <1>1, <1>3 DEF PagesStep, Session, GuardInv

\* Commands on tabs, but for the one that lists them.
LEMMA TabCommandGood ==
  ASSUME Session, NEW k \in Calls, TabCommand(k), ~Tabs(k)
  PROVE  Good
<1>1. CASE Refuse(k)
  <2>1. ~IsList(call[k])
    BY <1>1 DEF Refuse, IsList
  <2> QED BY <1>1, <2>1, FailsFine, StillPages DEF Refuse, Good
<1>2. CASE OpenTab(k)
  <2>1. PICK p \in Pages : /\ Opens(p) /\ pages' = Append(pages, p)
                           /\ call' = [call EXCEPT ![k].st = "opening", ![k].page = p]
    BY <1>2 DEF OpenTab
  <2> DEFINE c == [call[k] EXCEPT !.st = "opening", !.page = p]
  <2>2. call[k] \in Call /\ call[k].st = "ready" /\ call[k].cmd = "open_tab"
    BY <1>2, CallFields DEF OpenTab, Ready, Session
  <2>3. c.st = "opening" /\ c.page = p /\ c.cmd = "open_tab" /\ c.from = call[k].from
    BY <2>2 DEF Call
  <2>4. call' = [call EXCEPT ![k] = c]
    BY <2>1
  <2> HIDE DEF c
  <2>5. call[k].from = 0
    BY <2>2 DEF Session, GuardInv, MadeFrom, Guarded
  <2>6. p > opened
    BY <2>1, SessionNats DEF Opens, Session
  <2>7. Fine(c) /\ ~IsList(call[k])
    BY <2>2, <2>3, <2>5, <2>6
       DEF Fine, IsList, KeptApart, Apart, Guarded, MadeFrom, ActedRight
  <2>8. PagesStep
    BY <1>2, <2>1, AppendPages DEF OpenTab
  <2> QED BY <2>4, <2>7, <2>8, OneCall DEF Good
<1>3. CASE TabOpened(k)
  <2>1. call[k].st = "opening" /\ Done(k, call[k].page)
    BY <1>3 DEF TabOpened
  <2>2. call[k].cmd \notin Guarded \cup {"tabs"} /\ ~IsList(call[k])
    BY <2>1 DEF Session, GuardInv, KeptApart, Apart, IsList
  <2>3. UNCHANGED <<engine, pages, opened, void>> /\ Bump
    BY <1>3 DEF TabOpened
  <2>4. \A i \in 1..Len(pages') : pages'[i] \in 1..opened'
    BY <2>3 DEF Session, GuardInv
  <2> QED BY <2>1, <2>2, <2>3, <2>4, DoneApart, BumpPages DEF Good
<1>4. CASE OpenTabFails(k)
  <2>1. ~IsList(call[k]) /\ Fails(k)
    BY <1>4 DEF OpenTabFails, IsList
  <2> QED BY <1>4, <2>1, FailsFine, FailedTabPages DEF Good
<1>5. CASE CloseTab(k)
  <2>1. Ready(k, Guarded) /\ ~GenerationStale(k) /\ Done(k, PageOf(k))
    BY <1>5 DEF CloseTab, Ready, Guarded
  <2>2. call[k].tab + 1 \in 1..Len(pages) /\ pages' = RemoveAt(pages, call[k].tab + 1)
    <3>1. call[k].tab \in Nat /\ Len(pages) \in Nat
      BY CallFields, SessionNats DEF Session
    <3> QED BY <1>5, <3>1 DEF CloseTab, InRange, Closes
  <2>3. UNCHANGED <<engine, opened, void>> /\ Bump
    BY <1>5 DEF CloseTab
  <2>4. \A i \in 1..Len(pages') : pages'[i] \in 1..opened'
    BY <2>2, <2>3, ClosePages
  <2> QED BY <2>1, <2>3, <2>4, GuardedDone, BumpPages DEF Good
<1>6. CASE CloseTabFails(k)
  <2>1. ~IsList(call[k]) /\ Fails(k)
    BY <1>6 DEF CloseTabFails, Ready, IsList
  <2>2. call[k].tab + 1 \in 1..Len(pages)
    <3>1. call[k].tab \in Nat /\ Len(pages) \in Nat
      BY CallFields, SessionNats DEF Session
    <3> QED BY <1>6, <3>1 DEF CloseTabFails, InRange
  <2>3. ClosesUncounted(call[k].tab + 1) /\ UNCHANGED <<engine, opened, generation>>
    BY <1>6 DEF CloseTabFails
  <2> QED BY <2>1, <2>2, <2>3, FailsFine, UncountedPages DEF Good
<1> QED BY <1>1, <1>2, <1>3, <1>4, <1>5, <1>6 DEF TabCommand

\* Commands within a tab.
LEMMA QuietPages ==
  ASSUME Session, Quiet
  PROVE  PagesStep
  BY StillPages DEF Quiet

LEMMA PageCommandGood ==
  ASSUME Session, NEW k \in Calls, PageCommand(k)
  PROVE  Good
<1>0. call[k] \in Call
  BY CallFields DEF Session
<1>1. CASE ReadPage(k) \/ Capture(k) \/ Eval(k)
  <2>1. Ready(k, Guarded) /\ ~GenerationStale(k) /\ (Done(k, PageOf(k)) \/ Fails(k))
    BY <1>1 DEF ReadPage, Capture, Eval, Ready, Guarded
  <2>2. ~IsList(call[k])
    BY <2>1 DEF Ready, IsList
  <2>3. Quiet \/ (Behaves(PageOf(k)) /\ UNCHANGED <<engine, generation>>)
    BY <1>1 DEF ReadPage, Capture, Eval
  <2> QED BY <2>1, <2>2, <2>3, GuardedDone, FailsFine, QuietPages, BehavesPages DEF Good
<1>2. CASE Interact(k)
  <2>1. ~IsList(call[k]) /\ call[k].cmd \notin Guarded \cup {"tabs"}
    BY <1>2 DEF Interact, Ready, IsList, Guarded
  <2>2. Done(k, PageOf(k)) \/ Fails(k)
    BY <1>2 DEF Interact
  <2>3. Behaves(PageOf(k)) /\ UNCHANGED <<engine, generation>>
    BY <1>2 DEF Interact
  <2> QED BY <2>1, <2>2, <2>3, DoneApart, FailsFine, BehavesPages DEF Good
<1>3. CASE ReadTree(k) \/ NewRegistry(k) \/ SetRef(k)
  <2>1. /\ call[k].st \in {"ready", "tree", "refs"} /\ Quiet
        /\ call[k].cmd \notin Guarded \cup {"tabs"}
    BY <1>3 DEF ReadTree, NewRegistry, SetRef, Ready, Guarded, Session, GuardInv, KeptApart, Apart
  <2>2. PICK c : /\ call' = [call EXCEPT ![k] = c] /\ c.st \in {"tree", "refs"}
                 /\ c.cmd = call[k].cmd /\ c.from = call[k].from
    <3>1. CASE ReadTree(k)
      <4> DEFINE c == [call[k] EXCEPT !.st = "tree", !.page = PageOf(k), !.seen = tree[PageOf(k)]]
      <4>1. c.st = "tree" /\ c.cmd = call[k].cmd /\ c.from = call[k].from
        BY <1>0 DEF Call
      <4>2. call' = [call EXCEPT ![k] = c]
        BY <3>1 DEF ReadTree
      <4> HIDE DEF c
      <4> QED BY <4>1, <4>2
    <3>2. CASE NewRegistry(k)
      <4> DEFINE c == [call[k] EXCEPT !.st = "refs", !.ref = 1]
      <4>1. c.st = "refs" /\ c.cmd = call[k].cmd /\ c.from = call[k].from
        BY <1>0 DEF Call
      <4>2. call' = [call EXCEPT ![k] = c]
        BY <3>2 DEF NewRegistry
      <4> HIDE DEF c
      <4> QED BY <4>1, <4>2
    <3>3. CASE SetRef(k)
      <4> DEFINE c == [call[k] EXCEPT !.ref = @ + 1]
      <4>1. c.st = "refs" /\ c.cmd = call[k].cmd /\ c.from = call[k].from
        BY <1>0, <3>3 DEF Call, SetRef
      <4>2. call' = [call EXCEPT ![k] = c]
        BY <3>3 DEF SetRef
      <4> HIDE DEF c
      <4> QED BY <4>1, <4>2
    <3> QED BY <1>3, <3>1, <3>2, <3>3
  <2>3. call[k].from = 0
    BY <2>1 DEF Session, GuardInv, MadeFrom
  <2>4. Fine(c) /\ ~IsList(call[k])
    BY <2>1, <2>2, <2>3, FreshFine DEF IsList, KeptApart
  <2> QED BY <2>1, <2>2, <2>4, OneCall, QuietPages DEF Good
<1>4. CASE SnapshotFails(k) \/ Render(k)
  <2>1. call[k].st \in {"tree", "refs"} /\ Quiet /\ (Fails(k) \/ Done(k, call[k].page))
    BY <1>4 DEF SnapshotFails, Render
  <2>2. ~IsList(call[k]) /\ call[k].cmd \notin Guarded \cup {"tabs"}
    BY <2>1 DEF IsList, Session, GuardInv, KeptApart, Apart
  <2> QED BY <2>1, <2>2, FailsFine, DoneApart, QuietPages DEF Good
<1> QED BY <1>1, <1>2, <1>3, <1>4 DEF PageCommand

LEMMA CookieCommandGood ==
  ASSUME Session, NEW k \in Calls, CookieCommand(k)
  PROVE  Good
<1>1. /\ Still /\ ~IsList(call[k]) /\ call[k].cmd \notin Guarded \cup {"tabs"}
  <2>1. CASE Cookies(k) \/ ListMatches(k) \/ SetCookies(k) \/ CheckDoomed(k)
    BY <2>1 DEF Cookies, ListMatches, SetCookies, CheckDoomed, Ready, IsList, Guarded
  <2>2. CASE DeleteCookie(k)
    BY <2>2 DEF DeleteCookie, IsList, Session, GuardInv, KeptApart, Apart
  <2> QED BY <2>1, <2>2 DEF CookieCommand
<1>2. \/ UNCHANGED call \/ Fails(k) \/ Done(k, 0)
      \/ Turn(k, "listed") \/ Turn(k, "deleting")
  BY DEF CookieCommand, Cookies, ListMatches, SetCookies, CheckDoomed, DeleteCookie
<1>3. CallsFine
  BY <1>1, <1>2, CallRestsFine, FailsFine, DoneApart, TurnFine
<1>4. UNCHANGED <<engine, pages, opened, generation, void>>
  BY <1>1 DEF Still
<1> QED BY <1>3, <1>4, StillPages DEF Good

\* The end of a session voids all lists, and what was asked fails.
LEMMA EndSessionGood ==
  ASSUME Session, EndSession
  PROVE  Good
<1>1. ASSUME NEW k \in Calls PROVE call'[k] = call[k] \/ (~IsList(call[k]) /\ Fine(call'[k]))
  <2>1. CASE k \in Executing \/ call[k].st = "sent"
    <3> DEFINE c == [NoCall EXCEPT !.cmd = call[k].cmd, !.st = "failed"]
    <3>1. c.from = 0 /\ c.st = "failed"
      BY DEF NoCall
    <3>2. call'[k] = c
      BY <2>1 DEF EndSession
    <3> HIDE DEF c
    <3>3. Fine(c) /\ ~IsList(call[k])
      BY <2>1, <3>1, FreshFine DEF IsList, KeptApart, Apart, Executing
    <3> QED BY <3>2, <3>3
  <2>2. CASE ~(k \in Executing \/ call[k].st = "sent")
    BY <2>2 DEF EndSession
  <2> QED BY <2>1, <2>2
<1>2. engine' = "off" /\ pages' = <<>> /\ void' = void \cup Lists /\ opened' = opened
  BY DEF EndSession
<1>3. opened \in Nat
  BY SessionNats DEF Session
<1> QED BY <1>1, <1>2, <1>3 DEF Good, CallsFine, PagesStep, PagesFollow

LEMMA UserGood ==
  ASSUME Session, User
  PROVE  Good
<1>1. CASE Launch
  <2>1. PICK e \in {"playwright", "direct"} : Starts(e)
    BY <1>1 DEF Launch
  <2>2. UNCHANGED <<generation, void>> /\ UNCHANGED call
    BY <1>1 DEF Launch
  <2> QED BY <2>1, <2>2, StartsPages, CallRestsFine DEF Good
<1>2. CASE EndSession
  BY <1>2, EndSessionGood
<1>3. CASE UserOpens
  <2>1. PICK p \in Pages : Opens(p) /\ pages' = Append(pages, p)
    BY <1>3 DEF UserOpens
  <2>2. UNCHANGED <<engine, generation, void>> /\ UNCHANGED call
    BY <1>3 DEF UserOpens
  <2> QED BY <2>1, <2>2, AppendPages, CallRestsFine DEF Good
<1>4. CASE UserCloses
  <2>1. DOMAIN pages = 1..Len(pages)
    BY SessionNats DEF Session
  <2>2. PICK i \in 1..Len(pages) : ClosesUncounted(i)
    BY <1>4, <2>1 DEF UserCloses
  <2>3. UNCHANGED <<engine, opened, generation>> /\ UNCHANGED call
    BY <1>4 DEF UserCloses
  <2> QED BY <2>2, <2>3, UncountedPages, CallRestsFine DEF Good
<1>5. CASE PageActs
  <2>1. PICK p \in Range(pages) : Behaves(p)
    BY <1>5 DEF PageActs
  <2>2. UNCHANGED <<engine, generation>> /\ UNCHANGED call
    BY <1>5 DEF PageActs
  <2> QED BY <2>1, <2>2, BehavesPages, CallRestsFine DEF Good
<1>6. CASE PageSetsCookie
  <2>1. UNCHANGED <<engine, pages, opened, generation, void>> /\ UNCHANGED call
    BY <1>6 DEF PageSetsCookie
  <2> QED BY <2>1, StillPages, CallRestsFine DEF Good
<1> QED BY <1>1, <1>2, <1>3, <1>4, <1>5, <1>6 DEF User

-----------------------------------------------------------------------------
(* The invariant is inductive. *)

LEMMA GuardInit == SystemInit => GuardInv
<1> SUFFICES ASSUME SystemInit PROVE GuardInv
  OBVIOUS
<1>1. \A k \in Calls : call[k] = NoCall
  BY DEF SystemInit, Init
<1>2. NoCall.cmd = "none" /\ NoCall.st = "new" /\ NoCall.from = 0
  BY DEF NoCall
<1>3. Lists = {} /\ pages = <<>> /\ engine = "off"
  BY <1>1, <1>2 DEF Lists, SystemInit, Init
<1>4. \A k \in Calls : MadeFrom(call[k]) /\ KeptApart(call[k])
  BY <1>1, <1>2 DEF MadeFrom, KeptApart, Guarded
<1> QED BY <1>3, <1>4 DEF GuardInv, GuardedIndex

LEMMA GuardNext == Session /\ SessionTypeOK' /\ [Next]_allVars => GuardInv'
<1> SUFFICES ASSUME Session, SessionTypeOK', [Next]_allVars PROVE GuardInv'
  OBVIOUS
<1>1. ASSUME Good PROVE GuardInv'
  BY <1>1, FineKeeps DEF Good
<1>2. ASSUME NEW k \in Calls, Command(k), engine # "off" PROVE GuardInv'
  <2>1. CASE Tabs(k)
    BY <1>2, <2>1, TabsKeeps
  <2>2. CASE TabCommand(k) /\ ~Tabs(k)
    BY <2>2, <1>1, TabCommandGood
  <2>3. CASE PageCommand(k) \/ CookieCommand(k)
    BY <2>3, <1>1, PageCommandGood, CookieCommandGood
  <2> QED BY <1>2, <2>1, <2>2, <2>3 DEF Command
<1>3. ASSUME NEW k \in Calls, Controller(k) \/ Bridge(k) PROVE GuardInv'
  <2>1. engine # "off" /\ (Dequeue(k) \/ Connect(k) \/ Command(k))
    BY <1>3 DEF Controller, Bridge
  <2> QED BY <1>1, <1>2, <2>1, TakeUpGood
<1>4. ASSUME NEW k \in Calls, Client(k) PROVE GuardInv'
  BY <1>1, <1>4, ClientGood
<1>5. CASE User
  BY <1>1, <1>5, UserGood
<1>6. CASE UNCHANGED allVars
  <2>1. UNCHANGED <<engine, pages, opened, generation, void>> /\ UNCHANGED call
    BY <1>6 DEF allVars, sessionVars
  <2> QED BY <1>1, <2>1, StillPages, CallRestsFine DEF Good
<1> QED BY <1>3, <1>4, <1>5, <1>6 DEF Next

-----------------------------------------------------------------------------
(* The theorem. *)

\* A command that names the generation of a tab list acts on the tab which that list
\* shows at its index (_generation_stale of process/controller.py), for any number of
\* tabs, commands and clients, whatever of them is repeated or overtaken; tabs that close
\* other than by a command that succeeds, or a new session, can mislead it.
THEOREM GuardedIndices == Spec => []GuardedIndex
<1>1. SystemInit => Inv /\ GuardInv
  BY InvInit, GuardInit
<1>2. Inv /\ GuardInv /\ [Next]_allVars => (Inv /\ GuardInv)'
  <2> SUFFICES ASSUME Inv, GuardInv, [Next]_allVars PROVE Inv' /\ GuardInv'
    OBVIOUS
  <2>1. Inv'
    BY InvNext
  <2>2. Session /\ SessionTypeOK'
    BY <2>1 DEF Session, Inv
  <2> QED BY <2>1, <2>2, GuardNext
<1>3. Inv /\ GuardInv => GuardedIndex
  BY DEF GuardInv
<1> QED BY <1>1, <1>2, <1>3, PTL DEF Spec

=============================================================================
