--------------------------- MODULE ProfileLibrary ---------------------------
(***************************************************************************)
(* What the commands on a data root promise their user: a library of       *)
(* profiles, each an entry and its data, that changes by whole commands.   *)
(* Creating, deleting and restoring happen entirely or not at all, and the *)
(* data of a listed profile never goes away by itself.                     *)
(***************************************************************************)
CONSTANTS
    Ids,       \* profile ids
    Absent,    \* no such profile
    Origins    \* where an entry may come from

VARIABLES
    lib,    \* the profiles of this root
    away    \* the profiles of the root that migrations copy them to

\* Data that no browser has written yet is none.
Item == [from : Origins, data : {"none", "own", "archived"}]

LInit ==
    /\ lib \in [Ids -> Item \cup {Absent}]
    /\ away \in [Ids -> Item \cup {Absent}]

Create(i) ==
    /\ lib[i] = Absent
    /\ lib' = [lib EXCEPT ![i] = [from |-> "own", data |-> "none"]]

Delete(i) == lib[i] # Absent /\ lib' = [lib EXCEPT ![i] = Absent]

\* Several profiles of one archive come together: entries and data.
Restore(S) ==
    lib' = [i \in Ids |-> IF i \in S THEN [from |-> "archived", data |-> "archived"]
                          ELSE lib[i]]

\* Directories nobody listed become profiles, with the data they hold.
Adopt(S) ==
    /\ \A i \in S : lib[i] = Absent
    /\ lib' \in [Ids -> Item \cup {Absent}]
    /\ \A i \in Ids : IF i \in S THEN lib'[i] # Absent /\ lib'[i].from = "recovered"
                     ELSE lib'[i] = lib[i]

\* A browser writes its first data.
Use(i) ==
    /\ lib[i] # Absent /\ lib[i].data = "none"
    /\ lib' = [lib EXCEPT ![i].data = "own"]

\* Copies arrive together, as new profiles.
Arrive(S) ==
    /\ away' \in [Ids -> Item \cup {Absent}]
    /\ \A i \in S : away[i] = Absent /\ away'[i] # Absent
    /\ \A i \in Ids \ S : away'[i] = away[i]

\* This root is emptied when every profile of it is at the other one.
Leave ==
    /\ \A i \in Ids : lib[i] # Absent => away[i] = lib[i]
    /\ lib' = [i \in Ids |-> Absent]

LNext ==
    \/ UNCHANGED lib /\ \E S \in SUBSET Ids : Arrive(S)
    \/ /\ UNCHANGED away
       /\ \/ \E i \in Ids : Create(i) \/ Delete(i) \/ Use(i)
          \/ \E S \in SUBSET Ids : Restore(S) \/ Adopt(S)
          \/ Leave

LSpec == LInit /\ [][LNext]_<<lib, away>>

=============================================================================
