--------------------------- MODULE ProfileRegistry ---------------------------
(***************************************************************************)
(* What the metadata store promises its callers: one registry of profiles, *)
(* always valid, that changes only by one whole update at a time, applied  *)
(* to the registry as it stands at that moment.  No update is lost, none   *)
(* is half applied, whatever the number of commands, their failures and    *)
(* their crashes.                                                          *)
(***************************************************************************)
EXTENDS ProfileDoc

VARIABLE registry

RInit == registry \in Doc /\ ValidDoc(registry)

Commit(u) ==
    /\ Appliable(u, registry)
    /\ registry' = Apply(u, registry)
    /\ ValidDoc(registry')

RNext == \E u \in Update : Commit(u)

RSpec == RInit /\ [][RNext]_registry

=============================================================================
