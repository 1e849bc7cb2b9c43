--------------------------- MODULE RequestService ---------------------------
(***************************************************************************)
(* What a profile's controller promises its clients: commands run one at a *)
(* time, a command is answered only after it has run, and a request that   *)
(* is turned away has not run and never will, so that the client may send  *)
(* it again.  Only the end of the controller itself leaves a client in     *)
(* doubt.                                                                  *)
(***************************************************************************)
CONSTANT Conns    \* the requests, one per connection

VARIABLES
    phase,        \* what became of each request
    req,          \* "command" for one that runs in the browser
    up            \* the controller runs

svars == <<phase, req, up>>

Phases == {"none", "pending", "running", "served", "refused", "cut"}

SInit ==
    /\ phase = [c \in Conns |-> "none"]
    /\ req = [c \in Conns |-> "none"]
    /\ up = TRUE

Ask(c) ==
    /\ phase[c] = "none"
    /\ phase' = [phase EXCEPT ![c] = "pending"]
    /\ \E r \in {"command", "close", "other"} : req' = [req EXCEPT ![c] = r]

Start(c) ==
    /\ phase[c] = "pending" /\ req[c] = "command"
    /\ \A d \in Conns : phase[d] # "running"
    /\ phase' = [phase EXCEPT ![c] = "running"]
    /\ UNCHANGED req

Answer(c) ==
    /\ phase[c] = IF req[c] = "command" THEN "running" ELSE "pending"
    /\ phase' = [phase EXCEPT ![c] = "served"]
    /\ UNCHANGED req

\* One or many at a time.
TurnAway ==
    /\ phase' \in [Conns -> Phases]
    /\ \A c \in Conns :
         \/ phase'[c] = phase[c]
         \/ phase[c] = "pending" /\ phase'[c] = "refused"
    /\ UNCHANGED req

Stop ==
    /\ up' = FALSE
    /\ phase' = [c \in Conns |-> IF phase[c] \in {"pending", "running"} THEN "cut" ELSE phase[c]]
    /\ UNCHANGED req

SNext ==
    /\ up
    /\ \/ /\ UNCHANGED up
          /\ \/ \E c \in Conns : Ask(c) \/ Start(c) \/ Answer(c)
             \/ TurnAway
       \/ Stop

SSpec == SInit /\ [][SNext]_svars

=============================================================================
