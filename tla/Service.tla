------------------------------ MODULE Service ------------------------------
(***************************************************************************)
(* What a caller may count on across starts and stops of the server: a     *)
(* request is taken only by a running process, it is answered by the       *)
(* process that took it, and it goes without an answer only when that      *)
(* process ends.                                                           *)
(***************************************************************************)
CONSTANT Requests

VARIABLES
    running,    \* the process serves requests
    fate        \* fate[r]: what became of request r

vars == <<running, fate>>

Init ==
    /\ running \in BOOLEAN
    /\ fate = [r \in Requests |-> "none"]

Start ==
    /\ ~running
    /\ running' = TRUE
    /\ UNCHANGED fate

Take(r) ==
    /\ running
    /\ fate[r] = "none"
    /\ fate' = [fate EXCEPT ![r] = "pending"]
    /\ UNCHANGED running

Answer(r) ==
    /\ running
    /\ fate[r] = "pending"
    /\ fate' = [fate EXCEPT ![r] = "answered"]
    /\ UNCHANGED running

\* The process ends, and with it every request it had taken.
Stop ==
    /\ running
    /\ running' = FALSE
    /\ fate' = [r \in Requests |-> IF fate[r] = "pending" THEN "lost" ELSE fate[r]]

Next == Start \/ Stop \/ \E r \in Requests : Take(r) \/ Answer(r)

Spec == Init /\ [][Next]_vars
=============================================================================
