------------------------------ MODULE MapStore ------------------------------
(***************************************************************************)
(* What a list storage promises its callers: each call takes effect at one *)
(* moment between its start and its answer, on sets of subnets.            *)
(*                                                                         *)
(* One thing is not promised: a remove may report success although another *)
(* remove of the same entry has done so already.                           *)
(***************************************************************************)
CONSTANTS Calls, Names, Subnets

VARIABLES
    held,   \* held[l]: the subnets in list l
    did     \* did[c]: what call c did, {} before

vars == <<held, did>>

Init ==
    /\ held = [l \in Names |-> {}]
    /\ did = [c \in Calls |-> {}]

Do(c, what) ==
    /\ did[c] = {}
    /\ did' = [did EXCEPT ![c] = {what}]

Add(c, l, s) ==
    /\ Do(c, <<"added", l, s>>)
    /\ held' = [held EXCEPT ![l] = @ \union {s}]

Remove(c, l, s) ==
    /\ Do(c, <<"removed", l, s>>)
    /\ held' = [held EXCEPT ![l] = @ \ {s}]

Miss(c, l, s) ==
    /\ s \notin held[l]
    /\ Do(c, <<"norecord", l, s>>)
    /\ UNCHANGED held

Look(c, l, s) ==
    /\ Do(c, <<IF s \in held[l] THEN "yes" ELSE "no", l, s>>)
    /\ UNCHANGED held

List(c, l) ==
    /\ Do(c, <<"all", l, held[l]>>)
    /\ UNCHANGED held

Fail(c) ==
    /\ Do(c, <<"error">>)
    /\ UNCHANGED held

Next ==
    \E c \in Calls :
        \/ Fail(c)
        \/ \E l \in Names :
            \/ List(c, l)
            \/ \E s \in Subnets : Add(c, l, s) \/ Remove(c, l, s) \/ Miss(c, l, s) \/ Look(c, l, s)

Spec == Init /\ [][Next]_vars
=============================================================================
