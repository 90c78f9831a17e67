----------------------------- MODULE RateBudget -----------------------------
(***************************************************************************)
(* What the rate limiter promises, without counters, list reads, retries   *)
(* or the order of the checks.                                             *)
(*                                                                         *)
(* Every key (a login, a password, an IP) has a budget of tokens.  A       *)
(* request pays one token of each of its keys and is then allowed; it may  *)
(* be limited only for a key whose budget is spent.  Budgets are refilled  *)
(* in whole, any number of keys at a time.  Tokens a request has paid are  *)
(* not given back when it ends otherwise.                                  *)
(***************************************************************************)
EXTENDS Naturals

CONSTANTS
    Keys,       \* what is counted
    Requests,   \* authorisation requests, each made at most once
    Limit       \* Limit[k]: the budget of key k, a natural number

VARIABLES
    left,       \* left[k]: tokens left for key k
    needs,      \* needs[r]: the keys request r has to pay, {} until it is made
    paid,       \* paid[r]: those an undecided request has paid
    verdict     \* verdict[r]: what was decided

vars == <<left, needs, paid, verdict>>

Verdicts == {"none", "allowed", "limited", "exempted", "barred", "failed"}

Pending(r) == needs[r] # {} /\ verdict[r] = "none"

Init ==
    /\ left = Limit
    /\ needs = [r \in Requests |-> {}]
    /\ paid = [r \in Requests |-> {}]
    /\ verdict = [r \in Requests |-> "none"]

Ask(r, ks) ==
    /\ needs[r] = {} /\ verdict[r] = "none"
    /\ needs' = [needs EXCEPT ![r] = ks]
    /\ UNCHANGED <<left, paid, verdict>>

Decide(r, v) ==
    /\ verdict' = [verdict EXCEPT ![r] = v]
    /\ paid' = [paid EXCEPT ![r] = {}]

\* r pays for one more key; the last payment allows it.
Pay(r, k) ==
    /\ Pending(r)
    /\ k \in needs[r] \ paid[r]
    /\ left[k] > 0
    /\ left' = [left EXCEPT ![k] = @ - 1]
    /\ \/ /\ paid[r] \union {k} = needs[r]
          /\ Decide(r, "allowed")
       \/ /\ paid[r] \union {k} # needs[r]
          /\ paid' = [paid EXCEPT ![r] = @ \union {k}]
          /\ UNCHANGED verdict
    /\ UNCHANGED needs

Limited(r, k) ==
    /\ Pending(r)
    /\ k \in needs[r] \ paid[r]
    /\ left[k] = 0
    /\ Decide(r, "limited")
    /\ UNCHANGED <<left, needs>>

\* The lists decide, before anything is paid.
ByList(r, v) ==
    /\ Pending(r)
    /\ paid[r] = {}
    /\ Decide(r, v)
    /\ UNCHANGED <<left, needs>>

\* Some pending requests fail together.
Fail(rs) ==
    /\ \A r \in rs : Pending(r)
    /\ verdict' = [r \in Requests |-> IF r \in rs THEN "failed" ELSE verdict[r]]
    /\ paid' = [r \in Requests |-> IF r \in rs THEN {} ELSE paid[r]]
    /\ UNCHANGED <<left, needs>>

\* A token is spent for nothing: a count nobody waits for.
Waste(k) ==
    /\ left[k] > 0
    /\ left' = [left EXCEPT ![k] = @ - 1]
    /\ UNCHANGED <<needs, paid, verdict>>

Refill(ks) ==
    /\ left' = [k \in Keys |-> IF k \in ks THEN Limit[k] ELSE left[k]]
    /\ UNCHANGED <<needs, paid, verdict>>

Next ==
    \/ \E r \in Requests :
        \/ \E ks \in (SUBSET Keys) \ {{}} : Ask(r, ks)
        \/ \E k \in Keys : Pay(r, k) \/ Limited(r, k)
        \/ \E v \in {"exempted", "barred"} : ByList(r, v)
    \/ \E rs \in SUBSET Requests : Fail(rs)
    \/ \E k \in Keys : Waste(k)
    \/ \E ks \in SUBSET Keys : Refill(ks)

Spec == Init /\ [][Next]_vars
=============================================================================
