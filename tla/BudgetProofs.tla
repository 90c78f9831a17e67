----------------------------- MODULE BudgetProofs -----------------------------
(***************************************************************************)
(* The service implements the token budgets of RateBudget: every step of   *)
(* App is, under the mapping at the end of App, a step of RateBudget or    *)
(* leaves the budgets as they are.                                         *)
(***************************************************************************)
EXTENDS AppProofs

\* What each answer maps to.
LEMMA VerdictValues ==
  /\ VerdictOf["none"] = "none" /\ VerdictOf["ok"] = "allowed"
  /\ \A kind \in Kinds : VerdictOf[kind] = "limited"
  /\ VerdictOf["whitelisted"] = "exempted" /\ VerdictOf["blacklisted"] = "barred"
  /\ VerdictOf["error"] = "failed" /\ VerdictOf["lost"] = "failed"
  BY DEF VerdictOf, Kinds

\* The mapped variables at a request and at a key.
LEMMA MappedAt ==
  ASSUME NEW r \in Requests
  PROVE  /\ needs[r] = IF reqStage[r] = "idle" THEN {} ELSE KeysOf(r)
         /\ paid[r] = PastKeys(r)
         /\ verdict[r] = VerdictOf[answer[r]]
  BY DEF needs, paid, verdict

\* The tokens left for a key, without the IF.
LEMMA LeftAt ==
  ASSUME AppTypeOK, NEW k \in Keys
  PROVE  /\ left[k] \in Nat
         /\ bucket[k] >= Limit[k] => left[k] = 0
         /\ bucket[k] < Limit[k] => left[k] = Limit[k] - bucket[k] /\ left[k] > 0
  <1>1. bucket[k] \in Nat /\ Limit[k] \in Nat
    BY LimitType DEF AppTypeOK
  <1> QED BY <1>1 DEF left

\* Two requests that look the same before and after a step map to the same.
LEMMA MappedStay ==
  ASSUME NEW r \in Requests, reqStage'[r] = reqStage[r], cred'[r] = cred[r],
         answer'[r] = answer[r]
  PROVE  needs'[r] = needs[r] /\ paid'[r] = paid[r] /\ verdict'[r] = verdict[r]
  <1>1. PastKeys(r)' = PastKeys(r)
    BY PastKeysStay
  <1>2. KeysOf(r)' = KeysOf(r)
    BY DEF KeysOf, Key
  <1> QED BY <1>1, <1>2 DEF needs, paid, verdict

\* Tokens change only with the buckets.
LEMMA LeftStay == ASSUME bucket' = bucket PROVE left' = left
  BY DEF left

\* A request needs some keys.
LEMMA KeysOfType ==
  ASSUME NEW r \in Requests, cred[r] \in Creds
  PROVE  KeysOf(r) \subseteq Keys /\ KeysOf(r) # {}
  BY KeyType DEF KeysOf, Kinds

\* It has paid only keys it needs.
LEMMA PastKeysOf ==
  ASSUME NEW r \in Requests
  PROVE  PastKeys(r) \subseteq KeysOf(r)
  BY PastKeysByStage DEF KeysOf, Kinds

\* What all the steps of one request have in common: the other requests stay.
LEMMA OthersStay ==
  ASSUME AppTypeOK, NEW r \in Requests,
         ServeRequest(r) \/ \E c \in Creds : BeginRequest(r, c)
  PROVE  \A q \in Requests \ {r} :
            needs'[q] = needs[q] /\ paid'[q] = paid[q] /\ verdict'[q] = verdict[q]
  <1> SUFFICES ASSUME NEW q \in Requests \ {r}
               PROVE  reqStage'[q] = reqStage[q] /\ cred'[q] = cred[q] /\ answer'[q] = answer[q]
    BY MappedStay
  <1>1. CASE \E c \in Creds : BeginRequest(r, c)
    BY <1>1 DEF BeginRequest, AppTypeOK
  <1>2. CASE CheckBlacklist(r) \/ CheckWhitelist(r) \/ StorageError(r)
    BY <1>2 DEF CheckBlacklist, CheckWhitelist, StorageError, Reply, GoTo, AppTypeOK
  <1>3. CASE Increase(r) \/ IncreaseLost(r)
    BY <1>3 DEF Increase, IncreaseLost, Reply, GoTo, AppTypeOK
  <1> QED BY <1>1, <1>2, <1>3 DEF ServeRequest

\* The service starts with full budgets and no requests.
LEMMA BudgetInit == AppInit => Budget!Init
  <1> SUFFICES ASSUME AppInit PROVE Budget!Init
    OBVIOUS
  <1>1. left = Limit
    <2>1. \A k \in Keys : (IF bucket[k] >= Limit[k] THEN 0 ELSE Limit[k] - bucket[k]) = Limit[k]
      BY LimitType DEF AppInit
    <2> QED BY <2>1, LimitType DEF left
  <1>2. needs = [r \in Requests |-> {}]
    BY DEF AppInit, needs
  <1>3. paid = [r \in Requests |-> {}]
    BY PastKeysByStage DEF AppInit, paid
  <1>4. verdict = [r \in Requests |-> "none"]
    BY VerdictValues DEF AppInit, verdict
  <1> QED BY <1>1, <1>2, <1>3, <1>4 DEF Budget!Init

\* The mapped variables are functions, so they can be compared point by point.
LEMMA MappedShape ==
  /\ needs = [q \in Requests |-> needs[q]] /\ needs' = [q \in Requests |-> needs'[q]]
  /\ paid = [q \in Requests |-> paid[q]] /\ paid' = [q \in Requests |-> paid'[q]]
  /\ verdict = [q \in Requests |-> verdict[q]] /\ verdict' = [q \in Requests |-> verdict'[q]]
  /\ left = [k \in Keys |-> left[k]] /\ left' = [k \in Keys |-> left'[k]]
  BY DEF needs, paid, verdict, left

\* A step that moves only request r: the mapped variables in EXCEPT form.
LEMMA MappedExcept ==
  ASSUME AppTypeOK, NEW r \in Requests,
         ServeRequest(r) \/ \E c \in Creds : BeginRequest(r, c)
  PROVE  /\ needs' = [needs EXCEPT ![r] = needs'[r]]
         /\ paid' = [paid EXCEPT ![r] = paid'[r]]
         /\ verdict' = [verdict EXCEPT ![r] = verdict'[r]]
  BY OthersStay, MappedShape

\* Once made, a request keeps its keys.
LEMMA NeedsKept ==
  ASSUME AppTypeOK, NEW r \in Requests, ServeRequest(r)
  PROVE  /\ needs'[r] = needs[r] /\ needs[r] = KeysOf(r) /\ needs[r] # {} /\ cred'[r] = cred[r]
         /\ verdict[r] = "none"
  <1>1. reqStage[r] \notin {"idle", "done"} /\ reqStage'[r] # "idle" /\ cred' = cred
    <2>1. CASE CheckBlacklist(r) \/ CheckWhitelist(r) \/ StorageError(r)
      BY <2>1 DEF CheckBlacklist, CheckWhitelist, StorageError, Undecided, Reply, GoTo, AppTypeOK
    <2>2. CASE IncreaseLost(r)
      BY <2>2 DEF IncreaseLost, Kinds
    <2>3. CASE Increase(r)
      <3>1. reqStage[r] \in Kinds /\ cred' = cred
        BY <2>3 DEF Increase
      <3>2. reqStage[r] # "ip" => NextKind[reqStage[r]] \in {"password", "ip"}
        BY <3>1 DEF NextKind, Kinds
      <3>3. reqStage'[r] \in {"done", NextKind[reqStage[r]]}
        BY <2>3 DEF Increase, Reply, GoTo, AppTypeOK
      <3>4. reqStage'[r] # "idle"
        BY <2>3, <3>2, <3>3 DEF Increase, Reply, GoTo, AppTypeOK
      <3> QED BY <3>1, <3>4 DEF Kinds
    <2> QED BY <2>1, <2>2, <2>3 DEF ServeRequest
  <1>2. KeysOf(r)' = KeysOf(r)
    BY <1>1 DEF KeysOf, Key
  <1>3. KeysOf(r) # {}
    BY <1>1, KeysOfType DEF AppTypeOK
  <1>4. answer[r] = "none"
    BY <1>1 DEF AppTypeOK
  <1> QED BY <1>1, <1>2, <1>3, <1>4, VerdictValues DEF needs, verdict

\* The start of a request asks for its keys.
LEMMA BeginIsAsk ==
  ASSUME AppTypeOK, NEW r \in Requests, NEW c \in Creds, BeginRequest(r, c)
  PROVE  \E ks \in (SUBSET Keys) \ {{}} : Budget!Ask(r, ks)
  <1>1. /\ reqStage[r] = "idle" /\ reqStage'[r] = "blacklist" /\ cred'[r] = c
        /\ answer' = answer /\ bucket' = bucket
    BY DEF BeginRequest, AppTypeOK, budgetVars
  <1>2. needs[r] = {} /\ verdict[r] = "none" /\ verdict'[r] = "none"
    BY <1>1, VerdictValues DEF needs, verdict, AppTypeOK
  <1>3. paid[r] = {} /\ paid'[r] = {}
    BY <1>1, PastKeysByStage, PastKeysByStageNext DEF paid
  <1>4. needs'[r] = KeysOf(r)'
    BY <1>1 DEF needs
  <1>5. KeysOf(r)' = {<<kind, c[kind]>> : kind \in Kinds}
    BY <1>1 DEF KeysOf, Key
  <1>6. {<<kind, c[kind]>> : kind \in Kinds} \in (SUBSET Keys) \ {{}}
    <2>1. \A kind \in Kinds : <<kind, c[kind]>> \in Keys
      BY DEF Kinds, Creds, Keys
    <2>2. "login" \in Kinds
      BY DEF Kinds
    <2> QED BY <2>1, <2>2
  <1>7. left' = left
    BY <1>1, LeftStay
  <1>8. paid' = paid /\ verdict' = verdict
    BY <1>2, <1>3, MappedExcept, MappedShape
  <1> QED BY <1>2, <1>4, <1>5, <1>6, <1>7, <1>8, MappedExcept DEF Budget!Ask

\* The end of request r other than by an INCR: r holds no token afterwards.
LEMMA ReplyIsDecide ==
  ASSUME AppTypeOK, NEW r \in Requests, ServeRequest(r), NEW a, Reply(r, a)
  PROVE  Budget!Decide(r, VerdictOf[a]) /\ needs' = needs
  <1>1. reqStage'[r] = "done" /\ answer'[r] = a
    BY DEF Reply, GoTo, AppTypeOK
  <1>2. paid'[r] = {} /\ verdict'[r] = VerdictOf[a]
    BY <1>1, PastKeysByStageNext DEF paid, verdict
  <1> QED BY <1>2, NeedsKept, MappedExcept, MappedShape DEF Budget!Decide

\* A list read decides the request before it pays, or changes no budget.
LEMMA ListChecks ==
  ASSUME AppTypeOK, NEW r \in Requests, CheckBlacklist(r) \/ CheckWhitelist(r)
  PROVE  \/ \E v \in {"exempted", "barred"} : Budget!ByList(r, v)
         \/ UNCHANGED <<left, needs, paid, verdict>>
  <1>1. ServeRequest(r)
    BY DEF ServeRequest
  <1>2. Budget!Pending(r)
    BY <1>1, NeedsKept DEF Budget!Pending
  <1>3. left' = left
    BY LeftStay DEF CheckBlacklist, CheckWhitelist, budgetVars
  <1>4. paid[r] = {}
    BY PastKeysByStage DEF CheckBlacklist, CheckWhitelist, paid
  <1>5. CASE Reply(r, "blacklisted") \/ Reply(r, "whitelisted")
    BY <1>1, <1>2, <1>3, <1>4, <1>5, ReplyIsDecide, VerdictValues DEF Budget!ByList
  <1>6. CASE (GoTo(r, "whitelist") \/ GoTo(r, "login")) /\ answer' = answer
    <2>1. paid'[r] = {}
      BY <1>6, PastKeysByStageNext DEF GoTo, AppTypeOK, paid
    <2>2. verdict'[r] = verdict[r]
      BY <1>6 DEF verdict
    <2>3. needs' = needs
      BY <1>1, NeedsKept, MappedExcept, MappedShape
    <2>4. paid' = paid
      BY <1>1, <1>4, <2>1, MappedExcept, MappedShape
    <2>5. verdict' = verdict
      BY <1>1, <2>2, MappedExcept, MappedShape
    <2> QED BY <1>3, <2>3, <2>4, <2>5
  <1> QED BY <1>5, <1>6 DEF CheckBlacklist, CheckWhitelist

\* An error fails one request.
LEMMA ErrorIsFail ==
  ASSUME AppTypeOK, NEW r \in Requests, StorageError(r)
  PROVE  Budget!Fail({r})
  <1>1. ServeRequest(r) /\ Reply(r, "error")
    BY DEF ServeRequest, StorageError
  <1>2. Budget!Pending(r)
    BY <1>1, NeedsKept DEF Budget!Pending
  <1>3. left' = left
    BY LeftStay DEF StorageError, budgetVars
  <1>4. /\ verdict' = [verdict EXCEPT ![r] = "failed"] /\ paid' = [paid EXCEPT ![r] = {}]
        /\ needs' = needs
    BY <1>1, ReplyIsDecide, VerdictValues DEF Budget!Decide
  <1>5. /\ verdict' = [q \in Requests |-> IF q \in {r} THEN "failed" ELSE verdict[q]]
        /\ paid' = [q \in Requests |-> IF q \in {r} THEN {} ELSE paid[q]]
    BY <1>4, MappedShape
  <1> QED BY <1>2, <1>3, <1>4, <1>5 DEF Budget!Fail

\* A count over the limit finds the budget spent.
LEMMA OverIsLimited ==
  ASSUME AppTypeOK, NEW r \in Requests, Increase(r),
         OverLimit(Key(r, reqStage[r]), bucket[Key(r, reqStage[r])] + 1)
  PROVE  \E k \in Keys : Budget!Limited(r, k)
  <1> DEFINE k == Key(r, reqStage[r])
  <1>1. ServeRequest(r)
    BY DEF ServeRequest
  <1>2. k \in Keys /\ reqStage[r] \in Kinds
    BY KeyType DEF AppTypeOK, Increase, Kinds
  <1>3. bucket[k] \in Nat /\ Limit[k] \in Nat
    BY <1>2, LimitType DEF AppTypeOK
  <1>4. bucket[k] >= Limit[k]
    BY <1>3 DEF OverLimit
  <1>5. left[k] = 0
    BY <1>2, <1>4, LeftAt
  <1>6. /\ bucket' = [bucket EXCEPT ![k] = bucket[k] + 1]
        /\ Reply(r, reqStage[r])
    BY DEF Increase
  <1>7. left' = left
    <2>1. \A j \in Keys : (IF bucket'[j] >= Limit[j] THEN 0 ELSE Limit[j] - bucket'[j])
                            = (IF bucket[j] >= Limit[j] THEN 0 ELSE Limit[j] - bucket[j])
      BY <1>2, <1>3, <1>4, <1>6 DEF AppTypeOK
    <2> QED BY <2>1 DEF left
  <1>8. k \in needs[r] \ paid[r]
    <2>1. k \in KeysOf(r)
      BY <1>2 DEF KeysOf
    <2>2. k \notin PastKeys(r)
      BY <1>2, PastKeysByStage, KeysDiffer DEF Kinds
    <2> QED BY <1>1, <2>1, <2>2, NeedsKept, MappedAt
  <1>9. Budget!Pending(r)
    BY <1>1, NeedsKept DEF Budget!Pending
  <1>10. Budget!Decide(r, "limited") /\ needs' = needs
    BY <1>1, <1>2, <1>6, ReplyIsDecide, VerdictValues
  <1> QED BY <1>2, <1>5, <1>7, <1>8, <1>9, <1>10 DEF Budget!Limited

\* A count within the limit takes a token, and the third one allows the request.
LEMMA PassIsPay ==
  ASSUME AppTypeOK, BudgetInv, NEW r \in Requests, Increase(r),
         ~OverLimit(Key(r, reqStage[r]), bucket[Key(r, reqStage[r])] + 1)
  PROVE  \E k \in Keys : Budget!Pay(r, k)
  <1> DEFINE k == Key(r, reqStage[r])
  <1>1. ServeRequest(r)
    BY DEF ServeRequest
  <1>2. /\ k \in Keys /\ bucket' = [bucket EXCEPT ![k] = bucket[k] + 1]
        /\ bucket[k] + 1 <= Limit[k]
        /\ reqStage'[r] # "done" => PastKeys(r)' = PastKeys(r) \union {k}
        /\ reqStage'[r] = "done" =>
                /\ reqStage[r] = "ip"
                /\ PastKeys(r)' = {} /\ KeysOf(r) = PastKeys(r) \union {k}
    BY IncreasePasses
  <1>3. reqStage[r] \in Kinds
    BY DEF Increase
  <1>4. k \in KeysOf(r) /\ k \notin PastKeys(r)
    BY <1>3, PastKeysByStage, KeysDiffer DEF KeysOf, Kinds
  <1> HIDE DEF k
  <1>5. bucket[k] \in Nat /\ Limit[k] \in Nat
    BY <1>2, LimitType DEF AppTypeOK
  <1>6. left[k] = Limit[k] - bucket[k] /\ left[k] > 0
    BY <1>2, <1>5 DEF left
  <1>7. left' = [left EXCEPT ![k] = left[k] - 1]
    <2>1. \A j \in Keys : left'[j] = IF j = k THEN left[k] - 1 ELSE left[j]
      <3> SUFFICES ASSUME NEW j \in Keys PROVE left'[j] = IF j = k THEN left[k] - 1 ELSE left[j]
        OBVIOUS
      <3>1. CASE j = k
        BY <1>2, <1>5, <1>6, <3>1 DEF left, AppTypeOK
      <3>2. CASE j # k
        BY <1>2, <3>2 DEF left, AppTypeOK
      <3> QED BY <3>1, <3>2
    <2> QED BY <2>1, MappedShape
  <1>8. Budget!Pending(r) /\ needs[r] = KeysOf(r) /\ paid[r] = PastKeys(r)
    BY <1>1, NeedsKept, MappedAt DEF Budget!Pending
  <1>9. needs' = needs
    BY <1>1, NeedsKept, MappedExcept, MappedShape
  <1>10. CASE reqStage'[r] = "done"
    <2>1. Reply(r, "ok")
      <3>1. reqStage[r] = "ip"
        BY <1>2, <1>10
      <3> QED BY <1>10, <3>1 DEF Increase
    <2>2. Budget!Decide(r, "allowed")
      BY <1>1, <2>1, ReplyIsDecide, VerdictValues
    <2>3. paid[r] \union {k} = needs[r]
      BY <1>2, <1>8, <1>10
    <2> QED BY <1>2, <1>4, <1>6, <1>7, <1>8, <1>9, <2>2, <2>3 DEF Budget!Pay
  <1>11. CASE reqStage'[r] # "done"
    <2>1. reqStage[r] # "ip" /\ answer' = answer
      BY <1>11 DEF Increase, Reply, GoTo, AppTypeOK
    <2>2. Key(r, "ip") \in KeysOf(r) /\ Key(r, "ip") \notin PastKeys(r) \union {k}
      BY <1>3, <2>1, PastKeysByStage, KeysDiffer DEF KeysOf, Kinds, k
    <2>3. paid[r] \union {k} # needs[r]
      BY <1>8, <2>2
    <2>4. paid' = [paid EXCEPT ![r] = paid[r] \union {k}]
      <3>1. paid'[r] = PastKeys(r)'
        BY DEF paid
      <3> QED BY <1>1, <1>2, <1>8, <1>11, <3>1, MappedExcept
    <2>5. verdict' = verdict
      BY <2>1 DEF verdict
    <2> QED BY <1>2, <1>4, <1>6, <1>7, <1>8, <1>9, <2>3, <2>4, <2>5 DEF Budget!Pay
  <1> QED BY <1>10, <1>11

\* A count nobody waits for wastes a token, if one is left.
LEMMA LandIsWaste ==
  ASSUME AppTypeOK, NEW k \in Keys, LandIncrease(k)
  PROVE  (\E j \in Keys : Budget!Waste(j)) \/ UNCHANGED <<left, needs, paid, verdict>>
  <1>1. /\ cred' = cred /\ reqStage' = reqStage /\ answer' = answer
        /\ bucket' = [bucket EXCEPT ![k] = bucket[k] + 1]
    BY DEF LandIncrease
  <1>2. \A q \in Requests : needs'[q] = needs[q] /\ paid'[q] = paid[q] /\ verdict'[q] = verdict[q]
    BY <1>1, MappedStay
  <1>3. UNCHANGED <<needs, paid, verdict>>
    BY <1>2, MappedShape
  <1>4. bucket[k] \in Nat /\ Limit[k] \in Nat /\ bucket'[k] = bucket[k] + 1
    BY <1>1, LimitType DEF AppTypeOK
  <1>5. \A j \in Keys \ {k} : left'[j] = left[j]
    BY <1>1 DEF left, AppTypeOK
  <1>6. CASE bucket[k] >= Limit[k]
    <2>1. left'[k] = left[k]
      BY <1>4, <1>6 DEF left
    <2>2. left' = left
      BY <1>5, <2>1, MappedShape
    <2> QED BY <1>3, <2>2
  <1>7. CASE bucket[k] < Limit[k]
    <2>1. left[k] > 0 /\ left'[k] = left[k] - 1
      BY <1>4, <1>7 DEF left
    <2>2. left' = [left EXCEPT ![k] = left[k] - 1]
      BY <1>5, <2>1, MappedShape
    <2> QED BY <1>3, <2>1, <2>2 DEF Budget!Waste
  <1> QED BY <1>4, <1>6, <1>7

\* A crash fails all that are undecided.
LEMMA CrashIsFail ==
  ASSUME AppTypeOK, Crash
  PROVE  \E rs \in SUBSET Requests : Budget!Fail(rs)
  <1> DEFINE rs == {r \in Requests : Undecided(r)}
  <1>1. left' = left
    BY LeftStay DEF Crash, budgetVars
  <1>2. ASSUME NEW r \in Requests, Undecided(r)
        PROVE  /\ Budget!Pending(r) /\ needs'[r] = needs[r]
               /\ verdict'[r] = "failed" /\ paid'[r] = {}
    <2>1. /\ reqStage[r] # "idle" /\ answer[r] = "none" /\ cred' = cred
          /\ reqStage'[r] = "done" /\ answer'[r] = "lost"
      BY <1>2 DEF Crash, Undecided, AppTypeOK
    <2>2. KeysOf(r) # {} /\ KeysOf(r)' = KeysOf(r)
      BY <2>1, KeysOfType DEF AppTypeOK, KeysOf, Key
    <2> QED BY <2>1, <2>2, PastKeysByStageNext, VerdictValues
            DEF Budget!Pending, needs, paid, verdict
  <1>3. ASSUME NEW r \in Requests, ~Undecided(r)
        PROVE  needs'[r] = needs[r] /\ verdict'[r] = verdict[r] /\ paid'[r] = paid[r]
    BY <1>3, MappedStay DEF Crash
  <1>4. needs' = needs
    BY <1>2, <1>3, MappedShape
  <1>5. verdict' = [r \in Requests |-> IF r \in rs THEN "failed" ELSE verdict[r]]
    BY <1>2, <1>3, MappedShape
  <1>6. paid' = [r \in Requests |-> IF r \in rs THEN {} ELSE paid[r]]
    BY <1>2, <1>3, MappedShape
  <1> QED BY <1>1, <1>2, <1>4, <1>5, <1>6 DEF Budget!Fail

\* A flush or a clear refills.
LEMMA ResetIsRefill ==
  ASSUME AppTypeOK, NEW ks \in SUBSET Keys, ResetKeys(ks), UNCHANGED requestVars
  PROVE  Budget!Refill(ks)
  <1>1. \A k \in Keys : left'[k] = IF k \in ks THEN Limit[k] ELSE left[k]
    BY LimitType DEF left, ResetKeys
  <1>2. left' = [k \in Keys |-> IF k \in ks THEN Limit[k] ELSE left[k]]
    BY <1>1, MappedShape
  <1>3. \A q \in Requests : needs'[q] = needs[q] /\ paid'[q] = paid[q] /\ verdict'[q] = verdict[q]
    BY MappedStay DEF requestVars
  <1>4. UNCHANGED <<needs, paid, verdict>>
    BY <1>3, MappedShape
  <1> QED BY <1>2, <1>4 DEF Budget!Refill

\* Every step of the service is a step of the budgets or leaves them alone.
LEMMA BudgetNext ==
  ASSUME AppTypeOK, BudgetInv, [AppNext]_appVars
  PROVE  [Budget!Next]_<<left, needs, paid, verdict>>
  <1> USE DEF Budget!Next
  <1>1. ASSUME NEW r \in Requests, NEW c \in Creds, BeginRequest(r, c) PROVE Budget!Next
    BY <1>1, BeginIsAsk
  <1>2. ASSUME NEW r \in Requests, CheckBlacklist(r) \/ CheckWhitelist(r)
        PROVE  Budget!Next \/ UNCHANGED <<left, needs, paid, verdict>>
    BY <1>2, ListChecks
  <1>3. ASSUME NEW r \in Requests, Increase(r) PROVE Budget!Next
    BY <1>3, OverIsLimited, PassIsPay
  <1>4. ASSUME NEW k \in Keys, LandIncrease(k)
        PROVE  Budget!Next \/ UNCHANGED <<left, needs, paid, verdict>>
    BY <1>4, LandIsWaste
  <1>5. ASSUME NEW r \in Requests, StorageError(r) PROVE Budget!Next
    BY <1>5, ErrorIsFail
  <1>6. CASE Crash
    BY <1>6, CrashIsFail
  <1>7. CASE Flush
    BY <1>7, ResetIsRefill DEF Flush
  <1>8. ASSUME NEW k \in Keys, ClearBucket(k) PROVE Budget!Next
    BY <1>8, ResetIsRefill DEF ClearBucket
  <1>9. ASSUME UNCHANGED budgetVars, UNCHANGED <<cred, reqStage, answer>>
        PROVE  UNCHANGED <<left, needs, paid, verdict>>
    <2>1. \A q \in Requests : needs'[q] = needs[q] /\ paid'[q] = paid[q] /\ verdict'[q] = verdict[q]
      BY <1>9, MappedStay
    <2> QED BY <1>9, <2>1, MappedShape, LeftStay DEF budgetVars
  <1>10. CASE Boot
    <2>1. CASE ResetKeys(Keys)
      BY <1>10, <2>1, ResetIsRefill DEF Boot
    <2> QED BY <1>9, <1>10, <2>1 DEF Boot, requestVars
  <1>11. CASE (\E r \in Requests : IncreaseLost(r)) \/ CallStep \/ UNCHANGED appVars
    BY <1>9, <1>11 DEF IncreaseLost, CallStep, appVars, budgetVars, requestVars
  <1> QED BY <1>1, <1>2, <1>3, <1>4, <1>5, <1>6, <1>7, <1>8, <1>10, <1>11
          DEF AppNext, ServeRequest

\* The service implements the token budgets, for every limit and every number
\* of requests (app.go:76-165 against RateBudget.tla).
THEOREM BudgetRefinement == AppSpec => BudgetSpec
  <1>1. AppInv /\ [AppNext]_appVars => [Budget!Next]_(Budget!vars)
    BY BudgetNext DEF AppInv, Budget!vars
  <1>2. AppSpec => [][Budget!Next]_(Budget!vars)
    BY <1>1, AppInvariant, PTL DEF AppSpec
  <1> QED BY <1>2, BudgetInit, PTL DEF AppSpec, BudgetSpec, Budget!Spec
=============================================================================
