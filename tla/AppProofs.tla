------------------------------ MODULE AppProofs ------------------------------
(***************************************************************************)
(* Proofs about App, for every set of requests, keys, calls and subnets,   *)
(* every limit and every number of attempts.                               *)
(***************************************************************************)
EXTENDS App, ListsProofs, FiniteSetTheorems

\* The keys of a request with credentials are keys, each of its kind.
LEMMA KeyType ==
  ASSUME NEW r \in Requests, cred[r] \in Creds, NEW kind \in Kinds
  PROVE  Key(r, kind) \in Keys /\ Key(r, kind)[1] = kind
  BY DEF Key, Kinds, Creds, Keys

\* Keys of different kinds differ, whatever the login, password or IP is
\* written like (app.go:95-115: the prefixes).
LEMMA KeysDiffer ==
  ASSUME NEW r, NEW q, NEW a, NEW b, Key(r, a) = Key(q, b) PROVE a = b
  BY DEF Key

\* Every key has a limit.
LEMMA LimitType == Limit \in [Keys -> Nat]
  <1> SUFFICES ASSUME NEW k \in Keys
               PROVE  [login |-> limitLogin, password |-> limitPassword, ip |-> limitIP][k[1]] \in Nat
    BY DEF Limit
  <1>1. k[1] \in Kinds
    BY DEF Keys, Kinds
  <1> QED BY <1>1, LimitsAssumption DEF Kinds

-----------------------------------------------------------------------------
(* The lists inside the service: a step of the service is a step of the      *)
(* lists, or leaves them alone, or is a crash.                               *)

\* A step of the service is a step of the lists, or leaves them alone, or is a
\* crash.
LEMMA AppListsStep ==
  ASSUME [AppNext]_appVars
  PROVE  [ListsNext]_listsVars \/ Crash
  BY DEF AppNext, appVars, BeginRequest, ServeRequest, CheckBlacklist, CheckWhitelist,
         Increase, IncreaseLost, StorageError, Flush, ClearBucket, LandIncrease, Boot,
         CallStep, ListsNext

\* What a crash does to a call.
LEMMA CrashFrame ==
  ASSUME ListsTypeOK, Crash, NEW c \in Calls
  PROVE  /\ table' = table /\ ask' = ask /\ listed' = listed /\ before' = before
         /\ Settled(c) => Settled(c)' /\ reply'[c] = reply[c]
         /\ reply'[c] \in {reply[c], "lost"}
         /\ callStage'[c] # callStage[c] =>
                \/ callStage[c] = "write" /\ callStage'[c] = "late"
                \/ callStage'[c] = "done"
         /\ callStage'[c] = "idle" <=> callStage[c] = "idle"
  BY DEF Crash, ListsTypeOK, Settled, InProgress

\* A crash keeps the types of the lists.
LEMMA CrashListsType ==
  ASSUME ListsTypeOK, Crash PROVE ListsTypeOK'
  <1> USE DEF ListsTypeOK
  <1>1. callStage' \in [Calls -> Stages] /\ reply' \in [Calls -> Replies]
    BY DEF Crash, Stages, Replies
  <1>2. \A c \in Calls :
          /\ callStage'[c] = "idle" <=> callStage[c] = "idle"
          /\ callStage'[c] = "check" => callStage[c] = "check"
          /\ callStage'[c] \in {"write", "late"} => callStage[c] \in {"write", "late"}
          /\ callStage'[c] = "read" => callStage[c] = "read"
    BY CrashFrame
  <1>3. table' = table /\ ask' = ask /\ listed' = listed /\ before' = before
    BY DEF Crash
  <1> QED BY <1>1, <1>2, <1>3

\* A crash keeps the invariant of the lists: it takes away no row and no
\* answer.
LEMMA CrashListsInv ==
  ASSUME ListsInv, Crash PROVE ListsInv'
  <1> USE DEF ListsInv, ListsTypeOK
  <1>1. ListsTypeOK'
    BY CrashListsType
  <1>2. SettledCalls \subseteq SettledCalls'
    BY CrashFrame DEF SettledCalls
  <1>3. BeforeAreSettled' /\ RowsAreSettled'
    BY <1>2, CrashFrame DEF Crash, BeforeAreSettled, RowsAreSettled
  <1>4. RepliesFit'
    BY CrashFrame DEF Crash, RepliesFit
  <1>5. \A d \in Calls : PastCheck(d)' => PastCheck(d)
    BY CrashFrame DEF Crash, PastCheck
  <1>6. ChecksHold'
    BY <1>5 DEF Crash, ChecksHold, RowsOf
  <1>7. \A c \in Calls : /\ reply'[c] = "added" => reply[c] = "added"
                         /\ reply'[c] \in {"removed", "norecord"} => reply[c] \in {"removed", "norecord"}
                         /\ reply'[c] = "no" => reply[c] = "no"
                         /\ reply'[c] = "all" => reply[c] = "all"
    BY CrashFrame
  <1>8. AddIsDurable'
    BY <1>7 DEF Crash, AddIsDurable, RemoveMayFollow, SameEntry
  <1>9. RemoveIsComplete'
    BY <1>7 DEF Crash, RemoveIsComplete, SameEntry
  <1>10. LookupSeesAdds'
    BY <1>7 DEF Crash, LookupSeesAdds, Misses, RemoveMayFollow, SameEntry
  <1> QED BY <1>1, <1>3, <1>4, <1>6, <1>8, <1>9, <1>10

\* What the properties of requests use of the lists: settled calls stay as they
\* are, and a remove that may follow an add goes on being one.
LEMMA AppListsFrame ==
  ASSUME ListsInv, [AppNext]_appVars
  PROVE  /\ ListsInv'
         /\ \A c \in SettledCalls : /\ c \in SettledCalls'
                                    /\ ask'[c] = ask[c] /\ reply'[c] = reply[c]
         /\ \A c \in Calls : RemoveMayFollow(c) => RemoveMayFollow(c)'
  <1>1. CASE [ListsNext]_listsVars
    <2>1. \A c \in SettledCalls : /\ c \in SettledCalls'
                                  /\ ask'[c] = ask[c] /\ reply'[c] = reply[c]
      BY <1>1, StepFrame DEF ListsInv, SettledCalls, Settled
    <2> QED BY <1>1, <2>1, ListsInvNext, RemoveMayFollowStays
  <1>2. CASE Crash
    <2>1. \A c \in SettledCalls : /\ c \in SettledCalls'
                                  /\ ask'[c] = ask[c] /\ reply'[c] = reply[c]
      BY <1>2, CrashFrame DEF ListsInv, SettledCalls, Crash
    <2>2. \A c \in Calls : RemoveMayFollow(c) => RemoveMayFollow(c)'
      BY <1>2 DEF Crash, RemoveMayFollow, SameEntry
    <2> QED BY <1>2, <2>1, <2>2, CrashListsInv
  <1> QED BY <1>1, <1>2, AppListsStep

-----------------------------------------------------------------------------
(* Type correctness. *)

\* The service starts well typed.
LEMMA AppTypeInit == AppInit => AppTypeOK
  <1> SUFFICES ASSUME AppInit PROVE AppTypeOK
    OBVIOUS
  <1>1. ListsTypeOK
    BY ListsTypeInit DEF AppInit
  <1> QED BY <1>1, MaxAttemptsAssumption DEF AppInit, AppTypeOK, RequestStages, Answers

\* A reset keeps the types of the buckets and their history.
LEMMA ResetType ==
  ASSUME AppTypeOK, NEW ks, ResetKeys(ks)
  PROVE  /\ bucket' \in [Keys -> Nat]
         /\ passes' \in [Keys -> SUBSET Requests]
         /\ carried' \in [Keys -> SUBSET Requests]
         /\ admitted' \in [Keys -> SUBSET Requests]
         /\ wasted' \in [Keys -> Nat]
  BY DEF AppTypeOK, ResetKeys

\* Every step keeps the types of the lists.
LEMMA AppListsTypeNext ==
  ASSUME ListsTypeOK, [AppNext]_appVars PROVE ListsTypeOK'
  BY AppListsStep, ListsTypeNext, CrashListsType

\* Every step keeps the types.
LEMMA AppTypeNext == AppTypeOK /\ [AppNext]_appVars => AppTypeOK'
  <1> SUFFICES ASSUME AppTypeOK, [AppNext]_appVars PROVE AppTypeOK'
    OBVIOUS
  <1>0. ListsTypeOK'
    BY AppListsTypeNext DEF AppTypeOK
  <1> USE <1>0, MaxAttemptsAssumption DEF AppTypeOK
  <1>1. ASSUME NEW r \in Requests, NEW c \in Creds, BeginRequest(r, c) PROVE AppTypeOK'
    BY <1>1 DEF BeginRequest, budgetVars, RequestStages, SettledCalls
  <1>2. ASSUME NEW r \in Requests, CheckBlacklist(r) PROVE AppTypeOK'
    BY <1>2 DEF CheckBlacklist, Reply, GoTo, budgetVars, RequestStages, Answers
  <1>3. ASSUME NEW r \in Requests, CheckWhitelist(r) PROVE AppTypeOK'
    BY <1>3 DEF CheckWhitelist, Reply, GoTo, budgetVars, RequestStages, Answers, Kinds
  <1>4. ASSUME NEW r \in Requests, Increase(r) PROVE AppTypeOK'
    <2> DEFINE k == Key(r, reqStage[r])
    <2>1. k \in Keys /\ cred[r] \in Creds
      BY <1>4, KeyType DEF Increase, Kinds
    <2>2. /\ bucket' \in [Keys -> Nat]
          /\ passes' \in [Keys -> SUBSET Requests]
          /\ admitted' \in [Keys -> SUBSET Requests]
      BY <1>4, <2>1 DEF Increase
    <2>3. reqStage[r] # "ip" => NextKind[reqStage[r]] \in Kinds
      BY <1>4 DEF Increase, Kinds, NextKind
    <2>4. /\ reqStage' \in [Requests -> RequestStages] /\ answer' \in [Requests -> Answers]
          /\ attempts' \in [Requests -> 0..MaxAttempts]
      BY <1>4, <2>3 DEF Increase, Reply, GoTo, RequestStages, Answers
    <2>5. \A q \in Requests :
            /\ reqStage'[q] # "idle" => cred[q] \in Creds
            /\ reqStage'[q] = "done" <=> answer'[q] # "none"
      BY <1>4, <2>1, <2>3 DEF Increase, Reply, GoTo, Kinds
    <2> QED BY <1>4, <2>2, <2>4, <2>5 DEF Increase
  <1>5. ASSUME NEW r \in Requests, IncreaseLost(r) PROVE AppTypeOK'
    <2>1. attempts' \in [Requests -> 0..MaxAttempts]
      BY <1>5 DEF IncreaseLost
    <2>2. inFlight' \in [Keys -> Nat]
      BY <1>5, KeyType DEF IncreaseLost, Kinds
    <2> QED BY <1>5, <2>1, <2>2 DEF IncreaseLost, budgetVars
  <1>6. ASSUME NEW r \in Requests, StorageError(r) PROVE AppTypeOK'
    BY <1>6 DEF StorageError, Undecided, Reply, GoTo, budgetVars, RequestStages, Answers
  <1>7. CASE Flush
    BY <1>7, ResetType DEF Flush, requestVars
  <1>8. ASSUME NEW k \in Keys, ClearBucket(k) PROVE AppTypeOK'
    BY <1>8, ResetType DEF ClearBucket, requestVars
  <1>9. ASSUME NEW k \in Keys, LandIncrease(k) PROVE AppTypeOK'
    <2>1. bucket' \in [Keys -> Nat] /\ wasted' \in [Keys -> Nat] /\ inFlight' \in [Keys -> Nat]
      BY <1>9 DEF LandIncrease
    <2> QED BY <1>9, <2>1 DEF LandIncrease
  <1>10. CASE Crash
    <2>1. /\ reqStage' \in [Requests -> RequestStages] /\ answer' \in [Requests -> Answers]
          /\ attempts' \in [Requests -> 0..MaxAttempts]
      BY <1>10 DEF Crash, RequestStages, Answers
    <2>2. \A r \in Requests :
            /\ reqStage'[r] # "idle" => reqStage[r] # "idle"
            /\ reqStage'[r] = "done" <=> answer'[r] # "none"
      BY <1>10 DEF Crash, Undecided
    <2>3. up' \in BOOLEAN
      BY <1>10 DEF Crash
    <2>4. UNCHANGED <<cred, inFlight, settledAt, bucket, passes, carried, admitted, wasted>>
      BY <1>10 DEF Crash, budgetVars
    <2> QED BY <2>1, <2>2, <2>3, <2>4
  <1>11. CASE Boot
    BY <1>11, ResetType DEF Boot, requestVars, budgetVars
  <1>12. CASE CallStep
    BY <1>12 DEF CallStep, requestVars, budgetVars
  <1>13. CASE UNCHANGED appVars
    BY <1>13 DEF appVars
  <1> QED BY <1>1, <1>2, <1>3, <1>4, <1>5, <1>6, <1>7, <1>8, <1>9, <1>10, <1>11, <1>12, <1>13
          DEF AppNext, ServeRequest

-----------------------------------------------------------------------------
(* The budgets.                                                              *)

\* Each request let past a key was counted there since its last reset.
PassesAreCounted ==
    \A k \in Keys : /\ IsFiniteSet(passes[k])
                    /\ Cardinality(passes[k]) <= bucket[k]
                    /\ Cardinality(passes[k]) <= Limit[k]

\* And each count, up to the limit, was a request let past or a lost reply.
CountsAreAccounted ==
    \A k \in Keys : \/ bucket[k] <= Cardinality(passes[k]) + wasted[k]
                    \/ Limit[k] <= Cardinality(passes[k]) + wasted[k]

\* A request let past a key has moved on from it.
PassesMovedOn ==
    \A k \in Keys : \A r \in passes[k] : reqStage[r] = "done" \/ k \in PastKeys(r)

\* A request past a key was let past since the last reset, or was past it then.
PastAreKnown == \A r \in Requests : \A k \in PastKeys(r) : r \in passes[k] \union carried[k]

AdmittedAreKnown == \A k \in Keys : admitted[k] \subseteq passes[k] \union carried[k]

BudgetInv ==
    /\ PassesAreCounted
    /\ CountsAreAccounted
    /\ PassesMovedOn
    /\ PastAreKnown
    /\ AdmittedAreKnown

\* PastKeys, stage by stage.
LEMMA PastKeysByStage ==
  ASSUME NEW r
  PROVE  /\ reqStage[r] = "password" => PastKeys(r) = {Key(r, "login")}
         /\ reqStage[r] = "ip" => PastKeys(r) = {Key(r, "login"), Key(r, "password")}
         /\ reqStage[r] \notin {"password", "ip"} => PastKeys(r) = {}
  <1>1. DOMAIN PassedKinds = {"password", "ip"}
    BY DEF PassedKinds
  <1>2. PassedKinds["password"] = {"login"} /\ PassedKinds["ip"] = {"login", "password"}
    BY DEF PassedKinds
  <1> QED BY <1>1, <1>2 DEF PastKeys

\* The same after a step.
LEMMA PastKeysByStageNext ==
  ASSUME NEW r
  PROVE  /\ reqStage'[r] = "password" => PastKeys(r)' = {Key(r, "login")'}
         /\ reqStage'[r] = "ip" => PastKeys(r)' = {Key(r, "login")', Key(r, "password")'}
         /\ reqStage'[r] \notin {"password", "ip"} => PastKeys(r)' = {}
  <1>1. DOMAIN PassedKinds = {"password", "ip"}
    BY DEF PassedKinds
  <1>2. PassedKinds["password"] = {"login"} /\ PassedKinds["ip"] = {"login", "password"}
    BY DEF PassedKinds
  <1> QED BY <1>1, <1>2 DEF PastKeys

\* They change with the stage and the credentials only.
LEMMA PastKeysStay ==
  ASSUME NEW r, reqStage'[r] = reqStage[r], cred'[r] = cred[r]
  PROVE  PastKeys(r)' = PastKeys(r)
  BY DEF PastKeys, Key

\* An INCR that lets r past: r was not among the passes of the key, and is past
\* the key now; nothing else moves.
LEMMA IncreasePasses ==
  ASSUME AppTypeOK, BudgetInv, NEW r \in Requests, Increase(r),
         ~OverLimit(Key(r, reqStage[r]), bucket[Key(r, reqStage[r])] + 1)
  PROVE  LET k == Key(r, reqStage[r]) IN
         /\ k \in Keys /\ r \notin passes[k]
         /\ bucket' = [bucket EXCEPT ![k] = bucket[k] + 1] /\ bucket[k] + 1 <= Limit[k]
         /\ passes' = [passes EXCEPT ![k] = passes[k] \union {r}]
         /\ carried' = carried /\ wasted' = wasted
         /\ reqStage'[r] # "done" => PastKeys(r)' = PastKeys(r) \union {k}
         /\ reqStage'[r] = "done" =>
                /\ reqStage[r] = "ip"
                /\ PastKeys(r)' = {} /\ KeysOf(r) = PastKeys(r) \union {k}
                /\ \A j \in Keys : admitted'[j] = admitted[j] \union (IF j \in KeysOf(r) THEN {r} ELSE {})
         /\ reqStage'[r] # "done" => admitted' = admitted
         /\ \A q \in Requests \ {r} : reqStage'[q] = reqStage[q] /\ PastKeys(q)' = PastKeys(q)
  <1> DEFINE k == Key(r, reqStage[r])
  <1> USE DEF AppTypeOK
  <1>1. k \in Keys /\ reqStage[r] \in Kinds /\ cred' = cred
    BY KeyType DEF Increase, Kinds
  <1>2. bucket[k] \in Nat /\ Limit[k] \in Nat
    BY <1>1, LimitType
  <1>3. bucket[k] + 1 <= Limit[k]
    BY <1>2 DEF OverLimit
  <1>4. /\ bucket' = [bucket EXCEPT ![k] = bucket[k] + 1]
        /\ passes' = [passes EXCEPT ![k] = passes[k] \union {r}]
        /\ carried' = carried /\ wasted' = wasted
    BY DEF Increase
  <1>5. k \notin PastKeys(r)
    BY <1>1, PastKeysByStage, KeysDiffer DEF Kinds
  <1>6. r \notin passes[k]
    BY <1>1, <1>5 DEF BudgetInv, PassesMovedOn, Kinds
  <1>7. \A q \in Requests \ {r} : reqStage'[q] = reqStage[q]
    BY DEF Increase, Reply, GoTo
  <1>8. \A q \in Requests \ {r} : PastKeys(q)' = PastKeys(q)
    BY <1>1, <1>7 DEF PastKeys, Key
  <1>9. \A kind \in Kinds : Key(r, kind)' = Key(r, kind)
    BY <1>1 DEF Key
  <1>10. CASE reqStage[r] = "ip"
    <2>1. reqStage'[r] = "done" /\ admitted' = [j \in Keys |-> IF j \in KeysOf(r)
                                                  THEN admitted[j] \union {r} ELSE admitted[j]]
      BY <1>10 DEF Increase, Reply, GoTo
    <2>2. PastKeys(r)' = {}
      BY <2>1, PastKeysByStageNext
    <2>3. KeysOf(r) = PastKeys(r) \union {k}
      BY <1>10, PastKeysByStage DEF KeysOf, Kinds
    <2> QED BY <1>1, <1>3, <1>4, <1>6, <1>7, <1>8, <1>10, <2>1, <2>2, <2>3
  <1>11. CASE reqStage[r] # "ip"
    <2>1. reqStage'[r] = NextKind[reqStage[r]] /\ admitted' = admitted
      BY <1>11 DEF Increase, GoTo
    <2>2. reqStage[r] = "login" => NextKind[reqStage[r]] = "password"
      BY DEF NextKind
    <2>3. reqStage[r] = "password" => NextKind[reqStage[r]] = "ip"
      BY DEF NextKind
    <2>4. PastKeys(r)' = PastKeys(r) \union {k}
      BY <1>1, <1>9, <1>11, <2>1, <2>2, <2>3, PastKeysByStage, PastKeysByStageNext DEF Kinds
    <2>5. reqStage'[r] # "done"
      BY <1>1, <1>11, <2>1, <2>2, <2>3 DEF Kinds
    <2> QED BY <1>1, <1>3, <1>4, <1>6, <1>7, <1>8, <2>1, <2>4, <2>5
  <1> QED BY <1>10, <1>11

\* The invariant of the buckets holds at the start, when nothing has been
\* counted.
LEMMA BudgetInvInit == AppInit => BudgetInv
  <1> SUFFICES ASSUME AppInit PROVE BudgetInv
    OBVIOUS
  <1>1. IsFiniteSet({}) /\ Cardinality({}) = 0
    BY FS_EmptySet
  <1>2. PassesAreCounted /\ CountsAreAccounted
    BY <1>1, LimitType DEF AppInit, PassesAreCounted, CountsAreAccounted
  <1>3. PassesMovedOn /\ AdmittedAreKnown
    BY DEF AppInit, PassesMovedOn, AdmittedAreKnown
  <1>4. PastAreKnown
    BY PastKeysByStage DEF AppInit, PastAreKnown
  <1> QED BY <1>2, <1>3, <1>4 DEF BudgetInv

\* A step that counts nothing, and moves a request, if at all, to its end or to
\* a stage where it is past no key.
LEMMA BudgetQuiet ==
  ASSUME BudgetInv, UNCHANGED budgetVars,
         \A q \in Requests : \/ reqStage'[q] = reqStage[q] /\ PastKeys(q)' = PastKeys(q)
                             \/ reqStage'[q] = "done" /\ PastKeys(q)' = {}
                             \/ PastKeys(q) = {} /\ PastKeys(q)' = {} /\ reqStage[q] # "done",
         passes \in [Keys -> SUBSET Requests]
  PROVE  BudgetInv'
  <1> USE DEF BudgetInv, budgetVars
  <1>1. PassesAreCounted' /\ CountsAreAccounted' /\ AdmittedAreKnown'
    BY DEF PassesAreCounted, CountsAreAccounted, AdmittedAreKnown
  <1>2. PassesMovedOn'
    BY DEF PassesMovedOn
  <1>3. PastAreKnown'
    BY DEF PastAreKnown
  <1> QED BY <1>1, <1>2, <1>3

\* A reset leaves the invariant true: it empties the passes and notes who was
\* past the key.
LEMMA BudgetReset ==
  ASSUME AppTypeOK, BudgetInv, NEW ks, ResetKeys(ks), UNCHANGED requestVars
  PROVE  BudgetInv'
  <1> USE DEF BudgetInv, AppTypeOK, requestVars
  <1>1. \A r \in Requests : PastKeys(r)' = PastKeys(r)
    BY DEF PastKeys, Key
  <1>2. IsFiniteSet({}) /\ Cardinality({}) = 0
    BY FS_EmptySet
  <1>3. ASSUME NEW k \in Keys
        PROVE  /\ k \in ks => /\ bucket'[k] = 0 /\ passes'[k] = {} /\ admitted'[k] = {}
                              /\ wasted'[k] = 0
                              /\ carried'[k] = {r \in Requests : k \in PastKeys(r)}
               /\ k \notin ks => /\ bucket'[k] = bucket[k] /\ passes'[k] = passes[k]
                                 /\ admitted'[k] = admitted[k] /\ wasted'[k] = wasted[k]
                                 /\ carried'[k] = carried[k]
    BY DEF ResetKeys
  <1>4. PassesAreCounted' /\ CountsAreAccounted'
    <2> SUFFICES ASSUME NEW k \in Keys
                 PROVE  /\ IsFiniteSet(passes'[k])
                        /\ Cardinality(passes'[k]) <= bucket'[k]
                        /\ Cardinality(passes'[k]) <= Limit[k]
                        /\ \/ bucket'[k] <= Cardinality(passes'[k]) + wasted'[k]
                           \/ Limit[k] <= Cardinality(passes'[k]) + wasted'[k]
      BY DEF PassesAreCounted, CountsAreAccounted
    <2>1. CASE k \in ks
      <3>1. IsFiniteSet(passes'[k]) /\ Cardinality(passes'[k]) = 0
        BY <1>2, <1>3, <2>1
      <3>2. bucket'[k] = 0 /\ wasted'[k] = 0 /\ Limit[k] \in Nat
        BY <1>3, <2>1, LimitType
      <3> QED BY <3>1, <3>2
    <2>2. CASE k \notin ks
      BY <1>3, <2>2 DEF PassesAreCounted, CountsAreAccounted
    <2> QED BY <2>1, <2>2
  <1>5. PassesMovedOn' /\ AdmittedAreKnown'
    BY <1>1, <1>3 DEF PassesMovedOn, AdmittedAreKnown
  <1>6. \A r \in Requests : PastKeys(r) \subseteq Keys
    <2> SUFFICES ASSUME NEW r \in Requests PROVE PastKeys(r) \subseteq Keys
      OBVIOUS
    <2>1. reqStage[r] # "idle" => cred[r] \in Creds
      OBVIOUS
    <2> QED BY <2>1, PastKeysByStage, KeyType DEF Kinds
  <1>7. PastAreKnown'
    BY <1>1, <1>3, <1>6 DEF PastAreKnown
  <1> QED BY <1>4, <1>5, <1>7

\* It survives an INCR whose reply arrives.
LEMMA BudgetIncrease ==
  ASSUME AppTypeOK, BudgetInv, NEW r \in Requests, Increase(r) PROVE BudgetInv'
  <1> DEFINE k == Key(r, reqStage[r])
  <1> USE DEF AppTypeOK
  <1>1. k \in Keys /\ cred' = cred
    BY KeyType DEF Increase, Kinds
  <1>2. Limit[k] \in Nat /\ bucket[k] \in Nat /\ wasted[k] \in Nat
    BY <1>1, LimitType
  <1>3. \A j \in Keys : Cardinality(passes[j]) \in Nat
    BY FS_CardinalityType DEF BudgetInv, PassesAreCounted
  <1>4. CASE OverLimit(k, bucket[k] + 1)
    <2>1. /\ bucket' = [bucket EXCEPT ![k] = bucket[k] + 1]
          /\ passes' = passes /\ admitted' = admitted /\ wasted' = wasted /\ carried' = carried
          /\ reqStage' = [reqStage EXCEPT ![r] = "done"]
      BY <1>4 DEF Increase, Reply, GoTo
    <2>2. bucket[k] + 1 > Limit[k]
      BY <1>4 DEF OverLimit
    <2>3. PassesAreCounted'
      BY <1>1, <1>2, <1>3, <2>1 DEF BudgetInv, PassesAreCounted
    <2>4. CountsAreAccounted'
      <3> SUFFICES ASSUME NEW j \in Keys
                   PROVE  \/ bucket'[j] <= Cardinality(passes[j]) + wasted[j]
                          \/ Limit[j] <= Cardinality(passes[j]) + wasted[j]
        BY <2>1 DEF CountsAreAccounted
      <3>1. CASE j = k
        BY <1>2, <1>3, <2>2, <3>1 DEF BudgetInv, CountsAreAccounted
      <3>2. CASE j # k
        BY <2>1, <3>2 DEF BudgetInv, CountsAreAccounted
      <3> QED BY <3>1, <3>2
    <2>5. \A q \in Requests : \/ reqStage'[q] = reqStage[q] /\ PastKeys(q)' = PastKeys(q)
                              \/ reqStage'[q] = "done" /\ PastKeys(q)' = {}
      <3> SUFFICES ASSUME NEW q \in Requests
                   PROVE  \/ reqStage'[q] = reqStage[q] /\ PastKeys(q)' = PastKeys(q)
                          \/ reqStage'[q] = "done" /\ PastKeys(q)' = {}
        OBVIOUS
      <3>1. CASE q = r
        BY <2>1, <3>1, PastKeysByStageNext
      <3>2. CASE q # r
        BY <1>1, <2>1, <3>2 DEF PastKeys, Key
      <3> QED BY <3>1, <3>2
    <2>6. PassesMovedOn' /\ PastAreKnown' /\ AdmittedAreKnown'
      BY <2>1, <2>5 DEF BudgetInv, PassesMovedOn, PastAreKnown, AdmittedAreKnown
    <2> QED BY <2>3, <2>4, <2>6 DEF BudgetInv
  <1>5. CASE ~OverLimit(k, bucket[k] + 1)
    <2> HIDE DEF k
    <2>1. /\ r \notin passes[k]
          /\ bucket' = [bucket EXCEPT ![k] = bucket[k] + 1] /\ bucket[k] + 1 <= Limit[k]
          /\ passes' = [passes EXCEPT ![k] = passes[k] \union {r}]
          /\ carried' = carried /\ wasted' = wasted
      BY <1>5, IncreasePasses DEF k
    <2>2. /\ reqStage'[r] # "done" => PastKeys(r)' = PastKeys(r) \union {k} /\ admitted' = admitted
          /\ reqStage'[r] = "done" =>
                /\ PastKeys(r)' = {} /\ KeysOf(r) = PastKeys(r) \union {k}
                /\ \A j \in Keys : admitted'[j] = admitted[j] \union (IF j \in KeysOf(r) THEN {r} ELSE {})
          /\ \A q \in Requests \ {r} : reqStage'[q] = reqStage[q] /\ PastKeys(q)' = PastKeys(q)
      BY <1>5, IncreasePasses DEF k
    <2>3. IsFiniteSet(passes'[k]) /\ Cardinality(passes'[k]) = Cardinality(passes[k]) + 1
      BY <1>1, <2>1, FS_AddElement DEF BudgetInv, PassesAreCounted
    <2>4. PassesAreCounted'
      BY <1>1, <1>2, <1>3, <2>1, <2>3 DEF BudgetInv, PassesAreCounted
    <2>5. CountsAreAccounted'
      <3> SUFFICES ASSUME NEW j \in Keys
                   PROVE  \/ bucket'[j] <= Cardinality(passes'[j]) + wasted[j]
                          \/ Limit[j] <= Cardinality(passes'[j]) + wasted[j]
        BY <2>1 DEF CountsAreAccounted
      <3>1. CASE j = k
        BY <1>2, <1>3, <2>1, <2>3, <3>1, LimitType DEF BudgetInv, CountsAreAccounted
      <3>2. CASE j # k
        BY <2>1, <3>2 DEF BudgetInv, CountsAreAccounted
      <3> QED BY <3>1, <3>2
    <2>6. PassesMovedOn'
      <3>1. reqStage[r] # "done"
        BY DEF Increase, Kinds
      <3> QED BY <1>1, <2>1, <2>2, <3>1 DEF BudgetInv, PassesMovedOn
    <2>7. \A j \in Keys : passes[j] \subseteq passes'[j]
      BY <1>1, <2>1
    <2>8. \A q \in Requests : PastKeys(q) \subseteq Keys
      <3> SUFFICES ASSUME NEW q \in Requests PROVE PastKeys(q) \subseteq Keys
        OBVIOUS
      <3>1. reqStage[q] # "idle" => cred[q] \in Creds
        OBVIOUS
      <3> QED BY <3>1, PastKeysByStage, KeyType DEF Kinds
    <2>9. PastAreKnown'
      BY <1>1, <2>1, <2>2, <2>7, <2>8 DEF BudgetInv, PastAreKnown
    <2>10. AdmittedAreKnown'
      BY <1>1, <2>1, <2>2, <2>7, <2>8 DEF BudgetInv, PastAreKnown, AdmittedAreKnown
    <2> QED BY <2>4, <2>5, <2>6, <2>9, <2>10 DEF BudgetInv
  <1> QED BY <1>4, <1>5

\* It survives every step.
LEMMA BudgetInvNext ==
  ASSUME AppTypeOK, BudgetInv, [AppNext]_appVars PROVE BudgetInv'
  <1> USE DEF AppTypeOK
  <1>1. ASSUME NEW r \in Requests, NEW c \in Creds, BeginRequest(r, c) PROVE BudgetInv'
    <2>1. \A q \in Requests \ {r} : reqStage'[q] = reqStage[q] /\ PastKeys(q)' = PastKeys(q)
      BY <1>1 DEF BeginRequest, PastKeys, Key
    <2>2. PastKeys(r) = {} /\ PastKeys(r)' = {} /\ reqStage[r] # "done"
      BY <1>1, PastKeysByStage, PastKeysByStageNext DEF BeginRequest
    <2> QED BY <1>1, <2>1, <2>2, BudgetQuiet DEF BeginRequest
  <1>2. ASSUME NEW r \in Requests,
               CheckBlacklist(r) \/ CheckWhitelist(r) \/ StorageError(r)
        PROVE  BudgetInv'
    <2>1. /\ UNCHANGED budgetVars /\ cred' = cred
          /\ reqStage' = [reqStage EXCEPT ![r] = reqStage'[r]]
          /\ \/ reqStage'[r] = "done"
             \/ reqStage[r] = "blacklist" /\ reqStage'[r] = "whitelist"
             \/ reqStage[r] = "whitelist" /\ reqStage'[r] = "login"
      BY <1>2 DEF CheckBlacklist, CheckWhitelist, StorageError, Reply, GoTo
    <2>2. \A q \in Requests \ {r} : reqStage'[q] = reqStage[q] /\ PastKeys(q)' = PastKeys(q)
      BY <2>1, PastKeysStay
    <2>3. \/ reqStage'[r] = "done" /\ PastKeys(r)' = {}
          \/ PastKeys(r) = {} /\ PastKeys(r)' = {} /\ reqStage[r] # "done"
      BY <2>1, PastKeysByStage, PastKeysByStageNext
    <2> QED BY <2>1, <2>2, <2>3, BudgetQuiet
  <1>3. ASSUME NEW r \in Requests, Increase(r) PROVE BudgetInv'
    BY <1>3, BudgetIncrease
  <1>4. ASSUME NEW k \in Keys, LandIncrease(k) PROVE BudgetInv'
    <2>2. /\ passes' = passes /\ carried' = carried /\ admitted' = admitted
          /\ reqStage' = reqStage /\ cred' = cred
      BY <1>4 DEF LandIncrease
    <2>3. /\ bucket' = [bucket EXCEPT ![k] = bucket[k] + 1]
          /\ wasted' = [wasted EXCEPT ![k] = wasted[k] + 1]
      BY <1>4 DEF LandIncrease
    <2>4. \A j \in Keys : /\ Cardinality(passes[j]) \in Nat
                          /\ bucket[j] \in Nat /\ wasted[j] \in Nat /\ Limit[j] \in Nat
      BY FS_CardinalityType, LimitType DEF BudgetInv, PassesAreCounted
    <2>5. PassesAreCounted'
      BY <2>2, <2>3, <2>4 DEF BudgetInv, PassesAreCounted
    <2>6. CountsAreAccounted'
      BY <2>2, <2>3, <2>4 DEF BudgetInv, CountsAreAccounted
    <2>7. PassesMovedOn' /\ PastAreKnown' /\ AdmittedAreKnown'
      BY <2>2 DEF BudgetInv, PassesMovedOn, PastAreKnown, AdmittedAreKnown, PastKeys, Key
    <2> QED BY <2>5, <2>6, <2>7 DEF BudgetInv
  <1>5. CASE Flush
    BY <1>5, BudgetReset DEF Flush
  <1>6. ASSUME NEW k \in Keys, ClearBucket(k) PROVE BudgetInv'
    BY <1>6, BudgetReset DEF ClearBucket
  <1>7. CASE Crash
    <2>1. UNCHANGED budgetVars /\ cred' = cred
      BY <1>7 DEF Crash
    <2>2. ASSUME NEW q \in Requests
          PROVE  \/ reqStage'[q] = reqStage[q] /\ PastKeys(q)' = PastKeys(q)
                 \/ reqStage'[q] = "done" /\ PastKeys(q)' = {}
      <3>1. reqStage'[q] = reqStage[q] \/ reqStage'[q] = "done"
        BY <1>7 DEF Crash
      <3> QED BY <2>1, <3>1, PastKeysByStageNext, PastKeysStay
    <2> QED BY <2>1, <2>2, BudgetQuiet
  <1>8. CASE Boot
    <2>1. CASE ResetKeys(Keys)
      BY <1>8, <2>1, BudgetReset DEF Boot
    <2>2. CASE UNCHANGED budgetVars
      BY <1>8, <2>2, BudgetQuiet DEF Boot, requestVars, PastKeys, Key
    <2> QED BY <1>8, <2>1, <2>2 DEF Boot
  <1>9. CASE (\E r \in Requests : IncreaseLost(r)) \/ CallStep \/ UNCHANGED appVars
    <2>1. UNCHANGED <<cred, reqStage>> /\ UNCHANGED budgetVars
      BY <1>9 DEF IncreaseLost, CallStep, appVars, requestVars, budgetVars
    <2> QED BY <2>1, BudgetQuiet DEF PastKeys, Key
  <1> QED BY <1>1, <1>2, <1>3, <1>4, <1>5, <1>6, <1>7, <1>8, <1>9 DEF AppNext, ServeRequest

-----------------------------------------------------------------------------
(* The lists and the requests.                                               *)

SettledAtBegin == \A r \in Requests : settledAt[r] \subseteq SettledCalls

\* Past the read of a list, a listed request has the answer for it.
BlacklistWasRead ==
    \A r \in Requests :
        reqStage[r] \notin {"idle", "blacklist"} /\ ListedFor(r, BlackListName) =>
            answer[r] \in {"blacklisted", "error", "lost"}

WhitelistWasRead ==
    \A r \in Requests :
        reqStage[r] \notin {"idle", "blacklist", "whitelist"} /\ ListedFor(r, WhiteListName) =>
            answer[r] \in {"whitelisted", "blacklisted", "error", "lost"}

ListedInv == SettledAtBegin /\ BlacklistWasRead /\ WhitelistWasRead

AppInv == AppTypeOK /\ ListsInv /\ BudgetInv /\ ListedInv

\* A listed request finds its entry.
LEMMA ListedIsFound ==
  ASSUME ListsInv, SettledAtBegin, NEW r \in Requests, NEW l, ListedFor(r, l)
  PROVE  InSubnetOf(l, cred[r].ip)
  <1>1. PICK c \in settledAt[r] : /\ reply[c] = "added" /\ ask[c].list = l
                                  /\ <<ask[c].subnet, cred[r].ip>> \in Covers
                                  /\ ~RemoveMayFollow(c)
    BY DEF ListedFor
  <1>2. c \in Calls
    BY DEF SettledAtBegin, SettledCalls
  <1>3. c \in table[l]
    BY <1>1, <1>2 DEF ListsInv, AddIsDurable
  <1> QED BY <1>1, <1>3 DEF InSubnetOf

\* A request is never listed by a step that does not begin it.
LEMMA ListedForWas ==
  ASSUME ListsInv, SettledAtBegin, [AppNext]_appVars, NEW r \in Requests, NEW l,
         cred'[r] = cred[r], settledAt'[r] = settledAt[r], ListedFor(r, l)'
  PROVE  ListedFor(r, l)
  <1>1. PICK c \in settledAt[r] : /\ reply'[c] = "added" /\ ask'[c].list = l
                                  /\ <<ask'[c].subnet, cred[r].ip>> \in Covers
                                  /\ ~RemoveMayFollow(c)'
    BY DEF ListedFor
  <1>2. c \in SettledCalls /\ c \in Calls
    BY DEF SettledAtBegin, SettledCalls
  <1>3. reply'[c] = reply[c] /\ ask'[c] = ask[c] /\ ~RemoveMayFollow(c)
    BY <1>1, <1>2, AppListsFrame
  <1> QED BY <1>1, <1>3 DEF ListedFor

\* The invariant of list reads holds at the start.
LEMMA ListedInvInit == AppInit => ListedInv
  BY DEF AppInit, ListedInv, SettledAtBegin, BlacklistWasRead, WhitelistWasRead

\* How the stage and the answer of a request can change.
RequestMoves(r) ==
    /\ cred'[r] = cred[r] /\ settledAt'[r] = settledAt[r]
    /\ \/ reqStage'[r] = reqStage[r] /\ answer'[r] = answer[r]
       \/ answer'[r] \in {"error", "lost"}
       \/ reqStage[r] = "blacklist" /\ answer'[r] = "blacklisted"
       \/ reqStage[r] = "whitelist" /\ answer'[r] = "whitelisted"
       \/ /\ reqStage[r] = "blacklist" /\ reqStage'[r] = "whitelist"
          /\ ~InSubnetOf(BlackListName, cred[r].ip)
       \/ /\ reqStage[r] = "whitelist" /\ reqStage'[r] = "login"
          /\ ~InSubnetOf(WhiteListName, cred[r].ip)
          /\ answer'[r] = answer[r]
       \/ reqStage[r] \in Kinds

\* Every step moves a request in one of these ways, or begins it.
LEMMA RequestStep ==
  ASSUME AppTypeOK, [AppNext]_appVars, NEW r \in Requests
  PROVE  RequestMoves(r) \/ \E c \in Creds : BeginRequest(r, c)
  <1> USE DEF AppTypeOK, RequestMoves
  <1>1. ASSUME NEW q \in Requests, NEW c \in Creds, BeginRequest(q, c), q # r
        PROVE  RequestMoves(r)
    BY <1>1 DEF BeginRequest
  <1>2. ASSUME NEW q \in Requests, CheckBlacklist(q) PROVE RequestMoves(r)
    <2>1. CASE q = r
      BY <1>2, <2>1 DEF CheckBlacklist, Reply, GoTo
    <2>2. CASE q # r
      BY <1>2, <2>2 DEF CheckBlacklist, Reply, GoTo
    <2> QED BY <2>1, <2>2
  <1>3. ASSUME NEW q \in Requests, CheckWhitelist(q) PROVE RequestMoves(r)
    <2>1. CASE q = r
      BY <1>3, <2>1 DEF CheckWhitelist, Reply, GoTo
    <2>2. CASE q # r
      BY <1>3, <2>2 DEF CheckWhitelist, Reply, GoTo
    <2> QED BY <2>1, <2>2
  <1>4. ASSUME NEW q \in Requests, Increase(q) \/ IncreaseLost(q) PROVE RequestMoves(r)
    <2>1. CASE q = r
      BY <1>4, <2>1 DEF Increase, IncreaseLost
    <2>2. CASE q # r
      BY <1>4, <2>2 DEF Increase, IncreaseLost, Reply, GoTo
    <2> QED BY <2>1, <2>2
  <1>5. ASSUME NEW q \in Requests, StorageError(q) PROVE RequestMoves(r)
    BY <1>5 DEF StorageError, Reply, GoTo
  <1>6. CASE Crash
    BY <1>6 DEF Crash
  <1>7. CASE Flush \/ (\E k \in Keys : ClearBucket(k) \/ LandIncrease(k)) \/ Boot \/ CallStep
             \/ UNCHANGED appVars
    BY <1>7 DEF Flush, ClearBucket, LandIncrease, Boot, CallStep, appVars, requestVars
  <1> QED BY <1>1, <1>2, <1>3, <1>4, <1>5, <1>6, <1>7 DEF AppNext, ServeRequest

\* The invariant of list reads survives every step.
LEMMA ListedInvNext ==
  ASSUME AppTypeOK, ListsInv, ListedInv, [AppNext]_appVars PROVE ListedInv'
  <1> USE DEF ListedInv
  <1>1. SettledCalls \subseteq SettledCalls'
    BY AppListsFrame
  <1>2. ASSUME NEW r \in Requests
        PROVE  /\ settledAt'[r] \subseteq SettledCalls'
               /\ reqStage'[r] \notin {"idle", "blacklist"} /\ ListedFor(r, BlackListName)' =>
                    answer'[r] \in {"blacklisted", "error", "lost"}
               /\ reqStage'[r] \notin {"idle", "blacklist", "whitelist"}
                    /\ ListedFor(r, WhiteListName)' =>
                    answer'[r] \in {"whitelisted", "blacklisted", "error", "lost"}
    <2>1. CASE \E c \in Creds : BeginRequest(r, c)
      BY <1>1, <2>1 DEF BeginRequest, AppTypeOK
    <2>2. CASE RequestMoves(r)
      <3>1. settledAt'[r] \subseteq SettledCalls'
        BY <1>1, <2>2 DEF RequestMoves, SettledAtBegin
      <3>2. /\ ListedFor(r, BlackListName)' => ListedFor(r, BlackListName)
            /\ ListedFor(r, WhiteListName)' => ListedFor(r, WhiteListName)
        BY <2>2, ListedForWas DEF RequestMoves
      <3>3. /\ ListedFor(r, BlackListName) => InSubnetOf(BlackListName, cred[r].ip)
            /\ ListedFor(r, WhiteListName) => InSubnetOf(WhiteListName, cred[r].ip)
        BY ListedIsFound
      <3>4. /\ answer[r] # "none" <=> reqStage[r] = "done"
        BY DEF AppTypeOK
      <3>5. /\ reqStage[r] \notin {"idle", "blacklist"} /\ ListedFor(r, BlackListName) =>
                  answer[r] \in {"blacklisted", "error", "lost"}
            /\ reqStage[r] \notin {"idle", "blacklist", "whitelist"}
                  /\ ListedFor(r, WhiteListName) =>
                  answer[r] \in {"whitelisted", "blacklisted", "error", "lost"}
        BY DEF BlacklistWasRead, WhitelistWasRead
      <3> QED BY <2>2, <3>1, <3>2, <3>3, <3>4, <3>5 DEF RequestMoves, Kinds
    <2> QED BY <2>1, <2>2, RequestStep
  <1> QED BY <1>2 DEF SettledAtBegin, BlacklistWasRead, WhitelistWasRead

-----------------------------------------------------------------------------
(* The theorems. *)

\* Only an INCR limits a request.
LEMMA LimitedByIncrease ==
  ASSUME AppTypeOK, [AppNext]_appVars, NEW r \in Requests,
         answer[r] = "none", answer'[r] \in Kinds
  PROVE  Increase(r)
  <1> USE DEF AppTypeOK
  <1>1. answer'[r] # answer[r] /\ answer'[r] \notin {"error", "lost", "blacklisted", "whitelisted"}
    BY DEF Kinds
  <1>2. ASSUME NEW q \in Requests, Increase(q) PROVE q = r
    BY <1>1, <1>2 DEF Increase, Reply
  <1>3. ASSUME NEW q \in Requests,
               CheckBlacklist(q) \/ CheckWhitelist(q) \/ StorageError(q) PROVE FALSE
    BY <1>1, <1>3 DEF CheckBlacklist, CheckWhitelist, StorageError, Reply
  <1>4. ASSUME NEW q \in Requests, IncreaseLost(q) \/ \E c \in Creds : BeginRequest(q, c)
        PROVE  FALSE
    BY <1>1, <1>4 DEF IncreaseLost, BeginRequest
  <1>5. CASE Crash
    BY <1>1, <1>5 DEF Crash
  <1>6. CASE Flush \/ (\E k \in Keys : ClearBucket(k) \/ LandIncrease(k)) \/ Boot \/ CallStep
             \/ UNCHANGED appVars
    BY <1>1, <1>6 DEF Flush, ClearBucket, LandIncrease, Boot, CallStep, appVars, requestVars
  <1> QED BY <1>2, <1>3, <1>4, <1>5, <1>6 DEF AppNext, ServeRequest

\* The whole invariant holds at the start.
LEMMA AppInvInit == AppInit => AppInv
  BY AppTypeInit, ListsInvInit, BudgetInvInit, ListedInvInit DEF AppInit, AppInv

\* The whole invariant survives every step.
LEMMA AppInvNext == AppInv /\ [AppNext]_appVars => AppInv'
  BY AppTypeNext, AppListsFrame, BudgetInvNext, ListedInvNext DEF AppInv

\* The invariant holds in every behaviour of the service.
THEOREM AppInvariant == AppSpec => []AppInv
  BY AppInvInit, AppInvNext, PTL DEF AppSpec

\* The variables of the service keep their types.
THEOREM AppTypeCorrect == AppSpec => []AppTypeOK
  BY AppTypeInit, AppTypeNext, PTL DEF AppSpec

\* Between two resets a key lets past at most its limit (app.go:95-124).
THEOREM WindowBudgetTheorem == AppSpec => []WindowBudget
  <1>1. AppInv => WindowBudget
    BY DEF AppInv, BudgetInv, PassesAreCounted, WindowBudget
  <1> QED BY <1>1, AppInvariant, PTL

\* At most the limit is answered ok since a reset, requests aside that were past
\* the key when the reset came (app.go:95-125, 138).
THEOREM AnswerBudgetTheorem == AppSpec => []AnswerBudget
  <1>1. ASSUME AppInv PROVE AnswerBudget
    <2> SUFFICES ASSUME NEW k \in Keys PROVE Cardinality(admitted[k] \ carried[k]) <= Limit[k]
      BY DEF AnswerBudget
    <2>1. admitted[k] \ carried[k] \subseteq passes[k]
      BY <1>1 DEF AppInv, BudgetInv, AdmittedAreKnown
    <2>2. IsFiniteSet(passes[k]) /\ Cardinality(passes[k]) <= Limit[k]
      BY <1>1 DEF AppInv, BudgetInv, PassesAreCounted
    <2>3. /\ Cardinality(admitted[k] \ carried[k]) <= Cardinality(passes[k])
          /\ IsFiniteSet(admitted[k] \ carried[k])
      BY <2>1, <2>2, FS_Subset
    <2> QED BY <2>2, <2>3, LimitType, FS_CardinalityType
  <1> QED BY <1>1, AppInvariant, PTL

\* A request is limited only when its key's limit is spent (app.go:102).
THEOREM LimitedOnlyWhenSpentTheorem == AppSpec => LimitedOnlyWhenSpent
  <1> DEFINE A == \A r \in Requests :
                    reqStage[r] \in Kinds /\ answer'[r] \in Kinds =>
                        LET k == Key(r, reqStage[r])
                        IN  Cardinality(passes[k]) + wasted[k] >= Limit[k]
  <1>1. ASSUME AppInv, [AppNext]_appVars PROVE A
    <2> SUFFICES ASSUME NEW r \in Requests, reqStage[r] \in Kinds, answer'[r] \in Kinds
                 PROVE  Cardinality(passes[Key(r, reqStage[r])])
                            + wasted[Key(r, reqStage[r])] >= Limit[Key(r, reqStage[r])]
      OBVIOUS
    <2> DEFINE k == Key(r, reqStage[r])
    <2> USE <1>1 DEF AppInv, AppTypeOK
    <2>1. answer[r] = "none" /\ answer[r] \notin Kinds
      BY DEF Kinds
    <2>2. Increase(r)
      BY <2>1, LimitedByIncrease
    <2>3. OverLimit(k, bucket[k] + 1)
      BY <2>1, <2>2 DEF Increase, Reply, Kinds
    <2>4. k \in Keys
      BY KeyType DEF Kinds
    <2>5. /\ bucket[k] \in Nat /\ wasted[k] \in Nat /\ Limit[k] \in Nat
          /\ Cardinality(passes[k]) \in Nat
      BY <2>4, LimitType, FS_CardinalityType DEF BudgetInv, PassesAreCounted
    <2>6. bucket[k] >= Limit[k]
      BY <2>3, <2>5 DEF OverLimit
    <2> QED BY <2>4, <2>5, <2>6 DEF BudgetInv, CountsAreAccounted
  <1>2. AppInv /\ [AppNext]_appVars => [A]_appVars
    BY <1>1
  <1> QED BY <1>2, AppInvariant, PTL DEF AppSpec, LimitedOnlyWhenSpent

\* A blacklisted IP is never counted, and refused for the blacklist, or its request
\* fails.
THEOREM BlacklistTheorem == AppSpec => []BlacklistedAreRefused
  <1>1. AppInv => BlacklistedAreRefused
    BY DEF AppInv, AppTypeOK, ListedInv, BlacklistWasRead, BlacklistedAreRefused, Kinds
  <1> QED BY <1>1, AppInvariant, PTL

\* A whitelisted IP is never counted, nor limited.
THEOREM WhitelistTheorem == AppSpec => []WhitelistedAreExempt
  <1>1. AppInv => WhitelistedAreExempt
    BY DEF AppInv, AppTypeOK, ListedInv, WhitelistWasRead, WhitelistedAreExempt, Kinds
  <1> QED BY <1>1, AppInvariant, PTL

\* The work left, stage by stage.
LEMMA WorkByStage ==
  ASSUME AppTypeOK, NEW r \in Requests
  PROVE  /\ reqStage[r] = "blacklist" => WorkLeft(r) = 3 * MaxAttempts + 3
         /\ reqStage[r] = "whitelist" => WorkLeft(r) = 3 * MaxAttempts + 2
         /\ reqStage[r] = "login" => WorkLeft(r) = 3 * MaxAttempts + 1 - attempts[r]
         /\ reqStage[r] = "password" => WorkLeft(r) = 2 * MaxAttempts + 1 - attempts[r]
         /\ reqStage[r] = "ip" => WorkLeft(r) = MaxAttempts + 1 - attempts[r]
         /\ reqStage[r] \in {"idle", "done"} => WorkLeft(r) = 0
         /\ attempts[r] \in 0..MaxAttempts /\ MaxAttempts \in Nat \ {0}
  BY MaxAttemptsAssumption DEF AppTypeOK, WorkLeft, KindsLeft, Kinds

\* The same after a step.
LEMMA WorkByStageNext ==
  ASSUME AppTypeOK', NEW r \in Requests
  PROVE  /\ reqStage'[r] = "blacklist" => WorkLeft(r)' = 3 * MaxAttempts + 3
         /\ reqStage'[r] = "whitelist" => WorkLeft(r)' = 3 * MaxAttempts + 2
         /\ reqStage'[r] = "login" => WorkLeft(r)' = 3 * MaxAttempts + 1 - attempts'[r]
         /\ reqStage'[r] = "password" => WorkLeft(r)' = 2 * MaxAttempts + 1 - attempts'[r]
         /\ reqStage'[r] = "ip" => WorkLeft(r)' = MaxAttempts + 1 - attempts'[r]
         /\ reqStage'[r] \in {"idle", "done"} => WorkLeft(r)' = 0
  BY MaxAttemptsAssumption DEF AppTypeOK, WorkLeft, KindsLeft, Kinds

\* Every step of the server for a request takes some of its work away.
LEMMA ServeTakesWork ==
  ASSUME AppTypeOK, AppTypeOK', NEW r \in Requests, ServeRequest(r)
  PROVE  WorkLeft(r)' < WorkLeft(r)
  <1> USE DEF AppTypeOK
  <1>1. CASE CheckBlacklist(r)
    <2>1. /\ reqStage[r] = "blacklist" /\ reqStage'[r] \in {"done", "whitelist"}
      BY <1>1 DEF CheckBlacklist, Reply, GoTo
    <2> QED BY <2>1, WorkByStage, WorkByStageNext
  <1>2. CASE CheckWhitelist(r)
    <2>1. /\ reqStage[r] = "whitelist" /\ reqStage'[r] \in {"done", "login"}
          /\ attempts'[r] = 0
      BY <1>2 DEF CheckWhitelist, Reply, GoTo
    <2> QED BY <2>1, WorkByStage, WorkByStageNext
  <1>3. CASE Increase(r)
    <2>1. NextKind["login"] = "password" /\ NextKind["password"] = "ip"
      BY DEF NextKind
    <2>2. /\ reqStage[r] \in Kinds /\ attempts[r] < MaxAttempts /\ attempts'[r] = 0
          /\ \/ reqStage'[r] = "done"
             \/ reqStage[r] # "ip" /\ reqStage'[r] = NextKind[reqStage[r]]
      BY <1>3 DEF Increase, Reply, GoTo
    <2>3. \/ reqStage'[r] = "done"
          \/ reqStage[r] = "login" /\ reqStage'[r] = "password"
          \/ reqStage[r] = "password" /\ reqStage'[r] = "ip"
      BY <2>1, <2>2 DEF Kinds
    <2> QED BY <2>2, <2>3, WorkByStage, WorkByStageNext DEF Kinds
  <1>4. CASE IncreaseLost(r)
    <2>1. /\ reqStage[r] \in Kinds /\ reqStage' = reqStage /\ attempts'[r] = attempts[r] + 1
      BY <1>4 DEF IncreaseLost
    <2> QED BY <2>1, WorkByStage, WorkByStageNext DEF Kinds
  <1>5. CASE StorageError(r)
    <2>1. Undecided(r) /\ reqStage'[r] = "done"
      BY <1>5 DEF StorageError, Reply, GoTo
    <2>2. reqStage[r] \in {"blacklist", "whitelist", "login", "password", "ip"}
      BY <2>1 DEF Undecided, RequestStages, Kinds
    <2>3. WorkLeft(r)' = 0
      BY <2>1, WorkByStageNext
    <2>4. attempts[r] \in 0..MaxAttempts
      OBVIOUS
    <2>5. WorkLeft(r) \in Nat /\ WorkLeft(r) >= 1
      BY <2>2, <2>4, WorkByStage, MaxAttemptsAssumption
    <2> QED BY <2>3, <2>5
  <1> QED BY <1>1, <1>2, <1>3, <1>4, <1>5 DEF ServeRequest

\* A step that is not for request r leaves its stage and its attempts, or ends it.
LEMMA OthersLeaveWork ==
  ASSUME AppTypeOK, [AppNext]_appVars, NEW r \in Requests, Undecided(r), ~ServeRequest(r)
  PROVE  \/ reqStage'[r] = "done"
         \/ reqStage'[r] = reqStage[r] /\ attempts'[r] = attempts[r]
  <1> USE DEF AppTypeOK
  <1>1. ASSUME NEW q \in Requests, NEW c \in Creds, BeginRequest(q, c)
        PROVE  reqStage'[r] = reqStage[r] /\ attempts'[r] = attempts[r]
    BY <1>1 DEF BeginRequest, Undecided
  <1>2. ASSUME NEW q \in Requests, q # r, ServeRequest(q)
        PROVE  reqStage'[r] = reqStage[r] /\ attempts'[r] = attempts[r]
    BY <1>2 DEF ServeRequest, CheckBlacklist, CheckWhitelist, Increase, IncreaseLost, StorageError,
                Reply, GoTo
  <1>3. CASE Crash
    BY <1>3 DEF Crash
  <1>4. CASE Flush \/ (\E k \in Keys : ClearBucket(k) \/ LandIncrease(k)) \/ Boot \/ CallStep
             \/ UNCHANGED appVars
    BY <1>4 DEF Flush, ClearBucket, LandIncrease, Boot, CallStep, appVars, requestVars
  <1> QED BY <1>1, <1>2, <1>3, <1>4 DEF AppNext

\* A request is answered after 3 * MaxAttempts + 3 steps of the server for it at most,
\* whatever else goes on (app.go:76-126).
THEOREM WorkIsBoundedTheorem == AppSpec => WorkIsBounded
  <1> DEFINE A == \A r \in Requests :
                    /\ ServeRequest(r) => WorkLeft(r)' < WorkLeft(r)
                    /\ Undecided(r) => WorkLeft(r)' <= WorkLeft(r)
  <1>1. ASSUME AppTypeOK, [AppNext]_appVars PROVE A
    <2> SUFFICES ASSUME NEW r \in Requests
                 PROVE  /\ ServeRequest(r) => WorkLeft(r)' < WorkLeft(r)
                        /\ Undecided(r) => WorkLeft(r)' <= WorkLeft(r)
      OBVIOUS
    <2>1. AppTypeOK'
      BY <1>1, AppTypeNext
    <2>2. WorkLeft(r) \in Nat /\ WorkLeft(r)' \in Nat
      <3>1. reqStage[r] \in RequestStages /\ reqStage'[r] \in RequestStages
            /\ attempts'[r] \in 0..MaxAttempts
        BY <1>1, <2>1 DEF AppTypeOK
      <3> QED BY <1>1, <2>1, <3>1, WorkByStage, WorkByStageNext DEF RequestStages, Kinds
    <2>3. ASSUME ServeRequest(r) PROVE WorkLeft(r)' < WorkLeft(r)
      BY <1>1, <2>1, <2>3, ServeTakesWork
    <2>4. ASSUME Undecided(r), ~ServeRequest(r) PROVE WorkLeft(r)' <= WorkLeft(r)
      <3>1. \/ reqStage'[r] = "done"
            \/ reqStage'[r] = reqStage[r] /\ attempts'[r] = attempts[r]
        BY <1>1, <2>4, OthersLeaveWork
      <3>2. reqStage'[r] = "done" => WorkLeft(r)' = 0
        BY <2>1, WorkByStageNext
      <3>3. reqStage'[r] = reqStage[r] /\ attempts'[r] = attempts[r] => WorkLeft(r)' = WorkLeft(r)
        BY DEF WorkLeft
      <3> QED BY <2>2, <3>1, <3>2, <3>3
    <2> QED BY <2>2, <2>3, <2>4
  <1>2. AppTypeOK /\ [AppNext]_appVars => [A]_appVars
    BY <1>1
  <1> QED BY <1>2, AppTypeCorrect, PTL DEF AppSpec, WorkIsBounded

\* The list properties survive crashes and restarts of the server.
THEOREM AppAddIsDurable == AppSpec => []AddIsDurable
  <1>1. AppInv => AddIsDurable
    BY DEF AppInv, ListsInv
  <1> QED BY <1>1, AppInvariant, PTL

\* And so does the one of the two lists.
THEOREM AppCrossList == AppSpec => []CrossListNeedsOverlap
  <1>1. AppInv => CrossListNeedsOverlap
    BY CrossListFromInv DEF AppInv
  <1> QED BY <1>1, AppInvariant, PTL
=============================================================================
