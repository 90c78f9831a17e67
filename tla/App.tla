-------------------------------- MODULE App --------------------------------
(***************************************************************************)
(* The anti-bruteforce service: CheckRequest of internal/app/app.go, the   *)
(* buckets it counts in (internal/storage/redis/redis.go), the ticker that *)
(* flushes them, the admin calls that clear one of them, and crashes and   *)
(* restarts of the server, on top of the list operations of module Lists.  *)
(*                                                                         *)
(* Each request is served by a goroutine of its own and makes up to five   *)
(* storage calls: blacklist, whitelist, and one INCR for its login, its    *)
(* password and its IP.  A storage call is atomic, and anything may run    *)
(* between two of them.  An action is one storage call with the local code *)
(* up to the next one.                                                     *)
(***************************************************************************)
EXTENDS Lists

CONSTANTS
    Requests,               \* authorisation requests, each made at most once
    Logins, Passwords, IPs, \* what a request may carry
    Covers,                 \* Covers: the pairs <<s, ip>> where subnet s contains ip
    limitLogin, limitPassword, limitIP,
    MaxAttempts,            \* how often the Redis client sends one INCR (1 + its MaxRetries)
    MaxInFlight             \* bound for TLC: INCRs of one key that are on their way unattended

ASSUME LimitsAssumption ==
    limitLogin \in Nat /\ limitPassword \in Nat /\ limitIP \in Nat
ASSUME MaxAttemptsAssumption == MaxAttempts \in Nat \ {0} /\ MaxInFlight \in Nat
ASSUME CoversAssumption == Covers \subseteq Subnets \X IPs

VARIABLES
    up,         \* the server process runs
    bucket,     \* bucket[k]: the counter of key k in Redis, 0 when there is none
    cred,       \* cred[r]: what request r carries
    reqStage,   \* reqStage[r]: the storage call request r makes next
    answer,     \* answer[r]: what CheckRequest returned
    attempts,   \* attempts[r]: INCRs of the current stage whose reply was lost
    inFlight,   \* inFlight[k]: INCRs of k nobody waits for and Redis has yet to apply
    settledAt,  \* history: settledAt[r] is the admin calls settled when r began
    passes,     \* history: passes[k] is the requests let past k since its last reset
    carried,    \* history: carried[k] is those past k and undecided at its last reset
    admitted,   \* history: admitted[k] is the requests of k answered ok since then
    wasted      \* history: wasted[k] counts the INCRs of k without a reply applied since then

requestVars == <<cred, reqStage, answer, attempts, inFlight, settledAt>>
budgetVars == <<bucket, passes, carried, admitted, wasted>>
appVars == <<up, bucket, cred, reqStage, answer, attempts, inFlight, settledAt,
             passes, carried, admitted, wasted, listsVars>>

\* The three kinds of bucket; app.go prefixes the keys with l_, p_ and i_.
Kinds == {"login", "password", "ip"}
Creds == [login : Logins, password : Passwords, ip : IPs]
NoCred == [login |-> "none"]
Keys == ({"login"} \X Logins) \union ({"password"} \X Passwords) \union ({"ip"} \X IPs)
Limit == [k \in Keys |->
            [login |-> limitLogin, password |-> limitPassword, ip |-> limitIP][k[1]]]

RequestStages == {"idle", "blacklist", "whitelist", "done"} \union Kinds

\* Answers: the three ways to be limited are named by their kind.
Answers == {"none", "blacklisted", "whitelisted", "ok", "error", "lost"} \union Kinds

Key(r, kind) == <<kind, cred[r][kind]>>
KeysOf(r) == {Key(r, kind) : kind \in Kinds}

\* The keys an undecided request is past.
PassedKinds == [password |-> {"login"}, ip |-> {"login", "password"}]
PastKeys(r) ==
    IF reqStage[r] \in DOMAIN PassedKinds
    THEN {Key(r, kind) : kind \in PassedKinds[reqStage[r]]}
    ELSE {}

Undecided(r) == reqStage[r] \notin {"idle", "done"}

AppInit ==
    /\ ListsInit
    /\ up = TRUE
    /\ bucket = [k \in Keys |-> 0]
    /\ cred = [r \in Requests |-> NoCred]
    /\ reqStage = [r \in Requests |-> "idle"]
    /\ answer = [r \in Requests |-> "none"]
    /\ attempts = [r \in Requests |-> 0]
    /\ inFlight = [k \in Keys |-> 0]
    /\ settledAt = [r \in Requests |-> {}]
    /\ passes = [k \in Keys |-> {}]
    /\ carried = [k \in Keys |-> {}]
    /\ admitted = [k \in Keys |-> {}]
    /\ wasted = [k \in Keys |-> 0]

-----------------------------------------------------------------------------
(* CheckRequest. *)

\* Mutated form: the blacklist is not read.
BeginRequestNoBlacklist(r, c) ==
    /\ up
    /\ reqStage[r] = "idle"
    /\ cred' = [cred EXCEPT ![r] = c]
    /\ reqStage' = [reqStage EXCEPT ![r] = "whitelist"]
    /\ settledAt' = [settledAt EXCEPT ![r] = SettledCalls]
    /\ UNCHANGED <<answer, attempts, inFlight, budgetVars, listsVars, up>>

\* A request arrives: its credentials are taken as they come, not validated.
BeginRequest(r, c) ==
    /\ up
    /\ reqStage[r] = "idle"
    /\ cred' = [cred EXCEPT ![r] = c]
    /\ reqStage' = [reqStage EXCEPT ![r] = "blacklist"]
    /\ settledAt' = [settledAt EXCEPT ![r] = SettledCalls]
    /\ UNCHANGED <<answer, attempts, inFlight, budgetVars, listsVars, up>>

\* r moves to stage s, where no INCR has been tried yet.
GoTo(r, s) ==
    /\ reqStage' = [reqStage EXCEPT ![r] = s]
    /\ attempts' = [attempts EXCEPT ![r] = 0]

Reply(r, a) ==
    /\ GoTo(r, "done")
    /\ answer' = [answer EXCEPT ![r] = a]

\* IPIsInSubnetCheck: some row of the table is a subnet that contains the IP.  A row
\* that is no subnet would be a StorageError; the server inserts none.
InSubnetOf(l, ip) == \E c \in table[l] : <<ask[c].subnet, ip>> \in Covers

\* Mutated form: the whitelist is not read.
CheckBlacklistOnly(r) ==
    /\ up
    /\ reqStage[r] = "blacklist"
    /\ \/ InSubnetOf(BlackListName, cred[r].ip) /\ Reply(r, "blacklisted")
       \/ ~InSubnetOf(BlackListName, cred[r].ip) /\ GoTo(r, "login") /\ UNCHANGED answer
    /\ UNCHANGED <<cred, inFlight, settledAt, budgetVars, listsVars, up>>

CheckBlacklist(r) ==
    /\ up
    /\ reqStage[r] = "blacklist"
    /\ \/ InSubnetOf(BlackListName, cred[r].ip) /\ Reply(r, "blacklisted")
       \/ ~InSubnetOf(BlackListName, cred[r].ip) /\ GoTo(r, "whitelist") /\ UNCHANGED answer
    /\ UNCHANGED <<cred, inFlight, settledAt, budgetVars, listsVars, up>>

CheckWhitelist(r) ==
    /\ up
    /\ reqStage[r] = "whitelist"
    /\ \/ InSubnetOf(WhiteListName, cred[r].ip) /\ Reply(r, "whitelisted")
       \/ ~InSubnetOf(WhiteListName, cred[r].ip) /\ GoTo(r, "login") /\ UNCHANGED answer
    /\ UNCHANGED <<cred, inFlight, settledAt, budgetVars, listsVars, up>>

\* Mutated forms: the password is skipped; the password leads back to the login.
NextKindSkips == [login |-> "ip", password |-> "ip"]
NextKindLoops == [login |-> "password", password |-> "login"]

NextKind == [login |-> "password", password |-> "ip"]

\* Mutated forms: the count before the INCR is compared; the limit itself is refused.
OverLimitBefore(k, count) == count - 1 > Limit[k]
OverLimitAt(k, count) == count >= Limit[k]

OverLimit(k, count) == count > Limit[k]

\* An INCR whose reply arrives: over the limit the request is refused, else it
\* goes on to the next bucket or, after the last, is answered ok.
Increase(r) ==
    /\ up
    /\ reqStage[r] \in Kinds
    /\ attempts[r] < MaxAttempts
    /\ LET k == Key(r, reqStage[r])
           count == bucket[k] + 1
       IN  /\ bucket' = [bucket EXCEPT ![k] = count]
           /\ \/ /\ OverLimit(k, count)
                 /\ Reply(r, reqStage[r])
                 /\ UNCHANGED <<passes, admitted>>
              \/ /\ ~OverLimit(k, count)
                 /\ passes' = [passes EXCEPT ![k] = @ \union {r}]
                 /\ \/ /\ reqStage[r] # "ip"
                       /\ GoTo(r, NextKind[reqStage[r]])
                       /\ UNCHANGED <<answer, admitted>>
                    \/ /\ reqStage[r] = "ip"
                       /\ Reply(r, "ok")
                       /\ admitted' = [j \in Keys |-> IF j \in KeysOf(r)
                                                      THEN admitted[j] \union {r}
                                                      ELSE admitted[j]]
    /\ UNCHANGED <<cred, inFlight, settledAt, carried, wasted, listsVars, up>>

\* An INCR whose reply is lost.  It is on its way to Redis, or never gets
\* there; the client sends it again until its attempts are used up and only the
\* error is left.
IncreaseLost(r) ==
    /\ up
    /\ reqStage[r] \in Kinds
    /\ attempts[r] < MaxAttempts
    /\ attempts' = [attempts EXCEPT ![r] = @ + 1]
    /\ LET k == Key(r, reqStage[r]) IN
       \/ inFlight[k] < MaxInFlight /\ inFlight' = [inFlight EXCEPT ![k] = @ + 1]
       \/ UNCHANGED inFlight
    /\ UNCHANGED <<cred, reqStage, answer, settledAt, budgetVars, listsVars, up>>

\* Redis applies it: at once, after the retry, the answer, a flush or a crash.
LandIncrease(k) ==
    /\ inFlight[k] > 0
    /\ inFlight' = [inFlight EXCEPT ![k] = @ - 1]
    /\ bucket' = [bucket EXCEPT ![k] = @ + 1]
    /\ wasted' = [wasted EXCEPT ![k] = @ + 1]
    /\ UNCHANGED <<cred, reqStage, answer, attempts, settledAt, passes, carried, admitted,
                   listsVars, up>>

\* Mutated form: the handler returns without an answer.
StorageErrorSilent(r) ==
    /\ up
    /\ Undecided(r)
    /\ GoTo(r, "done")
    /\ UNCHANGED <<answer, cred, inFlight, settledAt, budgetVars, listsVars, up>>

\* A list read or an INCR returns an error, for one because the request's
\* deadline of ten seconds expired.  Earlier INCRs are not undone.
StorageError(r) ==
    /\ up
    /\ Undecided(r)
    /\ Reply(r, "error")
    /\ UNCHANGED <<cred, inFlight, settledAt, budgetVars, listsVars, up>>

\* What the server does for request r.
ServeRequest(r) ==
    \/ CheckBlacklist(r) \/ CheckWhitelist(r)
    \/ Increase(r) \/ IncreaseLost(r) \/ StorageError(r)

-----------------------------------------------------------------------------
(* Buckets are reset, and the server crashes and restarts. *)

ResetKeys(ks) ==
    /\ bucket' = [k \in Keys |-> IF k \in ks THEN 0 ELSE bucket[k]]
    /\ passes' = [k \in Keys |-> IF k \in ks THEN {} ELSE passes[k]]
    /\ carried' = [k \in Keys |-> IF k \in ks THEN {r \in Requests : k \in PastKeys(r)}
                                              ELSE carried[k]]
    /\ admitted' = [k \in Keys |-> IF k \in ks THEN {} ELSE admitted[k]]
    /\ wasted' = [k \in Keys |-> IF k \in ks THEN 0 ELSE wasted[k]]

\* Redis applies a FLUSHDB of RateLimitTicker, at any time here and even after the
\* process that sent it has ended; module Ticker says when it is sent.
Flush ==
    /\ ResetKeys(Keys)
    /\ UNCHANGED <<requestVars, listsVars, up>>

\* The buckets an admin call may clear; passwords have no such call.
ClearableKinds == {"login", "ip"}

\* ClearBucketForLogin, ClearBucketForIP: SET to 0.
ClearBucket(k) ==
    /\ up
    /\ k[1] \in ClearableKinds
    /\ ResetKeys({k})
    /\ UNCHANGED <<requestVars, listsVars, up>>

\* The process dies: requests and calls in progress are never answered.  A
\* write that was on its way may still reach PostgreSQL.
Crash ==
    /\ up
    /\ up' = FALSE
    /\ reqStage' = [r \in Requests |-> IF Undecided(r) THEN "done" ELSE reqStage[r]]
    /\ answer' = [r \in Requests |-> IF Undecided(r) THEN "lost" ELSE answer[r]]
    /\ attempts' = [r \in Requests |-> 0]
    /\ callStage' = [c \in Calls |->
                        IF ~InProgress(c) THEN callStage[c]
                        ELSE IF callStage[c] = "write" THEN "late" ELSE "done"]
    /\ reply' = [c \in Calls |-> IF InProgress(c) THEN "lost" ELSE reply[c]]
    /\ UNCHANGED <<cred, inFlight, settledAt, budgetVars, table, ask, listed, before>>

\* Mutated form: start-up sets the lists up afresh, as storageSQLMock.Init does.
BootLosesLists ==
    /\ ~up
    /\ up' = TRUE
    /\ ResetKeys(Keys)
    /\ table' = [l \in ListNames |-> {}]
    /\ UNCHANGED <<requestVars, ask, callStage, reply, listed, before>>

\* The process starts again.  RedisStorage.Init flushes the buckets and drops
\* the error when that fails; the lists are in PostgreSQL and stay.
Boot ==
    /\ ~up
    /\ up' = TRUE
    /\ ResetKeys(Keys) \/ UNCHANGED budgetVars
    /\ UNCHANGED <<requestVars, listsVars>>

\* The admin calls of Lists, which need the server except where PostgreSQL
\* acts on its own.
CallStep ==
    /\ \E c \in Calls :
        \/ up /\ \E a \in Asks : BeginCall(c, a)
        \/ up /\ ServeCall(c)
        \/ LandCall(c)
    /\ UNCHANGED <<requestVars, budgetVars, up>>

AppNext ==
    \/ \E r \in Requests : (\E c \in Creds : BeginRequest(r, c)) \/ ServeRequest(r)
    \/ Flush
    \/ \E k \in Keys : ClearBucket(k) \/ LandIncrease(k)
    \/ Crash
    \/ Boot
    \/ CallStep

AppSpec == AppInit /\ [][AppNext]_appVars

\* Every storage call returns, by its deadline at the latest.
Fairness == \A r \in Requests : WF_appVars(ServeRequest(r))

FairAppSpec == AppSpec /\ Fairness

-----------------------------------------------------------------------------
(* Properties. *)

\* Type correctness; what a request is past, it carries.
AppTypeOK ==
    /\ ListsTypeOK
    /\ up \in BOOLEAN
    /\ bucket \in [Keys -> Nat]
    /\ cred \in [Requests -> Creds \union {NoCred}]
    /\ reqStage \in [Requests -> RequestStages]
    /\ answer \in [Requests -> Answers]
    /\ attempts \in [Requests -> 0..MaxAttempts]
    /\ inFlight \in [Keys -> Nat]
    /\ settledAt \in [Requests -> SUBSET Calls]
    /\ passes \in [Keys -> SUBSET Requests]
    /\ carried \in [Keys -> SUBSET Requests]
    /\ admitted \in [Keys -> SUBSET Requests]
    /\ wasted \in [Keys -> Nat]
    /\ \A r \in Requests :
        /\ reqStage[r] # "idle" => cred[r] \in Creds
        /\ reqStage[r] = "done" <=> answer[r] # "none"

\* Between two resets of a bucket at most as many requests get past its check
\* as its limit says, however the INCRs of concurrent requests, retries, clears,
\* flushes and crashes interleave (app.go:95-124).
WindowBudget == \A k \in Keys : Cardinality(passes[k]) <= Limit[k]

\* The same for whole answers: since the last reset of a key, at most its limit
\* of requests were answered ok that were not already past that key's check
\* when the reset came.  Without the exception this fails: a flush between two
\* INCRs of a request separates the count from the answer (app.go:95-125, 138).
AnswerBudget == \A k \in Keys : Cardinality(admitted[k] \ carried[k]) <= Limit[k]

\* No request is limited without cause: when it is, its key's whole limit is
\* spent since the last reset, by requests let past and by INCRs that were
\* applied although their reply was lost (app.go:102, 112, 122).
LimitedOnlyWhenSpent ==
    [][\A r \in Requests :
        reqStage[r] \in Kinds /\ answer'[r] \in Kinds =>
            LET k == Key(r, reqStage[r])
            IN  Cardinality(passes[k]) + wasted[k] >= Limit[k]]_appVars

\* When r began, an acknowledged entry of list l covered its IP, and no remove
\* of that entry may have taken it away since.
ListedFor(r, l) ==
    \E c \in settledAt[r] :
        /\ reply[c] = "added" /\ ask[c].list = l
        /\ <<ask[c].subnet, cred[r].ip>> \in Covers
        /\ ~RemoveMayFollow(c)

\* A blacklisted IP is never let through, nor counted: whatever the admin calls
\* that run beside it do, the request is refused for the blacklist, or fails
\* (README.md:28, app.go:77-85).
BlacklistedAreRefused ==
    \A r \in Requests :
        ListedFor(r, BlackListName) =>
            /\ reqStage[r] \notin Kinds
            /\ reqStage[r] = "done" => answer[r] \in {"blacklisted", "error", "lost"}

\* A whitelisted IP is never limited or counted: the request is let through,
\* unless the blacklist covers the IP too, or fails (README.md:27, app.go:86-94).
WhitelistedAreExempt ==
    \A r \in Requests :
        ListedFor(r, WhiteListName) =>
            /\ reqStage[r] \notin Kinds
            /\ reqStage[r] = "done" => answer[r] \in {"whitelisted", "blacklisted", "error", "lost"}

\* README.md:27 as it stands: a whitelisted IP is let through unconditionally.
WhitelistUnconditional ==
    \A r \in Requests :
        ListedFor(r, WhiteListName) => answer[r] # "blacklisted"

\* How many storage calls request r may still wait for, each of which may be the one
\* that ends it: one for each list, MaxAttempts for each INCR, and its last error.
KindsLeft == [login |-> 3, password |-> 2, ip |-> 1]
WorkLeft(r) ==
    IF reqStage[r] = "blacklist" THEN 3 * MaxAttempts + 3
    ELSE IF reqStage[r] = "whitelist" THEN 3 * MaxAttempts + 2
    ELSE IF reqStage[r] \in Kinds THEN KindsLeft[reqStage[r]] * MaxAttempts + 1 - attempts[r]
    ELSE 0

\* Each storage call brings a request nearer its answer, and nothing else puts that
\* off: no lost reply, no other request, no flush, clear, crash or admin call
\* (app.go:76-126, redis.go:72).
WorkIsBounded ==
    [][\A r \in Requests :
        /\ ServeRequest(r) => WorkLeft(r)' < WorkLeft(r)
        /\ Undecided(r) => WorkLeft(r)' <= WorkLeft(r)]_appVars

\* Every request is answered, or lost in a crash (handlers.go:65: a deadline).
EveryRequestEnds == \A r \in Requests : reqStage[r] # "idle" ~> reqStage[r] = "done"

\* The rate limiter, seen as budgets of tokens.
left == [k \in Keys |-> IF bucket[k] >= Limit[k] THEN 0 ELSE Limit[k] - bucket[k]]
needs == [r \in Requests |-> IF reqStage[r] = "idle" THEN {} ELSE KeysOf(r)]
paid == [r \in Requests |-> PastKeys(r)]
VerdictOf == [none |-> "none", ok |-> "allowed",
              login |-> "limited", password |-> "limited", ip |-> "limited",
              whitelisted |-> "exempted", blacklisted |-> "barred",
              error |-> "failed", lost |-> "failed"]
verdict == [r \in Requests |-> VerdictOf[answer[r]]]

Budget == INSTANCE RateBudget WITH
    Keys <- Keys, Requests <- Requests, Limit <- Limit,
    left <- left, needs <- needs, paid <- paid, verdict <- verdict

\* Every step of the service is a step of the token budgets: it counts before
\* it lets past, takes a token of each key of a request in turn, limits only on
\* an empty budget, and wastes tokens only one by one (RateBudget.tla).
BudgetSpec == Budget!Spec
=============================================================================
