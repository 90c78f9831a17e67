----------------------------- MODULE WindowProofs -----------------------------
(***************************************************************************)
(* The bound of RateWindow on the rate of a login, a password and an IP,   *)
(* for every period, deadline and limit, any number of requests, and       *)
(* whenever the buckets are reset.                                         *)
(***************************************************************************)
EXTENDS RateWindow, TickerProofs

-----------------------------------------------------------------------------
(* Numbers and finite sets. *)

\* A product grows with its first factor.
LEMMA ProductGrows ==
  ASSUME NEW m \in Nat, NEW n \in Nat, NEW x \in Nat, m <= n
  PROVE  /\ m * x \in Nat /\ n * x \in Nat /\ m * x <= n * x
         /\ (m + 1) * x = m * x + x
  <1> DEFINE d == n - m
  <1>1. d \in Nat /\ n = m + d
    OBVIOUS
  <1>2. n * x = m * x + d * x
    BY <1>1
  <1>3. m * x \in Nat /\ d * x \in Nat /\ (m + 1) * x = m * x + x
    BY <1>1
  <1> HIDE DEF d
  <1> QED BY <1>2, <1>3

\* A subset of a finite set is finite, and no larger.
LEMMA Smaller ==
  ASSUME NEW S, NEW T, IsFiniteSet(T), S \subseteq T
  PROVE  /\ IsFiniteSet(S) /\ Cardinality(S) \in Nat /\ Cardinality(T) \in Nat
         /\ Cardinality(S) <= Cardinality(T)
  BY FS_Subset, FS_CardinalityType

\* A set within two finite ones has at most as many elements as both.
LEMMA WithinTwo ==
  ASSUME NEW S, NEW A, NEW B, IsFiniteSet(A), IsFiniteSet(B), S \subseteq A \union B
  PROVE  IsFiniteSet(S) /\ Cardinality(S) <= Cardinality(A) + Cardinality(B)
  <1>1. /\ IsFiniteSet(A \union B)
        /\ Cardinality(A \union B) =
              Cardinality(A) + Cardinality(B) - Cardinality(A \intersect B)
    BY FS_Union
  <1>2. Cardinality(A) \in Nat /\ Cardinality(B) \in Nat /\ Cardinality(A \intersect B) \in Nat
    BY FS_CardinalityType, FS_Intersection
  <1> QED BY <1>1, <1>2, Smaller

-----------------------------------------------------------------------------
(* The invariant. *)

WindowTypeOK ==
    /\ now \in Times
    /\ begunAt \in [Requests -> Nat]
    /\ passed \in [Requests -> SUBSET (Kinds \X Times \X Nat)]
    /\ resets \in [Keys -> [Times -> Nat]]

\* The pass of a key of some kind has its time.
Timed(r, kind) == \E p \in passed[r] : p[1] = kind

\* A request passes its keys after it began, and within its deadline.
PassedInTime ==
    \A r \in Requests :
        /\ passed[r] # {} => reqStage[r] # "idle"
        /\ \A p \in passed[r] : begunAt[r] <= p[2] /\ p[2] <= now
                                /\ p[2] <= begunAt[r] + Deadline

\* The clock does not run past the deadline of an undecided request.
DeadlineIsKept ==
    \A r \in Requests :
        Undecided(r) => begunAt[r] <= now /\ now <= begunAt[r] + Deadline

\* Each key a request is past has its time, and all have when it is answered ok.
PastAreTimed ==
    \A r \in Requests :
        /\ reqStage[r] = "password" => Timed(r, "login")
        /\ reqStage[r] = "ip" => Timed(r, "login") /\ Timed(r, "password")
        /\ answer[r] = "ok" => \A kind \in Kinds : Timed(r, kind)

\* The pass of the IP is the last, and ends the request.
IpIsLast ==
    \A r \in Requests : \A p, q \in passed[r] :
        q[1] = "ip" => reqStage[r] = "done" /\ p[2] <= q[2]

\* The resets add up as time goes on, and none has come yet after now.
ResetsAddUp ==
    \A k \in Keys :
        /\ \A t, u \in Times : t <= u => resets[k][t] <= resets[k][u]
        /\ \A t \in Times : now <= t => resets[k][t] = resets[k][now]

\* A pass is noted with a number of resets that its moment saw.
PassesAreNumbered ==
    \A r \in Requests : \A p \in passed[r] :
        LET k == Key(r, p[1])
        IN  k \in Keys /\ ResetsBefore(k, p[2]) <= p[3] /\ p[3] <= resets[k][p[2]]

\* With no reset since, the request counts among the passes of the key.
RecentPassesCount ==
    \A r \in Requests : \A p \in passed[r] :
        LET k == Key(r, p[1])
        IN  p[3] = resets[k][now] => r \in passes[k]

\* The requests let past k after v resets to w.
PassesNumbered(k, v, w) ==
    {r \in Requests : k \in KeysOf(r) /\ \E p \in passed[r] : p[1] = k[1] /\ p[3] \in v..w}

\* Between two resets the limit is let past, and no more.
PassesBounded ==
    \A k \in Keys, v, w \in Nat :
        v <= w => /\ IsFiniteSet(PassesNumbered(k, v, w))
                  /\ Cardinality(PassesNumbered(k, v, w)) <= (1 + (w - v)) * Limit[k]

TimesInv == PassedInTime /\ DeadlineIsKept /\ PastAreTimed /\ IpIsLast

NumbersInv == ResetsAddUp /\ PassesAreNumbered /\ RecentPassesCount

WindowInv == AppInv /\ WindowTypeOK /\ TimesInv /\ NumbersInv /\ PassesBounded

-----------------------------------------------------------------------------
(* What a step changes. *)

\* A step with the clock is a step of the service with its ticker, or leaves it alone.
LEMMA WindowTickerStep == [WindowNext]_windowVars => [TickerNext]_tickerVars
  BY DEF WindowNext, WindowStep, Tick, windowVars, TickerNext

\* A request is not among the passes of the key it is to pass next.
LEMMA NotYetPast ==
  ASSUME AppInv, NEW r \in Requests, reqStage[r] \in Kinds
  PROVE  Key(r, reqStage[r]) \in Keys /\ r \notin passes[Key(r, reqStage[r])]
  <1> DEFINE k == Key(r, reqStage[r])
  <1>1. k \in Keys /\ reqStage[r] # "done"
    BY KeyType DEF AppInv, AppTypeOK, Kinds
  <1>2. k \notin PastKeys(r)
    BY PastKeysByStage, KeysDiffer DEF Kinds
  <1> QED BY <1>1, <1>2 DEF AppInv, BudgetInv, PassesMovedOn

\* What a step leaves alone of a request.
Apart(q) ==
    /\ cred'[q] = cred[q] /\ reqStage'[q] = reqStage[q] /\ answer'[q] = answer[q]
    /\ begunAt'[q] = begunAt[q] /\ passed'[q] = passed[q]

\* What it does to one: begins it, moves it on without a pass, or lets it past a key.
Begins(r) ==
    /\ reqStage[r] = "idle" /\ reqStage'[r] = "blacklist"
    /\ answer'[r] = answer[r]
    /\ begunAt'[r] = now /\ passed'[r] = passed[r]

MovesOn(r) ==
    /\ cred'[r] = cred[r] /\ Undecided(r) /\ answer'[r] # "ok"
    /\ reqStage'[r] \in {reqStage[r], "whitelist", "login", "done"}
    /\ begunAt'[r] = begunAt[r] /\ passed'[r] = passed[r]

Passes(r) ==
    /\ cred'[r] = cred[r] /\ Undecided(r) /\ reqStage[r] \in Kinds
    /\ Key(r, reqStage[r]) \in Keys /\ r \in passes'[Key(r, reqStage[r])]
    /\ reqStage[r] = "login" => reqStage'[r] = "password"
    /\ reqStage[r] = "password" => reqStage'[r] = "ip"
    /\ reqStage[r] = "ip" => reqStage'[r] = "done"
    /\ answer'[r] = "ok" => reqStage[r] = "ip"
    /\ begunAt'[r] = begunAt[r]
    /\ passed'[r] = passed[r] \union {Pass(r)}

\* Without a new pass of any key nobody is noted as let past one.
LEMMA NobodyLetPast ==
  ASSUME AppInv, NEW q \in Requests, \A k \in Keys : passes'[k] \subseteq passes[k]
  PROVE  ~LetPast(q)
  BY NotYetPast DEF LetPast

\* What a step does that takes no time.
LEMMA StepEffect ==
  ASSUME AppInv, WindowTypeOK, WindowStep, NEW q \in Requests
  PROVE  Apart(q) \/ Begins(q) \/ MovesOn(q) \/ Passes(q)
  <1> USE DEF AppInv, AppTypeOK, WindowTypeOK
  <1>1. begunAt'[q] = IF reqStage[q] = "idle" /\ reqStage'[q] # "idle" THEN now ELSE begunAt[q]
    BY DEF WindowStep
  <1>2. passed'[q] = IF LetPast(q) THEN passed[q] \union {Pass(q)} ELSE passed[q]
    BY DEF WindowStep
  <1>3. [AppNext]_appVars
    BY TickerAppStep DEF WindowStep, TickerNext
  <1>4. ASSUME ~LetPast(q), cred'[q] = cred[q], reqStage'[q] = reqStage[q], answer'[q] = answer[q]
        PROVE  Apart(q)
    BY <1>1, <1>2, <1>4 DEF Apart
  <1>5. ASSUME NEW r \in Requests, NEW c \in Creds, BeginRequest(r, c)
        PROVE  Apart(q) \/ Begins(q)
    <2>1. ~LetPast(q)
      BY <1>5, NobodyLetPast DEF BeginRequest, budgetVars
    <2>2. CASE q = r
      BY <1>1, <1>2, <1>5, <2>1, <2>2 DEF BeginRequest, Begins
    <2>3. CASE q # r
      BY <1>4, <1>5, <2>1, <2>3 DEF BeginRequest
    <2> QED BY <2>2, <2>3
  <1>6. ASSUME NEW r \in Requests,
               CheckBlacklist(r) \/ CheckWhitelist(r) \/ IncreaseLost(r) \/ StorageError(r)
        PROVE  Apart(q) \/ MovesOn(q)
    <2>1. ~LetPast(q) /\ cred' = cred
      BY <1>6, NobodyLetPast
         DEF CheckBlacklist, CheckWhitelist, IncreaseLost, StorageError, budgetVars
    <2>2. CASE q # r
      <3>1. reqStage'[q] = reqStage[q] /\ answer'[q] = answer[q]
        BY <1>6, <2>2 DEF CheckBlacklist, CheckWhitelist, IncreaseLost, StorageError, Reply, GoTo
      <3> QED BY <1>4, <2>1, <3>1
    <2>3. CASE q = r
      <3>1. Undecided(q) /\ answer[q] = "none"
        BY <1>6, <2>3 DEF CheckBlacklist, CheckWhitelist, IncreaseLost, StorageError,
                          Undecided, Kinds
      <3>2. answer'[q] # "ok" /\ reqStage'[q] \in {reqStage[q], "whitelist", "login", "done"}
        BY <1>6, <2>3, <3>1
           DEF CheckBlacklist, CheckWhitelist, IncreaseLost, StorageError, Reply, GoTo
      <3> QED BY <1>1, <1>2, <2>1, <3>1, <3>2 DEF MovesOn, Undecided
    <2> QED BY <2>2, <2>3
  <1>7. ASSUME NEW r \in Requests, Increase(r), q # r PROVE Apart(q)
    <2> DEFINE k == Key(r, reqStage[r])
    <2>1. cred'[q] = cred[q] /\ reqStage'[q] = reqStage[q] /\ answer'[q] = answer[q]
      BY <1>7 DEF Increase, Reply, GoTo
    <2>2. passes' = passes \/ passes' = [passes EXCEPT ![k] = @ \union {r}]
      BY <1>7 DEF Increase
    <2>3. \A j \in Keys : q \in passes'[j] => q \in passes[j]
      BY <1>7, <2>2
    <2>4. ~LetPast(q)
      BY <2>3, NotYetPast DEF LetPast
    <2> QED BY <1>4, <2>1, <2>4
  <1>8. ASSUME Increase(q) PROVE MovesOn(q) \/ Passes(q)
    <2> DEFINE k == Key(q, reqStage[q])
    <2>1. /\ cred' = cred /\ reqStage[q] \in Kinds /\ Undecided(q) /\ answer[q] = "none"
          /\ k \in Keys /\ q \notin passes[k]
      BY <1>8, NotYetPast DEF Increase, Undecided, Kinds
    <2>2. CASE OverLimit(k, bucket[k] + 1)
      <3>1. /\ passes' = passes /\ reqStage'[q] = "done" /\ answer'[q] = reqStage[q]
        BY <1>8, <2>2 DEF Increase, Reply, GoTo
      <3>2. ~LetPast(q) /\ answer'[q] # "ok"
        BY <2>1, <3>1, NobodyLetPast DEF Kinds
      <3> QED BY <1>1, <1>2, <2>1, <3>1, <3>2 DEF MovesOn, Undecided
    <2>3. CASE ~OverLimit(k, bucket[k] + 1)
      <3>1. passes' = [passes EXCEPT ![k] = @ \union {q}]
        BY <1>8, <2>3 DEF Increase
      <3>2. LetPast(q) /\ q \in passes'[k]
        BY <2>1, <3>1 DEF LetPast
      <3>3. /\ reqStage[q] = "login" => reqStage'[q] = NextKind["login"]
            /\ reqStage[q] = "password" => reqStage'[q] = NextKind["password"]
            /\ reqStage[q] = "ip" => reqStage'[q] = "done"
            /\ answer'[q] = "ok" => reqStage[q] = "ip"
        BY <1>8, <2>1, <2>3 DEF Increase, Reply, GoTo
      <3>4. NextKind["login"] = "password" /\ NextKind["password"] = "ip"
        BY DEF NextKind
      <3> QED BY <1>1, <1>2, <2>1, <3>2, <3>3, <3>4 DEF Passes, Undecided
    <2> QED BY <2>2, <2>3
  <1>9. CASE Crash
    <2>1. ~LetPast(q) /\ cred' = cred
      BY <1>9, NobodyLetPast DEF Crash, budgetVars
    <2>2. /\ Undecided(q) => reqStage'[q] = "done" /\ answer'[q] = "lost"
          /\ ~Undecided(q) => reqStage'[q] = reqStage[q] /\ answer'[q] = answer[q]
      BY <1>9 DEF Crash
    <2> QED BY <1>1, <1>2, <1>4, <2>1, <2>2 DEF MovesOn, Undecided
  <1>10. CASE Flush \/ (\E k \in Keys : ClearBucket(k) \/ LandIncrease(k)) \/ Boot \/ CallStep
              \/ UNCHANGED appVars
    <2>1. cred' = cred /\ reqStage' = reqStage /\ answer' = answer
      BY <1>10 DEF Flush, ClearBucket, LandIncrease, Boot, CallStep, appVars, requestVars
    <2>2. \A k \in Keys : passes'[k] \subseteq passes[k]
      BY <1>10 DEF Flush, ClearBucket, LandIncrease, Boot, CallStep, appVars, budgetVars, ResetKeys
    <2>3. ~LetPast(q)
      BY <2>2, NobodyLetPast
    <2> QED BY <1>4, <2>1, <2>3
  <1> QED BY <1>3, <1>5, <1>6, <1>7, <1>8, <1>9, <1>10 DEF AppNext, ServeRequest

\* A key's passes are only taken away when its bucket is reset.
LEMMA PassesStay ==
  ASSUME AppInv, [AppNext]_appVars, NEW k \in Keys
  PROVE  passes[k] \subseteq passes'[k] \/ IsReset(k)
  <1> USE DEF AppInv, AppTypeOK
  <1>1. ASSUME NEW ks, ResetKeys(ks) PROVE passes[k] \subseteq passes'[k] \/ IsReset(k)
    <2>1. CASE k \notin ks
      BY <1>1, <2>1 DEF ResetKeys
    <2>2. CASE k \in ks
      <3>1. bucket'[k] = 0 /\ bucket[k] \in Nat
        BY <1>1, <2>2 DEF ResetKeys
      <3>2. CASE bucket[k] = 0
        <4>1. IsFiniteSet(passes[k]) /\ Cardinality(passes[k]) <= 0
          BY <3>2 DEF BudgetInv, PassesAreCounted
        <4>2. Cardinality(passes[k]) = 0
          BY <4>1, FS_CardinalityType
        <4>3. passes[k] = {}
          BY <4>1, <4>2, FS_EmptySet
        <4> QED BY <4>3
      <3> QED BY <3>1, <3>2 DEF IsReset
    <2> QED BY <2>1, <2>2
  <1>2. CASE Flush \/ (\E j \in Keys : ClearBucket(j)) \/ (Boot /\ ResetKeys(Keys))
    BY <1>1, <1>2 DEF Flush, ClearBucket
  <1>3. ASSUME NEW r \in Requests, Increase(r) PROVE passes[k] \subseteq passes'[k]
    BY <1>3 DEF Increase
  <1>4. CASE passes' = passes
    BY <1>4
  <1>5. ASSUME NEW r \in Requests, (\E c \in Creds : BeginRequest(r, c)) \/ CheckBlacklist(r)
                  \/ CheckWhitelist(r) \/ IncreaseLost(r) \/ StorageError(r)
        PROVE  passes' = passes
    BY <1>5 DEF BeginRequest, CheckBlacklist, CheckWhitelist, IncreaseLost, StorageError, budgetVars
  <1>6. CASE (\E j \in Keys : LandIncrease(j)) \/ Crash \/ (Boot /\ UNCHANGED budgetVars)
             \/ CallStep \/ UNCHANGED appVars
    BY <1>4, <1>6 DEF LandIncrease, Crash, CallStep, appVars, budgetVars
  <1>7. Boot => ResetKeys(Keys) \/ UNCHANGED budgetVars
    BY DEF Boot
  <1> QED BY <1>2, <1>3, <1>4, <1>5, <1>6, <1>7 DEF AppNext, ServeRequest

\* A step that lets a request past a key does not reset its bucket.
LEMMA PassIsNoReset ==
  ASSUME AppInv', NEW k \in Keys, NEW r \in passes'[k] PROVE ~IsReset(k)
  <1>1. IsFiniteSet(passes'[k]) /\ Cardinality(passes'[k]) <= bucket'[k]
    BY DEF AppInv, BudgetInv, PassesAreCounted
  <1>2. Cardinality(passes'[k]) \in Nat /\ Cardinality(passes'[k]) # 0
    BY <1>1, FS_CardinalityType, FS_EmptySet
  <1> QED BY <1>1, <1>2 DEF IsReset

\* The clock moves no request, and a step that changes nothing neither.
LEMMA QuietSteps ==
  ASSUME Tick \/ UNCHANGED windowVars
  PROVE  /\ UNCHANGED <<answer, cred, reqStage, passes, begunAt, passed, resets>>
         /\ \/ now' = now
            \/ now < MaxTime /\ now' = now + 1 /\ \A r \in Requests : InTime(r)
  BY DEF Tick, PassTime, windowVars, tickerVars, appVars

-----------------------------------------------------------------------------
(* The invariant is kept. *)

\* What a pass notes.
LEMMA PassType ==
  ASSUME WindowTypeOK, NEW q \in Requests, NEW p \in passed[q]
  PROVE  p[1] \in Kinds /\ p[2] \in Times /\ p[2] \in Nat /\ p[3] \in Nat
  <1>1. p \in Kinds \X Times \X Nat
    BY DEF WindowTypeOK
  <1>2. Times \subseteq Nat
    BY TimesAssumption DEF Times
  <1> QED BY <1>1, <1>2

\* What a step does to a request, in whatever time.
LEMMA NextEffect ==
  ASSUME AppInv, WindowTypeOK, [WindowNext]_windowVars, NEW q \in Requests
  PROVE  \/ Apart(q)
         \/ now' = now /\ (Begins(q) \/ MovesOn(q) \/ Passes(q))
  <1>1. CASE WindowStep
    <2>1. now' = now
      BY <1>1 DEF WindowStep
    <2> QED BY <1>1, <2>1, StepEffect
  <1>2. CASE Tick \/ UNCHANGED windowVars
    BY <1>2, QuietSteps DEF Apart
  <1> QED BY <1>1, <1>2 DEF WindowNext

\* The clock goes on within its bound.
LEMMA NowNext ==
  ASSUME WindowTypeOK, [WindowNext]_windowVars
  PROVE  now' \in Times /\ now \in Times /\ now <= now'
  <1> USE DEF WindowTypeOK, Times
  <1>0. MaxTime \in Nat
    BY TimesAssumption
  <1>1. now' = now \/ (now < MaxTime /\ now' = now + 1)
    BY QuietSteps DEF WindowNext, WindowStep
  <1> QED BY <1>0, <1>1

\* A reset is counted from now on; nothing else changes the counts.
LEMMA ResetsNext ==
  ASSUME WindowTypeOK, [WindowNext]_windowVars, NEW k \in Keys, NEW t \in Times
  PROVE  /\ resets[k][t] \in Nat
         /\ resets'[k][t] = resets[k][t] \/ resets'[k][t] = resets[k][t] + 1
         /\ t < now => resets'[k][t] = resets[k][t]
         /\ ~IsReset(k) => resets'[k][t] = resets[k][t]
         /\ WindowStep /\ IsReset(k) /\ now <= t => resets'[k][t] = resets[k][t] + 1
  <1>0. now \in Nat /\ t \in Nat /\ resets[k][t] \in Nat
    BY TimesAssumption DEF WindowTypeOK, Times
  <1>1. CASE WindowStep
    <2>1. resets'[k][t] = IF IsReset(k) /\ now <= t THEN resets[k][t] + 1 ELSE resets[k][t]
      BY <1>1 DEF WindowStep
    <2>2. CASE IsReset(k) /\ now <= t
      BY <1>0, <2>1, <2>2
    <2>3. CASE ~(IsReset(k) /\ now <= t)
      BY <1>0, <2>1, <2>3
    <2> QED BY <2>2, <2>3
  <1>2. CASE Tick \/ UNCHANGED windowVars
    <2>1. resets' = resets /\ ~IsReset(k)
      BY <1>2 DEF Tick, PassTime, windowVars, tickerVars, appVars, IsReset
    <2> QED BY <1>0, <2>1
  <1> QED BY <1>1, <1>2 DEF WindowNext

\* The types with the clock are kept.
LEMMA WindowTypeNext ==
  ASSUME AppInv, WindowTypeOK, [WindowNext]_windowVars PROVE WindowTypeOK'
  <1> USE DEF WindowTypeOK
  <1>0. now' \in Times /\ now \in Nat
    BY NowNext, TimesAssumption DEF Times
  <1>1. CASE WindowStep
    <2>1. begunAt' \in [Requests -> Nat]
      BY <1>0, <1>1 DEF WindowStep
    <2>2. ASSUME NEW r \in Requests, LetPast(r) PROVE Pass(r) \in Kinds \X Times \X Nat
      BY <2>2, NotYetPast DEF LetPast, Pass
    <2>3. passed' \in [Requests -> SUBSET (Kinds \X Times \X Nat)]
      BY <1>1, <2>2 DEF WindowStep
    <2>4. resets' \in [Keys -> [Times -> Nat]]
      BY <1>1 DEF WindowStep
    <2> QED BY <1>0, <2>1, <2>3, <2>4
  <1>2. CASE Tick \/ UNCHANGED windowVars
    BY <1>0, <1>2, QuietSteps
  <1> QED BY <1>1, <1>2 DEF WindowNext

\* The passes keep to the time of their request, and it to its deadline.
LEMMA InTimeNext ==
  ASSUME AppInv, WindowTypeOK, TimesInv, [WindowNext]_windowVars
  PROVE  PassedInTime' /\ DeadlineIsKept'
  <1> USE DEF WindowTypeOK, TimesInv, PassedInTime, DeadlineIsKept
  <1>0. Deadline \in Nat /\ now \in Nat /\ Times \subseteq Nat
    BY TimesAssumption DEF Times
  <1> SUFFICES ASSUME NEW q \in Requests
               PROVE  /\ passed'[q] # {} => reqStage'[q] # "idle"
                      /\ \A p \in passed'[q] : begunAt'[q] <= p[2] /\ p[2] <= now'
                                               /\ p[2] <= begunAt'[q] + Deadline
                      /\ Undecided(q)' => begunAt'[q] <= now' /\ now' <= begunAt'[q] + Deadline
    OBVIOUS
  <1>1. \/ Apart(q)
        \/ now' = now /\ (Begins(q) \/ MovesOn(q) \/ Passes(q))
    BY NextEffect
  <1>2. CASE Apart(q)
    <2>1. \/ now' = now
          \/ now' = now + 1 /\ InTime(q)
      BY QuietSteps DEF WindowNext, WindowStep
    <2>2. \A p \in passed[q] : p[2] \in Nat
      BY PassType
    <2>3. /\ passed'[q] = passed[q] /\ begunAt'[q] = begunAt[q] /\ begunAt[q] \in Nat
          /\ reqStage'[q] = reqStage[q] /\ Undecided(q)' = Undecided(q)
      BY <1>2 DEF Apart, Undecided
    <2>4. \A p \in passed'[q] : begunAt'[q] <= p[2] /\ p[2] <= now'
                                /\ p[2] <= begunAt'[q] + Deadline
      BY <1>0, <2>1, <2>2, <2>3
    <2>5. Undecided(q) => begunAt'[q] <= now' /\ now' <= begunAt'[q] + Deadline
      BY <1>0, <2>1, <2>3 DEF InTime
    <2> QED BY <2>3, <2>4, <2>5
  <1>3. CASE now' = now /\ Begins(q)
    BY <1>0, <1>3 DEF Begins
  <1>4. CASE now' = now /\ MovesOn(q)
    BY <1>4 DEF MovesOn, Undecided
  <1>5. CASE now' = now /\ Passes(q)
    <2>1. /\ Undecided(q) /\ begunAt'[q] = begunAt[q]
          /\ passed'[q] = passed[q] \union {Pass(q)} /\ Pass(q)[2] = now
      BY <1>5 DEF Passes, Pass
    <2>2. reqStage'[q] # "idle"
      BY <1>5 DEF Passes, Kinds
    <2>3. begunAt[q] <= now /\ now <= begunAt[q] + Deadline
      BY <2>1
    <2>4. \A p \in passed[q] : begunAt[q] <= p[2] /\ p[2] <= now /\ p[2] <= begunAt[q] + Deadline
      OBVIOUS
    <2>5. \A p \in passed'[q] : p \in passed[q] \/ p[2] = now
      BY <2>1
    <2>6. begunAt'[q] + Deadline = begunAt[q] + Deadline /\ now' = now /\ now <= now
      BY <1>0, <1>5, <2>1
    <2>7. \A p \in passed'[q] : begunAt'[q] <= p[2] /\ p[2] <= now'
                                /\ p[2] <= begunAt'[q] + Deadline
      BY <2>1, <2>3, <2>4, <2>5, <2>6
    <2> QED BY <2>1, <2>2, <2>3, <2>6, <2>7
  <1> QED BY <1>1, <1>2, <1>3, <1>4, <1>5

\* Each pass is noted, and that of the IP comes last.
LEMMA PastNext ==
  ASSUME AppInv, WindowTypeOK, TimesInv, [WindowNext]_windowVars
  PROVE  PastAreTimed' /\ IpIsLast'
  <1> USE DEF WindowTypeOK, TimesInv, PastAreTimed, IpIsLast
  <1> DEFINE Goal(q) ==
        /\ reqStage'[q] = "password" => Timed(q, "login")'
        /\ reqStage'[q] = "ip" => Timed(q, "login")' /\ Timed(q, "password")'
        /\ answer'[q] = "ok" => \A kind \in Kinds : Timed(q, kind)'
        /\ \A p, s \in passed'[q] : s[1] = "ip" => reqStage'[q] = "done" /\ p[2] <= s[2]
  <1> SUFFICES ASSUME NEW q \in Requests PROVE Goal(q)
    OBVIOUS
  <1>0. \A kind : passed[q] \subseteq passed'[q] /\ Timed(q, kind) => Timed(q, kind)'
    BY DEF Timed
  <1>1. CASE Apart(q)
    BY <1>0, <1>1 DEF Apart
  <1>2. CASE Begins(q)
    BY <1>0, <1>2 DEF Begins, AppInv, AppTypeOK, PassedInTime
  <1>3. CASE MovesOn(q)
    <2>1. \A s \in passed[q] : s[1] # "ip"
      BY <1>3 DEF MovesOn, Undecided
    <2>2. passed'[q] = passed[q] /\ answer'[q] # "ok"
      BY <1>3 DEF MovesOn
    <2>3. reqStage'[q] \in {"password", "ip"} => reqStage'[q] = reqStage[q]
      BY <1>3 DEF MovesOn
    <2> QED BY <1>0, <2>1, <2>2, <2>3
  <1>4. CASE Passes(q)
    <2>1. \A s \in passed[q] : s[1] # "ip"
      BY <1>4 DEF Passes, Undecided
    <2>2. /\ passed'[q] = passed[q] \union {Pass(q)}
          /\ Pass(q)[1] = reqStage[q] /\ Pass(q)[2] = now
      BY <1>4 DEF Passes, Pass
    <2>3. \A kind : kind = reqStage[q] => Timed(q, kind)'
      BY <2>2 DEF Timed
    <2>4. /\ reqStage'[q] = "password" => reqStage[q] = "login"
          /\ reqStage'[q] = "ip" => reqStage[q] = "password"
          /\ reqStage[q] = "ip" => reqStage'[q] = "done"
          /\ answer'[q] = "ok" => reqStage[q] = "ip"
      BY <1>4 DEF Passes, Kinds
    <2>5. \A p \in passed'[q] : p[2] <= now
      <3>1. now \in Nat
        BY TimesAssumption DEF Times
      <3> QED BY <2>2, <3>1 DEF PassedInTime
    <2>6. \A s \in passed'[q] : s[1] = "ip" => s[2] = now /\ reqStage[q] = "ip"
      BY <2>1, <2>2
    <2> QED BY <1>0, <2>2, <2>3, <2>4, <2>5, <2>6 DEF Kinds
  <1> QED BY <1>1, <1>2, <1>3, <1>4, NextEffect

\* The resets go on adding up.
LEMMA ResetsAddUpNext ==
  ASSUME WindowTypeOK, ResetsAddUp, [WindowNext]_windowVars PROVE ResetsAddUp'
  <1>0. /\ now \in Times /\ now' \in Times /\ now <= now' /\ Times \subseteq Nat
        /\ \A k \in Keys, t \in Times : resets[k][t] \in Nat
    BY NowNext, TimesAssumption DEF Times, WindowTypeOK
  <1> SUFFICES ASSUME NEW k \in Keys
               PROVE  /\ \A t, u \in Times : t <= u => resets'[k][t] <= resets'[k][u]
                      /\ \A t \in Times : now' <= t => resets'[k][t] = resets'[k][now']
    BY DEF ResetsAddUp, Times
  <1>1. /\ \A t, u \in Times : t <= u => resets[k][t] <= resets[k][u]
        /\ \A t \in Times : now <= t => resets[k][t] = resets[k][now]
    BY DEF ResetsAddUp
  <1>2. CASE WindowStep
    <2>1. now' = now
      BY <1>2 DEF WindowStep
    <2>2. \A t \in Times : resets'[k][t] = IF IsReset(k) /\ now <= t THEN resets[k][t] + 1
                                                                 ELSE resets[k][t]
      BY <1>2 DEF WindowStep
    <2>3. CASE IsReset(k)
      BY <1>0, <1>1, <2>1, <2>2, <2>3
    <2>4. CASE ~IsReset(k)
      BY <1>0, <1>1, <2>1, <2>2, <2>4
    <2> QED BY <2>3, <2>4
  <1>3. CASE Tick \/ UNCHANGED windowVars
    <2>1. resets' = resets
      BY <1>3, QuietSteps
    <2>2. resets[k][now'] = resets[k][now]
      BY <1>0, <1>1
    <2>3. ASSUME NEW t \in Times, now' <= t PROVE resets[k][t] = resets[k][now']
      <3>1. now \in Nat /\ now' \in Nat /\ t \in Nat
        BY <1>0
      <3>2. now <= t
        BY <1>0, <2>3, <3>1
      <3> QED BY <1>1, <2>2, <3>2
    <2> QED BY <1>1, <2>1, <2>3
  <1> QED BY <1>2, <1>3 DEF WindowNext

\* A pass is one of before, or is made by the step and has the number of the resets so
\* far; its key stays.
LEMMA PassOldOrNew ==
  ASSUME AppInv, WindowTypeOK, TimesInv, NumbersInv, [WindowNext]_windowVars,
         NEW q \in Requests, NEW p \in passed'[q]
  PROVE  /\ Key(q, p[1]) \in Keys /\ Key(q, p[1])' = Key(q, p[1])
         /\ \/ p \in passed[q]
            \/ /\ now' = now /\ p[2] = now /\ p[3] = resets[Key(q, p[1])][now]
               /\ q \in passes'[Key(q, p[1])]
  <1>1. CASE p \in passed[q] /\ cred'[q] = cred[q]
    BY <1>1 DEF NumbersInv, PassesAreNumbered, Key
  <1>2. CASE Begins(q)
    BY <1>2 DEF Begins, TimesInv, PassedInTime
  <1>3. CASE now' = now /\ Passes(q)
    <2>1. p \in passed[q] \/ p = <<reqStage[q], now, resets[Key(q, reqStage[q])][now]>>
      BY <1>3 DEF Passes, Pass
    <2>2. CASE p \in passed[q]
      BY <1>1, <1>3, <2>2 DEF Passes
    <2>3. CASE p = <<reqStage[q], now, resets[Key(q, reqStage[q])][now]>>
      <3>1. p[1] = reqStage[q] /\ p[2] = now /\ p[3] = resets[Key(q, p[1])][now]
        BY <2>3
      <3>2. Key(q, p[1])' = Key(q, p[1])
        BY <1>3 DEF Passes, Key
      <3> QED BY <1>3, <3>1, <3>2 DEF Passes
    <2> QED BY <2>1, <2>2, <2>3
  <1>4. Apart(q) \/ MovesOn(q) => cred'[q] = cred[q] /\ passed'[q] = passed[q]
    BY DEF Apart, MovesOn
  <1> QED BY <1>1, <1>2, <1>3, <1>4, NextEffect

\* The passes are numbered by the resets their moment saw, and count until the next.
LEMMA NumbersNext ==
  ASSUME AppInv, AppInv', WindowTypeOK, WindowTypeOK', TimesInv, TimesInv', NumbersInv,
         [WindowNext]_windowVars
  PROVE  NumbersInv'
  <1>1. ResetsAddUp'
    BY ResetsAddUpNext DEF NumbersInv
  <1>2. ASSUME NEW q \in Requests, NEW p \in passed'[q]
        PROVE  LET k == Key(q, p[1])'
               IN  /\ k \in Keys
                   /\ ResetsBefore(Key(q, p[1]), p[2])' <= p[3] /\ p[3] <= resets'[k][p[2]]
                   /\ p[3] = resets'[k][now'] => q \in passes'[k]
    <2>0. PICK k \in Keys : k = Key(q, p[1])
      BY <1>2, PassOldOrNew
    <2>1. /\ Key(q, p[1])' = k
          /\ \/ p \in passed[q]
             \/ now' = now /\ p[2] = now /\ p[3] = resets[k][now] /\ q \in passes'[k]
      BY <1>2, <2>0, PassOldOrNew
    <2> DEFINE t == p[2]
    <2>2. /\ now \in Times /\ now' \in Times /\ now \in Nat /\ now' \in Nat /\ now <= now'
          /\ t \in Times /\ t \in Nat /\ t <= now' /\ p[3] \in Nat
          /\ t # 0 => t - 1 \in Times
      <3>1. p[1] \in Kinds /\ t \in Times /\ p[3] \in Nat
        <4>1. p \in Kinds \X Times \X Nat
          BY <1>2 DEF WindowTypeOK
        <4> QED BY <4>1
      <3>2. t <= now'
        BY <1>2 DEF TimesInv, PassedInTime
      <3> QED BY <3>1, <3>2, NowNext, TimesAssumption DEF Times
    <2>3. \A u, v \in Times : u <= v => resets[k][u] <= resets[k][v]
      BY DEF NumbersInv, ResetsAddUp
    <2>4. resets[k][now'] = resets[k][now]
      BY <2>2 DEF NumbersInv, ResetsAddUp
    <2> DEFINE Before == IF t = 0 THEN 0 ELSE resets[k][t - 1]
    <2>5. t <= now /\ Before <= p[3] /\ p[3] <= resets[k][t] /\ Before \in Nat
      <3>1. CASE p \in passed[q]
        <4>1. t <= now
          BY <3>1 DEF TimesInv, PassedInTime
        <4>2. Before <= p[3] /\ p[3] <= resets[k][t]
          BY <2>0, <3>1 DEF NumbersInv, PassesAreNumbered, ResetsBefore
        <4>3. Before \in Nat
          BY <2>2, ResetsNext
        <4> QED BY <4>1, <4>2, <4>3
      <3>2. CASE p[2] = now /\ p[3] = resets[k][now]
        <4>1. t = 0 \/ (t - 1 \in Times /\ t - 1 <= t)
          BY <2>2
        <4>2. resets[k][t] \in Nat /\ Before \in Nat
          BY <2>2, ResetsNext
        <4>3. Before <= resets[k][t]
          BY <2>2, <2>3, <4>1, <4>2
        <4> QED BY <2>2, <3>2, <4>2, <4>3
      <3> QED BY <2>1, <3>1, <3>2
    <2>6. (IF t = 0 THEN 0 ELSE resets'[k][t - 1]) = Before
      <3>1. t # 0 => t - 1 \in Times /\ t - 1 < now
        BY <2>2, <2>5
      <3> QED BY <3>1, ResetsNext
    <2>7. resets[k][t] \in Nat /\ resets[k][t] <= resets'[k][t] /\ resets'[k][t] \in Nat
      BY <2>2, ResetsNext
    <2>8. ResetsBefore(Key(q, p[1]), p[2])' = Before
      BY <2>1, <2>6 DEF ResetsBefore
    <2>9. ASSUME p[3] = resets'[k][now'] PROVE q \in passes'[k]
      <3>1. CASE q \in passes'[k]
        BY <3>1
      <3>2. CASE p \in passed[q]
        <4>1. resets[k][t] <= resets[k][now]
          BY <2>2, <2>3, <2>5
        <4>2. /\ resets[k][now] \in Nat
              /\ WindowStep /\ IsReset(k) => resets'[k][now] = resets[k][now] + 1
          BY <2>2, ResetsNext
        <4>3. ~IsReset(k)
          <5>1. CASE WindowStep
            <6>1. now' = now
              BY <5>1 DEF WindowStep
            <6> QED BY <2>2, <2>5, <2>7, <2>9, <4>1, <4>2, <5>1, <6>1
          <5>2. CASE Tick \/ UNCHANGED windowVars
            BY <5>2 DEF Tick, PassTime, windowVars, tickerVars, appVars, IsReset
          <5> QED BY <5>1, <5>2 DEF WindowNext
        <4>4. p[3] = resets[k][now]
          BY <2>2, <2>4, <2>9, <4>3, ResetsNext
        <4>5. q \in passes[k]
          BY <2>0, <3>2, <4>4 DEF NumbersInv, RecentPassesCount
        <4>6. [AppNext]_appVars
          BY WindowTickerStep, TickerAppStep
        <4> QED BY <4>3, <4>5, <4>6, PassesStay
      <3> QED BY <2>1, <3>1, <3>2
    <2> QED BY <2>1, <2>2, <2>5, <2>7, <2>8, <2>9
  <1>3. PassesAreNumbered'
    <2> SUFFICES ASSUME NEW q \in Requests, NEW p \in passed'[q]
                 PROVE  /\ Key(q, p[1])' \in Keys'
                        /\ ResetsBefore(Key(q, p[1]), p[2])' <= p[3]
                        /\ p[3] <= resets'[Key(q, p[1])'][p[2]]
      BY DEF PassesAreNumbered
    <2> QED BY <1>2 DEF Keys
  <1>4. RecentPassesCount'
    BY <1>2 DEF RecentPassesCount
  <1> QED BY <1>1, <1>3, <1>4 DEF NumbersInv

\* A step that lets nobody past k after v to w resets adds no pass to those.
LEMMA OtherNumbers ==
  ASSUME AppInv, AppInv', WindowTypeOK, WindowTypeOK', TimesInv, TimesInv', NumbersInv,
         [WindowNext]_windowVars,
         NEW k \in Keys, NEW v \in Nat, NEW w \in Nat, resets'[k][now'] \notin v..w
  PROVE  PassesNumbered(k, v, w)' \subseteq PassesNumbered(k, v, w)
  <1> SUFFICES ASSUME NEW q \in Requests, k \in KeysOf(q)', NEW p \in passed'[q],
                      p[1] = k[1], p[3] \in v..w
               PROVE  k \in KeysOf(q) /\ p \in passed[q]
    BY DEF PassesNumbered
  <1>1. k = Key(q, p[1])'
    BY DEF KeysOf, Key, Kinds
  <1>2. k = Key(q, p[1])
    BY <1>1, PassOldOrNew
  <1>3. p[1] \in Kinds
    <2>1. p \in Kinds \X Times \X Nat
      BY DEF WindowTypeOK
    <2> QED BY <2>1
  <1>4. k \in KeysOf(q)
    BY <1>2, <1>3 DEF KeysOf
  <1>5. ASSUME now' = now, p[3] = resets[k][now], q \in passes'[k] PROVE FALSE
    <2>1. ~IsReset(k) /\ now \in Times
      BY <1>5, PassIsNoReset DEF WindowTypeOK
    <2> QED BY <1>5, <2>1, ResetsNext
  <1> QED BY <1>2, <1>4, <1>5, PassOldOrNew

\* A window more is a limit more.
LEMMA BoundType ==
  ASSUME NEW k \in Keys, NEW n \in Nat
  PROVE  /\ Limit[k] \in Nat /\ n * Limit[k] \in Nat
         /\ (1 + n) * Limit[k] = n * Limit[k] + Limit[k]
         /\ (1 + n) * Limit[k] \in Nat
  <1>1. Limit[k] \in Nat
    BY LimitType
  <1>2. n * Limit[k] \in Nat /\ (n + 1) * Limit[k] = n * Limit[k] + Limit[k]
    BY <1>1, ProductGrows
  <1>3. 1 + n = n + 1
    OBVIOUS
  <1> QED BY <1>1, <1>2, <1>3

\* The bound on the passes is kept: those since the last reset are at most the limit, and
\* those before it met one window less.
LEMMA PassesBoundedNext ==
  ASSUME AppInv, AppInv', WindowTypeOK, WindowTypeOK', TimesInv, TimesInv',
         NumbersInv, NumbersInv', PassesBounded, [WindowNext]_windowVars
  PROVE  PassesBounded'
  <1> DEFINE Held(k, v, w) ==
        /\ IsFiniteSet(PassesNumbered(k, v, w)')
        /\ Cardinality(PassesNumbered(k, v, w)') <= (1 + (w - v)) * Limit[k]
  <1> SUFFICES ASSUME NEW k \in Keys, NEW v \in Nat, NEW w \in Nat, v <= w PROVE Held(k, v, w)
    BY DEF PassesBounded, Limit, Keys
  <1> DEFINE c == resets'[k][now']
  <1>1. c \in Nat
    BY DEF WindowTypeOK
  <1>2. IsFiniteSet(passes'[k]) /\ Cardinality(passes'[k]) <= Limit[k]
        /\ Cardinality(passes'[k]) \in Nat
    BY FS_CardinalityType DEF AppInv, BudgetInv, PassesAreCounted
  <1>3. ASSUME NEW q \in Requests, k \in KeysOf(q)', NEW p \in passed'[q], p[1] = k[1]
        PROVE  p[3] \in Nat /\ p[3] <= c /\ (p[3] = c => q \in passes'[k])
    <2>1. k = Key(q, p[1])'
      BY <1>3 DEF KeysOf, Key, Kinds
    <2>2. p[3] = c => q \in passes'[k]
      BY <1>3, <2>1 DEF NumbersInv, RecentPassesCount
    <2>3. p[3] <= resets'[k][p[2]]
      BY <1>3, <2>1 DEF NumbersInv, PassesAreNumbered
    <2>4. p[2] \in Times /\ p[3] \in Nat
      <3>1. p \in Kinds \X Times \X Nat
        BY <1>3 DEF WindowTypeOK
      <3> QED BY <3>1
    <2>5. resets'[k][p[2]] <= c /\ resets'[k][p[2]] \in Nat
      <3>1. p[2] <= now' /\ now' \in Times
        BY <1>3, NowNext DEF TimesInv, PassedInTime
      <3> QED BY <2>4, <3>1 DEF NumbersInv, ResetsAddUp, WindowTypeOK, Times
    <2> QED BY <1>1, <2>2, <2>3, <2>4, <2>5
  <1>4. /\ Limit[k] \in Nat /\ (w - v) \in Nat /\ (w - v) * Limit[k] \in Nat
        /\ (1 + (w - v)) * Limit[k] = (w - v) * Limit[k] + Limit[k]
        /\ (1 + (w - v)) * Limit[k] \in Nat
    <2>1. w - v \in Nat
      OBVIOUS
    <2> QED BY <2>1, BoundType
  <1>5. CASE c \notin v..w
    <2>1. IsFiniteSet(PassesNumbered(k, v, w))
          /\ Cardinality(PassesNumbered(k, v, w)) <= (1 + (w - v)) * Limit[k]
      BY DEF PassesBounded
    <2>2. PassesNumbered(k, v, w)' \subseteq PassesNumbered(k, v, w)
      BY <1>5, OtherNumbers
    <2> QED BY <1>4, <2>1, <2>2, Smaller
  <1>6. CASE c = v
    <2>1. PassesNumbered(k, v, w)' \subseteq passes'[k]
      <3> SUFFICES ASSUME NEW q \in Requests, k \in KeysOf(q)', NEW p \in passed'[q],
                          p[1] = k[1], p[3] \in v..w
                   PROVE  q \in passes'[k]
        BY DEF PassesNumbered
      <3>1. p[3] \in Nat /\ p[3] <= c /\ (p[3] = c => q \in passes'[k])
        BY <1>3
      <3> QED BY <1>1, <1>6, <3>1
    <2> QED BY <1>2, <1>4, <2>1, Smaller
  <1>7. CASE c \in v..w /\ c # v
    <2>0. c - 1 \in Nat
      BY <1>1, <1>7
    <2> PICK e \in Nat : e = c - 1
      BY <2>0
    <2> DEFINE Early == PassesNumbered(k, v, e)'
    <2>1. e \in Nat /\ v <= e /\ c = e + 1 /\ e <= w /\ c \notin v..e
      BY <1>1, <1>7
    <2>2. PassesNumbered(k, v, e)' \subseteq PassesNumbered(k, v, e)
      BY <2>1, OtherNumbers
    <2>3. /\ IsFiniteSet(PassesNumbered(k, v, e))
          /\ Cardinality(PassesNumbered(k, v, e)) <= (1 + (e - v)) * Limit[k]
      BY <2>1 DEF PassesBounded
    <2>4. (1 + (e - v)) * Limit[k] \in Nat /\ (1 + (e - v)) * Limit[k] <= (w - v) * Limit[k]
      <3>1. 1 + (e - v) \in Nat /\ 1 + (e - v) <= w - v
        BY <1>1, <1>7, <2>1
      <3> QED BY <1>4, <3>1, ProductGrows
    <2>5. /\ IsFiniteSet(Early) /\ Cardinality(Early) \in Nat
          /\ Cardinality(Early) <= (w - v) * Limit[k]
      BY <1>4, <2>2, <2>3, <2>4, Smaller
    <2>6. PassesNumbered(k, v, w)' \subseteq Early \union passes'[k]
      <3> SUFFICES ASSUME NEW q \in Requests, k \in KeysOf(q)', NEW p \in passed'[q],
                          p[1] = k[1], p[3] \in v..w
                   PROVE  p[3] \in v..e \/ q \in passes'[k]
        BY DEF PassesNumbered
      <3>1. p[3] \in Nat /\ p[3] <= c /\ (p[3] = c => q \in passes'[k])
        BY <1>3
      <3> QED BY <1>1, <2>1, <3>1
    <2> HIDE DEF Early
    <2>7. /\ IsFiniteSet(PassesNumbered(k, v, w)')
          /\ Cardinality(PassesNumbered(k, v, w)') <= Cardinality(Early) + Cardinality(passes'[k])
          /\ Cardinality(PassesNumbered(k, v, w)') \in Nat
      BY <1>2, <2>5, <2>6, WithinTwo, FS_CardinalityType
    <2> QED BY <1>2, <1>4, <2>5, <2>7
  <1> QED BY <1>5, <1>6, <1>7

\* The invariant holds at the start, when nobody was let past.
LEMMA WindowInvInit == WindowInit => WindowInv
  <1> SUFFICES ASSUME WindowInit PROVE WindowInv
    OBVIOUS
  <1>1. AppInv
    BY AppInvInit DEF WindowInit, TickerInit
  <1>2. WindowTypeOK
    BY TimesAssumption DEF WindowInit, WindowTypeOK, Times
  <1>3. TimesInv
    BY DEF WindowInit, TickerInit, AppInit, TimesInv, PassedInTime, DeadlineIsKept,
           PastAreTimed, IpIsLast, Undecided
  <1>4. NumbersInv
    BY TimesAssumption
       DEF WindowInit, NumbersInv, ResetsAddUp, PassesAreNumbered, RecentPassesCount, Times
  <1>5. PassesBounded
    <2> SUFFICES ASSUME NEW k \in Keys, NEW v \in Nat, NEW w \in Nat, v <= w
                 PROVE  /\ IsFiniteSet(PassesNumbered(k, v, w))
                        /\ Cardinality(PassesNumbered(k, v, w)) <= (1 + (w - v)) * Limit[k]
      BY DEF PassesBounded
    <2>1. PassesNumbered(k, v, w) = {}
      BY DEF WindowInit, PassesNumbered
    <2>2. w - v \in Nat
      OBVIOUS
    <2>3. (1 + (w - v)) * Limit[k] \in Nat
      BY <2>2, BoundType
    <2> QED BY <2>1, <2>3, FS_EmptySet
  <1> QED BY <1>1, <1>2, <1>3, <1>4, <1>5 DEF WindowInv

\* The invariant survives every step.
LEMMA WindowInvNext == WindowInv /\ [WindowNext]_windowVars => WindowInv'
  <1> SUFFICES ASSUME WindowInv, [WindowNext]_windowVars PROVE WindowInv'
    OBVIOUS
  <1> USE DEF WindowInv
  <1>1. AppInv'
    BY WindowTickerStep, TickerAppStep, AppInvNext
  <1>2. WindowTypeOK'
    BY WindowTypeNext
  <1>3. TimesInv'
    BY InTimeNext, PastNext DEF TimesInv
  <1>4. NumbersInv'
    BY <1>1, <1>2, <1>3, NumbersNext
  <1>5. PassesBounded'
    BY <1>1, <1>2, <1>3, <1>4, PassesBoundedNext
  <1> QED BY <1>1, <1>2, <1>3, <1>4, <1>5

-----------------------------------------------------------------------------
(* The theorems. *)

\* With the clock the service and its ticker still do nothing but what they do without
\* it: what is proved of TickerSpec, and so of AppSpec, holds here too.
THEOREM WindowImplementsTicker == WindowSpec => TickerSpec
  <1>1. WindowInit => TickerInit
    BY DEF WindowInit
  <1> QED BY <1>1, WindowTickerStep, PTL DEF WindowSpec, TickerSpec

\* The checks with the clock keep the invariant.
THEOREM WindowInvariant == WindowSpec => []WindowInv
  BY WindowInvInit, WindowInvNext, PTL DEF WindowSpec

\* A request that is answered ok was let past each of its keys, at most its lead
\* before the answer.
LEMMA PassedBefore ==
  ASSUME WindowInv, NEW r \in Requests, answer[r] = "ok", NEW k \in KeysOf(r),
         NEW p \in passed[r], p[1] = "ip"
  PROVE  \E s \in passed[r] : s[1] = k[1] /\ s[2] <= p[2] /\ p[2] <= s[2] + Lead(k)
  <1> USE DEF WindowInv
  <1>1. k[1] \in Kinds /\ Deadline \in Nat /\ p[2] \in Nat
    BY TimesAssumption, PassType DEF KeysOf, Key
  <1>2. CASE k[1] = "ip"
    BY <1>1, <1>2 DEF Lead
  <1>3. CASE k[1] # "ip"
    <2>1. PICK s \in passed[r] : s[1] = k[1]
      BY <1>1 DEF TimesInv, PastAreTimed, Timed
    <2>2. s[2] <= p[2]
      BY <2>1 DEF TimesInv, IpIsLast
    <2>3. /\ begunAt[r] \in Nat /\ s[2] \in Nat
          /\ begunAt[r] <= s[2] /\ p[2] <= begunAt[r] + Deadline
      BY <2>1, PassType DEF TimesInv, PassedInTime, WindowTypeOK
    <2> QED BY <1>1, <1>3, <2>1, <2>2, <2>3 DEF Lead
  <1> QED BY <1>2, <1>3

\* The resets before a moment are no more than those up to a later one.
LEMMA BeforeIsLess ==
  ASSUME WindowTypeOK, ResetsAddUp, NEW k \in Keys, NEW t \in Times, NEW u \in Times, t <= u
  PROVE  /\ resets[k][t] <= resets[k][u] /\ ResetsBefore(k, t) <= ResetsBefore(k, u)
         /\ ResetsBefore(k, t) <= resets[k][u]
         /\ resets[k][t] \in Nat /\ resets[k][u] \in Nat
         /\ ResetsBefore(k, t) \in Nat /\ ResetsBefore(k, u) \in Nat
  <1>1. /\ t \in Nat /\ u \in Nat
        /\ t # 0 => t - 1 \in Times /\ t - 1 <= u
        /\ u # 0 => u - 1 \in Times
        /\ t # 0 => u # 0 /\ t - 1 <= u - 1
    BY TimesAssumption DEF Times
  <1>2. \A x, y \in Times : x <= y => resets[k][x] <= resets[k][y]
    BY DEF ResetsAddUp
  <1>3. \A x \in Times : resets[k][x] \in Nat
    BY DEF WindowTypeOK
  <1> QED BY <1>1, <1>2, <1>3 DEF ResetsBefore

\* In any stretch of time, at most the limit of each key is answered ok for every window
\* that the stretch meets, begun a lead earlier, whenever the buckets are reset
\* (app.go:95-165, redis.go:32, redis.go:80-93, handlers.go:65).
THEOREM AtMostLimitPerWindowTheorem == WindowSpec => []AtMostLimitPerWindow
  <1>1. ASSUME WindowInv PROVE AtMostLimitPerWindow
    <2> USE <1>1 DEF WindowInv
    <2> SUFFICES ASSUME NEW k \in Keys, NEW b \in 0..now, NEW a \in 0..b
                 PROVE  LET first == IF a < Lead(k) THEN 0 ELSE a - Lead(k)
                        IN  Cardinality(OkWithin(k, a, b))
                                <= (1 + ResetsWithin(k, first, b)) * Limit[k]
      BY DEF AtMostLimitPerWindow
    <2> DEFINE first == IF a < Lead(k) THEN 0 ELSE a - Lead(k)
               v == ResetsBefore(k, first)
               w == resets[k][b]
    <2>1. Lead(k) \in Nat
      BY TimesAssumption DEF Lead
    <2>2. first \in Times /\ b \in Times /\ first <= b /\ Times \subseteq Nat /\ first <= a
      BY <2>1, TimesAssumption DEF WindowTypeOK, Times
    <2> HIDE DEF first
    <2>3. v \in Nat /\ w \in Nat /\ v <= w
      BY <2>2, BeforeIsLess DEF NumbersInv
    <2>4. OkWithin(k, a, b) \subseteq PassesNumbered(k, v, w)
      <3> SUFFICES ASSUME NEW r \in Requests, answer[r] = "ok", k \in KeysOf(r),
                          NEW p \in passed[r], p[1] = "ip", p[2] \in a..b
                   PROVE  \E s \in passed[r] : s[1] = k[1] /\ s[3] \in v..w
        BY DEF OkWithin, PassesNumbered
      <3>1. PICK s \in passed[r] : s[1] = k[1] /\ s[2] <= p[2] /\ p[2] <= s[2] + Lead(k)
        BY PassedBefore
      <3>2. s[2] \in Times /\ s[2] \in Nat /\ s[3] \in Nat /\ p[2] \in Nat
        BY PassType
      <3>3. first <= s[2] /\ s[2] <= b
        BY <2>1, <2>2, <3>1, <3>2 DEF first
      <3>4. k = Key(r, s[1])
        BY <3>1 DEF KeysOf, Key, Kinds
      <3>5. ResetsBefore(k, s[2]) <= s[3] /\ s[3] <= resets[k][s[2]]
        BY <3>4 DEF NumbersInv, PassesAreNumbered
      <3>6. /\ ResetsBefore(k, first) <= ResetsBefore(k, s[2])
            /\ ResetsBefore(k, s[2]) \in Nat
        BY <2>2, <3>2, <3>3, BeforeIsLess DEF NumbersInv
      <3>7. resets[k][s[2]] <= resets[k][b] /\ resets[k][s[2]] \in Nat
        BY <2>2, <3>2, <3>3, BeforeIsLess DEF NumbersInv
      <3> QED BY <2>3, <3>1, <3>2, <3>5, <3>6, <3>7
    <2>5. /\ IsFiniteSet(PassesNumbered(k, v, w))
          /\ Cardinality(PassesNumbered(k, v, w)) <= (1 + (w - v)) * Limit[k]
      BY <2>3 DEF PassesBounded
    <2>6. ResetsWithin(k, first, b) = w - v
      BY DEF ResetsWithin
    <2> HIDE DEF v, w
    <2>7. (1 + (w - v)) * Limit[k] \in Nat
      <3>1. w - v \in Nat
        BY <2>3
      <3> QED BY <3>1, BoundType
    <2>8. Cardinality(OkWithin(k, a, b)) <= (1 + (w - v)) * Limit[k]
      BY <2>4, <2>5, <2>7, Smaller
    <2> QED BY <2>6, <2>8 DEF first
  <1> QED BY <1>1, WindowInvariant, PTL
=============================================================================
