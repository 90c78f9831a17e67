---------------------------- MODULE TickerProofs ----------------------------
(***************************************************************************)
(* Theorems about Ticker: it implements App, and what is counted is        *)
(* forgotten in time, for every period, duration of a call and number of   *)
(* failures.                                                               *)
(***************************************************************************)
EXTENDS Ticker, AppProofs

-----------------------------------------------------------------------------
(* The invariant. *)

TickerTypeOK ==
    /\ toFire \in 1..Period
    /\ fired \in BOOLEAN /\ flushing \in BOOLEAN
    /\ waited \in 0..FlushTime
    /\ lateFlushes \in Nat /\ fails \in Nat
    /\ age \in [Keys -> Nat]
    /\ ~up => ~Busy /\ toFire = Period

\* The time of one fire and its call.
Round == Period + FlushTime

\* How old a count may be since the last call: the next fire is due in toFire, or
\* has been waiting; a server that is down has still to start.
Due ==
    IF ~up THEN Round
    ELSE IF Busy THEN Period + waited
    ELSE Period - toFire

\* Each round that failed adds one.
AgeBounded == \A k \in Keys : age[k] <= fails * Round + Due

TickerInv == AppTypeOK /\ TickerTypeOK /\ AgeBounded

-----------------------------------------------------------------------------

\* A step of the ticker's model is a step of the service, or leaves it alone.
LEMMA TickerAppStep == [TickerNext]_tickerVars => [AppNext]_appVars
  BY DEF TickerNext, TickerStep, ServiceStep, StartFlush, FlushApplied, FlushLost, FlushFails,
         LandFlush, PassTime, TickerCrash, TickerBoot, tickerVars, AppNext

\* The rounds are counted in natural numbers.
LEMMA Rounds ==
  ASSUME NEW n \in Nat
  PROVE  /\ Period \in Nat /\ FlushTime \in Nat /\ Round \in Nat
         /\ n * Round \in Nat /\ (n + 1) * Round = n * Round + Round
         /\ (1 + n) * Round = n * Round + Round
  <1>1. Period \in Nat /\ FlushTime \in Nat /\ Round \in Nat
    BY TickerAssumption DEF Round
  <1> HIDE DEF Round
  <1> QED BY <1>1

\* What is due is within a round, before a step and after it.
LEMMA DueInRound == TickerTypeOK => Due \in 0..Round
  BY TickerAssumption DEF TickerTypeOK, Due, Round

LEMMA DueInRoundNext == TickerTypeOK' => Due' \in 0..Round
  <1>1. (TickerTypeOK => Due \in 0..Round)'
    BY DueInRound, PTL
  <1>2. Round' = Round
    BY DEF Round
  <1> QED BY <1>1, <1>2

\* A bucket that is reset has no age; the others keep theirs.
LEMMA AgesEffect ==
  ASSUME AppTypeOK', TickerTypeOK, Ages
  PROVE  /\ age' \in [Keys -> Nat]
         /\ \A k \in Keys : age'[k] <= age[k] /\ (bucket'[k] = 0 => age'[k] = 0)
  BY DEF AppTypeOK, TickerTypeOK, Ages

\* A FLUSHDB leaves every bucket at 0 and the server as it is.
LEMMA FlushEffect == Flush => up' = up /\ \A k \in Keys : bucket'[k] = 0
  BY DEF Flush, ResetKeys

\* The service's own steps neither start nor end the server.
LEMMA ServiceStepEffect == ServiceStep => up' = up
  BY DEF ServiceStep, BeginRequest, ServeRequest, CheckBlacklist, CheckWhitelist, Increase,
         IncreaseLost, StorageError, ClearBucket, LandIncrease, CallStep

\* The types with the ticker are kept: its booleans, its numbers, and what holds
\* while the server is down.
LEMMA TickerTypeNext ==
  ASSUME AppTypeOK, AppTypeOK', TickerTypeOK, [TickerNext]_tickerVars PROVE TickerTypeOK'
  <1> DEFINE Flags == fired \in BOOLEAN /\ flushing \in BOOLEAN
             Timers == toFire \in 1..Period /\ waited \in 0..FlushTime
             Counts == lateFlushes \in Nat /\ fails \in Nat /\ age \in [Keys -> Nat]
             Down == ~up => ~Busy /\ toFire = Period
  <1>0. /\ Flags /\ Timers /\ Counts /\ Down
        /\ up \in BOOLEAN /\ up' \in BOOLEAN /\ Period \in Nat \ {0} /\ FlushTime \in Nat
    BY TickerAssumption DEF TickerTypeOK, AppTypeOK
  <1> SUFFICES Flags' /\ Timers' /\ Counts' /\ Down'
    BY DEF TickerTypeOK
  <1>1. CASE ServiceStep
    <2>1. UNCHANGED <<up, timerVars>> /\ Ages
      BY <1>1, ServiceStepEffect DEF ServiceStep
    <2> QED BY <1>0, <2>1, AgesEffect DEF timerVars, Busy
  <1>2. CASE StartFlush
    <2>1. UNCHANGED <<up, toFire, waited, lateFlushes, fails, age>> /\ fired
          /\ fired' = FALSE /\ flushing' = TRUE
      BY <1>2 DEF StartFlush, appVars
    <2> QED BY <1>0, <2>1 DEF Busy
  <1>3. CASE FlushApplied \/ LandFlush
    <2>1. up' = up /\ Ages /\ toFire' = toFire /\ fired' = fired /\ fails' = 0
      BY <1>3, FlushEffect DEF FlushApplied, LandFlush
    <2>2. waited' \in {0, waited}
      BY <1>3 DEF FlushApplied, LandFlush
    <2>3. lateFlushes' \in Nat
      BY <1>0, <1>3 DEF FlushApplied, LandFlush
    <2>4. Timers'
      BY <1>0, <2>1, <2>2
    <2>5. flushing' = FALSE \/ flushing' = flushing
      BY <1>3 DEF FlushApplied, LandFlush
    <2>6. Flags' /\ Down'
      <3>1. CASE flushing' = FALSE
        BY <1>0, <2>1, <3>1 DEF Busy
      <3>2. CASE flushing' = flushing
        BY <1>0, <2>1, <3>2 DEF Busy
      <3> QED BY <2>5, <3>1, <3>2
    <2>7. Counts'
      BY <2>1, <2>3, AgesEffect
    <2> QED BY <2>4, <2>6, <2>7
  <1>4. CASE FlushLost
    <2>1. UNCHANGED <<up, toFire, fired, flushing, waited, fails, age>>
      BY <1>4 DEF FlushLost, appVars
    <2>2. lateFlushes' = lateFlushes + 1
      BY <1>4 DEF FlushLost
    <2>3. Counts'
      BY <1>0, <2>1, <2>2
    <2> QED BY <1>0, <2>1, <2>3 DEF Busy
  <1>5. CASE FlushFails
    <2>1. UNCHANGED <<up, toFire, fired, lateFlushes, age>> /\ flushing' = FALSE
      BY <1>5 DEF FlushFails, appVars
    <2>2. waited' = 0 /\ fails' = fails + 1
      BY <1>5 DEF FlushFails
    <2>3. Counts' /\ Timers'
      BY <1>0, <2>1, <2>2
    <2> QED BY <1>0, <2>1, <2>3 DEF Busy
  <1>6. CASE TickerCrash
    <2>1. fired' = FALSE /\ flushing' = FALSE
      BY <1>6 DEF TickerCrash
    <2>2. toFire' = Period /\ waited' = 0 /\ UNCHANGED <<fails, age>>
          /\ lateFlushes' \in {lateFlushes, lateFlushes + 1}
      BY <1>6 DEF TickerCrash
    <2>3. Counts' /\ Timers'
      BY <1>0, <2>2
    <2> QED BY <2>1, <2>2, <2>3 DEF Busy
  <1>7. CASE TickerBoot
    <2>1. up' = TRUE /\ UNCHANGED <<toFire, fired, flushing, waited>> /\ Ages
      BY <1>7 DEF TickerBoot, Boot
    <2>2. lateFlushes' \in Nat /\ fails' \in Nat
      BY <1>0, <1>7 DEF TickerBoot
    <2>3. Counts' /\ Timers'
      BY <1>0, <2>1, <2>2, AgesEffect
    <2> QED BY <1>0, <2>1, <2>3
  <1>8. CASE PassTime
    <2>1. UNCHANGED <<up, flushing, lateFlushes, fails>>
      BY <1>8 DEF PassTime, appVars
    <2>2. CASE up /\ Elapse
      <3>1. waited' = (IF Busy THEN waited + 1 ELSE 0) /\ (Busy => waited < FlushTime)
        BY <2>2 DEF Elapse
      <3>2. \/ toFire > 1 /\ toFire' = toFire - 1 /\ fired' = fired
            \/ toFire' = Period /\ fired' = TRUE
        BY <2>2 DEF Elapse
      <3>3. Timers'
        BY <1>0, <3>1, <3>2
      <3>4. age' \in [Keys -> Nat]
        BY <1>0, <2>2 DEF Elapse
      <3>5. Flags'
        BY <1>0, <2>1, <3>2
      <3> QED BY <1>0, <2>1, <2>2, <3>3, <3>4, <3>5
    <2>3. CASE UNCHANGED <<toFire, fired, waited, age>>
      BY <1>0, <2>1, <2>3 DEF Busy
    <2> QED BY <1>8, <2>2, <2>3 DEF PassTime
  <1>9. CASE UNCHANGED tickerVars
    <2>1. UNCHANGED <<up, toFire, fired, flushing, waited, lateFlushes, fails, age>>
      BY <1>9 DEF tickerVars, timerVars, appVars
    <2> QED BY <1>0, <2>1 DEF Busy
  <1> QED BY <1>1, <1>2, <1>3, <1>4, <1>5, <1>6, <1>7, <1>8, <1>9 DEF TickerNext, TickerStep

\* A step after which every bucket is at 0 keeps the bound.
LEMMA ResetKeepsBound ==
  ASSUME AppTypeOK', TickerTypeOK, TickerTypeOK', Ages, \A k \in Keys : bucket'[k] = 0
  PROVE  AgeBounded'
  <1>1. fails' \in Nat /\ Due' \in Nat
    <2>1. Due' \in 0..Round
      BY DueInRoundNext
    <2>2. fails' \in Nat
      BY DEF TickerTypeOK
    <2> QED BY <2>1, <2>2, Rounds
  <1>2. fails' * Round \in Nat
    BY <1>1, Rounds
  <1>3. \A k \in Keys : age'[k] = 0
    BY AgesEffect
  <1> DEFINE d == fails' * Round
  <1>4. \A k \in Keys : age'[k] <= d + Due'
    <2> HIDE DEF d
    <2> QED BY <1>1, <1>2, <1>3 DEF d
  <1> QED BY <1>4 DEF AgeBounded, Round

\* The bound is kept: by a call that fails because it ends a round, by the clock
\* because the time that is due grows with it.
LEMMA AgeNext ==
  ASSUME AppTypeOK, AppTypeOK', TickerTypeOK, TickerTypeOK', AgeBounded, [TickerNext]_tickerVars
  PROVE  AgeBounded'
  <1> DEFINE d == fails * Round
  <1>1. /\ Period \in Nat /\ FlushTime \in Nat /\ Round \in Nat /\ Round = Period + FlushTime
        /\ d \in Nat /\ (fails + 1) * Round = d + Round
    BY Rounds DEF TickerTypeOK, Round
  <1>2. Due \in 0..Round /\ \A k \in Keys : age[k] \in Nat /\ age[k] <= d + Due
    BY DueInRound DEF TickerTypeOK, AgeBounded
  <1>3. /\ toFire \in 1..Period /\ waited \in 0..FlushTime
        /\ toFire' \in 1..Period /\ waited' \in 0..FlushTime
    BY DEF TickerTypeOK
  <1>4. ASSUME fails' = fails, Due' >= Due, Due' \in Int,
               \A k \in Keys : age'[k] \in Nat /\ age'[k] <= age[k]
        PROVE  AgeBounded'
    <2> HIDE DEF d
    <2>1. \A k \in Keys : age'[k] <= d + Due'
      BY <1>1, <1>2, <1>4
    <2> QED BY <1>4, <2>1 DEF AgeBounded, d, Round
  <1>5. CASE ServiceStep
    <2>1. fails' = fails /\ Due' = Due
      BY <1>5, ServiceStepEffect DEF ServiceStep, timerVars, Due, Busy, Round
    <2>2. \A k \in Keys : age'[k] \in Nat /\ age'[k] <= age[k]
      BY <1>5, AgesEffect DEF ServiceStep
    <2> QED BY <1>2, <1>4, <2>1, <2>2
  <1>6. CASE StartFlush \/ FlushLost \/ UNCHANGED tickerVars
    <2>1. fails' = fails /\ Due' = Due /\ age' = age
      BY <1>6 DEF StartFlush, FlushLost, tickerVars, timerVars, appVars, Due, Busy, Round
    <2> QED BY <1>2, <1>4, <2>1
  <1>7. CASE FlushApplied \/ LandFlush
    BY <1>7, FlushEffect, ResetKeepsBound DEF FlushApplied, LandFlush
  <1>8. ASSUME fails' = fails + 1, \A k \in Keys : age'[k] \in Nat /\ age'[k] <= age[k]
        PROVE  AgeBounded'
    <2>1. Due' \in Nat
      <3>1. Due' \in 0..Round
        BY DueInRoundNext
      <3> QED BY <1>1, <3>1
    <2>2. \A k \in Keys : age'[k] <= d + Round
      <3> HIDE DEF d
      <3> QED BY <1>1, <1>2, <1>8
    <2>3. fails' * Round' = d + Round
      BY <1>1, <1>8 DEF Round
    <2> HIDE DEF d
    <2>4. \A k \in Keys : age'[k] <= d + Round + Due'
      BY <1>1, <1>8, <2>1, <2>2
    <2> QED BY <2>3, <2>4 DEF AgeBounded
  <1>9. CASE FlushFails
    BY <1>2, <1>8, <1>9 DEF FlushFails
  <1>10. CASE TickerCrash
    <2>1. fails' = fails /\ age' = age /\ Due' = Round
      BY <1>10 DEF TickerCrash, Crash, Due, Round
    <2> QED BY <1>1, <1>2, <1>4, <2>1
  <1>11. CASE TickerBoot
    <2>1. Ages
      BY <1>11 DEF TickerBoot
    <2>2. CASE \A k \in Keys : bucket'[k] = 0
      BY <2>1, <2>2, ResetKeepsBound
    <2>3. CASE fails' = fails + 1
      BY <1>8, <2>1, <2>3, AgesEffect
    <2> QED BY <1>11, <2>2, <2>3 DEF TickerBoot
  <1>12. CASE PassTime
    <2>1. up' = up /\ fails' = fails /\ flushing' = flushing
      BY <1>12 DEF PassTime, appVars
    <2>2. CASE up /\ Elapse
      <3>1. \A k \in Keys : age'[k] \in Nat /\ age'[k] <= age[k] + 1
        BY <1>2, <2>2 DEF Elapse
      <3>2. Due' = Due + 1
        <4>1. CASE Busy
          <5>1. Busy' /\ waited' = waited + 1
            BY <2>1, <2>2, <4>1 DEF Elapse, Busy
          <5> QED BY <1>1, <1>3, <2>1, <2>2, <4>1, <5>1 DEF Due
        <4>2. CASE ~Busy /\ toFire > 1
          <5>1. ~Busy' /\ toFire' = toFire - 1
            BY <1>3, <2>1, <2>2, <4>2 DEF Elapse, Busy
          <5> QED BY <1>1, <1>3, <2>1, <2>2, <4>2, <5>1 DEF Due
        <4>3. CASE ~Busy /\ toFire = 1
          <5>1. Busy' /\ waited' = 0
            BY <1>3, <2>1, <2>2, <4>3 DEF Elapse, Busy
          <5> QED BY <1>1, <1>3, <2>1, <2>2, <4>3, <5>1 DEF Due
        <4> QED BY <1>3, <4>1, <4>2, <4>3
      <3> HIDE DEF d
      <3>3. \A k \in Keys : age'[k] <= d + Due'
        BY <1>1, <1>2, <3>1, <3>2
      <3> QED BY <2>1, <3>3 DEF AgeBounded, d, Round
    <2>3. CASE UNCHANGED <<toFire, fired, waited, age>>
      <3>1. Due' = Due /\ age' = age
        BY <2>1, <2>3 DEF Due, Busy, Round
      <3> QED BY <1>2, <1>4, <2>1, <3>1
    <2> QED BY <1>12, <2>2, <2>3 DEF PassTime
  <1> QED BY <1>5, <1>6, <1>7, <1>9, <1>10, <1>11, <1>12 DEF TickerNext, TickerStep

\* The invariant holds at the start.
LEMMA TickerInvInit == TickerInit => TickerInv
  <1> SUFFICES ASSUME TickerInit PROVE TickerInv
    OBVIOUS
  <1>1. AppTypeOK
    BY AppTypeInit DEF TickerInit
  <1>2. TickerTypeOK
    <2>1. up /\ fired = FALSE /\ flushing = FALSE
      BY DEF TickerInit, AppInit
    <2>2. /\ toFire \in 1..Period /\ waited \in 0..FlushTime
          /\ lateFlushes \in Nat /\ fails \in Nat /\ age \in [Keys -> Nat]
      BY TickerAssumption DEF TickerInit
    <2> QED BY <2>1, <2>2 DEF TickerTypeOK
  <1>3. fails * Round = 0 /\ Due \in Nat
    <2>1. Due \in 0..Round /\ Round \in Nat /\ fails = 0
      BY <1>2, Rounds, DueInRound DEF TickerInit
    <2> QED BY <2>1
  <1>4. AgeBounded
    BY <1>3 DEF TickerInit, AgeBounded
  <1> QED BY <1>1, <1>2, <1>4 DEF TickerInv

\* The checks with the ticker in detail are checks of App, of which they keep all
\* that is proved.
THEOREM TickerImplementsApp == TickerSpec => AppSpec
  <1>1. TickerInit => AppInit
    BY DEF TickerInit
  <1> QED BY <1>1, TickerAppStep, PTL DEF TickerSpec, AppSpec

\* The service with the ticker keeps the invariant.
THEOREM TickerInvariant == TickerSpec => []TickerInv
  <1>1. TickerInv /\ AppTypeOK' /\ [TickerNext]_tickerVars => TickerInv'
    BY TickerTypeNext, AgeNext DEF TickerInv
  <1> QED BY <1>1, TickerInvInit, TickerImplementsApp, AppTypeCorrect, PTL DEF TickerSpec

\* No bucket counts an INCR for longer than one round, and one more for each
\* reset in a row that failed (app.go:128-143, redis.go:90-93).
THEOREM CountsAreForgottenTheorem == TickerSpec => []CountsAreForgotten
  <1>1. ASSUME TickerInv PROVE CountsAreForgotten
    <2> DEFINE d == fails * Round
    <2>1. /\ Due \in 0..Round /\ d \in Nat /\ Round \in Nat
          /\ (1 + fails) * (Period + FlushTime) = d + Round
      BY <1>1, DueInRound, Rounds DEF TickerInv, TickerTypeOK, Round
    <2>2. \A k \in Keys : age[k] \in Nat /\ age[k] <= d + Due
      BY <1>1 DEF TickerInv, TickerTypeOK, AgeBounded
    <2> HIDE DEF d
    <2>3. \A k \in Keys : age[k] <= d + Round
      BY <2>1, <2>2
    <2> QED BY <2>1, <2>3 DEF CountsAreForgotten
  <1> QED BY <1>1, TickerInvariant, PTL
=============================================================================
