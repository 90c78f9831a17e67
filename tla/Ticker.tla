------------------------------- MODULE Ticker -------------------------------
(***************************************************************************)
(* The service with the ticker of RateLimitTicker (internal/app/app.go) in *)
(* detail: a timer that fires every Period into a channel with room for    *)
(* one fire, and a goroutine that receives it and calls FlushStorage       *)
(* (internal/storage/redis/redis.go).  FLUSHDB is sent again when its      *)
(* reply is lost, may be applied when nobody waits for it any more, and    *)
(* may fail, which FlushStorage does not tell.                             *)
(*                                                                         *)
(* Time is a sequence of PassTime steps; all other steps take none.  After *)
(* the end of main's context the goroutine spins and every FLUSHDB fails   *)
(* on that context: here a call that fails.                                *)
(***************************************************************************)
EXTENDS App

CONSTANTS
    Period,         \* time between two fires of the timer (config, a minute)
    FlushTime,      \* longest time from a fire, or from the end of the call before it, to
                    \* the end of its call: main's context has no deadline, the Redis
                    \* client's timeouts and retries bound it
    MaxLate,        \* bound for TLC: FLUSHDBs that are on their way unattended
    MaxFails        \* bound for TLC: FLUSHDBs in a row that fail

ASSUME TickerAssumption ==
    Period \in Nat \ {0} /\ FlushTime \in Nat /\ MaxLate \in Nat /\ MaxFails \in Nat

VARIABLES
    toFire,         \* time to the next fire of the timer
    fired,          \* the channel holds a fire
    flushing,       \* the goroutine is in FlushStorage
    waited,         \* how long the goroutine has had the present fire to serve
    lateFlushes,    \* FLUSHDBs nobody waits for and Redis has yet to apply
    fails,          \* history: calls of FLUSHDB that failed since one was last applied
    age             \* history: age[k]: up time since the first INCR that bucket k counts

timerVars == <<toFire, fired, flushing, waited, lateFlushes, fails>>
tickerVars == <<timerVars, age, appVars>>

TickerInit ==
    /\ AppInit
    /\ toFire = Period
    /\ fired = FALSE
    /\ flushing = FALSE
    /\ waited = 0
    /\ lateFlushes = 0
    /\ fails = 0
    /\ age = [k \in Keys |-> 0]

\* A bucket that is reset, or is still empty, counts no INCR.
Ages == age' = [k \in Keys |-> IF bucket'[k] = 0 THEN 0 ELSE age[k]]

\* What requests, admin calls and late INCRs do, beside the ticker.
ServiceStep ==
    /\ \/ \E r \in Requests : (\E c \in Creds : BeginRequest(r, c)) \/ ServeRequest(r)
       \/ \E k \in Keys : ClearBucket(k) \/ LandIncrease(k)
       \/ CallStep
    /\ Ages
    /\ UNCHANGED timerVars

\* The goroutine receives a fire from the channel and calls FlushStorage.
StartFlush ==
    /\ fired
    /\ ~flushing
    /\ fired' = FALSE
    /\ flushing' = TRUE
    /\ UNCHANGED <<toFire, waited, lateFlushes, fails, age, appVars>>

\* FLUSHDB is applied.  Its reply ends the call, or is lost: it is sent again.
FlushApplied ==
    /\ flushing
    /\ Flush
    /\ \/ flushing' = FALSE /\ waited' = 0
       \/ UNCHANGED <<flushing, waited>>
    /\ fails' = 0
    /\ Ages
    /\ UNCHANGED <<toFire, fired, lateFlushes>>

\* A FLUSHDB times out on its way and is sent again.
FlushLost ==
    /\ flushing
    /\ lateFlushes < MaxLate
    /\ lateFlushes' = lateFlushes + 1
    /\ UNCHANGED <<toFire, fired, flushing, waited, fails, age, appVars>>

\* The call fails; FlushStorage drops the error and the goroutine goes on.
FlushFails ==
    /\ flushing
    /\ fails < MaxFails
    /\ flushing' = FALSE
    /\ waited' = 0
    /\ fails' = fails + 1
    /\ UNCHANGED <<toFire, fired, lateFlushes, age, appVars>>

\* Redis applies a FLUSHDB that nobody waits for.
LandFlush ==
    /\ lateFlushes > 0
    /\ Flush
    /\ lateFlushes' = lateFlushes - 1
    /\ fails' = 0
    /\ Ages
    /\ UNCHANGED <<toFire, fired, flushing, waited>>

\* The goroutine has a fire to serve.
Busy == fired \/ flushing

\* Mutated form: time.NewTimer, which fires once.
ElapseOnce ==
    /\ Busy => waited < FlushTime
    /\ \/ toFire > 1 /\ toFire' = toFire - 1 /\ UNCHANGED fired
       \/ toFire = 1 /\ toFire' = 0 /\ fired' = TRUE
       \/ toFire = 0 /\ UNCHANGED <<toFire, fired>>
    /\ waited' = IF Busy THEN waited + 1 ELSE 0
    /\ age' = [k \in Keys |-> IF bucket[k] = 0 THEN 0 ELSE age[k] + 1]

\* The server's time: the timer fires on the period.
Elapse ==
    /\ Busy => waited < FlushTime
    /\ \/ toFire > 1 /\ toFire' = toFire - 1 /\ UNCHANGED fired
       \/ toFire = 1 /\ toFire' = Period /\ fired' = TRUE
    /\ waited' = IF Busy THEN waited + 1 ELSE 0
    /\ age' = [k \in Keys |-> IF bucket[k] = 0 THEN 0 ELSE age[k] + 1]

\* Time passes; a fire that finds the channel full is dropped.
PassTime ==
    /\ \/ up /\ Elapse
       \/ ~up /\ UNCHANGED <<toFire, fired, waited, age>>
    /\ UNCHANGED <<flushing, lateFlushes, fails, appVars>>

\* The process ends, and the ticker with it.  Close of the Redis storage may have sent
\* one more FLUSHDB, which is applied after this step if ever.
TickerCrash ==
    /\ Crash
    /\ toFire' = Period
    /\ fired' = FALSE
    /\ flushing' = FALSE
    /\ waited' = 0
    /\ \/ lateFlushes < MaxLate /\ lateFlushes' = lateFlushes + 1
       \/ UNCHANGED lateFlushes
    /\ UNCHANGED <<fails, age>>

\* Init of the Redis storage flushes, or fails to, and Start makes a new ticker.
TickerBoot ==
    /\ Boot
    /\ \/ (\A k \in Keys : bucket'[k] = 0) /\ fails' = 0 /\ UNCHANGED lateFlushes
       \/ /\ bucket' = bucket
          /\ fails < MaxFails
          /\ fails' = fails + 1
          /\ \/ lateFlushes < MaxLate /\ lateFlushes' = lateFlushes + 1
             \/ UNCHANGED lateFlushes
    /\ Ages
    /\ UNCHANGED <<toFire, fired, flushing, waited>>

\* All that takes no time.
TickerStep ==
    \/ ServiceStep
    \/ StartFlush \/ FlushApplied \/ FlushLost \/ FlushFails \/ LandFlush
    \/ TickerCrash \/ TickerBoot

TickerNext == TickerStep \/ PassTime

TickerSpec == TickerInit /\ [][TickerNext]_tickerVars

-----------------------------------------------------------------------------
(* Properties. *)

\* What is counted is forgotten in time, and so nobody stays limited: no bucket
\* counts an INCR that is older than the time of one fire and its call, and of as
\* many again as calls of FLUSHDB, or starts of the server, failed to reset the
\* buckets in a row.  Fires that are dropped because a call takes longer than the
\* period, replies that are lost, retries and crashes do not add to it
\* (app.go:128-143, redis.go:32, redis.go:90-93).
CountsAreForgotten ==
    \A k \in Keys : age[k] <= (1 + fails) * (Period + FlushTime)
=============================================================================
