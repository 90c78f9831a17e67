----------------------------- MODULE RateWindow -----------------------------
(***************************************************************************)
(* The checks and the ticker of module Ticker with a clock, to speak of    *)
(* rates: a request is answered within Deadline (handlers.go:65).          *)
(***************************************************************************)
EXTENDS Ticker

CONSTANTS
    Deadline,   \* longest time from a request's start to its answer (ten seconds)
    MaxTime     \* bound on the clock

ASSUME TimesAssumption == Deadline \in Nat /\ MaxTime \in Nat

VARIABLES
    now,        \* the clock
    begunAt,    \* begunAt[r]: when request r was made
    passed,     \* history: passed[r]: <<kind, time, reset>> for each key r was let past:
                \* when, and how often the key's bucket had been reset by then
    resets      \* history: resets[k][t]: how often bucket k was reset up to moment t

windowVars == <<now, begunAt, passed, resets, tickerVars>>

Times == 0..MaxTime

WindowInit ==
    /\ TickerInit
    /\ now = 0
    /\ begunAt = [r \in Requests |-> 0]
    /\ passed = [r \in Requests |-> {}]
    /\ resets = [k \in Keys |-> [t \in Times |-> 0]]

\* A step lets r past the key of its stage.
LetPast(r) == reqStage[r] \in Kinds /\ r \in passes'[Key(r, reqStage[r])]

\* The pass of r, as it is noted.
Pass(r) == <<reqStage[r], now, resets[Key(r, reqStage[r])][now]>>

\* A bucket that counts something is set to 0: by a flush, a clear or a start.
IsReset(k) == bucket[k] > 0 /\ bucket'[k] = 0

\* All steps but the clock's take no time; starts, passes and resets are noted.
WindowStep ==
    /\ TickerStep
    /\ begunAt' = [r \in Requests |->
                      IF reqStage[r] = "idle" /\ reqStage'[r] # "idle" THEN now ELSE begunAt[r]]
    /\ passed' = [r \in Requests |->
                     IF LetPast(r) THEN passed[r] \union {Pass(r)} ELSE passed[r]]
    /\ resets' = [k \in Keys |-> [t \in Times |->
                     IF IsReset(k) /\ now <= t THEN resets[k][t] + 1 ELSE resets[k][t]]]
    /\ UNCHANGED now

\* Time passes, unless a request has reached its deadline: it is answered first,
\* with the error of a storage call if need be.
InTime(r) == Undecided(r) => now < begunAt[r] + Deadline

Tick ==
    /\ now < MaxTime
    /\ \A r \in Requests : InTime(r)
    /\ now' = now + 1
    /\ PassTime
    /\ UNCHANGED <<begunAt, passed, resets>>

WindowNext == WindowStep \/ Tick

WindowSpec == WindowInit /\ [][WindowNext]_windowVars

\* The server stays up and no admin clears a bucket: only the ticker resets them.
TickerResets == (\E k \in Keys : IsReset(k)) => FlushApplied \/ LandFlush

SteadySpec == WindowInit /\ [][WindowNext /\ up' /\ TickerResets]_windowVars

-----------------------------------------------------------------------------
(* Properties. *)

\* The requests of key k answered ok from moment a to moment b: the answer comes
\* with the pass of the IP.
OkWithin(k, a, b) ==
    {r \in Requests : /\ answer[r] = "ok"
                      /\ k \in KeysOf(r)
                      /\ \E p \in passed[r] : p[1] = "ip" /\ p[2] \in a..b}

\* How often bucket k was reset before moment a, and from a to b.
ResetsBefore(k, a) == IF a = 0 THEN 0 ELSE resets[k][a - 1]
ResetsWithin(k, a, b) == resets[k][b] - ResetsBefore(k, a)

\* How long before its answer a request may have been let past key k: the IP is
\* the last of the three, and its pass is the answer.
Lead(k) == IF k[1] = "ip" THEN 0 ELSE Deadline

\* What counting in windows guarantees, in any stretch of time and for every key:
\* at most the limit of the requests for each window that the stretch meets, begun
\* as much earlier as a pass may lie before the answer.  A window ends whenever the
\* bucket is reset: by a FLUSHDB of the ticker, on time, late, sent twice or applied
\* when nobody waits for it any more, by an admin's clear or by a restart
\* (app.go:95-165, redis.go:32, redis.go:80-93, handlers.go:65).
AtMostLimitPerWindow ==
    \A k \in Keys, b \in 0..now : \A a \in 0..b :
        LET first == IF a < Lead(k) THEN 0 ELSE a - Lead(k)
        IN  Cardinality(OkWithin(k, a, b)) <= (1 + ResetsWithin(k, first, b)) * Limit[k]

\* README.md:13-15 as it stands: no more than N, M or K attempts per minute for
\* a login, a password, an IP.
AtMostLimitPerPeriod ==
    \A k \in Keys, t \in 0..now :
        Cardinality(OkWithin(k, t, t + Period - 1)) <= Limit[k]
=============================================================================
