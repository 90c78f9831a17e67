----------------------------- MODULE Lifecycle -----------------------------
(***************************************************************************)
(* The life of the server process: main of cmd/antibruteforce/main.go,     *)
(* Start and Shutdown of internal/server/http/server.go, opening and       *)
(* closing the two storages, and the container that starts it again.       *)
(*                                                                         *)
(* Three kinds of goroutines run side by side: main, the one that waits    *)
(* for a signal and then shuts down (main.go:73-80), and the handlers.     *)
(* Main does not wait for the second: http.Server.Shutdown makes           *)
(* ListenAndServe return at once, and main then ends the process whatever  *)
(* the handlers and the shutdown are doing.                                *)
(***************************************************************************)
EXTENDS Naturals

CONSTANTS
    Requests,   \* connections that bring one request each
    MaxFaults   \* bound: signals, kills and failures outside the process

ASSUME MaxFaultsAssumption == MaxFaults \in Nat

VARIABLES
    main,       \* where main is
    closer,     \* where the goroutine that shuts down is
    ctxDone,    \* the context of NotifyContext is done
    listening,  \* the listener is open
    open,       \* the storages that are open
    stage,      \* stage[r]: where request r is
    faults      \* how many faults there have been

processVars == <<main, closer, ctxDone, listening, open>>
lifeVars == <<main, closer, ctxDone, listening, open, stage, faults>>

Storages == {"sql", "redis"}

\* main: reading the configuration, opening a storage, about to listen,
\* serving, out of ListenAndServe with ErrServerClosed, out of it with another
\* error, about to call os.Exit, gone.
MainStages == {"config", "sql", "redis", "listen", "serving", "closed", "failed",
               "exiting", "ended"}

\* closer: not started, waiting for the context, draining handlers, closing a
\* storage, done.
CloserStages == {"none", "waiting", "draining", "sql", "redis", "done"}

\* A request: not made, its connection accepted, reading the lists, counting,
\* answered, cut off by the end of the process.
RequestStages == {"none", "accepted", "sql", "redis", "answered", "lost"}
ActiveStages == {"accepted", "sql", "redis"}
Active == {r \in Requests : stage[r] \in ActiveStages}

\* Shutdown has been called: ListenAndServe serves no more.
InShutdown == closer \notin {"none", "waiting"}

LifeInit ==
    /\ main = "config"
    /\ closer = "none"
    /\ ctxDone = FALSE
    /\ listening = FALSE
    /\ open = {}
    /\ stage = [r \in Requests |-> "none"]
    /\ faults = 0

Fault == faults < MaxFaults /\ faults' = faults + 1

\* The process ends: os.Exit, log.Fatal, a panic or a kill.
Die ==
    /\ main' = "ended"
    /\ closer' = "none"
    /\ ctxDone' = FALSE
    /\ listening' = FALSE
    /\ open' = {}
    /\ stage' = [r \in Requests |-> IF r \in Active THEN "lost" ELSE stage[r]]

-----------------------------------------------------------------------------
(* main. *)

\* The configuration, the logger and the directory /etc/antibf.
LoadConfig ==
    /\ main = "config"
    /\ main' = "sql"
    /\ UNCHANGED <<closer, ctxDone, listening, open, stage, faults>>

\* Storage.Init: open the pool and ping.
OpenSql ==
    /\ main = "sql"
    /\ main' = "redis"
    /\ open' = open \union {"sql"}
    /\ UNCHANGED <<closer, ctxDone, listening, stage, faults>>

\* RedisStorage.Init; then the context, and the goroutine that waits for it.
OpenRedis ==
    /\ main = "redis"
    /\ main' = "listen"
    /\ open' = open \union {"redis"}
    /\ closer' = "waiting"
    /\ UNCHANGED <<ctxDone, listening, stage, faults>>

\* An error of any of the three ends the process.
StartFails ==
    /\ main \in {"config", "sql", "redis"}
    /\ Fault
    /\ Die

\* Start: the ticker, then ListenAndServe, which returns at once when Shutdown
\* has come first.
Listen ==
    /\ main = "listen"
    /\ \/ InShutdown /\ main' = "closed" /\ UNCHANGED listening
       \/ ~InShutdown /\ main' = "serving" /\ listening' = TRUE
    /\ UNCHANGED <<closer, ctxDone, open, stage, faults>>

\* Mutated form: Start does not return the error but waits for the context.
ListenFailsWaits ==
    /\ main \in {"listen", "serving"}
    /\ ~InShutdown
    /\ Fault
    /\ main' = "closed"
    /\ listening' = FALSE
    /\ UNCHANGED <<closer, ctxDone, open, stage>>

\* Mutated form: listening is tried again.
ListenFailsAgain ==
    /\ main \in {"listen", "serving"}
    /\ ~InShutdown
    /\ Fault
    /\ main' = "listen"
    /\ listening' = FALSE
    /\ UNCHANGED <<closer, ctxDone, open, stage>>

\* Mutated form: the listener is left open.
ListenFailsOpen ==
    /\ main \in {"listen", "serving"}
    /\ ~InShutdown
    /\ Fault
    /\ main' = "failed"
    /\ UNCHANGED <<closer, ctxDone, listening, open, stage>>

\* The address is taken, or the listener breaks while serving; handlers run on.
ListenFails ==
    /\ main \in {"listen", "serving"}
    /\ ~InShutdown
    /\ Fault
    /\ main' = "failed"
    /\ listening' = FALSE
    /\ UNCHANGED <<closer, ctxDone, open, stage>>

\* Shutdown has closed the listener: ListenAndServe returns ErrServerClosed.
ServerClosed ==
    /\ main = "serving"
    /\ ~listening
    /\ main' = "closed"
    /\ UNCHANGED <<closer, ctxDone, listening, open, stage, faults>>

\* Start returns, after ErrServerClosed only once the context is done.  The
\* error is never nil: main logs it and cancels the context.
StartReturns ==
    /\ main = "failed" \/ (main = "closed" /\ ctxDone)
    /\ main' = "exiting"
    /\ ctxDone' = TRUE
    /\ UNCHANGED <<closer, listening, open, stage, faults>>

\* os.Exit(1), as the last step of every stop that gets this far.
Exit ==
    /\ main = "exiting"
    /\ Die
    /\ UNCHANGED faults

MainStep ==
    \/ LoadConfig \/ OpenSql \/ OpenRedis \/ StartFails
    \/ Listen \/ ListenFails \/ ServerClosed \/ StartReturns \/ Exit

-----------------------------------------------------------------------------
(* The goroutine that shuts down. *)

\* Mutated form: http.Server.Close, which cuts the connections.
BeginShutdownCuts ==
    /\ closer = "waiting"
    /\ ctxDone
    /\ closer' = "draining"
    /\ listening' = FALSE
    /\ stage' = [r \in Requests |-> IF r \in Active THEN "lost" ELSE stage[r]]
    /\ UNCHANGED <<main, ctxDone, open, faults>>

\* Mutated form: the handlers are waited for first, without the timeout.
BeginShutdownWhenIdle ==
    /\ closer = "waiting"
    /\ ctxDone
    /\ Active = {}
    /\ closer' = "draining"
    /\ listening' = FALSE
    /\ UNCHANGED <<main, ctxDone, open, stage, faults>>

\* http.Server.Shutdown closes the listener first.
BeginShutdown ==
    /\ closer = "waiting"
    /\ ctxDone
    /\ closer' = "draining"
    /\ listening' = FALSE
    /\ UNCHANGED <<main, ctxDone, open, stage, faults>>

\* Mutated form: the storages are closed without waiting for the handlers.
DrainedAtOnce ==
    /\ closer = "draining"
    /\ main # "serving"
    /\ closer' = "sql"
    /\ UNCHANGED <<main, ctxDone, listening, open, stage, faults>>

\* It then waits until the serving loop has returned and no connection is left.
Drained ==
    /\ closer = "draining"
    /\ main # "serving"
    /\ Active = {}
    /\ closer' = "sql"
    /\ UNCHANGED <<main, ctxDone, listening, open, stage, faults>>

\* CloseStorage, then CloseBucketStorage.
CloseSql ==
    /\ closer = "sql"
    /\ open' = open \ {"sql"}
    /\ closer' = "redis"
    /\ UNCHANGED <<main, ctxDone, listening, stage, faults>>

CloseRedis ==
    /\ closer = "redis"
    /\ open' = open \ {"redis"}
    /\ closer' = "done"
    /\ UNCHANGED <<main, ctxDone, listening, stage, faults>>

\* SERVER_SHUTDOWN_TIMEOUT expires, or a storage fails to close: log.Fatal, and
\* what is still open is not closed.
ShutdownFails ==
    /\ closer \in {"draining", "sql", "redis"}
    /\ Die
    /\ UNCHANGED faults

CloserStep == BeginShutdown \/ Drained \/ CloseSql \/ CloseRedis \/ ShutdownFails

-----------------------------------------------------------------------------
(* The requests. *)

Accept(r) ==
    /\ main = "serving"
    /\ listening
    /\ stage[r] = "none"
    /\ stage' = [stage EXCEPT ![r] = "accepted"]
    /\ UNCHANGED <<processVars, faults>>

\* The handler of an accepted connection runs, in a shutdown too: the lists,
\* then the counts, then the answer; or an error after any of them.
NextStage == [accepted |-> "sql", sql |-> "redis", redis |-> "answered"]

Handle(r) ==
    /\ stage[r] \in ActiveStages
    /\ stage' = [stage EXCEPT ![r] = NextStage[@]] \/ stage' = [stage EXCEPT ![r] = "answered"]
    /\ UNCHANGED <<processVars, faults>>

-----------------------------------------------------------------------------
(* Outside the process. *)

\* SIGINT, SIGTERM or SIGHUP; a second one has no effect.
Signal ==
    /\ main \in {"listen", "serving", "closed", "failed", "exiting"}
    /\ ~ctxDone
    /\ Fault
    /\ ctxDone' = TRUE
    /\ UNCHANGED <<main, closer, listening, open, stage>>

\* SIGKILL at any time, any signal before NotifyContext, a panic.
Kill ==
    /\ main # "ended"
    /\ Fault
    /\ Die

\* docker-compose.yaml: restart: always.
Restart ==
    /\ main = "ended"
    /\ main' = "config"
    /\ UNCHANGED <<closer, ctxDone, listening, open, stage, faults>>

LifeNext ==
    \/ MainStep
    \/ CloserStep
    \/ \E r \in Requests : Accept(r) \/ Handle(r)
    \/ Signal
    \/ Kill
    \/ Restart

LifeSpec == LifeInit /\ [][LifeNext]_lifeVars

\* Goroutines are scheduled and the container is restarted; nothing is assumed
\* of handlers, which may never end.
LifeFairness == WF_lifeVars(MainStep) /\ WF_lifeVars(CloserStep) /\ WF_lifeVars(Restart)

FairLifeSpec == LifeSpec /\ LifeFairness

-----------------------------------------------------------------------------
(* Properties. *)

\* Type correctness; the listener is open only while main serves.
LifeTypeOK ==
    /\ main \in MainStages
    /\ closer \in CloserStages
    /\ ctxDone \in BOOLEAN
    /\ listening \in BOOLEAN
    /\ open \subseteq Storages
    /\ stage \in [Requests -> RequestStages]
    /\ faults \in 0..MaxFaults
    /\ listening => main = "serving" /\ ~InShutdown

\* As long as a request is in progress both storages are open: Shutdown closes
\* neither before every handler has ended, and when the handlers do not end in
\* time it closes neither at all (server.go:92-110).
StoragesOutliveRequests == Active # {} => open = Storages

\* Whatever faults there are, the service is always up again later: no failed
\* start and no listener that breaks leaves a process that neither serves nor
\* ends (main.go:57-85, server.go:78-90).
ServesAgain == []<>(main = "serving")

\* A signal ends the process, though handlers may hang and a storage may fail
\* to close: the drain is bounded by the timeout, and main waits for neither
\* (main.go:73-85).
SignalEnds == ctxDone ~> main = "ended"

\* The next step of main, or of the shutdown, waits for nothing; a drain waits for its
\* timeout at most, and the container for nothing.
MainCanMove ==
    \/ main \notin {"serving", "closed"}
    \/ main = "serving" /\ ~listening
    \/ main = "closed" /\ ctxDone
CloserCanMove ==
    closer \in {"draining", "sql", "redis"} \/ (closer = "waiting" /\ ctxDone)

\* Main and the shutdown never wait for each other, in whatever order a signal, the
\* listener's errors and the end of Start come: both rest only while the server
\* serves and no signal has come (main.go:73-85, server.go:78-94).
RestsOnlyWhileServing ==
    MainCanMove \/ CloserCanMove \/ (main = "serving" /\ listening /\ ~ctxDone)

\* How many steps the two goroutines may still take after a signal.
MainSteps == [listen |-> 4, serving |-> 3, closed |-> 2, failed |-> 2, exiting |-> 1]
CloserSteps == [none |-> 0, waiting |-> 5, draining |-> 4, sql |-> 3, redis |-> 2, done |-> 1]
StepsLeft == (IF main \in DOMAIN MainSteps THEN MainSteps[main] ELSE 0) + CloserSteps[closer]

\* A stop gets nearer its end with every step of either, and nothing puts it off: no
\* request, no second signal, and no error of the listener (main.go:73-85).
StopIsBounded ==
    [][ctxDone => /\ MainStep \/ CloserStep => StepsLeft' < StepsLeft
                  /\ StepsLeft' <= StepsLeft]_lifeVars

\* What callers see of it.
FateOf == [none |-> "none", accepted |-> "pending", sql |-> "pending", redis |-> "pending",
           answered |-> "answered", lost |-> "lost"]

Callers == INSTANCE Service WITH
    Requests <- Requests,
    running <- main \in {"listen", "serving", "closed", "failed", "exiting"},
    fate <- [r \in Requests |-> FateOf[stage[r]]]

\* The promise of Service.tla: main may end the process while Shutdown is still
\* draining (main.go:81-85), but a request is lost only to the end of the
\* process that took it, never to a shutdown still under way, and none is
\* answered or taken after it.
ServiceSpec == Callers!Spec
=============================================================================
