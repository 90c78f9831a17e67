---------------------------- MODULE LifecycleProofs ----------------------------
(***************************************************************************)
(* Safety of the server's life, for any number of requests and faults: its *)
(* types, that the storages outlive the requests, that a stop comes to its *)
(* end, and that it keeps the promise of Service.                          *)
(***************************************************************************)
EXTENDS Lifecycle, TLAPS

-----------------------------------------------------------------------------
(* The inductive invariant. *)

\* The goroutine that shuts down exists from the end of the start to the end of
\* the process.
CloserFollowsMain == closer = "none" <=> main \in {"config", "sql", "redis", "ended"}

\* Both storages are opened before it waits, and closed only after the drain.
OpenWhileServing ==
    /\ main = "redis" => "sql" \in open
    /\ closer \in {"waiting", "draining"} => open = Storages

\* No request is left once the drain is over, or before the server listens.
DrainedBeforeClosing == Active # {} => closer \in {"waiting", "draining"}

\* A shutdown follows a signal or the end of Start, which only a process has that is
\* past its start.
ShutdownHasReason ==
    /\ InShutdown => ctxDone
    /\ ctxDone => main \in {"listen", "serving", "closed", "failed", "exiting"}

\* Nothing but Shutdown closes the listener of a server that goes on serving.
ClosedByShutdown == main = "closed" \/ (main = "serving" /\ ~listening) => InShutdown

LifeInv == LifeTypeOK /\ CloserFollowsMain /\ OpenWhileServing /\ DrainedBeforeClosing
           /\ ShutdownHasReason /\ ClosedByShutdown

\* Who is active depends on the stages alone.
LEMMA SameStageSameActive == UNCHANGED stage => Active' = Active
  BY DEF Active

\* When the process ends nothing of it is left.
LEMMA DiePreserves ==
  ASSUME LifeInv, Die, faults' \in 0..MaxFaults
  PROVE  LifeInv'
  <1>1. stage' \in [Requests -> RequestStages]
    BY DEF LifeInv, LifeTypeOK, Die, RequestStages
  <1>2. Active' = {}
    BY DEF Die, Active, ActiveStages
  <1>3. LifeTypeOK'
    BY <1>1 DEF Die, LifeTypeOK, MainStages, CloserStages
  <1> QED
    BY <1>2, <1>3 DEF Die, LifeInv, CloserFollowsMain, OpenWhileServing, DrainedBeforeClosing,
                      ShutdownHasReason, ClosedByShutdown, InShutdown

\* A fault stays within its bound.
LEMMA FaultType == ASSUME LifeTypeOK, Fault PROVE faults' \in 0..MaxFaults
  BY MaxFaultsAssumption DEF Fault, LifeTypeOK

\* The steps of main.
LEMMA MainPreserves == ASSUME LifeInv, MainStep PROVE LifeInv'
  <1> USE DEF LifeInv, LifeTypeOK, CloserFollowsMain, OpenWhileServing, DrainedBeforeClosing,
              ShutdownHasReason, ClosedByShutdown, MainStages, CloserStages, Storages, InShutdown
  <1>1. CASE LoadConfig
    BY <1>1, SameStageSameActive DEF LoadConfig
  <1>2. CASE OpenSql
    BY <1>2, SameStageSameActive DEF OpenSql
  <1>3. CASE OpenRedis
    BY <1>3, SameStageSameActive DEF OpenRedis
  <1>4. CASE StartFails
    BY <1>4, DiePreserves, FaultType DEF StartFails
  <1>5. CASE Listen
    <2>1. main = "listen" /\ closer # "none"
      BY <1>5 DEF Listen
    <2>2. CASE InShutdown
      BY <1>5, <2>1, <2>2, SameStageSameActive DEF Listen
    <2>3. CASE ~InShutdown
      <3>1. main' = "serving" /\ listening' = TRUE /\ UNCHANGED <<closer, ctxDone, open, stage, faults>>
        BY <1>5, <2>3 DEF Listen
      <3> QED BY <2>1, <2>3, <3>1, SameStageSameActive
    <2> QED BY <2>2, <2>3
  <1>6. CASE ListenFails
    BY <1>6, SameStageSameActive, FaultType DEF ListenFails
  <1>7. CASE ServerClosed
    BY <1>7, SameStageSameActive DEF ServerClosed
  <1>8. CASE StartReturns
    BY <1>8, SameStageSameActive DEF StartReturns
  <1>9. CASE Exit
    BY <1>9, DiePreserves DEF Exit
  <1> QED BY <1>1, <1>2, <1>3, <1>4, <1>5, <1>6, <1>7, <1>8, <1>9 DEF MainStep

\* The steps of the shutdown.
LEMMA CloserPreserves == ASSUME LifeInv, CloserStep PROVE LifeInv'
  <1> USE DEF LifeInv, LifeTypeOK, CloserFollowsMain, OpenWhileServing, DrainedBeforeClosing,
              ShutdownHasReason, ClosedByShutdown, MainStages, CloserStages, Storages, InShutdown
  <1>1. CASE BeginShutdown
    BY <1>1, SameStageSameActive DEF BeginShutdown
  <1>2. CASE Drained
    BY <1>2, SameStageSameActive DEF Drained
  <1>3. CASE CloseSql
    BY <1>3, SameStageSameActive DEF CloseSql
  <1>4. CASE CloseRedis
    BY <1>4, SameStageSameActive DEF CloseRedis
  <1>5. CASE ShutdownFails
    BY <1>5, DiePreserves DEF ShutdownFails
  <1> QED BY <1>1, <1>2, <1>3, <1>4, <1>5 DEF CloserStep

\* A request is accepted only while the listener is open, and a handler ends.
LEMMA RequestPreserves ==
  ASSUME LifeInv, NEW r \in Requests, Accept(r) \/ Handle(r)
  PROVE  LifeInv'
  <1> USE DEF LifeInv, processVars
  <1>1. stage' \in [Requests -> RequestStages]
    BY DEF LifeTypeOK, Accept, Handle, RequestStages, ActiveStages, NextStage
  <1>2. UNCHANGED <<main, closer, ctxDone, listening, open, faults>>
    BY DEF Accept, Handle
  <1>3. /\ LifeTypeOK' /\ CloserFollowsMain' /\ OpenWhileServing'
        /\ ShutdownHasReason' /\ ClosedByShutdown'
    BY <1>1, <1>2 DEF LifeTypeOK, CloserFollowsMain, OpenWhileServing, ShutdownHasReason,
                      ClosedByShutdown, InShutdown
  <1>4. closer \in {"waiting", "draining"}
    <2>1. CASE Accept(r)
      BY <2>1 DEF Accept, LifeTypeOK, CloserFollowsMain, InShutdown
    <2>2. CASE Handle(r)
      BY <2>2 DEF Handle, Active, DrainedBeforeClosing
    <2> QED BY <2>1, <2>2
  <1> QED BY <1>2, <1>3, <1>4 DEF DrainedBeforeClosing

\* It is an invariant.
LEMMA LifeInvariant == LifeSpec => []LifeInv
  <1>1. LifeInit => LifeInv
    <2> SUFFICES ASSUME LifeInit PROVE LifeInv
      OBVIOUS
    <2> USE DEF LifeInit
    <2>1. stage \in [Requests -> RequestStages] /\ Active = {}
      BY DEF RequestStages, Active, ActiveStages
    <2>2. faults \in 0..MaxFaults
      BY MaxFaultsAssumption
    <2>3. LifeTypeOK
      BY <2>1, <2>2 DEF LifeTypeOK, MainStages, CloserStages
    <2> QED
      BY <2>1, <2>3 DEF LifeInv, CloserFollowsMain, OpenWhileServing, DrainedBeforeClosing,
                        ShutdownHasReason, ClosedByShutdown, InShutdown
  <1>2. LifeInv /\ [LifeNext]_lifeVars => LifeInv'
    <2> SUFFICES ASSUME LifeInv, [LifeNext]_lifeVars PROVE LifeInv'
      OBVIOUS
    <2>1. CASE MainStep
      BY <2>1, MainPreserves
    <2>2. CASE CloserStep
      BY <2>2, CloserPreserves
    <2>3. CASE \E r \in Requests : Accept(r) \/ Handle(r)
      BY <2>3, RequestPreserves
    <2>4. CASE Signal
      BY <2>4, SameStageSameActive, FaultType
         DEF Signal, LifeInv, LifeTypeOK, CloserFollowsMain, OpenWhileServing,
             DrainedBeforeClosing, ShutdownHasReason, ClosedByShutdown, InShutdown
    <2>5. CASE Kill
      BY <2>5, DiePreserves, FaultType DEF Kill, LifeInv
    <2>6. CASE Restart
      BY <2>6, SameStageSameActive
         DEF Restart, LifeInv, LifeTypeOK, CloserFollowsMain, OpenWhileServing,
             DrainedBeforeClosing, ShutdownHasReason, ClosedByShutdown, MainStages, InShutdown
    <2>7. CASE UNCHANGED lifeVars
      BY <2>7, SameStageSameActive
         DEF lifeVars, LifeInv, LifeTypeOK, CloserFollowsMain, OpenWhileServing,
             DrainedBeforeClosing, ShutdownHasReason, ClosedByShutdown, InShutdown
    <2> QED BY <2>1, <2>2, <2>3, <2>4, <2>5, <2>6, <2>7 DEF LifeNext
  <1> QED BY <1>1, <1>2, PTL DEF LifeSpec

-----------------------------------------------------------------------------
(* The theorems. *)

\* The types hold, and the listener is open only while main serves
\* (main.go:26-86, server.go:78-110).
THEOREM LifeTypeCorrect == LifeSpec => []LifeTypeOK
  <1>1. LifeInv => LifeTypeOK
    BY DEF LifeInv
  <1> QED BY <1>1, LifeInvariant, PTL

\* Whatever signals, failures and kills there are, no handler ever works on a
\* storage that Shutdown has closed (server.go:92-110).
THEOREM StoragesOutliveRequestsTheorem == LifeSpec => []StoragesOutliveRequests
  <1>1. LifeInv => StoragesOutliveRequests
    BY DEF LifeInv, OpenWhileServing, DrainedBeforeClosing, StoragesOutliveRequests
  <1> QED BY <1>1, LifeInvariant, PTL

\* Main and the shutdown never wait for each other (main.go:73-85,
\* server.go:78-94): Start waits for the context only when it is done.
THEOREM RestsOnlyWhileServingTheorem == LifeSpec => []RestsOnlyWhileServing
  <1>1. LifeInv => RestsOnlyWhileServing
    BY DEF LifeInv, LifeTypeOK, CloserFollowsMain, ShutdownHasReason, ClosedByShutdown,
           InShutdown, MainStages, CloserStages, RestsOnlyWhileServing, MainCanMove, CloserCanMove
  <1> QED BY <1>1, LifeInvariant, PTL

\* The steps left, stage by stage.
Main(m) == IF m \in DOMAIN MainSteps THEN MainSteps[m] ELSE 0

LEMMA StepsByStage ==
  /\ StepsLeft = Main(main) + CloserSteps[closer]
  /\ StepsLeft' = Main(main') + CloserSteps[closer']
  /\ Main("listen") = 4 /\ Main("serving") = 3 /\ Main("closed") = 2 /\ Main("failed") = 2
  /\ Main("exiting") = 1 /\ Main("ended") = 0
  /\ CloserSteps["none"] = 0 /\ CloserSteps["waiting"] = 5 /\ CloserSteps["draining"] = 4
  /\ CloserSteps["sql"] = 3 /\ CloserSteps["redis"] = 2 /\ CloserSteps["done"] = 1
  <1>1. DOMAIN MainSteps = {"listen", "serving", "closed", "failed", "exiting"}
    BY DEF MainSteps
  <1>2. /\ MainSteps["listen"] = 4 /\ MainSteps["serving"] = 3 /\ MainSteps["closed"] = 2
        /\ MainSteps["failed"] = 2 /\ MainSteps["exiting"] = 1
    BY DEF MainSteps
  <1>3. "ended" \notin DOMAIN MainSteps
    BY <1>1
  <1>4. StepsLeft = Main(main) + CloserSteps[closer] /\ StepsLeft' = Main(main') + CloserSteps[closer']
    BY DEF StepsLeft, Main
  <1>5. /\ Main("listen") = 4 /\ Main("serving") = 3 /\ Main("closed") = 2 /\ Main("failed") = 2
        /\ Main("exiting") = 1 /\ Main("ended") = 0
    BY <1>1, <1>2, <1>3 DEF Main
  <1> QED BY <1>4, <1>5 DEF CloserSteps

\* After a signal the process ends within nine steps of main and of the shutdown
\* together, and no step of anyone else makes them more (main.go:73-85).
THEOREM StopIsBoundedTheorem == LifeSpec => StopIsBounded
  <1> DEFINE A == ctxDone => /\ MainStep \/ CloserStep => StepsLeft' < StepsLeft
                             /\ StepsLeft' <= StepsLeft
  <1>1. ASSUME LifeInv, [LifeNext]_lifeVars PROVE A
    <2> SUFFICES ASSUME ctxDone PROVE A
      OBVIOUS
    <2>1. /\ main \in {"listen", "serving", "closed", "failed", "exiting"}
          /\ closer \in {"waiting", "draining", "sql", "redis", "done"}
      BY <1>1 DEF LifeInv, LifeTypeOK, ShutdownHasReason, CloserFollowsMain, CloserStages
    <2>2. Main(main) \in 1..4 /\ CloserSteps[closer] \in 1..5
      BY <2>1, StepsByStage
    <2>3. CASE Die
      <3>1. StepsLeft' = 0
        BY <2>3, StepsByStage DEF Die
      <3> QED BY <2>2, <3>1, StepsByStage
    <2>4. CASE MainStep /\ ~Die
      <3>1. /\ closer' = closer
            /\ \/ main = "listen" /\ main' \in {"serving", "closed", "failed"}
               \/ main = "serving" /\ main' \in {"closed", "failed"}
               \/ main \in {"closed", "failed"} /\ main' = "exiting"
        BY <2>1, <2>4 DEF MainStep, LoadConfig, OpenSql, OpenRedis, StartFails, Listen,
                          ListenFails, ServerClosed, StartReturns, Exit
      <3>2. Main(main') < Main(main) /\ Main(main') \in Nat
        BY <3>1, StepsByStage
      <3> QED BY <2>2, <3>1, <3>2, StepsByStage
    <2>5. CASE CloserStep /\ ~Die
      <3>1. /\ main' = main
            /\ \/ closer = "waiting" /\ closer' = "draining"
               \/ closer = "draining" /\ closer' = "sql"
               \/ closer = "sql" /\ closer' = "redis"
               \/ closer = "redis" /\ closer' = "done"
        BY <2>5 DEF CloserStep, BeginShutdown, Drained, CloseSql, CloseRedis, ShutdownFails
      <3>2. CloserSteps[closer'] < CloserSteps[closer] /\ CloserSteps[closer'] \in Nat
        BY <3>1, StepsByStage
      <3> QED BY <2>2, <3>1, <3>2, StepsByStage
    <2>6. CASE (\E r \in Requests : Accept(r) \/ Handle(r)) \/ Signal \/ UNCHANGED lifeVars
      <3>1. main' = main /\ closer' = closer
        BY <2>6 DEF Accept, Handle, Signal, processVars, lifeVars
      <3>2. StepsLeft' = StepsLeft /\ StepsLeft \in Nat
        BY <2>2, <3>1, StepsByStage
      <3>3. ~(MainStep \/ CloserStep)
        BY <2>1, <3>1
           DEF MainStep, LoadConfig, OpenSql, OpenRedis, StartFails, Listen, ListenFails,
               ServerClosed, StartReturns, Exit, Die, CloserStep, BeginShutdown, Drained, CloseSql,
               CloseRedis, ShutdownFails
      <3> QED BY <3>2, <3>3
    <2> QED BY <1>1, <2>1, <2>3, <2>4, <2>5, <2>6 DEF LifeNext, Kill, Restart
  <1>2. LifeInv /\ [LifeNext]_lifeVars => [A]_lifeVars
    BY <1>1
  <1> QED BY <1>2, LifeInvariant, PTL DEF LifeSpec, StopIsBounded

-----------------------------------------------------------------------------
(* The server keeps the promise of Service. *)

\* The stages in which the process serves requests, and the mapped variables.
Serving == main \in {"listen", "serving", "closed", "failed", "exiting"}
Fates == [r \in Requests |-> FateOf[stage[r]]]

\* What each stage maps to.
LEMMA FateValues ==
  /\ FateOf["none"] = "none" /\ FateOf["answered"] = "answered" /\ FateOf["lost"] = "lost"
  /\ \A s \in ActiveStages : FateOf[s] = "pending"
  BY DEF FateOf, ActiveStages

\* The end of the process is a stop, or nothing when it had not begun to serve.
LEMMA DieIsStop ==
  ASSUME LifeInv, Die, main # "ended"
  PROVE  Callers!Next \/ UNCHANGED Callers!vars
  <1> USE DEF LifeInv, Die
  <1>1. \A r \in Requests :
            FateOf[stage'[r]] = IF FateOf[stage[r]] = "pending" THEN "lost" ELSE FateOf[stage[r]]
    <2> SUFFICES ASSUME NEW r \in Requests
                 PROVE  FateOf[stage'[r]] =
                            IF FateOf[stage[r]] = "pending" THEN "lost" ELSE FateOf[stage[r]]
      OBVIOUS
    <2>1. stage'[r] = IF r \in Active THEN "lost" ELSE stage[r]
      OBVIOUS
    <2>2. stage[r] \in ActiveStages \/ stage[r] \in {"none", "answered", "lost"}
      BY DEF LifeTypeOK, RequestStages, ActiveStages
    <2> QED BY <2>1, <2>2, FateValues DEF Active, ActiveStages
  <1>2. Serving \/ Active = {}
    BY DEF DrainedBeforeClosing, CloserFollowsMain, Serving, LifeTypeOK, MainStages
  <1>3. ~Serving'
    BY DEF Serving
  <1>4. CASE Serving
    <2>1. Fates' = [r \in Requests |-> IF Fates[r] = "pending" THEN "lost" ELSE Fates[r]]
      BY <1>1 DEF Fates
    <2> QED BY <1>3, <1>4, <2>1 DEF Callers!Next, Callers!Stop, Serving, Fates
  <1>5. CASE ~Serving
    <2>1. stage' = stage
      BY <1>2, <1>5 DEF LifeTypeOK
    <2> QED BY <1>3, <1>5, <2>1 DEF Callers!vars, Serving
  <1> QED BY <1>4, <1>5

\* A step that neither starts nor ends the process and leaves the requests alone.
LEMMA QuietStep ==
  ASSUME UNCHANGED stage, Serving' = Serving
  PROVE  UNCHANGED Callers!vars
  BY DEF Callers!vars, Serving

\* Accepting a connection takes a request; its handler answers it in the end.
LEMMA RequestSteps ==
  ASSUME LifeInv, NEW r \in Requests, Accept(r) \/ Handle(r)
  PROVE  Callers!Next \/ UNCHANGED Callers!vars
  <1> USE DEF LifeInv, LifeTypeOK, processVars
  <1>1. Serving /\ Serving' /\ main' = main
    BY DEF Accept, Handle, Serving, Active, DrainedBeforeClosing, CloserFollowsMain, MainStages
  <1>2. \A q \in Requests \ {r} : stage'[q] = stage[q]
    BY DEF Accept, Handle
  <1>3. CASE Accept(r)
    <2>1. Fates[r] = "none" /\ Fates' = [Fates EXCEPT ![r] = "pending"]
      BY <1>2, <1>3, FateValues DEF Accept, Fates, ActiveStages
    <2> QED BY <1>1, <2>1 DEF Callers!Next, Callers!Take, Serving, Fates
  <1>4. CASE Handle(r) /\ stage'[r] = "answered"
    <2>1. Fates[r] = "pending" /\ Fates' = [Fates EXCEPT ![r] = "answered"]
      BY <1>2, <1>4, FateValues DEF Handle, Fates
    <2> QED BY <1>1, <2>1 DEF Callers!Next, Callers!Answer, Serving, Fates
  <1>5. CASE Handle(r) /\ stage'[r] # "answered"
    <2>1. stage[r] \in ActiveStages /\ stage'[r] \in ActiveStages
      BY <1>5 DEF Handle, NextStage, ActiveStages
    <2>2. Fates' = Fates
      BY <1>2, <2>1, FateValues DEF Fates
    <2> QED BY <1>1, <2>2 DEF Callers!vars, Serving, Fates
  <1> QED BY <1>3, <1>4, <1>5

\* Every step is a step of Service or leaves it alone.
LEMMA LifeStepIsServiceStep ==
  ASSUME LifeInv, [LifeNext]_lifeVars
  PROVE  [Callers!Next]_(Callers!vars)
  <1>1. CASE OpenRedis
    <2>1. ~Serving /\ Serving' /\ Fates' = Fates
      BY <1>1 DEF OpenRedis, Serving, Fates
    <2> QED BY <2>1 DEF Callers!Next, Callers!Start, Serving, Fates
  <1>2. CASE StartFails \/ Exit \/ ShutdownFails \/ Kill
    <2>1. main # "ended" /\ Die
      BY <1>2 DEF StartFails, Exit, ShutdownFails, Kill, LifeInv, CloserFollowsMain
    <2> QED BY <2>1, DieIsStop
  <1>3. CASE \E r \in Requests : Accept(r) \/ Handle(r)
    BY <1>3, RequestSteps
  <1>4. CASE LoadConfig \/ OpenSql \/ Listen \/ ListenFails \/ ServerClosed \/ StartReturns
                \/ Signal \/ Restart \/ UNCHANGED lifeVars
    <2>1. UNCHANGED stage /\ Serving' = Serving
      BY <1>4 DEF LoadConfig, OpenSql, Listen, ListenFails, ServerClosed, StartReturns,
                  Signal, Restart, lifeVars, Serving
    <2> QED BY <2>1, QuietStep
  <1>5. CASE BeginShutdown \/ Drained \/ CloseSql \/ CloseRedis
    <2>1. UNCHANGED stage /\ Serving' = Serving
      BY <1>5 DEF BeginShutdown, Drained, CloseSql, CloseRedis, Serving
    <2> QED BY <2>1, QuietStep
  <1> QED BY <1>1, <1>2, <1>3, <1>4, <1>5 DEF LifeNext, MainStep, CloserStep

\* The server implements Service: a shutdown that main does not wait for loses
\* no request other than by the end of the process (main.go:73-85).
THEOREM LifeImplementsService == LifeSpec => ServiceSpec
  <1>1. LifeInit => Callers!Init
    BY DEF LifeInit, Callers!Init, FateOf
  <1>2. LifeInv /\ [LifeNext]_lifeVars => [Callers!Next]_(Callers!vars)
    BY LifeStepIsServiceStep
  <1>3. LifeSpec => [][Callers!Next]_(Callers!vars)
    BY <1>2, LifeInvariant, PTL DEF LifeSpec
  <1> QED BY <1>1, <1>3, PTL DEF LifeSpec, ServiceSpec, Callers!Spec
=============================================================================
