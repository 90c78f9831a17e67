# A verification of the anti-bruteforce service

This directory holds TLA+ specifications of the service in this repository, the
TLC configurations that check them on small instances, and proofs checked by
TLAPS. The service is asked before every login whether the attempt looks like
password guessing: it looks the IP up in a black and a white list of subnets,
then counts the attempt for its login, its password and its IP and compares
with three limits per minute.

## 1. Inventory

| Part | Code | State | Operations | Modelled in |
| --- | --- | --- | --- | --- |
| Authorisation check | `internal/app/app.go:76-126` | none of its own | `CheckRequest`: two list reads, up to three INCRs | `App`, `RateBudget`, `RateWindow` |
| List operations | `app.go:175-304`, `validate.go` | none of its own | add, remove, is-in, get-all, subnet check | `Lists`, `App` |
| PostgreSQL storage | `internal/storage/sqldb/sqldb.go` | tables `whitelist`, `blacklist` | one SQL statement each | `Lists`, `Lifecycle` |
| Redis storage | `internal/storage/redis/redis.go` | one counter per login, password, IP | INCR, SET 0, FLUSHDB | `App`, `Ticker`, `Lifecycle` |
| Ticker | `app.go:128-143` | a timer, a channel, a goroutine | flush every period | `Ticker`; in `App` as a flush |
| HTTP handlers | `internal/server/http/handlers.go`, `routes.go` | none | one goroutine and one deadline per request | `Lists`, `App`, `Client` |
| Lifecycle | `cmd/antibruteforce/main.go`, `server.go`, `docker-compose.yaml` | process, signal context, listener, open storages | start, serve, signal, shutdown, exit, restart | `Lifecycle`, `Service`; in `App` as crash and boot |
| CLI | `cmd/cli` | the session, one request at a time | ping, eleven commands | `Client` |
| Test double of the lists | `storageSQLMock.go` | two maps, two counters, a read-write lock | as the PostgreSQL storage | `MockStorage`, `MapStore` |
| Configuration, logging, helpers | `config.go`, `logger`, `helpers` | constants | read once, write logs | as CONSTANTS, or not |

The parts meet in three ways. A handler calls the application, which calls a
storage; both calls are synchronous. All handlers share the two databases, with
no lock and no transaction around more than one statement. And the ticker's
goroutine empties Redis whatever the handlers are doing. The client reaches the
handlers over HTTP, and may give up on a request that is served all the same.

What is hard here is therefore what goes on between two storage calls of one
handler: other handlers, the ticker, a crash; and what a storage call leaves
behind when it reports an error. `PROJECT.json` lists the hazards by line.

What makes each part correct:

* the check: limits that hold exactly whatever interleaves; nobody limited
  without cause; an end to every request;
* the lists: acknowledged adds stay and are seen, removes remove all, a subnet
  is in one list only, listed IPs are treated as their list says;
* the ticker: what is counted is forgotten in time, and rates are bounded over real time;
* lifecycle: a signal ends the process, no request works on a closed storage, an
  answer is lost only with the process, and the service comes back;
* the client: what it reports as done was done; it can always be ended;
* the test double: it is a list storage as its callers expect, and ends its calls.

## 2. Modules

| Module | What it is |
| --- | --- |
| `Lists` | the two tables and the four admin operations on them |
| `RateBudget` | abstract: what the limiter promises, as budgets of tokens |
| `App` | `CheckRequest`, buckets, flushes, clears, crashes and restarts, on top of `Lists`; the mapping to `RateBudget` |
| `Ticker` | `App` with the ticker's timer, channel, goroutine and calls |
| `RateWindow` | `Ticker` with a clock and the deadlines of requests |
| `Service` | abstract: what callers may count on across starts and stops of the server |
| `Lifecycle` | the server process from start to exit; the mapping to `Service` |
| `MapStore` | abstract: a list storage whose calls take effect at one moment |
| `MockStorage` | the in-memory storage and its lock, step by step; the mapping to `MapStore` |
| `Client` | the command-line client, on top of `Lists` |
| `MC...` | values of the constants for TLC |
| `ListsProofs`, `AppProofs` | theorems about `Lists` and `App` |
| `BudgetProofs` | `App` implements `RateBudget` |
| `TickerProofs` | counts are forgotten in time; `Ticker` implements `App` |
| `LifecycleProofs` | theorems about `Lifecycle`; it implements `Service` |
| `WindowProofs` | the rates over real time; `RateWindow` implements `Ticker` |
| `MockProofs` | theorems about `MockStorage`; it implements `MapStore` |
| `ClientProofs` | theorems about `Client`; its server side implements `Lists` |

`App` extends `Lists` and shares its tables: `CallStep` is any step of an admin
call, `InSubnetOf` reads the rows the admin calls leave. `Ticker` extends
`App`: its steps are those of `App` with what they do to the ticker, and say when a flush can come.
`RateWindow` extends `Ticker` and adds a clock and the deadlines. Definitions
named "Mutated form" in a module are bugs someone might have made in the
definition that follows; the runs are shown to notice each of them.

### Lists

An *entry* of a table is the name of the add call that inserted it: `table[l]` is
a set of calls and `ask[c]` tells the subnet. So two adds of one subnet make two
rows, as they do in tables without a unique constraint
(`migrations/001_migration.sql`), and a property can speak of "the row of call c".

Each admin call is at a stage (`callStage`): before the look-up in the other list
(`check`), before its INSERT or DELETE (`write`), before its SELECT (`read`),
answered with an error while its write may still run (`late`), or `done`. One action
is one SQL statement with the Go code up to the next one:

| Action | Code |
| --- | --- |
| `BeginCall` | `listRest` decodes and dispatches; the application validates (`SimpleIPDataValidate`) |
| `CheckSecondList` | `IPAddToList`, look-up in the other list, refusal (`app.go:182-206`) |
| `Insert`, `Delete` | `app.go:207-241`, `sqldb.go:79-118`; `ErrNoRecord` when no row was deleted |
| `IsInList`, `GetAllFromList` | `app.go:243-279` |
| `CallFails` | any statement returns an error, its deadline included (`handlers.go:176`) |
| `LateWrite`, `LateDrop` | PostgreSQL runs a write whose caller has been told of an error, or does not (external) |

`before[c]` is a history variable: the calls already settled when `c` began. It lets
properties say which calls overlap. The program cannot be in a state where a
validated call has no list: the handlers pass constants, so `checkListName` and the
`default` branches never fire. An invalid pair is refused for every operation; in
the code the list look-up of an invalid pair is refused by the same function.

### App

A request passes the stages `blacklist`, `whitelist`, `login`, `password`, `ip`, each
named for the storage call it makes next, and ends with an answer. The credentials
are not validated (`handlers.go:63-104` passes them as decoded): a string that is
no IP is simply covered by no subnet. `Covers` says which subnet contains which IP,
so nothing depends on how addresses are written.

| Action | Code |
| --- | --- |
| `BeginRequest` | `AuthorizationRequest` up to the first storage call |
| `CheckBlacklist`, `CheckWhitelist` | `app.go:77-94` with `IPIsInSubnetCheck` |
| `Increase` | one INCR and its comparison (`app.go:95-125`) |
| `IncreaseLost` | an INCR whose reply is lost; it never reaches Redis or is on its way; the client sends it up to `MaxAttempts` times |
| `LandIncrease` | Redis applies an INCR nobody waits for: at once, after the retry, the answer, a flush or a crash (external) |
| `StorageError` | any storage call returns an error, the deadline of `handlers.go:65` included |
| `Flush` | Redis applies a FLUSHDB of the ticker, at any time, even after the process has ended; `Ticker` says when one is sent |
| `ClearBucket` | `ClearBucketForLogin`, `ClearBucketForIP` |
| `Crash`, `Boot` | the process ends, losing what was in progress; it starts again, and flushes Redis or fails to |
| `CallStep` | the actions of `Lists`; those of the server need it up |

`settledAt`, `passes`, `carried`, `admitted` and `wasted` are history variables, read
by properties only: no guard and no other variable depends on them.

### RateBudget

The abstract specification has no counters, stages, retries or list reads. Each key
has a budget of tokens; a request takes one token of each of its keys, in any order,
and is then allowed; it may be limited only at an empty budget. The mapping at the
end of `App` (an INSTANCE with every variable substituted) sends a bucket to `Limit[k] - bucket[k]`, or 0 when the bucket is over
its limit, and an answer to a verdict. `BudgetSpec` is the claim that `App` implements it.

### Ticker

`App` lets buckets be flushed at any time, which is enough for what holds between two
flushes. `Ticker` says when a FLUSHDB is sent, and what may become of it:

| Action | Code |
| --- | --- |
| `PassTime` with `Elapse` | `time.NewTicker` (`app.go:130`): a fire every `Period` into a channel with room for one; a fire that finds it full is dropped |
| `StartFlush` | the goroutine receives from the channel and calls `FlushStorage` (`app.go:136-138`) |
| `FlushApplied` | FLUSHDB is applied; its reply ends the call or is lost, and the client sends it again |
| `FlushLost`, `LandFlush` | a FLUSHDB that times out on its way; Redis applies it when nobody waits for it, if ever |
| `FlushFails` | the call fails; `FlushStorage` drops the error (`redis.go:90-93`) |
| `TickerCrash` | the process ends; `Close` may have sent one more FLUSHDB (`redis.go:57-63`) |
| `TickerBoot` | `Init` flushes, or its FLUSHDB fails and the error is dropped (`redis.go:32`); a new timer starts |
| `ServiceStep` | what requests, admin calls and late INCRs do in `App` |

A call of FLUSHDB ends within `FlushTime`: main's context has no deadline, so what bounds it
are the timeouts and the retries of the Redis client. `FlushTime` may be longer than the
period; then fires are dropped. Time does not pass for the ticker while the server is down. `age[k]`, a
history variable, is how long the server has been up since the first INCR that bucket `k`
counts; `fails` is how many calls in a row ended with no FLUSHDB applied.
`CountsAreForgotten` bounds the one by the other: with no failure, an INCR is
forgotten after a period and the time of a call at the latest. After the end of main's
context every FLUSHDB of the goroutine, which spins then, fails on that context: a call that fails.

### RateWindow

`RateWindow` adds a clock to `Ticker`: storage steps take no time, and `Tick` advances it but
not past the deadline of a request in progress (`handlers.go:65`). The history variable
`passed[r]` notes when `r` was let past its login, its password and its IP, and how often the
bucket had been reset by then; the last of the three is its answer `ok`. `resets[k][t]` counts
the resets of bucket `k` up to moment `t`, as they come: by FLUSHDBs on time, late, sent twice or
landing after the end of their call, by clears and by restarts. `AtMostLimitPerWindow` takes any stretch of
time and allows a key its limit for each window the stretch meets. The stretch is taken a deadline longer for logins and passwords,
whose INCR comes before that of the answer.

### Service

To its callers the server is a process that runs or not, and a fate for each request:
not made, pending, answered, lost. A request is taken and answered only by a running
process, once, and is lost only by the step that ends it. `Lifecycle`, which has the
process in detail and a request as four stages, implements it: the refinement says what a
shutdown, with its drain and its two goroutines, may cost a caller.

### Lifecycle

| Action | Code |
| --- | --- |
| `LoadConfig`, `OpenSql`, `OpenRedis`, `StartFails` | `main.go:26-80`; an error of any of them ends the process |
| `Listen`, `ListenFails`, `ServerClosed`, `StartReturns`, `Exit` | `Start` (`server.go:78-90`) and the end of `main` (`main.go:81-86`) |
| `BeginShutdown`, `Drained`, `CloseSql`, `CloseRedis`, `ShutdownFails` | the goroutine of `main.go:73-80` and `Shutdown` (`server.go:92-110`) |
| `Accept`, `Handle` | net/http accepts a connection; its handler reads the lists, counts, answers |
| `Signal`, `Kill`, `Restart` | a signal caught by `NotifyContext`; any other end of the process; `restart: always` |

Main and the goroutine that shuts down run side by side, and main waits for nothing:
`http.Server.Shutdown` makes `ListenAndServe` return at once, and main then exits with
status 1 while the handlers are still being drained. So a stop may cost the answers of
the requests in progress; `ServiceSpec` says that it costs nothing else, and
`StoragesOutliveRequests` that the order of `Shutdown` spares them worse. The timeout of
the drain is `ShutdownFails`, possible at any time of it. `InShutdown`, read by `Listen`, is the
flag inside `http.Server`. The ticker's goroutine is not here: after the context's end
its `break` leaves only the `select` (`app.go:136`) and it spins, which changes no state.
`docker stop`, after which the container is not restarted, is not modelled.

### MockStorage and MapStore

Each step is one access to the lock, a map or a counter. The lock is Go's `RWMutex`: a
writer that waits keeps new readers out. `IPRemoveFromList` reads its map before it
takes the lock (`Peek`); when that can meet a write of another call (`Race`), the Go runtime
may notice and end the process (`RaceIsFatal`), or the read sees the map before the write or
after it. That a racing read sees nothing else rests on the maps being too small to
be moved while they grow, as they are in tests. `GetAll` with a bad list name
returns with the read lock held. `MapStore` promises that each call is one atomic step on
two sets of subnets, between its start and its answer; it allows two removes of one
entry to report success both, which the unlocked read makes possible.

### Client

The client types its commands one after the other, numbered 1, 2, ...; the server side
is `Lists` with command `c` as call `c`, the routes, and handlers for the other commands that keep only
their outcome. Each command is the HTTP request it makes (`AddMessage` ... `ClearMessage`), the handler
that the route and the method select (`AskOf`, `Serve...`), the shape of the body that comes
back (`Body`) and what the command makes of it (`AddShown` ... `ClearShown`). A JSON body decoded into
a struct of another shape leaves zero values (`Decoded`): a look-up whose mask is no number
prints a found subnet without a text, called `blank`.

A request that is given up on (`GiveUp`: ten seconds, or a connection error) may arrive later or
never, so the calls of this sequential client overlap at the server. `ReadsOwnWrites`
and `BothListsOnlyAfterError` say what the user may still rely on: surprises come only
after a command that was answered with an error.

With the server as it is the client never gets past its start (run `client_start`). The
run `client` therefore gives `RootAnswer` the value the client expects, to check the rest of it.

## 3. Runs

| Run | Shows |
| --- | --- |
| `lists` | three overlapping admin calls of any kind: `CrossListNeedsOverlap`, `AddIsDurable`, `RemoveIsComplete`, `LookupSeesAdds` |
| `cross_list` | violation: both lists may hold one subnet |
| `retry` | two requests whose INCRs are sent twice and land late, under fairness: `WindowBudget`, `AnswerBudget`, `LimitedOnlyWhenSpent`, `BudgetSpec`, `WorkIsBounded`, `EveryRequestEnds` |
| `ticker` | two requests beside a ticker whose FLUSHDBs are late, sent again, lost until later or failed: `CountsAreForgotten` |
| `app_lists` | admin calls beside a request, with crashes: `AddIsDurable`, `BlacklistedAreRefused`, `WhitelistedAreExempt` |
| `whitelist` | violation: a whitelisted IP may be refused |
| `window` | two requests against limits of one, with a clock and the ticker in detail: `AtMostLimitPerWindow` |
| `window_limit` | violation: more than the limit in one period |
| `lifecycle` | three requests and up to four faults: `StoragesOutliveRequests`, `RestsOnlyWhileServing`, `StopIsBounded`, `ServesAgain`, `SignalEnds`, `ServiceSpec` |
| `mock` | three concurrent calls: `OnlyRemovesRace`, `IdsTellOrder`, `LockNeverStuck`, `LeakFreezesMaps`, `CallsEndUnlessLeaked`, `StoreSpec` |
| `client` | three commands over a network that loses and delays: `SuccessIsTrue`, `ReadsOwnWrites`, `BothListsOnlyAfterError`, `AtMostOneAfterSignal`, `CommandsAreAnswered`, `SignalEndsClient` |
| `client_start` | violation: the client takes a running server for an unavailable one |

One run of each module also checks its type invariant (those of `Ticker` and `RateWindow` are part of the
invariants proved of them); a type invariant has besides the types the few facts that tie
the control variables together.

**Bounds.** `lists` has three calls, two valid subnets and an invalid one. Three calls
are what its properties need: an add, the remove or add it races with, and a
third that observes or overlaps. `retry` has two requests, one key of each kind and limits 2, 1 and 1: the comparisons for
the password and the IP are taken both ways, and that for the login once a lost INCR has
been counted too; two attempts per INCR, and one INCR of a key on its way at a time. That is enough
for one request past a check when a flush or a clear comes, and one after it. `ticker` has a period of two ticks and a call
that may take as long, so that a fire may wait and the next be dropped; one FLUSHDB on its
way unattended, and one failure in a row (`MaxLate`, `MaxFails`). `app_lists` has two overlapping subnets, two calls
and one request: an add and a remove, or two adds, around the reads. `window` has a
period, a call and a deadline of one tick and a clock of two: the FLUSHDB of the first
fire may land late and that of the second on time, so a request may live across them and a
stretch of one tick may meet three windows; with limits of 1 for login and IP, two requests
are one too many for a window. `window_limit` needs two requests only. Counters are bounded only by the
number of requests and `MaxAttempts`; `MaxInFlight` bounds the INCRs of one key that
are on their way with nobody waiting, and the clock is bounded by `MaxTime`. Symmetry is
used for requests, calls and subnets in the safety runs, where they are
interchangeable, and not in runs with liveness properties. `lifecycle` has three requests, so that one can be answered, one
lost and one made after a restart, and four faults (`MaxFaults`): a signal, a failure of the
listener or of a start, a kill, and one more. `mock` has two tags, one bad list name and
three calls: two that race and a third that waits or looks. `client` has one
subnet and three commands, all on one list but for adds; the second may be of any other kind too
(`UserCommands`). A surprise needs no more: a write, a write given up on, a look-up. When the user
types there is at most one request given up on and still under way (`MaxStray`).

**Deadlock.** `App` and `Ticker` never stop, as flushes and time go on, and their runs check that.
`Lists` and `MockStorage` stop when all calls are settled, `RateWindow` when its clock has run
out, `Lifecycle` may wait for ever for requests and faults that have run out, `Client` stops
at its exit.

**Fairness.** In `retry`, `WF` of `ServeRequest(r)`: each storage call returns,
by its deadline at the latest, and net/http runs each request in a goroutine of its own.
Nothing is assumed there of the ticker, admin calls, clients, crashes or restarts. That the ticker
goes on is not assumed anywhere: `CountsAreForgotten` is safety, and what makes it hold is that
the timer fires and that a call ends within `FlushTime`. In `lifecycle`, main, the goroutine that shuts down and the restart policy are
scheduled; nothing is assumed of handlers, which may hang, nor of signals. In `mock`, every
goroutine is scheduled. In `client`, the client runs on and its timeouts expire; nothing is assumed
of the user, the network or the server.

**Disagreements.** Four runs find the code at odds with what the repository says of it:

* `cross_list`: `app_test.go:183-211` requires that a subnet in one list is refused by the
  other. The look-up (`app.go:191`) and the INSERT (`app.go:207`) are two statements, so
  two overlapping adds are both accepted. `CrossListNeedsOverlap` is what does hold.
* `whitelist`: README.md:27 promises that a whitelisted IP is let through unconditionally.
  The check of the other list compares subnets exactly, so overlapping subnets are
  accepted into both, and the blacklist is asked first (`app.go:77`).
  `WhitelistedAreExempt` is what does hold.
* `window_limit`: README.md:13-15 limits the attempts per minute. Windows are fixed
  (`app.go:138`), so attempts on both sides of a flush add up. `AtMostLimitPerWindow`
  is what does hold. Twice the limit is no bound either: a FLUSHDB that lands late and the next one on
  time give three windows in one period.
* `client_start`: README.md:75-76 wants buckets cleared and lists managed through the client.
  It asks the root route for "pong" (`cmd/cli/main.go:108`), which answers "Hello World"
  (`handlers.go:60`), and panics.

## 4. Proofs

The theorems hold for every set of calls, subnets, requests, logins, passwords and
IPs (finite or not), every limit and every number of attempts. The assumptions are those
named in the modules: `ValidSubnets` is part of `Subnets`, limits are natural numbers,
`MaxAttempts` is positive, `MaxInFlight` is a natural number, `Covers` relates subnets and IPs;
for `Ticker`, `Period` is positive, `FlushTime`, `MaxLate` and `MaxFails` are natural numbers;
for `RateWindow`, `Deadline` and `MaxTime` are natural numbers; for
`Lifecycle`, `MaxFaults` is a natural number; for `MockStorage`, a bad list name is no list name;
for `Client`, calls are natural numbers (the order of typing), no subnet is the tag of a whole list
or the mask that is no number, `UserCommands` allows commands only and `MaxStray` is a natural number.

`ListsProofs`. The inductive invariant `ListsInv` adds to the properties what they need:
the calls of `before[c]` are settled and stay so, a row belongs to a settled add, a
reply tells the operation. The property that takes work is `CrossListNeedsOverlap`: it
is not inductive, for a call between its look-up and its INSERT has already decided.
`ChecksHold` is the strengthening: once an add is past its look-up, the other list holds
no row of its subnet whose add was settled before it began; new rows come only from calls
not settled then, so it stays true until, and after, the INSERT.

`AppProofs`. A step of the service is a step of the lists, leaves them alone, or is a
crash, so `ListsInv` carries over with one more case. The bucket theorems rest on
`BudgetInv`. `PassesAreCounted`: the requests past a key are at most its bucket and its limit;
`CountsAreAccounted`: the bucket is at most passes and lost INCRs, until it is over the limit;
a request past a key is in `passes` or was overtaken by a reset. The list theorems rest on
`ListedInv`: a request beyond the look-up of a list was covered by no entry of it that counts
for `ListedFor`. Every action has a step of its own in the proofs. `WorkIsBounded` is the
variant of the check: three INCRs of `MaxAttempts` each, two look-ups and an answer; every step of the server for a request
takes from it and no other step, a crash or another request's, adds to it.

`BudgetProofs`. Each action of `App` is mapped to one of `RateBudget` or to a stutter:
`Increase` to `Pay` or `Limited`, `LandIncrease` to `Waste` or nothing, `Crash` to `Fail` of all
undecided requests, resets to `Refill`. The refinement is proved from `AppInv`.

`TickerProofs`. `CountsAreForgotten` is not inductive, as it does not say how much time is left until
the next FLUSHDB. `TickerInv` does: an age is at most a round (`Round`, a period and a call) for each
failure, and `Due`, what has gone by of the present round. `Due` is the time since the last fire, or
a period and what the fire in hand has waited, or a whole round while the server is down. Time adds one to both; a
FLUSHDB that is applied sets the age to 0; a call that fails trades `Due` for one more round.
`TickerImplementsApp` says that the ticker only takes behaviours away, so all that is proved of
`App` holds with it.

`LifecycleProofs`. `StoragesOutliveRequests` is not inductive: what keeps the storages open is
where the goroutine that shuts down is. `LifeInv` adds that it exists from the end of the start
to the end of the process (`CloserFollowsMain`), that both storages are open while it waits or
drains (`OpenWhileServing`), and that no request is left once it closes them
(`DrainedBeforeClosing`); the listener, open only before a shutdown, keeps new ones out. The
refinement of `Service` follows: the end of the process is `Stop` when it serves and nothing
otherwise, for then no request has been accepted. `RestsOnlyWhileServing` needs that the listener
was closed by a shutdown (`ClosedByShutdown`), and that a shutdown has its reason in a signal
(`ShutdownHasReason`): without them main could wait for a goroutine that waits for main. `StopIsBounded` counts the steps left to both.

`WindowProofs`. `WindowInv` adds to the invariant of the service where the passes lie: each within
the deadline of its request (`PassedInTime`), which the clock cannot pass while the request
lasts (`DeadlineIsKept`); a request has passed every kind before the one it is at
(`PastAreTimed`), and its IP last, at the time of its answer (`IpIsLast`). The bound is
proved over numbers of resets and not over time, as many resets may fall on one moment: `PassesBounded` says that
after `v` resets to `w` a key lets at most its limit past for each number. It is inductive: a
step adds a pass only with the present number, and the passes with that number are those in
the window of `BudgetInv` (`RecentPassesCount`); those with earlier ones are bounded already, by one window less. Time
comes in at the end: the resets add up as it goes on (`ResetsAddUp`), and the number of a pass is
one that its moment saw (`PassesAreNumbered`). So a request answered in a stretch passed each key
in it or up to a `Deadline` before, with a number between those at its ends, which gives
`AtMostLimitPerWindow`.

`MockProofs`. `LockInv` says where the lock is by the stages of the calls (`WriterAlone`: one that
writes is alone but for removes before their lock), what is asked for and found, and that
only a remove ends the process; the refinement maps each call to the step at which it
takes effect. `IdsTellOrder` needs that the counter is above all IDs whenever nobody is
between the map and the counter (`IdsBelowNext`). `LockNeverStuck` rests on `HoldersKnown`: a
writer that holds the lock is at its write or waits for readers only, and a reader that holds it is
reading or has leaked it; so whoever waits, waits for one that can go on.
`LeakFreezesMaps` is the other half: a reader that has returned never unlocks, so no
writer gets past the drain, in which nothing is written yet.

`ClientProofs`. The server's steps under the client are steps of `Lists`, so `ListsInv` holds
and with it `LookupSeesAdds`. The user's side adds the order: a command is typed when the one
before is answered (`TypedInOrder`), and a write reported as done was settled before
the request of a later command began (`DoneBeforeLater`). `ReadsOwnWrites` then follows at the
moment the answer is read, and nothing changes it afterwards.
`ClientImplementsLists` is the theorem that lets the properties of `Lists` be used at all: whatever
the client and the network do, the tables see a behaviour of `Lists`.

Only model-checked: the liveness properties (`EveryRequestEnds`, `ServesAgain`,
`SignalEnds`, `CallsEndUnlessLeaked`, `CommandsAreAnswered`, `SignalEndsClient`), as fairness and
ENABLED are beyond the prover. Of three of them the part that is safety is proved: what keeps
decreasing (`WorkIsBounded` for `EveryRequestEnds`, `StopIsBounded` for `SignalEnds`) and who can
move while it is not done (`RestsOnlyWhileServing`, and `LockNeverStuck` for `CallsEndUnlessLeaked`). What
is missing to the liveness is that who can move does, which fairness states.

## 5. Abstractions

* Decoding and encoding of requests, texts of answers and logging are left out. A
  request whose body is unreadable makes no storage call; only `Client` has it.
  `AuthorizationRequest` overwrites the text of an internal error (`handlers.go:83-88`);
  the answer `error` stands for a refusal without a reason.
* An `int64` counter does not overflow within a period, so counters are not wrapped.
* Each call and request is made once; a retry by a client is another call.
* Rows already in the tables when the service starts are not modelled: a run begins with
  empty tables.
* The databases themselves do not lose what they acknowledged.
* The client's texts are a few values; that it puts every argument into lower case
  (`cli.go:57`), logins and passwords too, is outside the models.

Not modelled: the configuration (read once at start into fields; its values are the
CONSTANTS; a period that is not positive makes `time.NewTicker` panic, `app.go:130`), logging,
the logging middleware, helpers and versions (output only), and the tests.

## 6. Plan

Done: the modules, runs and proofs above. What could be added:

1. `Subnets`: `checkIP`, CIDR containment and the exact-match look-up as operators
   checked against a reference definition over a small address space.
2. The measures that `ServesAgain` and the client's liveness rest on, as
   `WorkIsBounded` and `StopIsBounded` are for the others.
3. `Client`, whose server never restarts, above `App`, whose does.
