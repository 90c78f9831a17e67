---------------------------- MODULE MockStorage ----------------------------
(***************************************************************************)
(* The list storage in memory that the tests use in place of PostgreSQL,   *)
(* internal/storage/storageSQLMock/storageSQLMock.go: two maps and a       *)
(* read-write lock, called by any number of goroutines.                    *)
(*                                                                         *)
(* An action is a step between two points where another goroutine can      *)
(* matter: taking or giving up the lock, and each access to a map or a     *)
(* counter.                                                                *)
(***************************************************************************)
EXTENDS Naturals

CONSTANTS
    Calls,      \* calls of the storage, each made at most once
    Subnets,    \* the IP/mask tags
    BadNames    \* list names that are neither of the two

WhiteListName == "whitelist"
BlackListName == "blacklist"
ListNames == {WhiteListName, BlackListName}

ASSUME BadNamesAssumption == BadNames \intersect ListNames = {}

VARIABLES
    entries,    \* entries[l]: the map of list l, pairs of a tag and its ID
    nextId,     \* nextId[l]: idWhite, idBlack
    ask,        \* ask[c]: what call c asks for
    pc,         \* pc[c]: where call c is
    result,     \* result[c]: what it answers, once that is settled
    readers,    \* the calls that hold the lock for reading
    writer,     \* the call that holds the lock for writing, or waits for readers to leave
    dead        \* the process died of a data race

lockVars == <<readers, writer>>
mapVars == <<entries, nextId>>
mockVars == <<entries, nextId, ask, pc, result, readers, writer, dead>>

NoAsk == [op |-> "none"]
SubnetAsks == [op : {"add", "remove", "isin"}, list : ListNames \union BadNames, subnet : Subnets]
Asks == SubnetAsks \union [op : {"getall"}, list : ListNames \union BadNames]

Stages == {"idle", "rlock", "read", "peek", "lock", "drain", "write", "count", "done"}

MockInit ==
    /\ entries = [l \in ListNames |-> {}]
    /\ nextId = [l \in ListNames |-> 0]
    /\ ask = [c \in Calls |-> NoAsk]
    /\ pc = [c \in Calls |-> "idle"]
    /\ result = [c \in Calls |-> {}]
    /\ readers = {}
    /\ writer = {}
    /\ dead = FALSE

Tags(l) == {e[1] : e \in entries[l]}

\* Call c is settled with w and goes to stage s.
Settle(c, w, s) ==
    /\ result' = [result EXCEPT ![c] = {w}]
    /\ pc' = [pc EXCEPT ![c] = s]

GoTo(c, s) ==
    /\ pc' = [pc EXCEPT ![c] = s]
    /\ UNCHANGED result

Good(c) == ask[c].list \in ListNames

-----------------------------------------------------------------------------
(* sync.RWMutex: a writer first keeps new readers out, then waits until the
   others have left. *)

\* Mutated form: the lookup does not take the lock.
RLockFree(c) ==
    /\ pc[c] = "rlock"
    /\ GoTo(c, "read")
    /\ UNCHANGED <<mapVars, ask, lockVars, dead>>

RLock(c) ==
    /\ pc[c] = "rlock"
    /\ writer = {}
    /\ readers' = readers \union {c}
    /\ GoTo(c, "read")
    /\ UNCHANGED <<mapVars, ask, writer, dead>>

\* Mutated form: the writer does not take the lock.
LockFree(c) ==
    /\ pc[c] = "lock"
    /\ GoTo(c, "write")
    /\ UNCHANGED <<mapVars, ask, lockVars, dead>>

Lock(c) ==
    /\ pc[c] = "lock"
    /\ writer = {}
    /\ writer' = {c}
    /\ GoTo(c, "drain")
    /\ UNCHANGED <<mapVars, ask, readers, dead>>

ReadersLeft(c) ==
    /\ pc[c] = "drain"
    /\ readers = {}
    /\ GoTo(c, "write")
    /\ UNCHANGED <<mapVars, ask, lockVars, dead>>

-----------------------------------------------------------------------------
(* The operations. *)

\* A call starts: with its context done it fails at once, and a remove looks at
\* the list name first.
FirstStage == [add |-> "lock", remove |-> "peek", isin |-> "rlock", getall |-> "rlock"]

Begin(c, a) ==
    /\ pc[c] = "idle"
    /\ ask' = [ask EXCEPT ![c] = a]
    /\ \/ Settle(c, <<"error">>, "done")
       \/ /\ a.op = "remove" => a.list \in ListNames
          /\ GoTo(c, FirstStage[a.op])
    /\ UNCHANGED <<mapVars, lockVars, dead>>

\* IPAddToList, under the lock: the entry is put under its tag, in place of an
\* older one; then the counter moves on.
Put(c) ==
    /\ pc[c] = "write"
    /\ ask[c].op = "add"
    /\ \/ /\ Good(c)
          /\ LET l == ask[c].list
                 s == ask[c].subnet
             IN  /\ entries' = [entries EXCEPT ![l] = {e \in @ : e[1] # s} \union {<<s, nextId[l]>>}]
                 /\ Settle(c, <<"added", l, s>>, "count")
          /\ UNCHANGED writer
       \/ /\ ~Good(c)
          /\ Settle(c, <<"error">>, "done")
          /\ writer' = {}
          /\ UNCHANGED entries
    /\ UNCHANGED <<nextId, ask, readers, dead>>

\* Mutated form: the counter stays.
CountNot(c) ==
    /\ pc[c] = "count"
    /\ writer' = {}
    /\ GoTo(c, "done")
    /\ UNCHANGED <<entries, nextId, ask, readers, dead>>

Count(c) ==
    /\ pc[c] = "count"
    /\ nextId' = [nextId EXCEPT ![ask[c].list] = @ + 1]
    /\ writer' = {}
    /\ GoTo(c, "done")
    /\ UNCHANGED <<entries, ask, readers, dead>>

\* IPIsInList, under the read lock.
Look(c) ==
    /\ pc[c] = "read"
    /\ ask[c].op = "isin"
    /\ \/ /\ Good(c)
          /\ LET l == ask[c].list
                 s == ask[c].subnet
             IN  Settle(c, <<IF s \in Tags(l) THEN "yes" ELSE "no", l, s>>, "done")
       \/ ~Good(c) /\ Settle(c, <<"error">>, "done")
    /\ readers' = readers \ {c}
    /\ UNCHANGED <<mapVars, ask, writer, dead>>

\* IPGetAllFromList: the list sorted by ID.  A bad list name returns with the
\* read lock held.
GetAll(c) ==
    /\ pc[c] = "read"
    /\ ask[c].op = "getall"
    /\ \/ /\ Good(c)
          /\ Settle(c, <<"all", ask[c].list, Tags(ask[c].list)>>, "done")
          /\ readers' = readers \ {c}
       \/ /\ ~Good(c)
          /\ Settle(c, <<"error">>, "done")
          /\ UNCHANGED readers
    /\ UNCHANGED <<mapVars, ask, writer, dead>>

\* IPRemoveFromList: the map is read before the lock is taken.
Peek(c) ==
    /\ pc[c] = "peek"
    /\ LET l == ask[c].list
           s == ask[c].subnet
       IN  \/ s \in Tags(l) /\ GoTo(c, "lock")
           \/ s \notin Tags(l) /\ Settle(c, <<"norecord", l, s>>, "done")
    /\ UNCHANGED <<mapVars, ask, lockVars, dead>>

\* Mutated forms: the entry of the other list is deleted; the lock is kept.
DeleteOther(c) ==
    /\ pc[c] = "write"
    /\ ask[c].op = "remove"
    /\ LET l == ask[c].list
           s == ask[c].subnet
       IN  /\ entries' = [k \in ListNames |-> IF k = l THEN entries[k]
                                              ELSE {e \in entries[k] : e[1] # s}]
           /\ Settle(c, <<"removed", l, s>>, "done")
    /\ writer' = {}
    /\ UNCHANGED <<nextId, ask, readers, dead>>

DeleteKeepsLock(c) ==
    /\ pc[c] = "write"
    /\ ask[c].op = "remove"
    /\ LET l == ask[c].list
           s == ask[c].subnet
       IN  /\ entries' = [entries EXCEPT ![l] = {e \in @ : e[1] # s}]
           /\ Settle(c, <<"removed", l, s>>, "done")
    /\ UNCHANGED <<nextId, ask, lockVars, dead>>

\* Then the entry is deleted, if it is still there, and success is reported.
Delete(c) ==
    /\ pc[c] = "write"
    /\ ask[c].op = "remove"
    /\ LET l == ask[c].list
           s == ask[c].subnet
       IN  /\ entries' = [entries EXCEPT ![l] = {e \in @ : e[1] # s}]
           /\ Settle(c, <<"removed", l, s>>, "done")
    /\ writer' = {}
    /\ UNCHANGED <<nextId, ask, readers, dead>>

Step(c) ==
    \/ RLock(c) \/ Lock(c) \/ ReadersLeft(c)
    \/ Put(c) \/ Count(c) \/ Look(c) \/ GetAll(c) \/ Peek(c) \/ Delete(c)

\* Calls c and d are about to access one map, one of them to change it.
Writes(c) == pc[c] = "write" /\ Good(c)
Reads(c) == pc[c] \in {"read", "peek"} /\ Good(c)
Race(c, d) == c # d /\ Writes(c) /\ (Writes(d) \/ Reads(d)) /\ ask[c].list = ask[d].list

\* The Go runtime may notice such a race: "concurrent map read and map write".
\* Otherwise the read sees the map before the write or after it: the few entries
\* of a test never make a map grow, which alone moves entries it already has.
RaceIsFatal ==
    /\ \E c, d \in Calls : Race(c, d)
    /\ dead' = TRUE
    /\ UNCHANGED <<mapVars, ask, pc, result, lockVars>>

MockNext ==
    /\ ~dead
    /\ \/ \E c \in Calls : (\E a \in Asks : Begin(c, a)) \/ Step(c)
       \/ RaceIsFatal

MockSpec == MockInit /\ [][MockNext]_mockVars

\* Every goroutine is scheduled.
FairMockSpec == MockSpec /\ \A c \in Calls : WF_mockVars(~dead /\ Step(c))

-----------------------------------------------------------------------------
(* Properties. *)

\* Type correctness; a call is inside the lock only as the lock says.
MockTypeOK ==
    /\ entries \in [ListNames -> SUBSET (Subnets \X Nat)]
    /\ nextId \in [ListNames -> Nat]
    /\ ask \in [Calls -> Asks \union {NoAsk}]
    /\ pc \in [Calls -> Stages]
    /\ readers \subseteq Calls
    /\ dead \in BOOLEAN
    /\ \A c \in Calls :
        /\ pc[c] \in {"drain", "write", "count"} => writer = {c}
        /\ pc[c] = "read" => c \in readers
        /\ pc[c] = "done" => result[c] # {}

\* Two calls can race for a map only when one of them is a remove that looks
\* at it before it has the lock (storageSQLMock.go:91-98): every other access
\* is under the lock, and writers exclude all others.
OnlyRemovesRace ==
    /\ \A c, d \in Calls : Race(c, d) => pc[d] = "peek"
    /\ dead => \E c \in Calls : ask[c].op = "remove"

\* The IDs of a list are all different, and below the next one, so that the
\* order IPGetAllFromList sorts by is the order of the adds
\* (storageSQLMock.go:47-54, 136-138).
IdsTellOrder ==
    \A l \in ListNames : \A e, f \in entries[l] :
        /\ e[2] = f[2] => e = f
        /\ \/ e[2] < nextId[l]
           \/ \E c \in Calls : pc[c] = "count" /\ result[c] = {<<"added", l, e[1]>>}

\* A call that has returned and still holds the lock for reading.
Leaked == \E c \in readers : pc[c] = "done"

\* The next step of c does not wait for another call.
CanMove(c) ==
    \/ pc[c] \in {"read", "peek", "write", "count"}
    \/ pc[c] \in {"rlock", "lock"} /\ writer = {}
    \/ pc[c] = "drain" /\ readers = {}

\* The calls never all wait for each other: unless the lock has been leaked, one of
\* those in progress can go on, whichever of the early returns the others have left
\* by (storageSQLMock.go:35-141).
LockNeverStuck ==
    ~Leaked /\ (\E c \in Calls : pc[c] \notin {"idle", "done"}) => \E c \in Calls : CanMove(c)

\* One look at all entries of a list with a bad name ends every change for good: no
\* add and no remove takes effect after it, in either list, that of a writer already
\* waiting included (storageSQLMock.go:133).
LeakFreezesMaps == [][Leaked => Leaked' /\ UNCHANGED mapVars]_mockVars

\* Every call ends, unless a look at a list with a bad name has left the lock
\* held, or a race has killed the process (storageSQLMock.go:116-141).
CallsEndUnlessLeaked ==
    \A c \in Calls : pc[c] # "idle" ~> (pc[c] = "done" \/ Leaked \/ dead)

Store == INSTANCE MapStore WITH
    Calls <- Calls, Names <- ListNames, Subnets <- Subnets,
    held <- [l \in ListNames |-> Tags(l)], did <- result

\* The storage keeps the promise of MapStore.tla: each call is one atomic step
\* on sets of subnets, the unlocked read of a remove included.
StoreSpec == Store!Spec
=============================================================================
