------------------------------ MODULE MockProofs ------------------------------
(***************************************************************************)
(* Safety of the storage in memory, for any number of calls, tags and bad  *)
(* list names: its types, where it races, the order of its IDs, and that   *)
(* it keeps the promise of MapStore.                                       *)
(***************************************************************************)
EXTENDS MockStorage, TLAPS

-----------------------------------------------------------------------------
(* The inductive invariant. *)

\* What a call asks for fits the stage it is in.
AskFitsStage ==
    \A c \in Calls :
        /\ pc[c] \in {"rlock", "read"} => ask[c] \in Asks /\ ask[c].op \in {"isin", "getall"}
        /\ pc[c] \in {"peek", "lock", "drain", "write", "count"} =>
               ask[c] \in Asks /\ ask[c].op \in {"add", "remove"}
        /\ pc[c] = "peek" => ask[c].op = "remove"
        /\ pc[c] \in {"peek", "lock", "drain", "write"} /\ ask[c].op = "remove" => Good(c)

\* A call has no result until it is settled; an add then has its counter to move.
ResultFitsStage ==
    \A c \in Calls :
        /\ pc[c] \notin {"count", "done"} => result[c] = {}
        /\ pc[c] = "count" =>
               Good(c) /\ ask[c].op = "add" /\ result[c] = {<<"added", ask[c].list, ask[c].subnet>>}

\* A writer that has waited for the readers is alone.
WriterAlone == \A c \in Calls : pc[c] \in {"write", "count"} => readers = {}

\* The lock is held for writing by a call that is at it, and for reading by calls that
\* are, or have returned without giving it up.
HoldersKnown ==
    /\ writer # {} => \E c \in Calls : writer = {c} /\ pc[c] \in {"drain", "write", "count"}
    /\ \A c \in readers : pc[c] \in {"read", "done"}

\* An ID is below the next one, but for the entry whose add has still to count.
IdsBelowNext ==
    \A l \in ListNames : \A e \in entries[l] :
        \/ e[2] < nextId[l]
        \/ /\ e[2] = nextId[l]
           /\ \E c \in Calls : pc[c] = "count" /\ result[c] = {<<"added", l, e[1]>>}

IdsDiffer == \A l \in ListNames : \A e, f \in entries[l] : e[2] = f[2] => e = f

DeadByRemove == dead => \E c \in Calls : ask[c].op = "remove"

ResultIsFunction == result = [c \in Calls |-> result[c]]

LockInv == MockTypeOK /\ ResultIsFunction /\ AskFitsStage /\ ResultFitsStage
           /\ WriterAlone /\ HoldersKnown /\ DeadByRemove

MockInv == LockInv /\ IdsBelowNext /\ IdsDiffer

\* The shapes of the requests.
LEMMA AskShape ==
  ASSUME NEW a \in Asks
  PROVE  /\ a.op \in {"add", "remove", "isin", "getall"}
         /\ a.list \in ListNames \union BadNames
         /\ a.op # "getall" => a.subnet \in Subnets
  BY DEF Asks, SubnetAsks

LEMMA FirstStageOf ==
  ASSUME NEW a \in Asks
  PROVE  /\ a.op = "add" => FirstStage[a.op] = "lock"
         /\ a.op = "remove" => FirstStage[a.op] = "peek"
         /\ a.op \in {"isin", "getall"} => FirstStage[a.op] = "rlock"
  BY DEF FirstStage

\* Only a remove that has not yet the lock meets a writer at a map.
LEMMA RaceIsPeek ==
  ASSUME LockInv, NEW c \in Calls, NEW d \in Calls, Race(c, d)
  PROVE  pc[d] = "peek"
  <1>1. writer = {c} /\ readers = {} /\ c # d
    BY DEF LockInv, MockTypeOK, WriterAlone, Race, Writes
  <1>2. pc[d] # "write"
    BY <1>1 DEF LockInv, MockTypeOK
  <1>3. pc[d] # "read"
    BY <1>1 DEF LockInv, MockTypeOK
  <1> QED BY <1>2, <1>3 DEF Race, Writes, Reads

-----------------------------------------------------------------------------
(* One lemma per action: the types, the lock and the stages. *)

\* What an action does to call c alone leaves the other calls as they are.
OthersStay(c) ==
    \A d \in Calls \ {c} : pc'[d] = pc[d] /\ result'[d] = result[d] /\ ask'[d] = ask[d]

LEMMA BeginLock ==
  ASSUME LockInv, ~dead, NEW c \in Calls, NEW a \in Asks, Begin(c, a)
  PROVE  LockInv'
  <1> USE DEF LockInv
  <1>1. /\ FirstStage[a.op] \in {"lock", "peek", "rlock"}
        /\ a.op \in {"add", "remove", "isin", "getall"}
    BY AskShape, FirstStageOf
  <1>2. pc[c] = "idle" /\ UNCHANGED <<entries, nextId, readers, writer, dead>>
    BY DEF Begin, mapVars, lockVars
  <1>3. /\ ask' = [ask EXCEPT ![c] = a]
        /\ \/ pc' = [pc EXCEPT ![c] = "done"] /\ result' = [result EXCEPT ![c] = {<<"error">>}]
           \/ /\ pc' = [pc EXCEPT ![c] = FirstStage[a.op]] /\ result' = result
              /\ a.op = "remove" => a.list \in ListNames
    BY DEF Begin, Settle, GoTo
  <1>4. OthersStay(c) /\ ask'[c] = a /\ ResultIsFunction'
    BY <1>3 DEF OthersStay, MockTypeOK, ResultIsFunction
  <1>5. \/ pc'[c] = "done" /\ result'[c] # {}
        \/ /\ pc'[c] = FirstStage[a.op] /\ result'[c] = {}
           /\ a.op = "remove" => a.list \in ListNames
    <2>1. result[c] = {} /\ c \in DOMAIN result /\ c \in DOMAIN pc
      BY <1>2 DEF MockTypeOK, ResultIsFunction, ResultFitsStage
    <2> QED BY <1>3, <2>1
  <1>6. ask' \in [Calls -> Asks \union {NoAsk}] /\ pc' \in [Calls -> Stages]
    BY <1>1, <1>3 DEF MockTypeOK, Stages
  <1>7. MockTypeOK'
    BY <1>1, <1>2, <1>4, <1>5, <1>6 DEF MockTypeOK, OthersStay
  <1>8. AskFitsStage'
    BY <1>1, <1>4, <1>5, FirstStageOf DEF AskFitsStage, OthersStay, Good
  <1>9. ResultFitsStage' /\ WriterAlone'
    BY <1>1, <1>2, <1>4, <1>5 DEF ResultFitsStage, WriterAlone, OthersStay, Good
  <1>10. DeadByRemove'
    BY <1>2 DEF DeadByRemove
  <1>11. HoldersKnown'
    BY <1>2, <1>4 DEF HoldersKnown, OthersStay, MockTypeOK
  <1> QED BY <1>4, <1>7, <1>8, <1>9, <1>10, <1>11

\* The two ways a call moves: to a stage with a result, or just to a stage.
LEMMA SettleEffect ==
  ASSUME LockInv, NEW c \in Calls, NEW w, NEW s \in Stages, Settle(c, w, s), ask' = ask
  PROVE  /\ pc' \in [Calls -> Stages] /\ ResultIsFunction' /\ OthersStay(c)
         /\ pc'[c] = s /\ result'[c] = {w}
  BY DEF Settle, OthersStay, LockInv, MockTypeOK, ResultIsFunction

LEMMA GoToEffect ==
  ASSUME LockInv, NEW c \in Calls, NEW s \in Stages, GoTo(c, s), ask' = ask
  PROVE  /\ pc' \in [Calls -> Stages] /\ ResultIsFunction' /\ OthersStay(c)
         /\ pc'[c] = s /\ result'[c] = result[c]
  BY DEF GoTo, OthersStay, LockInv, MockTypeOK, ResultIsFunction

\* A step of call c preserves the invariant when its own new stage fits the lock,
\* its request and its result, and it leaves the lock of the other calls alone.
LEMMA CallStepLock ==
  ASSUME LockInv, ~dead, UNCHANGED <<ask, dead>>, NEW c \in Calls,
         entries' \in [ListNames -> SUBSET (Subnets \X Nat)], nextId' \in [ListNames -> Nat],
         pc' \in [Calls -> Stages], ResultIsFunction', OthersStay(c),
         readers' \subseteq readers \union {c}, readers \subseteq readers' \union {c},
         writer' \in {writer, {}, {c}}, writer' = writer \/ writer = {} \/ writer = {c},
         readers' \subseteq readers \/ writer = {},
         pc'[c] \in {"drain", "write", "count"} => writer' = {c},
         pc'[c] \in {"write", "count"} => readers' = {},
         pc'[c] = "read" => c \in readers',
         writer' = {c} => pc'[c] \in {"drain", "write", "count"},
         c \in readers' => pc'[c] \in {"read", "done"},
         pc'[c] = "done" => result'[c] # {},
         pc'[c] \in {"rlock", "read"} => ask[c] \in Asks /\ ask[c].op \in {"isin", "getall"},
         pc'[c] \in {"peek", "lock", "drain", "write", "count"} =>
             ask[c] \in Asks /\ ask[c].op \in {"add", "remove"},
         pc'[c] = "peek" => ask[c].op = "remove",
         pc'[c] \in {"peek", "lock", "drain", "write"} /\ ask[c].op = "remove" => Good(c),
         pc'[c] \notin {"count", "done"} => result'[c] = {},
         pc'[c] = "count" =>
             Good(c) /\ ask[c].op = "add" /\ result'[c] = {<<"added", ask[c].list, ask[c].subnet>>}
  PROVE  LockInv'
  <1> USE DEF LockInv, OthersStay
  <1>1. MockTypeOK'
    BY DEF MockTypeOK
  <1>2. AskFitsStage'
    BY DEF AskFitsStage, Good
  <1>3. ResultFitsStage'
    BY DEF ResultFitsStage, Good
  <1>4. WriterAlone'
    BY DEF WriterAlone, MockTypeOK
  <1>5. HoldersKnown'
    <2>1. ASSUME writer' # {}
          PROVE  \E d \in Calls : writer' = {d} /\ pc'[d] \in {"drain", "write", "count"}
      <3>1. CASE writer' = {c}
        BY <3>1
      <3>2. CASE writer' = writer /\ writer # {c}
        BY <2>1, <3>2 DEF HoldersKnown
      <3> QED BY <2>1, <3>1, <3>2
    <2>2. ASSUME NEW d \in readers' PROVE pc'[d] \in {"read", "done"}
      BY <2>2 DEF HoldersKnown, MockTypeOK
    <2> QED BY <2>1, <2>2 DEF HoldersKnown
  <1>6. DeadByRemove'
    BY DEF DeadByRemove
  <1> QED BY <1>1, <1>2, <1>3, <1>4, <1>5, <1>6

LEMMA RLockLock == ASSUME LockInv, ~dead, NEW c \in Calls, RLock(c) PROVE LockInv'
  <1> USE DEF RLock, LockInv, MockTypeOK, mapVars, Stages
  <1>1. GoTo(c, "read") /\ "read" \in Stages /\ ask' = ask
    OBVIOUS
  <1> QED BY <1>1, GoToEffect, CallStepLock DEF AskFitsStage, ResultFitsStage, HoldersKnown

LEMMA LockLock == ASSUME LockInv, ~dead, NEW c \in Calls, Lock(c) PROVE LockInv'
  <1> USE DEF Lock, LockInv, MockTypeOK, mapVars, Stages
  <1>1. GoTo(c, "drain") /\ "drain" \in Stages /\ ask' = ask
    OBVIOUS
  <1> QED BY <1>1, GoToEffect, CallStepLock DEF AskFitsStage, ResultFitsStage, HoldersKnown

LEMMA ReadersLeftLock == ASSUME LockInv, ~dead, NEW c \in Calls, ReadersLeft(c) PROVE LockInv'
  <1> USE DEF ReadersLeft, LockInv, MockTypeOK, mapVars, lockVars, Stages
  <1>1. GoTo(c, "write") /\ "write" \in Stages /\ ask' = ask
    OBVIOUS
  <1> QED BY <1>1, GoToEffect, CallStepLock DEF AskFitsStage, ResultFitsStage, HoldersKnown

LEMMA CountLock == ASSUME LockInv, ~dead, NEW c \in Calls, Count(c) PROVE LockInv'
  <1> USE DEF Count, LockInv, MockTypeOK, Stages
  <1>1. GoTo(c, "done") /\ "done" \in Stages /\ ask' = ask
    OBVIOUS
  <1>2. /\ pc' \in [Calls -> Stages] /\ ResultIsFunction' /\ OthersStay(c)
        /\ pc'[c] = "done" /\ result'[c] = result[c]
    BY <1>1, GoToEffect
  <1>3. result[c] # {} /\ writer = {c} /\ ask[c].list \in ListNames
    BY DEF ResultFitsStage, Good
  <1>4. nextId' \in [ListNames -> Nat]
    BY <1>3
  <1> QED BY <1>1, <1>2, <1>3, <1>4, CallStepLock

\* A call that settles at once and has given up what it held.
LEMMA SettleDoneLock ==
  ASSUME LockInv, ~dead, NEW c \in Calls, NEW w, Settle(c, w, "done"),
         UNCHANGED <<nextId, ask, dead>>,
         entries' \in [ListNames -> SUBSET (Subnets \X Nat)],
         readers' = readers \/ readers' = readers \ {c},
         \/ writer' = {} /\ writer = {c}
         \/ writer' = writer /\ pc[c] \notin {"drain", "write", "count"}
  PROVE  LockInv'
  <1>0. writer' # {c}
    BY DEF LockInv, HoldersKnown
  <1>1. "done" \in Stages /\ {w} # {} /\ readers' \subseteq readers
    BY DEF Stages
  <1>2. /\ pc' \in [Calls -> Stages] /\ ResultIsFunction' /\ OthersStay(c)
        /\ pc'[c] = "done" /\ result'[c] = {w}
    BY <1>1, SettleEffect
  <1> QED BY <1>0, <1>1, <1>2, CallStepLock DEF LockInv, MockTypeOK

LEMMA PutLock == ASSUME LockInv, ~dead, NEW c \in Calls, Put(c) PROVE LockInv'
  <1> USE DEF LockInv
  <1>1. /\ pc[c] = "write" /\ ask[c].op = "add" /\ ask[c] \in Asks
        /\ UNCHANGED <<nextId, ask, readers, dead>> /\ writer = {c} /\ readers = {}
    BY DEF Put, AskFitsStage, MockTypeOK, WriterAlone
  <1>2. CASE Good(c)
    <2> DEFINE l == ask[c].list  s == ask[c].subnet
    <2>1. /\ entries' = [entries EXCEPT ![l] = {e \in @ : e[1] # s} \union {<<s, nextId[l]>>}]
          /\ Settle(c, <<"added", l, s>>, "count") /\ writer' = writer
      BY <1>2 DEF Put
    <2>2. s \in Subnets /\ l \in ListNames
      BY <1>1, <1>2, AskShape DEF Good
    <2> HIDE DEF l, s
    <2>3. entries' \in [ListNames -> SUBSET (Subnets \X Nat)]
      BY <2>1, <2>2 DEF MockTypeOK
    <2>4. "count" \in Stages
      BY DEF Stages
    <2>5. /\ pc' \in [Calls -> Stages] /\ ResultIsFunction' /\ OthersStay(c)
          /\ pc'[c] = "count" /\ result'[c] = {<<"added", l, s>>}
      BY <1>1, <2>1, <2>4, SettleEffect
    <2> QED BY <1>1, <1>2, <2>1, <2>3, <2>5, CallStepLock DEF MockTypeOK, l, s
  <1>3. CASE ~Good(c)
    <2>1. Settle(c, <<"error">>, "done") /\ writer' = {} /\ entries' = entries
      BY <1>3 DEF Put
    <2> QED BY <1>1, <2>1, SettleDoneLock DEF MockTypeOK
  <1> QED BY <1>2, <1>3

LEMMA LookLock == ASSUME LockInv, ~dead, NEW c \in Calls, Look(c) PROVE LockInv'
  BY SettleDoneLock DEF Look, LockInv, MockTypeOK, mapVars

LEMMA GetAllLock == ASSUME LockInv, ~dead, NEW c \in Calls, GetAll(c) PROVE LockInv'
  BY SettleDoneLock DEF GetAll, LockInv, MockTypeOK, mapVars

LEMMA PeekLock == ASSUME LockInv, ~dead, NEW c \in Calls, Peek(c) PROVE LockInv'
  <1> USE DEF Peek, LockInv, MockTypeOK, mapVars, lockVars
  <1>1. CASE GoTo(c, "lock")
    <2>1. "lock" \in Stages
      BY DEF Stages
    <2>2. writer # {c} /\ c \notin readers
      BY DEF HoldersKnown
    <2> QED BY <1>1, <2>1, <2>2, GoToEffect, CallStepLock DEF AskFitsStage, ResultFitsStage
  <1>2. CASE Settle(c, <<"norecord", ask[c].list, ask[c].subnet>>, "done")
    BY <1>2, SettleDoneLock
  <1> QED BY <1>1, <1>2

LEMMA DeleteLock == ASSUME LockInv, ~dead, NEW c \in Calls, Delete(c) PROVE LockInv'
  <1>1. entries' \in [ListNames -> SUBSET (Subnets \X Nat)] /\ writer = {c}
    BY DEF Delete, LockInv, MockTypeOK
  <1> QED BY <1>1, SettleDoneLock DEF Delete, LockInv, MockTypeOK

LEMMA RaceIsFatalLock == ASSUME LockInv, ~dead, RaceIsFatal PROVE LockInv'
  <1>1. PICK c, d \in Calls : Race(c, d)
    BY DEF RaceIsFatal
  <1>2. ask[d].op = "remove"
    BY <1>1, RaceIsPeek DEF LockInv, AskFitsStage
  <1> USE DEF RaceIsFatal, LockInv, mapVars, lockVars
  <1>3. MockTypeOK' /\ ResultIsFunction'
    BY DEF MockTypeOK, ResultIsFunction
  <1>4. AskFitsStage' /\ ResultFitsStage' /\ WriterAlone' /\ HoldersKnown'
    BY DEF AskFitsStage, ResultFitsStage, WriterAlone, HoldersKnown, Good
  <1> QED BY <1>2, <1>3, <1>4 DEF DeadByRemove

\* Each step of a call preserves it.
LEMMA StepLock == ASSUME LockInv, ~dead, NEW c \in Calls, Step(c) PROVE LockInv'
  BY RLockLock, LockLock, ReadersLeftLock, PutLock, CountLock, LookLock, GetAllLock, PeekLock,
     DeleteLock DEF Step

-----------------------------------------------------------------------------
(* The IDs. *)

IdsInv == IdsBelowNext /\ IdsDiffer

\* A step that neither adds an entry nor moves a counter keeps the order.
LEMMA IdsKept ==
  ASSUME LockInv, IdsInv, nextId' = nextId, \A l \in ListNames : entries'[l] \subseteq entries[l],
         NEW c \in Calls, pc[c] # "count", OthersStay(c)
  PROVE  IdsInv'
  <1>1. IdsBelowNext'
    BY DEF IdsInv, IdsBelowNext, OthersStay
  <1>2. IdsDiffer'
    BY DEF IdsInv, IdsDiffer
  <1> QED BY <1>1, <1>2 DEF IdsInv

\* While c writes, no other call has an entry to count: every ID is below the next.
LEMMA NoneToCount ==
  ASSUME LockInv, IdsInv, NEW c \in Calls, pc[c] = "write"
  PROVE  \A l \in ListNames : \A e \in entries[l] : e[2] < nextId[l]
  <1>1. \A d \in Calls : pc[d] # "count"
    BY DEF LockInv, MockTypeOK
  <1> QED BY <1>1 DEF IdsInv, IdsBelowNext

LEMMA PutIds == ASSUME LockInv, IdsInv, NEW c \in Calls, Put(c) PROVE IdsInv'
  <1> DEFINE l == ask[c].list  s == ask[c].subnet
  <1>1. pc[c] = "write" /\ UNCHANGED <<nextId, ask>>
    BY DEF Put
  <1>2. CASE ~Good(c)
    <2>1. Settle(c, <<"error">>, "done") /\ entries' = entries
      BY <1>2 DEF Put
    <2>2. OthersStay(c)
      BY <1>1, <2>1 DEF Settle, OthersStay, LockInv, MockTypeOK, ResultIsFunction
    <2> QED BY <1>1, <2>1, <2>2, IdsKept
  <1>3. CASE Good(c)
    <2>1. /\ entries' = [entries EXCEPT ![l] = {e \in @ : e[1] # s} \union {<<s, nextId[l]>>}]
          /\ Settle(c, <<"added", l, s>>, "count")
      BY <1>3 DEF Put
    <2>2. l \in ListNames
      BY <1>3 DEF Good
    <2> HIDE DEF l, s
    <2>3. pc'[c] = "count" /\ result'[c] = {<<"added", l, s>>}
      <3>1. "count" \in Stages
        BY DEF Stages
      <3> QED BY <1>1, <2>1, <3>1, SettleEffect
    <2>4. /\ entries'[l] = {e \in entries[l] : e[1] # s} \union {<<s, nextId[l]>>}
          /\ \A k \in ListNames \ {l} : entries'[k] = entries[k]
      BY <2>1, <2>2 DEF LockInv, MockTypeOK
    <2>5. \A k \in ListNames : \A e \in entries[k] : e[2] < nextId[k] /\ e[2] \in Nat
      BY <1>1, NoneToCount DEF LockInv, MockTypeOK
    <2>6. nextId[l] \in Nat
      BY <2>2 DEF LockInv, MockTypeOK
    <2>7. IdsBelowNext'
      BY <1>1, <2>2, <2>3, <2>4, <2>5 DEF IdsBelowNext
    <2>8. IdsDiffer'
      BY <2>2, <2>4, <2>5, <2>6 DEF IdsInv, IdsDiffer
    <2> QED BY <2>7, <2>8 DEF IdsInv
  <1> QED BY <1>2, <1>3

LEMMA SameResultSameList ==
  ASSUME NEW k, NEW t, NEW l, NEW s, {<<"added", k, t>>} = {<<"added", l, s>>}
  PROVE  k = l
  <1>1. <<"added", k, t>> = <<"added", l, s>>
    OBVIOUS
  <1> QED BY <1>1

LEMMA CountIds == ASSUME LockInv, IdsInv, NEW c \in Calls, Count(c) PROVE IdsInv'
  <1> DEFINE l == ask[c].list  s == ask[c].subnet
  <1>1. /\ pc[c] = "count" /\ UNCHANGED <<entries, ask>>
        /\ nextId' = [nextId EXCEPT ![l] = @ + 1]
    BY DEF Count
  <1>2. l \in ListNames /\ result[c] = {<<"added", l, s>>}
    BY <1>1 DEF LockInv, ResultFitsStage, Good
  <1>3. \A d \in Calls : pc[d] = "count" => d = c
    BY <1>1 DEF LockInv, MockTypeOK
  <1> HIDE DEF l, s
  <1>4. \A k \in ListNames : \A e \in entries[k] : e[2] \in Nat /\ nextId[k] \in Nat
    BY DEF LockInv, MockTypeOK
  <1>5. nextId'[l] = nextId[l] + 1 /\ \A k \in ListNames \ {l} : nextId'[k] = nextId[k]
    BY <1>1, <1>2 DEF LockInv, MockTypeOK
  <1>6. \A k \in ListNames : \A e \in entries[k] : e[2] < nextId[k] \/ (e[2] = nextId[k] /\ k = l)
    <2> SUFFICES ASSUME NEW k \in ListNames, NEW e \in entries[k], ~(e[2] < nextId[k])
                 PROVE  e[2] = nextId[k] /\ k = l
      OBVIOUS
    <2>1. e[2] = nextId[k] /\ result[c] = {<<"added", k, e[1]>>}
      BY <1>3 DEF IdsInv, IdsBelowNext
    <2> QED BY <1>2, <2>1, SameResultSameList
  <1>7. IdsBelowNext'
    BY <1>1, <1>2, <1>4, <1>5, <1>6 DEF IdsBelowNext
  <1>8. IdsDiffer'
    BY <1>1 DEF IdsInv, IdsDiffer
  <1> QED BY <1>7, <1>8 DEF IdsInv

\* The other steps of a call.
LEMMA OtherIds ==
  ASSUME LockInv, IdsInv, NEW c \in Calls,
         (\E a \in Asks : Begin(c, a)) \/ RLock(c) \/ Lock(c) \/ ReadersLeft(c)
             \/ Look(c) \/ GetAll(c) \/ Peek(c) \/ Delete(c)
  PROVE  IdsInv'
  <1>1. pc[c] # "count" /\ nextId' = nextId
    BY DEF Begin, RLock, Lock, ReadersLeft, Look, GetAll, Peek, Delete, mapVars
  <1>2. OthersStay(c)
    BY DEF Begin, RLock, Lock, ReadersLeft, Look, GetAll, Peek, Delete, OthersStay, Settle, GoTo,
           LockInv, MockTypeOK, ResultIsFunction
  <1>3. \A l \in ListNames : entries'[l] \subseteq entries[l]
    BY DEF Begin, RLock, Lock, ReadersLeft, Look, GetAll, Peek, Delete, mapVars, LockInv, MockTypeOK
  <1> QED BY <1>1, <1>2, <1>3, IdsKept

-----------------------------------------------------------------------------
(* The invariant and its theorems. *)

LEMMA MockInvariant == MockSpec => []MockInv
  <1>1. MockInit => MockInv
    <2> SUFFICES ASSUME MockInit PROVE MockInv
      OBVIOUS
    <2> USE DEF MockInit
    <2>1. /\ \A c \in Calls : pc[c] = "idle" /\ result[c] = {}
          /\ \A l \in ListNames : entries[l] = {}
      OBVIOUS
    <2>2. MockTypeOK
      BY <2>1 DEF MockTypeOK, Stages
    <2>3. ResultIsFunction
      BY <2>1 DEF ResultIsFunction
    <2>4. AskFitsStage /\ ResultFitsStage /\ WriterAlone /\ HoldersKnown
      BY <2>1 DEF AskFitsStage, ResultFitsStage, WriterAlone, HoldersKnown
    <2>5. DeadByRemove /\ IdsBelowNext /\ IdsDiffer
      BY <2>1 DEF DeadByRemove, IdsBelowNext, IdsDiffer
    <2> QED BY <2>2, <2>3, <2>4, <2>5 DEF MockInv, LockInv
  <1>2. MockInv /\ [MockNext]_mockVars => MockInv'
    <2> SUFFICES ASSUME MockInv, [MockNext]_mockVars PROVE MockInv'
      OBVIOUS
    <2> USE DEF MockInv, IdsInv
    <2>1. CASE ~dead /\ \E c \in Calls, a \in Asks : Begin(c, a)
      BY <2>1, BeginLock, OtherIds
    <2>2. CASE ~dead /\ \E c \in Calls : Step(c)
      BY <2>2, StepLock, PutIds, CountIds, OtherIds DEF Step
    <2>3. CASE ~dead /\ RaceIsFatal
      <3>1. IdsInv'
        BY <2>3 DEF RaceIsFatal, mapVars, IdsBelowNext, IdsDiffer
      <3> QED BY <2>3, <3>1, RaceIsFatalLock
    <2>4. CASE UNCHANGED mockVars
      BY <2>4 DEF mockVars, LockInv, MockTypeOK, ResultIsFunction, AskFitsStage, ResultFitsStage,
                  WriterAlone, HoldersKnown, DeadByRemove, IdsBelowNext, IdsDiffer, Good
    <2> QED BY <2>1, <2>2, <2>3, <2>4 DEF MockNext
  <1> QED BY <1>1, <1>2, PTL DEF MockSpec

\* The types hold, and a call is inside the lock only as the lock says.
THEOREM MockTypeCorrect == MockSpec => []MockTypeOK
  <1>1. MockInv => MockTypeOK
    BY DEF MockInv, LockInv
  <1> QED BY <1>1, MockInvariant, PTL

\* The one data race of the storage is the look of IPRemoveFromList at the map
\* before it has the lock, and a process that dies of a race has a remove to blame
\* (storageSQLMock.go:91-98).
THEOREM OnlyRemovesRaceTheorem == MockSpec => []OnlyRemovesRace
  <1>1. MockInv => OnlyRemovesRace
    BY RaceIsPeek DEF MockInv, LockInv, DeadByRemove, OnlyRemovesRace
  <1> QED BY <1>1, MockInvariant, PTL

\* However the calls interleave, the IDs of a list are different and in the order
\* of the adds (storageSQLMock.go:47-54, 136-138).
THEOREM IdsTellOrderTheorem == MockSpec => []IdsTellOrder
  <1>1. MockInv => IdsTellOrder
    BY DEF MockInv, IdsBelowNext, IdsDiffer, IdsTellOrder
  <1> QED BY <1>1, MockInvariant, PTL

\* The calls never all wait for each other, unless the lock has been leaked: a call
\* that waits does so for one that holds the lock, and that one can go on
\* (storageSQLMock.go:35-141).
THEOREM LockNeverStuckTheorem == MockSpec => []LockNeverStuck
  <1>1. ASSUME MockInv PROVE LockNeverStuck
    <2> USE <1>1 DEF MockInv, LockInv
    <2> SUFFICES ASSUME ~Leaked, NEW c \in Calls, pc[c] \notin {"idle", "done"}
                 PROVE  \E d \in Calls : CanMove(d)
      BY DEF LockNeverStuck
    <2>1. CASE writer = {}
      <3>1. pc[c] \in {"rlock", "read", "peek", "lock", "write", "count"}
        BY <2>1 DEF MockTypeOK, Stages
      <3> QED BY <2>1, <3>1 DEF CanMove
    <2>2. CASE writer # {}
      <3>1. PICK d \in Calls : writer = {d} /\ pc[d] \in {"drain", "write", "count"}
        BY <2>2 DEF HoldersKnown
      <3>2. CASE pc[d] # "drain" \/ readers = {}
        BY <3>1, <3>2 DEF CanMove
      <3>3. CASE readers # {}
        <4>1. PICK e \in readers : pc[e] \in {"read", "done"}
          BY <3>3 DEF HoldersKnown
        <4>2. pc[e] = "read" /\ e \in Calls
          BY <4>1 DEF Leaked, MockTypeOK
        <4> QED BY <4>2 DEF CanMove
      <3> QED BY <3>2, <3>3
    <2> QED BY <2>1, <2>2
  <1> QED BY <1>1, MockInvariant, PTL

\* After one look at a list with a bad name no add and no remove takes effect any more
\* (storageSQLMock.go:133): a writer waits for all readers, and this one stays.
THEOREM LeakFreezesMapsTheorem == MockSpec => LeakFreezesMaps
  <1> DEFINE A == Leaked => Leaked' /\ UNCHANGED mapVars
  <1>1. ASSUME MockInv, [MockNext]_mockVars PROVE A
    <2> SUFFICES ASSUME NEW e \in readers, pc[e] = "done"
                 PROVE  e \in readers' /\ pc'[e] = "done" /\ UNCHANGED mapVars
      BY DEF Leaked
    <2> USE <1>1 DEF MockInv, LockInv, MockTypeOK
    <2>1. \A c \in Calls : pc[c] \notin {"write", "count"}
      BY DEF WriterAlone
    <2>2. ASSUME NEW c \in Calls, NEW a \in Asks, Begin(c, a)
          PROVE  e \in readers' /\ pc'[e] = "done" /\ UNCHANGED mapVars
      BY <2>2 DEF Begin, Settle, GoTo, lockVars
    <2>3. ASSUME NEW c \in Calls, RLock(c) \/ Lock(c) \/ ReadersLeft(c) \/ Peek(c)
          PROVE  e \in readers' /\ pc'[e] = "done" /\ UNCHANGED mapVars
      BY <2>3 DEF RLock, Lock, ReadersLeft, Peek, Settle, GoTo, lockVars
    <2>4. ASSUME NEW c \in Calls, Look(c) \/ GetAll(c)
          PROVE  e \in readers' /\ pc'[e] = "done" /\ UNCHANGED mapVars
      BY <2>4 DEF Look, GetAll, Settle
    <2>5. ASSUME NEW c \in Calls, Put(c) \/ Count(c) \/ Delete(c) PROVE FALSE
      BY <2>1, <2>5 DEF Put, Count, Delete
    <2>6. CASE RaceIsFatal \/ UNCHANGED mockVars
      BY <2>6 DEF RaceIsFatal, lockVars, mapVars, mockVars
    <2> QED BY <2>2, <2>3, <2>4, <2>5, <2>6 DEF MockNext, Step
  <1>2. MockInv /\ [MockNext]_mockVars => [A]_mockVars
    BY <1>1
  <1> QED BY <1>2, MockInvariant, PTL DEF MockSpec, LeakFreezesMaps

-----------------------------------------------------------------------------
(* The storage keeps the promise of MapStore. *)

\* The mapped sets of subnets.
Held == [l \in ListNames |-> Tags(l)]

LEMMA SameEntriesSameHeld == ASSUME entries' = entries PROVE Held' = Held
  BY DEF Held, Tags

\* A call settles once: that is the step its caller sees.
LEMMA SettleIsDo ==
  ASSUME LockInv, NEW c \in Calls, pc[c] \notin {"count", "done"}, NEW w, NEW s, Settle(c, w, s)
  PROVE  Store!Do(c, w)
  BY DEF LockInv, ResultFitsStage, Settle, Store!Do

\* A step that settles nothing and leaves the maps alone is not seen.
LEMMA HiddenStep == ASSUME UNCHANGED <<entries, result>> PROVE UNCHANGED Store!vars
  BY SameEntriesSameHeld DEF Store!vars, Held

\* A call that fails.
LEMMA FailStep ==
  ASSUME LockInv, NEW c \in Calls, pc[c] \notin {"count", "done"}, NEW s,
         Settle(c, <<"error">>, s), entries' = entries
  PROVE  Store!Next
  BY SettleIsDo, SameEntriesSameHeld DEF Store!Next, Store!Fail, Held

LEMMA PutStep == ASSUME LockInv, NEW c \in Calls, Put(c) PROVE Store!Next
  <1> DEFINE l == ask[c].list  s == ask[c].subnet
  <1>1. pc[c] = "write" /\ ask[c].op = "add" /\ ask[c] \in Asks
    BY DEF Put, LockInv, AskFitsStage
  <1>2. CASE ~Good(c)
    BY <1>1, <1>2, FailStep DEF Put
  <1>3. CASE Good(c)
    <2>1. l \in ListNames /\ s \in Subnets
      BY <1>1, <1>3, AskShape DEF Good
    <2>2. /\ entries' = [entries EXCEPT ![l] = {e \in @ : e[1] # s} \union {<<s, nextId[l]>>}]
          /\ Settle(c, <<"added", l, s>>, "count")
      BY <1>3 DEF Put
    <2>3. Store!Do(c, <<"added", l, s>>)
      BY <1>1, <2>2, SettleIsDo
    <2> HIDE DEF l, s
    <2>4. \A k \in ListNames : Tags(k)' = IF k = l THEN Tags(k) \union {s} ELSE Tags(k)
      <3>1. \A k \in ListNames :
                entries'[k] = IF k = l THEN {e \in entries[l] : e[1] # s} \union {<<s, nextId[l]>>}
                                       ELSE entries[k]
        BY <2>1, <2>2 DEF LockInv, MockTypeOK
      <3>2. <<s, nextId[l]>>[1] = s
        OBVIOUS
      <3>3. ASSUME NEW k \in ListNames, k = l PROVE Tags(k)' = Tags(k) \union {s}
        <4>1. entries'[k] = {e \in entries[k] : e[1] # s} \union {<<s, nextId[l]>>}
          BY <3>1, <3>3
        <4>2. \A e : e \in entries'[k] <=> (e \in entries[k] /\ e[1] # s) \/ e = <<s, nextId[l]>>
          BY <4>1
        <4>3. Tags(k)' \subseteq Tags(k) \union {s}
          BY <3>2, <4>2 DEF Tags
        <4>4. Tags(k) \union {s} \subseteq Tags(k)'
          BY <3>2, <4>2 DEF Tags
        <4> QED BY <4>3, <4>4
      <3>4. \A k \in ListNames \ {l} : Tags(k)' = Tags(k)
        BY <3>1 DEF Tags
      <3> QED BY <3>3, <3>4
    <2>5. Held' = [Held EXCEPT ![l] = @ \union {s}]
      BY <2>1, <2>4 DEF Held
    <2> QED BY <2>1, <2>3, <2>5 DEF Store!Next, Store!Add, Held
  <1> QED BY <1>2, <1>3

LEMMA DeleteStep == ASSUME LockInv, NEW c \in Calls, Delete(c) PROVE Store!Next
  <1> DEFINE l == ask[c].list  s == ask[c].subnet
  <1>1. pc[c] = "write" /\ l \in ListNames /\ s \in Subnets
    BY AskShape DEF Delete, LockInv, AskFitsStage, Good
  <1>2. entries' = [entries EXCEPT ![l] = {e \in @ : e[1] # s}]
    BY DEF Delete
  <1>3. Store!Do(c, <<"removed", l, s>>)
    BY <1>1, SettleIsDo DEF Delete
  <1> HIDE DEF l, s
  <1>4. \A k \in ListNames : Tags(k)' = IF k = l THEN Tags(k) \ {s} ELSE Tags(k)
    BY <1>1, <1>2 DEF Tags, LockInv, MockTypeOK
  <1>5. Held' = [Held EXCEPT ![l] = @ \ {s}]
    BY <1>1, <1>4 DEF Held
  <1> QED BY <1>1, <1>3, <1>5 DEF Store!Next, Store!Remove, Held

LEMMA LookStep == ASSUME LockInv, NEW c \in Calls, Look(c) PROVE Store!Next
  <1> DEFINE l == ask[c].list  s == ask[c].subnet
  <1>1. pc[c] = "read" /\ ask[c].op = "isin" /\ ask[c] \in Asks /\ entries' = entries
    BY DEF Look, LockInv, AskFitsStage, mapVars
  <1>2. CASE ~Good(c)
    BY <1>1, <1>2, FailStep DEF Look
  <1>3. CASE Good(c)
    <2>1. l \in ListNames /\ s \in Subnets
      BY <1>1, <1>3, AskShape DEF Good
    <2>2. Store!Do(c, <<IF s \in Held[l] THEN "yes" ELSE "no", l, s>>)
      BY <1>1, <1>3, <2>1, SettleIsDo DEF Look, Held
    <2> HIDE DEF l, s
    <2> QED BY <1>1, <2>1, <2>2, SameEntriesSameHeld DEF Store!Next, Store!Look, Held
  <1> QED BY <1>2, <1>3

LEMMA GetAllStep == ASSUME LockInv, NEW c \in Calls, GetAll(c) PROVE Store!Next
  <1> DEFINE l == ask[c].list
  <1>1. pc[c] = "read" /\ entries' = entries
    BY DEF GetAll, mapVars
  <1>2. CASE ~Good(c)
    BY <1>1, <1>2, FailStep DEF GetAll
  <1>3. CASE Good(c)
    <2>1. l \in ListNames
      BY <1>3 DEF Good
    <2>2. Store!Do(c, <<"all", l, Held[l]>>)
      BY <1>1, <1>3, <2>1, SettleIsDo DEF GetAll, Held
    <2> HIDE DEF l
    <2> QED BY <1>1, <2>1, <2>2, SameEntriesSameHeld DEF Store!Next, Store!List, Held
  <1> QED BY <1>2, <1>3

LEMMA PeekStep == ASSUME LockInv, NEW c \in Calls, Peek(c) PROVE Store!Next \/ UNCHANGED Store!vars
  <1> DEFINE l == ask[c].list  s == ask[c].subnet
  <1>1. pc[c] = "peek" /\ l \in ListNames /\ s \in Subnets /\ entries' = entries
    BY AskShape DEF Peek, LockInv, AskFitsStage, Good, mapVars
  <1>2. CASE s \in Tags(l)
    BY <1>1, <1>2, HiddenStep DEF Peek, GoTo
  <1>3. CASE s \notin Tags(l)
    <2>1. Store!Do(c, <<"norecord", l, s>>) /\ s \notin Held[l]
      BY <1>1, <1>3, SettleIsDo DEF Peek, Held
    <2> HIDE DEF l, s
    <2> QED BY <1>1, <2>1, SameEntriesSameHeld DEF Store!Next, Store!Miss, Held
  <1> QED BY <1>2, <1>3

LEMMA BeginStep ==
  ASSUME LockInv, NEW c \in Calls, NEW a \in Asks, Begin(c, a)
  PROVE  Store!Next \/ UNCHANGED Store!vars
  <1>1. pc[c] = "idle" /\ entries' = entries
    BY DEF Begin, mapVars
  <1>2. CASE Settle(c, <<"error">>, "done")
    BY <1>1, <1>2, FailStep
  <1>3. CASE GoTo(c, FirstStage[a.op])
    BY <1>1, <1>3, HiddenStep DEF GoTo
  <1> QED BY <1>2, <1>3 DEF Begin

\* Every step is a step of MapStore or leaves it alone.
LEMMA MockStepIsStoreStep ==
  ASSUME LockInv, [MockNext]_mockVars
  PROVE  [Store!Next]_(Store!vars)
  <1>1. CASE \E c \in Calls, a \in Asks : Begin(c, a)
    BY <1>1, BeginStep
  <1>2. CASE \E c \in Calls : Put(c) \/ Look(c) \/ GetAll(c) \/ Peek(c) \/ Delete(c)
    BY <1>2, PutStep, LookStep, GetAllStep, PeekStep, DeleteStep
  <1>3. CASE \E c \in Calls : RLock(c) \/ Lock(c) \/ ReadersLeft(c) \/ Count(c)
    <2>1. UNCHANGED <<entries, result>>
      BY <1>3 DEF RLock, Lock, ReadersLeft, Count, GoTo, mapVars
    <2> QED BY <2>1, HiddenStep
  <1>4. CASE RaceIsFatal \/ UNCHANGED mockVars
    <2>1. UNCHANGED <<entries, result>>
      BY <1>4 DEF RaceIsFatal, mapVars, mockVars
    <2> QED BY <2>1, HiddenStep
  <1> QED BY <1>1, <1>2, <1>3, <1>4 DEF MockNext, Step

\* Each call of the storage is one atomic step on sets of subnets, although a
\* remove reads the map without the lock and acts on what it saw later
\* (storageSQLMock.go:35-141).
THEOREM MockImplementsStore == MockSpec => StoreSpec
  <1>1. MockInit => Store!Init
    BY DEF MockInit, Store!Init, Tags
  <1>2. MockInv /\ [MockNext]_mockVars => [Store!Next]_(Store!vars)
    BY MockStepIsStoreStep DEF MockInv
  <1>3. MockSpec => [][Store!Next]_(Store!vars)
    BY <1>2, MockInvariant, PTL DEF MockSpec
  <1> QED BY <1>1, <1>3, PTL DEF MockSpec, StoreSpec, Store!Spec
=============================================================================
