----------------------------- MODULE ListsProofs -----------------------------
(***************************************************************************)
(* Proofs about Lists, for every set of calls and of subnets.              *)
(***************************************************************************)
EXTENDS Lists, TLAPS

\* A call that began before another was settled by then, and stays so.
BeforeAreSettled == \A c \in Calls : before[c] \subseteq SettledCalls

\* A row is the trace of an add that has been settled.
RowsAreSettled == \A l \in ListNames : table[l] \subseteq SettledCalls

\* A reply tells the operation, and that the call is settled.
RepliesFit ==
    \A c \in Calls :
        /\ reply[c] = "added" => ask[c].op = "add" /\ Settled(c)
        /\ reply[c] \in {"removed", "norecord"} => ask[c].op = "remove" /\ Settled(c)
        /\ reply[c] = "no" => ask[c].op = "isin" /\ Settled(c)
        /\ reply[c] = "all" => ask[c].op = "getall" /\ Settled(c)

\* d is an add past its check of the second list.
PastCheck(d) ==
    /\ ask[d].op = "add"
    /\ callStage[d] \in {"write", "late"} \/ d \in table[ask[d].list]

\* The second list holds no row whose add was settled before such an add began.
ChecksHold ==
    \A d \in Calls : PastCheck(d) =>
        \A c \in RowsOf(SecondList(ask[d].list), ask[d].subnet) : c \notin before[d]

ListsInv ==
    /\ ListsTypeOK
    /\ BeforeAreSettled
    /\ RowsAreSettled
    /\ RepliesFit
    /\ ChecksHold
    /\ AddIsDurable
    /\ RemoveIsComplete
    /\ LookupSeesAdds

\* Type correctness is inductive by itself.
LEMMA ListsTypeInit == ListsInit => ListsTypeOK
  BY DEF ListsInit, ListsTypeOK, NoAsk, Stages, Replies, ListNames

\* The second list is the other one.
LEMMA SecondListType ==
  ASSUME NEW l \in ListNames
  PROVE  SecondList(l) \in ListNames /\ SecondList(l) # l /\ SecondList(SecondList(l)) = l
  BY DEF SecondList, ListNames, WhiteListName, BlackListName

\* The fields of what a call asks for.
LEMMA AskTypes ==
  /\ \A a \in SubnetAsks : /\ a.op \in {"add", "remove", "isin"}
                           /\ a.list \in ListNames /\ a.subnet \in Subnets
  /\ \A a \in GetAllAsks : a.op = "getall" /\ a.list \in ListNames
  /\ NoAsk.op = "none"
  BY DEF SubnetAsks, GetAllAsks, NoAsk

\* Every step keeps the types.
LEMMA ListsTypeNext == ListsTypeOK /\ [ListsNext]_listsVars => ListsTypeOK'
  <1> SUFFICES ASSUME ListsTypeOK, [ListsNext]_listsVars PROVE ListsTypeOK'
    OBVIOUS
  <1> USE AskTypes DEF ListsTypeOK
  <1>1. ASSUME NEW c \in Calls, NEW a \in Asks, BeginCall(c, a) PROVE ListsTypeOK'
    <2>1. a # NoAsk
      BY DEF Asks
    <2>2. ask'[c] = a /\ \A d \in Calls \ {c} : ask'[d] = ask[d]
      BY <1>1 DEF BeginCall
    <2>3. before' \in [Calls -> SUBSET Calls]
      BY <1>1 DEF BeginCall, SettledCalls
    <2>4. callStage'[c] \in {"done", FirstStage(a.op)} /\ \A d \in Calls \ {c} : callStage'[d] = callStage[d]
      BY <1>1 DEF BeginCall, Answer
    <2>5. callStage' \in [Calls -> Stages] /\ reply' \in [Calls -> Replies]
      BY <1>1 DEF BeginCall, Answer, FirstStage, Stages, Replies
    <2>6. ask' \in [Calls -> Asks \union {NoAsk}]
      BY <1>1 DEF BeginCall
    <2>7. \A l \in ListNames : c \notin table[l]
      BY <1>1 DEF BeginCall, NoAsk
    <2> QED BY <1>1, <2>1, <2>2, <2>3, <2>4, <2>5, <2>6, <2>7 DEF BeginCall, FirstStage, Asks
  <1>2. ASSUME NEW c \in Calls, CheckSecondList(c) PROVE ListsTypeOK'
    BY <1>2 DEF CheckSecondList, Answer, Stages, Replies
  <1>3. ASSUME NEW c \in Calls, Insert(c) PROVE ListsTypeOK'
    BY <1>3 DEF Insert, Written, Answer, Stages, Replies, Asks
  <1>4. ASSUME NEW c \in Calls, Delete(c) PROVE ListsTypeOK'
    BY <1>4 DEF Delete, Written, RowsOf, Answer, Stages, Replies, Asks
  <1>5. ASSUME NEW c \in Calls, IsInList(c) PROVE ListsTypeOK'
    BY <1>5 DEF IsInList, Answer, Stages, Replies
  <1>6. ASSUME NEW c \in Calls, GetAllFromList(c) PROVE ListsTypeOK'
    BY <1>6 DEF GetAllFromList, Answer, Stages, Replies, Asks
  <1>7. ASSUME NEW c \in Calls, CallFails(c) PROVE ListsTypeOK'
    BY <1>7 DEF CallFails, InProgress, Stages, Replies
  <1>8. ASSUME NEW c \in Calls, LateWrite(c) PROVE ListsTypeOK'
    BY <1>8 DEF LateWrite, Written, RowsOf, Stages, Asks
  <1>9. ASSUME NEW c \in Calls, LateDrop(c) PROVE ListsTypeOK'
    BY <1>9 DEF LateDrop, Stages
  <1>10. CASE UNCHANGED listsVars
    BY <1>10 DEF listsVars
  <1> QED BY <1>1, <1>2, <1>3, <1>4, <1>5, <1>6, <1>7, <1>8, <1>9, <1>10
          DEF ListsNext, ServeCall, LandCall

-----------------------------------------------------------------------------
(* What every step leaves alone. *)

\* A step changes what a call asked and when only if that call begins, it
\* never unsettles a call, and it never changes the answer of a settled one.
LEMMA StepFrame ==
  ASSUME ListsTypeOK, [ListsNext]_listsVars, NEW d \in Calls
  PROVE  /\ callStage[d] # "idle" => ask'[d] = ask[d] /\ before'[d] = before[d]
         /\ callStage[d] = "idle" => before'[d] \in {before[d], SettledCalls}
         /\ Settled(d) => Settled(d)' /\ reply'[d] = reply[d] /\ listed'[d] = listed[d]
  <1> USE DEF ListsTypeOK, Settled
  <1>1. ASSUME NEW c \in Calls, NEW a \in Asks, BeginCall(c, a)
        PROVE  /\ callStage[d] # "idle" => ask'[d] = ask[d] /\ before'[d] = before[d]
               /\ callStage[d] = "idle" => before'[d] \in {before[d], SettledCalls}
               /\ Settled(d) => Settled(d)' /\ reply'[d] = reply[d] /\ listed'[d] = listed[d]
    BY <1>1 DEF BeginCall, Answer
  <1>2. ASSUME NEW c \in Calls, ServeCall(c) \/ LandCall(c)
        PROVE  /\ ask' = ask /\ before' = before
               /\ Settled(d) => Settled(d)' /\ reply'[d] = reply[d] /\ listed'[d] = listed[d]
    BY <1>2 DEF ServeCall, LandCall, CheckSecondList, Insert, Delete, IsInList,
                GetAllFromList, CallFails, LateWrite, LateDrop, Answer, InProgress
  <1>3. CASE UNCHANGED listsVars
    BY <1>3 DEF listsVars
  <1> QED BY <1>1, <1>2, <1>3 DEF ListsNext

\* Rows keep what their adds asked for.
LEMMA RowsKeepAsk ==
  ASSUME ListsTypeOK, [ListsNext]_listsVars, RowsAreSettled,
         NEW l \in ListNames, NEW c \in table[l]
  PROVE  ask'[c] = ask[c] /\ before'[c] = before[c]
  BY StepFrame DEF ListsTypeOK, RowsAreSettled, SettledCalls, Settled

\* A row appears only when its add runs, and disappears only when a remove of
\* its entry does; a call that writes is settled by that and not before.
LEMMA TableSteps ==
  ASSUME ListsTypeOK, [ListsNext]_listsVars, NEW l \in ListNames, NEW c \in Calls
  PROVE  /\ c \in table'[l] \ table[l] =>
              /\ ask[c].op = "add" /\ ask[c].list = l
              /\ callStage[c] \in {"write", "late"} /\ Settled(c)'
         /\ c \in table[l] \ table'[l] =>
              \E e \in Calls : /\ ask[e].op = "remove" /\ SameEntry(c, e)
                               /\ callStage[e] \in {"write", "late"}
  <1> USE AskTypes DEF ListsTypeOK, Settled
  <1>1. ASSUME NEW e \in Calls, Insert(e) \/ Delete(e) \/ LateWrite(e)
        PROVE  /\ table' = Written(e) /\ callStage[e] \in {"write", "late"} /\ Settled(e)'
    BY <1>1 DEF Insert, Delete, LateWrite, Answer
  <1>2. ASSUME NEW e \in Calls, table' = Written(e), callStage[e] \in {"write", "late"},
               Settled(e)'
        PROVE  /\ c \in table'[l] \ table[l] =>
                    /\ ask[c].op = "add" /\ ask[c].list = l
                    /\ callStage[c] \in {"write", "late"} /\ Settled(c)'
               /\ c \in table[l] \ table'[l] =>
                    /\ ask[e].op = "remove" /\ SameEntry(c, e)
                    /\ callStage[e] \in {"write", "late"}
    BY <1>2 DEF Written, RowsOf, SameEntry, Asks
  <1>3. CASE table' = table
    BY <1>3
  <1>4. \/ \E e \in Calls : Insert(e) \/ Delete(e) \/ LateWrite(e)
        \/ table' = table
    BY DEF ListsNext, listsVars, BeginCall, ServeCall, LandCall, CheckSecondList, IsInList,
           GetAllFromList, CallFails, LateDrop
  <1> QED BY <1>1, <1>2, <1>3, <1>4

\* Each answer comes from one action.
LEMMA ReplySteps ==
  ASSUME ListsTypeOK, [ListsNext]_listsVars, NEW d \in Calls, reply'[d] # reply[d]
  PROVE  /\ reply'[d] = "added" => Insert(d)
         /\ reply'[d] \in {"removed", "norecord"} => Delete(d)
         /\ reply'[d] = "no" => IsInList(d)
         /\ reply'[d] = "all" => GetAllFromList(d)
  <1> DEFINE Goal == /\ reply'[d] = "added" => Insert(d)
                     /\ reply'[d] \in {"removed", "norecord"} => Delete(d)
                     /\ reply'[d] = "no" => IsInList(d)
                     /\ reply'[d] = "all" => GetAllFromList(d)
  <1> USE DEF ListsTypeOK
  <1>1. ASSUME NEW c \in Calls, NEW a \in Asks, BeginCall(c, a) PROVE Goal
    BY <1>1 DEF BeginCall, Answer
  <1>2. ASSUME NEW c \in Calls, CheckSecondList(c) PROVE Goal
    BY <1>2 DEF CheckSecondList, Answer
  <1>3. ASSUME NEW c \in Calls, Insert(c) PROVE Goal
    <2>1. d = c /\ reply'[d] = "added"
      BY <1>3 DEF Insert, Answer
    <2> QED BY <1>3, <2>1
  <1>4. ASSUME NEW c \in Calls, Delete(c) PROVE Goal
    <2>1. d = c /\ reply'[d] \in {"removed", "norecord"}
      BY <1>4 DEF Delete, Answer
    <2> QED BY <1>4, <2>1
  <1>5. ASSUME NEW c \in Calls, IsInList(c) PROVE Goal
    <2>1. d = c /\ reply'[d] \in {"yes", "no"}
      BY <1>5 DEF IsInList, Answer
    <2> QED BY <1>5, <2>1
  <1>6. ASSUME NEW c \in Calls, GetAllFromList(c) PROVE Goal
    <2>1. d = c /\ reply'[d] = "all"
      BY <1>6 DEF GetAllFromList, Answer
    <2> QED BY <1>6, <2>1
  <1>7. ASSUME NEW c \in Calls, CallFails(c) \/ LateWrite(c) \/ LateDrop(c) PROVE Goal
    BY <1>7 DEF CallFails, LateWrite, LateDrop
  <1>8. CASE UNCHANGED listsVars
    BY <1>8 DEF listsVars
  <1> QED BY <1>1, <1>2, <1>3, <1>4, <1>5, <1>6, <1>7, <1>8
          DEF ListsNext, ServeCall, LandCall

-----------------------------------------------------------------------------
(* The invariant, one lemma for each part that takes an argument. *)

\* The invariant holds at the start.
LEMMA ListsInvInit == ListsInit => ListsInv
  <1> SUFFICES ASSUME ListsInit PROVE ListsInv
    OBVIOUS
  <1>1. ListsTypeOK
    BY ListsTypeInit
  <1> QED BY <1>1 DEF ListsInit, ListsInv, BeforeAreSettled, RowsAreSettled, RepliesFit,
             ChecksHold, PastCheck, NoAsk, AddIsDurable, RemoveIsComplete, LookupSeesAdds

\* Settled calls stay settled, so this part survives every step.
LEMMA BeforeSettledNext ==
  ASSUME ListsInv, [ListsNext]_listsVars PROVE BeforeAreSettled'
  BY StepFrame DEF ListsInv, ListsTypeOK, BeforeAreSettled, SettledCalls

\* A row appears in the step that settles its call.
LEMMA RowsSettledNext ==
  ASSUME ListsInv, [ListsNext]_listsVars PROVE RowsAreSettled'
  <1> SUFFICES ASSUME NEW l \in ListNames, NEW c \in table'[l] PROVE c \in SettledCalls'
    BY DEF RowsAreSettled
  <1>1. c \in Calls
    BY ListsTypeNext DEF ListsInv, ListsTypeOK
  <1> QED BY <1>1, TableSteps, StepFrame DEF ListsInv, RowsAreSettled, SettledCalls

\* A reply is given once, by an action of its operation.
LEMMA RepliesFitNext ==
  ASSUME ListsInv, [ListsNext]_listsVars PROVE RepliesFit'
  <1> USE DEF ListsInv, ListsTypeOK, RepliesFit, Settled
  <1>1. ASSUME NEW c \in Calls, NEW a \in Asks, BeginCall(c, a) PROVE RepliesFit'
    BY <1>1 DEF BeginCall, Answer
  <1>2. ASSUME NEW c \in Calls, ServeCall(c) \/ LandCall(c) PROVE RepliesFit'
    BY <1>2 DEF ServeCall, LandCall, CheckSecondList, Insert, Delete, IsInList,
                GetAllFromList, CallFails, LateWrite, LateDrop, Answer, InProgress
  <1>3. CASE UNCHANGED listsVars
    BY <1>3 DEF listsVars
  <1> QED BY <1>1, <1>2, <1>3 DEF ListsNext

\* An add can only pass its check, in a step, where it sees no row of its
\* subnet in the second list; and it goes on being past it.
LEMMA PastCheckSteps ==
  ASSUME ListsInv, [ListsNext]_listsVars, NEW d \in Calls, PastCheck(d)', ~PastCheck(d)
  PROVE  /\ callStage[d] = "check" /\ ask[d].op = "add"
         /\ table' = table /\ ask' = ask /\ before' = before
         /\ RowsOf(SecondList(ask[d].list), ask[d].subnet) = {}
  <1> USE AskTypes DEF ListsInv, ListsTypeOK, PastCheck
  <1>1. ASSUME NEW c \in Calls, NEW a \in Asks, BeginCall(c, a) PROVE FALSE
    <2>1. table' = table /\ ~ \E l \in ListNames : c \in table[l]
      BY <1>1 DEF BeginCall, RowsAreSettled, SettledCalls, Settled
    <2>2. callStage'[c] \notin {"write", "late"} \/ ask'[c].op # "add"
      BY <1>1 DEF BeginCall, Answer, FirstStage, Asks
    <2>3. d # c => ask'[d] = ask[d] /\ callStage'[d] = callStage[d]
      BY <1>1 DEF BeginCall, Answer
    <2>4. ask'[c] = a /\ a.list \in ListNames
      BY <1>1 DEF BeginCall, Asks
    <2> QED BY <2>1, <2>2, <2>3, <2>4
  <1>2. ASSUME NEW c \in Calls, CheckSecondList(c)
        PROVE  /\ callStage[d] = "check" /\ ask[d].op = "add"
               /\ table' = table /\ ask' = ask /\ before' = before
               /\ RowsOf(SecondList(ask[d].list), ask[d].subnet) = {}
    <2>1. /\ table' = table /\ ask' = ask /\ before' = before
          /\ callStage[c] = "check"
          /\ callStage' = [callStage EXCEPT ![c] = callStage'[c]]
      BY <1>2 DEF CheckSecondList, Answer
    <2>2. d = c
      BY <2>1
    <2>3. callStage'[c] # "done"
      BY <2>1, <2>2
    <2>4. RowsOf(SecondList(ask[c].list), ask[c].subnet) = {}
      BY <1>2, <2>3 DEF CheckSecondList, Answer
    <2> QED BY <2>1, <2>2, <2>4
  <1>3. ASSUME NEW c \in Calls, Insert(c) \/ Delete(c) \/ LateWrite(c) PROVE FALSE
    <2>1. ask' = ask /\ callStage'[c] = "done" /\ callStage[c] \in {"write", "late"}
      BY <1>3 DEF Insert, Delete, LateWrite, Answer
    <2>2. d # c => callStage'[d] = callStage[d]
      BY <1>3 DEF Insert, Delete, LateWrite, Answer
    <2>3. table' = Written(c)
      BY <1>3 DEF Insert, Delete, LateWrite
    <2> QED BY <2>1, <2>2, <2>3 DEF Written, RowsOf, Asks
  <1>4. ASSUME NEW c \in Calls, IsInList(c) \/ GetAllFromList(c) \/ CallFails(c) \/ LateDrop(c)
        PROVE FALSE
    BY <1>4 DEF IsInList, GetAllFromList, CallFails, LateDrop, Answer, InProgress
  <1>5. CASE UNCHANGED listsVars
    BY <1>5 DEF listsVars
  <1> QED BY <1>1, <1>2, <1>3, <1>4, <1>5 DEF ListsNext, ServeCall, LandCall

\* No row of a call settled before an add began gets past the look-up of that
\* add.
LEMMA ChecksHoldNext ==
  ASSUME ListsInv, [ListsNext]_listsVars PROVE ChecksHold'
  <1> SUFFICES ASSUME NEW d \in Calls, PastCheck(d)',
                      NEW c \in RowsOf(SecondList(ask[d].list), ask[d].subnet)'
               PROVE  c \notin before'[d]
    BY DEF ChecksHold
  <1> USE AskTypes DEF ListsInv, ListsTypeOK
  <1>1. CASE ~PastCheck(d)
    BY <1>1, PastCheckSteps DEF RowsOf
  <1>2. CASE PastCheck(d)
    <2>1. callStage[d] # "idle"
      BY <1>2 DEF PastCheck, NoAsk
    <2>2. ask'[d] = ask[d] /\ before'[d] = before[d]
      BY <2>1, StepFrame
    <2> DEFINE l == SecondList(ask[d].list)
    <2>3. l \in ListNames
      BY <2>1, SecondListType, <1>2 DEF PastCheck, Asks
    <2>4. c \in Calls /\ c \in table'[l] /\ ask'[c].subnet = ask[d].subnet
      BY <2>2, <2>3, ListsTypeNext DEF RowsOf
    <2>5. CASE c \in table[l]
      BY <1>2, <2>2, <2>3, <2>4, <2>5, RowsKeepAsk DEF RowsOf, ChecksHold
    <2>6. CASE c \notin table[l]
      <3>1. ~Settled(c)
        BY <2>3, <2>4, <2>6, TableSteps DEF Settled
      <3> QED BY <3>1, <2>2 DEF BeforeAreSettled, SettledCalls
    <2> QED BY <2>5, <2>6
  <1> QED BY <1>1, <1>2

\* A remove that may take c's row keeps that right.
LEMMA RemoveMayFollowStays ==
  ASSUME ListsInv, [ListsNext]_listsVars, NEW c \in Calls, RemoveMayFollow(c)
  PROVE  RemoveMayFollow(c)'
  <1> USE DEF ListsInv, ListsTypeOK, SameEntry
  <1>1. PICK e \in Calls : ask[e].op = "remove" /\ SameEntry(c, e) /\ e \notin before[c]
    BY DEF RemoveMayFollow
  <1>2. ask'[e] = ask[e] /\ ask'[c] = ask[c] /\ before'[c] = before[c]
    BY <1>1, StepFrame
  <1> QED BY <1>1, <1>2 DEF RemoveMayFollow

\* Only a remove takes rows, and it takes those of its own entry.
LEMMA AddIsDurableNext ==
  ASSUME ListsInv, [ListsNext]_listsVars PROVE AddIsDurable'
  <1> SUFFICES ASSUME NEW c \in Calls, reply'[c] = "added"
               PROVE  c \in table'[ask'[c].list] \/ RemoveMayFollow(c)'
    BY DEF AddIsDurable
  <1> USE AskTypes DEF ListsInv, ListsTypeOK
  <1>1. CASE reply[c] = "added"
    <2>1. Settled(c) /\ ask[c].op = "add" /\ ask'[c] = ask[c] /\ ask[c].list \in ListNames
      BY <1>1, StepFrame DEF RepliesFit, Settled, Asks
    <2>2. CASE RemoveMayFollow(c)
      BY <2>2, RemoveMayFollowStays
    <2>3. CASE c \in table[ask[c].list] /\ c \in table'[ask[c].list]
      BY <2>1, <2>3
    <2>4. CASE c \in table[ask[c].list] /\ c \notin table'[ask[c].list]
      <3>1. PICK e \in Calls : /\ ask[e].op = "remove" /\ SameEntry(c, e)
                               /\ callStage[e] \in {"write", "late"}
        BY <2>1, <2>4, TableSteps
      <3>2. e \notin before[c]
        BY <3>1 DEF BeforeAreSettled, SettledCalls, Settled
      <3>3. RemoveMayFollow(c)
        BY <3>1, <3>2 DEF RemoveMayFollow
      <3> QED BY <3>3, RemoveMayFollowStays
    <2> QED BY <1>1, <2>2, <2>3, <2>4 DEF AddIsDurable
  <1>2. CASE reply[c] # "added"
    <2>1. Insert(c)
      BY <1>2, ReplySteps
    <2> QED BY <2>1 DEF Insert, Written, Asks
  <1> QED BY <1>1, <1>2

\* Rows that come after the DELETE are of calls that were not settled when it
\* began.
LEMMA RemoveIsCompleteNext ==
  ASSUME ListsInv, [ListsNext]_listsVars PROVE RemoveIsComplete'
  <1> SUFFICES ASSUME NEW d \in Calls, reply'[d] \in {"removed", "norecord"},
                      NEW c \in table'[ask'[d].list], SameEntry(c, d)'
               PROVE  c \notin before'[d]
    BY DEF RemoveIsComplete
  <1> USE AskTypes DEF ListsInv, ListsTypeOK
  <1>1. CASE reply[d] \in {"removed", "norecord"}
    <2>1. Settled(d) /\ ask[d].op = "remove" /\ ask[d].list \in ListNames
      BY <1>1 DEF RepliesFit, Settled, Asks
    <2>2. ask'[d] = ask[d] /\ before'[d] = before[d]
      BY <2>1, StepFrame DEF Settled
    <2>3. c \in Calls
      BY <2>1, <2>2, ListsTypeNext
    <2>4. CASE c \in table[ask[d].list]
      BY <1>1, <2>1, <2>2, <2>4, RowsKeepAsk DEF RemoveIsComplete, SameEntry
    <2>5. CASE c \notin table[ask[d].list]
      <3>1. ~Settled(c)
        BY <2>1, <2>2, <2>3, <2>5, TableSteps DEF Settled
      <3> QED BY <3>1, <2>2 DEF BeforeAreSettled, SettledCalls
    <2> QED BY <2>4, <2>5
  <1>2. CASE reply[d] \notin {"removed", "norecord"}
    <2>1. Delete(d)
      BY <1>2, ReplySteps
    <2> QED BY <2>1 DEF Delete, Written, RowsOf, SameEntry, Asks
  <1> QED BY <1>1, <1>2

\* A lookup reads the table in one step, and what it misses a remove has taken.
LEMMA LookupSeesAddsNext ==
  ASSUME ListsInv, [ListsNext]_listsVars PROVE LookupSeesAdds'
  <1> SUFFICES ASSUME NEW d \in Calls, NEW c \in Calls, c \in before'[d],
                      reply'[c] = "added", Misses(d, c)'
               PROVE  RemoveMayFollow(c)'
    BY ListsTypeNext DEF LookupSeesAdds, ListsInv, ListsTypeOK
  <1> USE AskTypes DEF ListsInv, ListsTypeOK
  <1>1. CASE Settled(d)
    <2>1. /\ ask'[d] = ask[d] /\ before'[d] = before[d]
          /\ reply'[d] = reply[d] /\ listed'[d] = listed[d]
      BY <1>1, StepFrame DEF Settled
    <2>2. Settled(c)
      BY <2>1 DEF BeforeAreSettled, SettledCalls
    <2>3. ask'[c] = ask[c] /\ reply'[c] = reply[c]
      BY <2>2, StepFrame DEF Settled
    <2>4. Misses(d, c)
      BY <2>1, <2>3 DEF Misses, SameEntry
    <2> QED BY <2>1, <2>3, <2>4, RemoveMayFollowStays DEF LookupSeesAdds
  <1>2. CASE ~Settled(d)
    <2>1. reply[d] \notin {"no", "all"}
      BY <1>2 DEF RepliesFit
    <2>2. reply'[d] \in {"no", "all"}
      BY DEF Misses
    <2>3. IsInList(d) \/ GetAllFromList(d)
      BY <2>1, <2>2, ReplySteps
    <2>4. ask' = ask /\ before' = before /\ table' = table
      BY <2>3 DEF IsInList, GetAllFromList
    <2>5. Settled(c) /\ reply[c] = "added"
      BY <2>4, StepFrame DEF BeforeAreSettled, SettledCalls, Settled
    <2>6. c \notin table[ask[c].list]
      <3>1. CASE IsInList(d)
        BY <2>4, <3>1 DEF IsInList, Answer, Misses, SameEntry, RowsOf
      <3>2. CASE GetAllFromList(d)
        BY <2>4, <3>2 DEF GetAllFromList, Answer, Misses
      <3> QED BY <2>3, <3>1, <3>2
    <2> QED BY <2>5, <2>6, RemoveMayFollowStays DEF AddIsDurable
  <1> QED BY <1>1, <1>2

\* The whole invariant survives every step.
LEMMA ListsInvNext == ListsInv /\ [ListsNext]_listsVars => ListsInv'
  BY ListsTypeNext, BeforeSettledNext, RowsSettledNext, RepliesFitNext, ChecksHoldNext,
     AddIsDurableNext, RemoveIsCompleteNext, LookupSeesAddsNext DEF ListsInv

\* The rule about the two lists follows from the invariant.
LEMMA CrossListFromInv == ListsInv => CrossListNeedsOverlap
  <1> SUFFICES ASSUME ListsInv,
                      NEW c \in table[WhiteListName], NEW d \in table[BlackListName],
                      ask[c].subnet = ask[d].subnet
               PROVE  c \notin before[d] /\ d \notin before[c]
    BY DEF CrossListNeedsOverlap
  <1>1. /\ WhiteListName \in ListNames /\ BlackListName \in ListNames
        /\ SecondList(WhiteListName) = BlackListName
        /\ SecondList(BlackListName) = WhiteListName
    BY DEF SecondList, ListNames, WhiteListName, BlackListName
  <1>2. /\ c \in Calls /\ ask[c].op = "add" /\ ask[c].list = WhiteListName
        /\ d \in Calls /\ ask[d].op = "add" /\ ask[d].list = BlackListName
    BY <1>1 DEF ListsInv, ListsTypeOK
  <1>3. PastCheck(c) /\ PastCheck(d)
    BY <1>2 DEF PastCheck
  <1>4. /\ d \in RowsOf(SecondList(ask[c].list), ask[c].subnet)
        /\ c \in RowsOf(SecondList(ask[d].list), ask[d].subnet)
    BY <1>1, <1>2 DEF RowsOf
  <1> QED BY <1>2, <1>3, <1>4 DEF ListsInv, ChecksHold

-----------------------------------------------------------------------------
(* The theorems. *)

\* The invariant holds in every behaviour of the list operations.
THEOREM ListsInvariant == ListsSpec => []ListsInv
  BY ListsInvInit, ListsInvNext, PTL DEF ListsSpec

\* The variables keep their types (the records of app.go:175-279's calls).
THEOREM ListsTypeCorrect == ListsSpec => []ListsTypeOK
  BY ListsTypeInit, ListsTypeNext, PTL DEF ListsSpec

\* A subnet is in both lists only if its two adds overlapped (app.go:191, 207).
THEOREM CrossListTheorem == ListsSpec => []CrossListNeedsOverlap
  BY ListsInvariant, CrossListFromInv, PTL

\* Only a remove of the same entry takes an acknowledged add away.
THEOREM AddIsDurableTheorem == ListsSpec => []AddIsDurable
  <1>1. ListsInv => AddIsDurable
    BY DEF ListsInv
  <1> QED BY <1>1, ListsInvariant, PTL

\* An answered remove leaves no row of an add that was settled before it.
THEOREM RemoveIsCompleteTheorem == ListsSpec => []RemoveIsComplete
  <1>1. ListsInv => RemoveIsComplete
    BY DEF ListsInv
  <1> QED BY <1>1, ListsInvariant, PTL

\* A lookup misses no add acknowledged before it, unless a remove may follow.
THEOREM LookupSeesAddsTheorem == ListsSpec => []LookupSeesAdds
  <1>1. ListsInv => LookupSeesAdds
    BY DEF ListsInv
  <1> QED BY <1>1, ListsInvariant, PTL
=============================================================================
