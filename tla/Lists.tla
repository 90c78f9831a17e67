------------------------------- MODULE Lists -------------------------------
(***************************************************************************)
(* The whitelist and the blacklist of the anti-bruteforce service: the     *)
(* list operations of internal/app/app.go on the two PostgreSQL tables of  *)
(* internal/storage/sqldb/sqldb.go.                                        *)
(*                                                                         *)
(* The server runs each admin call in a goroutine of its own, and a call   *)
(* makes one or two SQL statements.  A statement is atomic; between two    *)
(* statements, and between a call's start and its first statement, any     *)
(* other call may run.  So an action is one statement together with the    *)
(* local code that follows it, up to the next statement or the answer.     *)
(*                                                                         *)
(* Every call is bounded by a deadline (handlers.go:176).  A write whose   *)
(* deadline expires is answered with an error, and PostgreSQL may still    *)
(* execute the statement, before the answer or after it: the call is then  *)
(* "late" until the statement has run or been dropped.                     *)
(***************************************************************************)
EXTENDS Naturals, FiniteSets

CONSTANTS
    Calls,          \* admin calls on the lists; each is made at most once
    Subnets,        \* the IP/mask pairs a caller may name
    ValidSubnets    \* those that SimpleIPDataValidate accepts

ASSUME ValidSubnetsAssumption == ValidSubnets \subseteq Subnets

VARIABLES
    table,      \* table[l]: the rows of table l, a row named by the call that inserted it
    ask,        \* ask[c]: what call c asks for
    callStage,  \* callStage[c]: where call c is
    reply,      \* reply[c]: what call c answered
    listed,     \* listed[c]: the rows a "getall" call returned
    before      \* history: before[c] is the calls already settled when c began

listsVars == <<table, ask, callStage, reply, listed, before>>

WhiteListName == "whitelist"
BlackListName == "blacklist"
ListNames == {WhiteListName, BlackListName}

\* Mutated form: the list is checked against itself.
SecondListSame(l) == l

SecondList(l) == IF l = WhiteListName THEN BlackListName ELSE WhiteListName

NoAsk == [op |-> "none"]
SubnetAsks == [op : {"add", "remove", "isin"}, list : ListNames, subnet : Subnets]
GetAllAsks == [op : {"getall"}, list : ListNames]
Asks == SubnetAsks \union GetAllAsks
ValidAsks == [op : {"add", "remove", "isin"}, list : ListNames, subnet : ValidSubnets]
                \union GetAllAsks

Stages == {"idle", "check", "write", "read", "late", "done"}
Replies == {"none", "invalid", "refused", "added", "removed", "norecord",
            "yes", "no", "all", "error", "lost"}

\* A settled call has been answered and can touch the tables no more.
Settled(c) == callStage[c] = "done"
SettledCalls == {c \in Calls : Settled(c)}
InProgress(c) == callStage[c] \in {"check", "write", "read"}

\* The rows of a table that hold a subnet: there may be several, the tables
\* have no unique constraint (migrations/001_migration.sql).
RowsOf(l, s) == {c \in table[l] : ask[c].subnet = s}

-----------------------------------------------------------------------------

ListsInit ==
    /\ table = [l \in ListNames |-> {}]
    /\ ask = [c \in Calls |-> NoAsk]
    /\ callStage = [c \in Calls |-> "idle"]
    /\ reply = [c \in Calls |-> "none"]
    /\ listed = [c \in Calls |-> {}]
    /\ before = [c \in Calls |-> {}]

\* Call c answers r and makes no more statements.
Answer(c, r) ==
    /\ callStage' = [callStage EXCEPT ![c] = "done"]
    /\ reply' = [reply EXCEPT ![c] = r]

\* The first statement of each kind of call.
FirstStage(op) ==
    CASE op = "add" -> "check"
      [] op = "remove" -> "write"
      [] OTHER -> "read"

\* A call arrives and its input is validated; "getall" names no subnet.
BeginCall(c, a) ==
    /\ callStage[c] = "idle"
    /\ ask' = [ask EXCEPT ![c] = a]
    /\ before' = [before EXCEPT ![c] = SettledCalls]
    /\ \/ /\ a \notin ValidAsks
          /\ Answer(c, "invalid")
       \/ /\ a \in ValidAsks
          /\ callStage' = [callStage EXCEPT ![c] = FirstStage(a.op)]
          /\ UNCHANGED reply
    /\ UNCHANGED <<table, listed>>

\* IPAddToList, first statement: is the very same IP/mask in the other list?
CheckSecondList(c) ==
    /\ callStage[c] = "check"
    /\ \/ /\ RowsOf(SecondList(ask[c].list), ask[c].subnet) # {}
          /\ Answer(c, "refused")
       \/ /\ RowsOf(SecondList(ask[c].list), ask[c].subnet) = {}
          /\ callStage' = [callStage EXCEPT ![c] = "write"]
          /\ UNCHANGED reply
    /\ UNCHANGED <<table, ask, listed, before>>

\* Mutated forms: the DELETE forgets its WHERE clause; it stops at one row.
WrittenDeletesAll(c) ==
    LET l == ask[c].list IN
    IF ask[c].op = "add" THEN [table EXCEPT ![l] = @ \union {c}] ELSE [table EXCEPT ![l] = {}]

WrittenDeletesOne(c) ==
    LET l == ask[c].list
        rows == RowsOf(l, ask[c].subnet)
    IN  IF ask[c].op = "add" THEN [table EXCEPT ![l] = @ \union {c}]
        ELSE [table EXCEPT ![l] = @ \ {r \in rows : r = CHOOSE q \in rows : TRUE}]

\* The table that the write of call c leaves: INSERT adds one row, whatever is
\* there already; DELETE removes every row of the subnet.
Written(c) ==
    LET l == ask[c].list IN
    IF ask[c].op = "add"
    THEN [table EXCEPT ![l] = @ \union {c}]
    ELSE [table EXCEPT ![l] = @ \ RowsOf(l, ask[c].subnet)]

\* IPAddToList, second statement.
Insert(c) ==
    /\ callStage[c] = "write"
    /\ ask[c].op = "add"
    /\ table' = Written(c)
    /\ Answer(c, "added")
    /\ UNCHANGED <<ask, listed, before>>

\* IPRemoveFromList: ErrNoRecord when the DELETE affected no row.
Delete(c) ==
    /\ callStage[c] = "write"
    /\ ask[c].op = "remove"
    /\ table' = Written(c)
    /\ \/ /\ RowsOf(ask[c].list, ask[c].subnet) # {}
          /\ Answer(c, "removed")
       \/ /\ RowsOf(ask[c].list, ask[c].subnet) = {}
          /\ Answer(c, "norecord")
    /\ UNCHANGED <<ask, listed, before>>

\* Mutated form: the SELECT runs on the other table.
IsInListOther(c) ==
    /\ callStage[c] = "read"
    /\ ask[c].op = "isin"
    /\ \/ /\ RowsOf(SecondList(ask[c].list), ask[c].subnet) # {}
          /\ Answer(c, "yes")
       \/ /\ RowsOf(SecondList(ask[c].list), ask[c].subnet) = {}
          /\ Answer(c, "no")
    /\ UNCHANGED <<table, ask, listed, before>>

\* IPIsInList: an exact match of IP and mask.
IsInList(c) ==
    /\ callStage[c] = "read"
    /\ ask[c].op = "isin"
    /\ \/ /\ RowsOf(ask[c].list, ask[c].subnet) # {}
          /\ Answer(c, "yes")
       \/ /\ RowsOf(ask[c].list, ask[c].subnet) = {}
          /\ Answer(c, "no")
    /\ UNCHANGED <<table, ask, listed, before>>

\* IPGetAllFromList.
GetAllFromList(c) ==
    /\ callStage[c] = "read"
    /\ ask[c].op = "getall"
    /\ listed' = [listed EXCEPT ![c] = table[ask[c].list]]
    /\ Answer(c, "all")
    /\ UNCHANGED <<table, ask, before>>

\* Mutated form: a failed read, too, is kept as a statement that may still run.
CallFailsLate(c) ==
    /\ InProgress(c)
    /\ callStage' = [callStage EXCEPT ![c] = "late"]
    /\ reply' = [reply EXCEPT ![c] = "error"]
    /\ UNCHANGED <<table, ask, listed, before>>

\* A statement fails or its deadline expires: the caller gets an error.  A
\* failed write may nevertheless be executed, now or later.
CallFails(c) ==
    /\ InProgress(c)
    /\ callStage' = [callStage EXCEPT ![c] = IF @ = "write" THEN "late" ELSE "done"]
    /\ reply' = [reply EXCEPT ![c] = "error"]
    /\ UNCHANGED <<table, ask, listed, before>>

\* PostgreSQL executes a write whose caller is already gone, or drops it.
LateWrite(c) ==
    /\ callStage[c] = "late"
    /\ table' = Written(c)
    /\ callStage' = [callStage EXCEPT ![c] = "done"]
    /\ UNCHANGED <<ask, reply, listed, before>>

LateDrop(c) ==
    /\ callStage[c] = "late"
    /\ callStage' = [callStage EXCEPT ![c] = "done"]
    /\ UNCHANGED <<table, ask, reply, listed, before>>

\* What the server does for a call in progress.
ServeCall(c) ==
    \/ CheckSecondList(c) \/ Insert(c) \/ Delete(c)
    \/ IsInList(c) \/ GetAllFromList(c) \/ CallFails(c)

\* What PostgreSQL does on its own for a call already answered.
LandCall(c) == LateWrite(c) \/ LateDrop(c)

ListsNext ==
    \E c \in Calls :
        \/ \E a \in Asks : BeginCall(c, a)
        \/ ServeCall(c)
        \/ LandCall(c)

ListsSpec == ListsInit /\ [][ListsNext]_listsVars

-----------------------------------------------------------------------------
(* Properties. *)

\* Type correctness; a call in a stage asked for an operation that has it.
ListsTypeOK ==
    /\ table \in [ListNames -> SUBSET Calls]
    /\ ask \in [Calls -> Asks \union {NoAsk}]
    /\ callStage \in [Calls -> Stages]
    /\ reply \in [Calls -> Replies]
    /\ listed \in [Calls -> SUBSET Calls]
    /\ before \in [Calls -> SUBSET Calls]
    /\ \A c \in Calls :
        /\ callStage[c] = "idle" <=> ask[c] = NoAsk
        /\ callStage[c] = "check" => ask[c].op = "add"
        /\ callStage[c] \in {"write", "late"} => ask[c].op \in {"add", "remove"}
        /\ callStage[c] = "read" => ask[c].op \in {"isin", "getall"}
    /\ \A l \in ListNames : \A c \in table[l] : ask[c].op = "add" /\ ask[c].list = l

\* c and d name the same subnet of the same list.
SameEntry(c, d) ==
    /\ ask[c] # NoAsk /\ ask[c].op # "getall"
    /\ ask[d] # NoAsk /\ ask[d].op # "getall"
    /\ ask[c].list = ask[d].list
    /\ ask[c].subnet = ask[d].subnet

\* Some remove of c's entry was not settled yet when c began: only such a
\* remove may take c's row away.
RemoveMayFollow(c) ==
    \E e \in Calls : ask[e].op = "remove" /\ SameEntry(c, e) /\ e \notin before[c]

\* A subnet gets into both lists only when the two adds overlapped: neither
\* was settled when the other began (app.go:191 reads the second list, 207
\* inserts into the first, and nothing makes the two one step).  When admin
\* calls never overlap, no subnet is ever in both lists.
CrossListNeedsOverlap ==
    \A c \in table[WhiteListName], d \in table[BlackListName] :
        ask[c].subnet = ask[d].subnet => c \notin before[d] /\ d \notin before[c]

\* An acknowledged add stays in its table until a remove of the same entry
\* that did not end before the add began: no refused, failed or duplicate call
\* and no operation on the other list ever costs an entry (app.go:175-216).
AddIsDurable ==
    \A c \in Calls :
        reply[c] = "added" => c \in table[ask[c].list] \/ RemoveMayFollow(c)

\* Once a remove has been answered, with success or with ErrNoRecord, no row
\* is left of any add that was settled when the remove began, the duplicates
\* made by retried adds included (sqldb.go:96-118).
RemoveIsComplete ==
    \A d \in Calls : reply[d] \in {"removed", "norecord"} =>
        \A c \in table[ask[d].list] : SameEntry(c, d) => c \notin before[d]

\* Call d is a lookup that did not report the entry of add c.
Misses(d, c) ==
    \/ reply[d] = "no" /\ SameEntry(c, d)
    \/ reply[d] = "all" /\ ask[c].list = ask[d].list /\ c \notin listed[d]

\* A lookup reports every entry whose add was acknowledged before the lookup
\* began, unless a remove of that entry may have run since the add began
\* (app.go:243-279).
LookupSeesAdds ==
    \A d \in Calls : \A c \in before[d] :
        reply[c] = "added" /\ Misses(d, c) => RemoveMayFollow(c)

\* The rule that internal/app/app_test.go:183-211 states: a subnet that is in
\* one list is never accepted into the other.
NoSubnetInBothLists ==
    \A c \in table[WhiteListName], d \in table[BlackListName] :
        ask[c].subnet # ask[d].subnet
=============================================================================
