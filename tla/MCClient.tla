------------------------------ MODULE MCClient ------------------------------
(***************************************************************************)
(* Client for TLC: the commands of one user, numbered in their order.      *)
(***************************************************************************)
EXTENDS Client, TLC

CONSTANT s1

OneSubnet == {s1}

\* Adds to both lists and the other commands on the whitelist; in the
\* middle a command of every other kind as well.
ListCommands == {a \in Asks : a.list = WhiteListName \/ a.op = "add"}
OtherCommands ==
    {a \in Commands :
        \/ a.op \in {"clear", "request", "local"}
        \/ a = [op |-> "isin", list |-> WhiteListName, subnet |-> "badmask"]}
MCCommands ==
    [c \in Calls |-> IF c = 2 THEN ListCommands \union OtherCommands ELSE ListCommands]
=============================================================================
