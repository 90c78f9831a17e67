----------------------------- MODULE ClientProofs -----------------------------
(***************************************************************************)
(* Safety of the client, for any number of commands and subnets and with   *)
(* any answer of the root route: what it prints is what the server did,    *)
(* and what its user may rely on between one command and the next.         *)
(***************************************************************************)
EXTENDS Client, ListsProofs

-----------------------------------------------------------------------------
(* The inductive invariant. *)

\* A call has no reply before it is answered, and then one of its operation.
ReplyFitsAsk ==
    \A c \in Calls :
        /\ callStage[c] \notin {"late", "done"} => reply[c] = "none"
        /\ ask[c].op = "add" => reply[c] \in {"none", "invalid", "refused", "added", "error"}
        /\ ask[c].op = "remove" => reply[c] \in {"none", "invalid", "removed", "norecord", "error"}
        /\ ask[c].op = "isin" => reply[c] \in {"none", "invalid", "yes", "no", "error"}
        /\ ask[c].op = "getall" => reply[c] \in {"none", "invalid", "all", "error"}

\* The operation of the commands that each outcome comes from.
OutcomeFits(c) ==
    /\ outcome[c] # "ip"
    /\ outcome[c] = "login" => typed[c] = [op |-> "clear", kind |-> "login"]
    /\ outcome[c] = "past" => typed[c].op = "request"
    /\ outcome[c] = "failed" => typed[c].op \in {"clear", "request"}
    /\ outcome[c] = "page" => typed[c].op = "clear"
    /\ outcome[c] = "badjson" => typed[c].op \in {"add", "remove", "isin"}

\* A request carries what was typed, and the server acts on no other.
RequestFitsTyped ==
    \A c \in Calls :
        /\ typed[c] = NoCommand => wire[c] = "none" /\ told[c] = "none"
        /\ wire[c] # "none" => typed[c] # Local
        /\ wire[c] # "served" => ask[c] = NoAsk /\ outcome[c] = "none"
        /\ ask[c] # NoAsk => ask[c] = typed[c] /\ outcome[c] = "none"
        /\ OutcomeFits(c)

\* A command is typed when all those before it have been answered.
TypedInOrder ==
    \A c, d \in Calls :
        typed[d] # NoCommand /\ c < d => typed[c] # NoCommand /\ told[c] # "none"

\* A write reported as done was settled when the request of a later command began.
DoneBeforeLater ==
    \A c, d \in Calls :
        told[c] \in {"added", "removed"} /\ c < d /\ ask[d] # NoAsk => c \in before[d]

\* What is printed fits what was asked for and how far the request got.
ToldFits ==
    \A c \in Calls :
        /\ ask[c].op = "add" => told[c] \in {"none", "error", "added"}
        /\ ask[c].op = "remove" => told[c] \in {"none", "error", "removed"}
        /\ wire[c] # "served" => told[c] \in {"none", "error"}
        /\ told[c] = "cleared" => outcome[c] = "login"

\* After a command read too late the client goes on to its loop, and leaves it.
LastAfterSignal ==
    /\ late # {} => signalled /\ phase \in {"wait", "loop", "exited"}
    /\ AtMostOneAfterSignal

ServerInv == ListsInv /\ ReplyFitsAsk /\ ClientTypeOK /\ RequestFitsTyped

ClientInv ==
    /\ ServerInv
    /\ SuccessIsTrue
    /\ ToldFits
    /\ TypedInOrder
    /\ DoneBeforeLater
    /\ ReadsOwnWrites
    /\ LastAfterSignal

-----------------------------------------------------------------------------
(* The requests. *)

\* The kinds of commands.
LEMMA CommandKinds ==
  ASSUME NEW a \in Commands
  PROVE  /\ a # NoCommand /\ a # NoAsk
         /\ \/ a \in SubnetAsks
            \/ a \in GetAllAsks
            \/ a \in Masked
            \/ a \in Clears
            \/ a = AuthRequest
            \/ a = Local
  BY DEF Commands, Asks, SubnetAsks, GetAllAsks, Masked, Clears, AuthRequest, Local, NoCommand, NoAsk

\* The request of a list command names what was typed, and is read as such.
LEMMA SubnetMessage ==
  ASSUME NEW a \in SubnetAsks
  PROVE  /\ MessageOf(a).path = a.list /\ MessageOf(a).body = a.subnet
         /\ a.subnet \notin {"ALL", "badmask"} /\ AskOf(MessageOf(a)) = a
  <1>1. /\ a.op \in {"add", "remove", "isin"} /\ a.subnet \notin {"ALL", "badmask"}
        /\ a = [op |-> a.op, list |-> a.list, subnet |-> a.subnet]
    BY SubnetsAssumption DEF SubnetAsks
  <1>2. CASE a.op = "add"
    <2>1. MessageOf(a) = Message("POST", a.list, a.subnet)
      BY <1>2 DEF MessageOf, AddMessage
    <2> QED BY <1>1, <1>2, <2>1 DEF Message, AskOf
  <1>3. CASE a.op = "remove"
    <2>1. MessageOf(a) = Message("DELETE", a.list, a.subnet)
      BY <1>3 DEF MessageOf, RemoveMessage
    <2> QED BY <1>1, <1>3, <2>1 DEF Message, AskOf
  <1>4. CASE a.op = "isin"
    <2>1. MessageOf(a) = Message("GET", a.list, a.subnet)
      BY <1>4 DEF MessageOf, IsInMessage
    <2> QED BY <1>1, <1>4, <2>1 DEF Message, AskOf
  <1> QED BY <1>1, <1>2, <1>3, <1>4

LEMMA GetAllMessage ==
  ASSUME NEW a \in GetAllAsks
  PROVE  MessageOf(a).path = a.list /\ MessageOf(a).body # "badmask" /\ AskOf(MessageOf(a)) = a
  <1>1. a.op = "getall" /\ a = [op |-> "getall", list |-> a.list]
    BY DEF GetAllAsks
  <1>2. MessageOf(a) = Message("GET", a.list, "ALL")
    BY <1>1 DEF MessageOf, AllInMessage
  <1> QED BY <1>1, <1>2 DEF Message, AskOf

LEMMA OtherMessages ==
  /\ \A a \in Masked : MessageOf(a).path = a.list /\ MessageOf(a).body = "badmask"
  /\ \A a \in Clears : /\ a.op = "clear" /\ a.kind \in {"login", "ip"}
                      /\ MessageOf(a).path = IF a.kind = "login" THEN "clearLogin" ELSE "clearIp"
  /\ MessageOf(AuthRequest).path = "request"
  <1>1. ASSUME NEW a \in Masked PROVE MessageOf(a).path = a.list /\ MessageOf(a).body = "badmask"
    BY <1>1 DEF Masked, MessageOf, AddMessage, RemoveMessage, IsInMessage, Message
  <1>2. ASSUME NEW a \in Clears
        PROVE  /\ a.op = "clear" /\ a.kind \in {"login", "ip"}
               /\ MessageOf(a).path = IF a.kind = "login" THEN "clearLogin" ELSE "clearIp"
    <2>1. a.op = "clear" /\ a.kind \in {"login", "ip"}
      BY <1>2 DEF Clears
    <2>2. MessageOf(a) = ClearMessage(a)
      BY <2>1 DEF MessageOf
    <2> QED BY <2>1, <2>2 DEF ClearMessage, Message
  <1>3. MessageOf(AuthRequest).path = "request"
    BY DEF AuthRequest, MessageOf, RequestMessage, Message
  <1> QED BY <1>1, <1>2, <1>3

-----------------------------------------------------------------------------
(* The server's part of a step. *)

\* The first step of the server for the request of command c.
Served(c) ==
    /\ Arrives(c)
    /\ LET m == MessageOf(typed[c]) IN
       ServeList(c, m) \/ ServeClear(c, m) \/ ServeRequest(c, m) \/ ServePage(c, m)

\* It begins a call with what was typed, or leaves the lists alone and notes
\* an outcome that fits what was typed.
LEMMA ServedCases ==
  ASSUME ServerInv, NEW c \in Calls, Served(c)
  PROVE  /\ typed[c] # NoCommand /\ ask[c] = NoAsk /\ outcome[c] = "none" /\ wire[c] = "sent"
         /\ wire' = [wire EXCEPT ![c] = "served"] /\ UNCHANGED <<typed, told, sessionVars>>
         /\ \/ typed[c] \in Asks /\ BeginCall(c, typed[c]) /\ UNCHANGED outcome
            \/ /\ UNCHANGED listsVars
               /\ outcome' = [outcome EXCEPT ![c] = outcome'[c]]
               /\ outcome'[c] \in Outcomes \ {"none"}
               /\ OutcomeFits(c)'
  <1> DEFINE a == typed[c]  m == MessageOf(a)
  <1>1. /\ wire[c] = "sent" /\ wire' = [wire EXCEPT ![c] = "served"]
        /\ UNCHANGED <<typed, told, sessionVars>>
        /\ ServeList(c, m) \/ ServeClear(c, m) \/ ServeRequest(c, m) \/ ServePage(c, m)
    BY DEF Served, Arrives
  <1>2. /\ a # NoCommand /\ a # Local /\ ask[c] = NoAsk /\ outcome[c] = "none"
        /\ a \in Commands /\ outcome \in [Calls -> Outcomes]
    BY <1>1 DEF ServerInv, ClientTypeOK, RequestFitsTyped
  <1>3. ASSUME NEW o \in Outcomes \ {"none"}, outcome' = [outcome EXCEPT ![c] = o]
        PROVE  outcome' = [outcome EXCEPT ![c] = outcome'[c]] /\ outcome'[c] = o
    BY <1>2, <1>3
  <1> HIDE DEF a, m
  <1>4. CASE a \in SubnetAsks \union GetAllAsks
    <2>1. /\ m.path \in ListNames /\ m.body # "badmask" /\ AskOf(m) = a /\ a \in Asks
      BY <1>4, SubnetMessage, GetAllMessage, AskTypes DEF m, Asks
    <2>2. BeginCall(c, a) /\ UNCHANGED outcome
      BY <1>1, <2>1 DEF ServeList, ServeClear, ServeRequest, ServePage, Routes,
                        ListNames, WhiteListName, BlackListName
    <2> QED BY <1>1, <1>2, <2>1, <2>2 DEF a
  <1>5. CASE a \in Masked
    <2>1. m.path \in ListNames /\ m.body = "badmask" /\ a.op \in {"add", "remove", "isin"}
      BY <1>5, OtherMessages DEF m, Masked
    <2>2. outcome' = [outcome EXCEPT ![c] = "badjson"] /\ UNCHANGED listsVars
      BY <1>1, <2>1 DEF ServeList, ServeClear, ServeRequest, ServePage, Routes,
                        ListNames, WhiteListName, BlackListName
    <2>3. outcome' = [outcome EXCEPT ![c] = outcome'[c]] /\ outcome'[c] = "badjson"
      BY <1>3, <2>2 DEF Outcomes
    <2> QED BY <1>1, <1>2, <2>1, <2>2, <2>3 DEF a, Outcomes, OutcomeFits
  <1>6. CASE a \in Clears
    <2>1. /\ a.op = "clear" /\ a.kind \in {"login", "ip"}
          /\ m.path = IF a.kind = "login" THEN "clearLogin" ELSE "clearIp"
          /\ a.kind = "login" => a = [op |-> "clear", kind |-> "login"]
      BY <1>6, OtherMessages DEF m, Clears
    <2>2. UNCHANGED listsVars /\ \E o \in {"login", "failed", "page"} :
              /\ outcome' = [outcome EXCEPT ![c] = o]
              /\ o = "login" => a.kind = "login"
      BY <1>1, <2>1 DEF ServeList, ServeClear, ServeRequest, ServePage, Routes,
                        ListNames, WhiteListName, BlackListName
    <2>3. /\ outcome' = [outcome EXCEPT ![c] = outcome'[c]]
          /\ outcome'[c] \in {"login", "failed", "page"}
          /\ outcome'[c] = "login" => a.kind = "login"
      BY <1>3, <2>2 DEF Outcomes
    <2> QED BY <1>1, <1>2, <2>1, <2>2, <2>3 DEF a, Outcomes, OutcomeFits
  <1>7. CASE a = AuthRequest
    <2>1. m.path = "request" /\ a.op = "request"
      BY <1>7, OtherMessages DEF m, AuthRequest
    <2>2. UNCHANGED listsVars /\ \E o \in {"past", "failed"} : outcome' = [outcome EXCEPT ![c] = o]
      BY <1>1, <2>1 DEF ServeList, ServeClear, ServeRequest, ServePage, Routes,
                        ListNames, WhiteListName, BlackListName
    <2>3. /\ outcome' = [outcome EXCEPT ![c] = outcome'[c]]
          /\ outcome'[c] \in {"past", "failed"}
      BY <1>3, <2>2 DEF Outcomes
    <2> QED BY <1>1, <1>2, <2>1, <2>2, <2>3 DEF a, Outcomes, OutcomeFits
  <1> QED BY <1>2, <1>4, <1>5, <1>6, <1>7, CommandKinds

\* So every step of the client is one of module Lists, or leaves the lists alone.
LEMMA ClientStepIsListsStep ==
  ASSUME ServerInv, [ClientNext]_clientVars
  PROVE  [ListsNext]_listsVars
  <1>1. CASE ServerStep
    <2>1. PICK c \in Calls : Served(c) \/ ServeCall(c) \/ LandCall(c)
      BY <1>1 DEF ServerStep, Served
    <2> QED BY <2>1, ServedCases DEF ListsNext
  <1>2. CASE ClientStep \/ Type \/ EndInput \/ Signal \/ UNCHANGED clientVars
    BY <1>2 DEF ClientStep, Type, EndInput, Signal, clientVars, Ping, PingFails, Loop, ReadNothing,
                ReadAnswer, GiveUp, Say, ReadExit, ReadCommand
  <1> QED BY <1>1, <1>2 DEF ClientNext

\* A call is answered once, by an action of its operation.
LEMMA ReplyFitsAskNext ==
  ASSUME ListsTypeOK, ReplyFitsAsk, [ListsNext]_listsVars PROVE ReplyFitsAsk'
  <1> USE DEF ListsTypeOK, ReplyFitsAsk
  <1>1. ASSUME NEW c \in Calls, NEW a \in Asks, BeginCall(c, a) PROVE ReplyFitsAsk'
    BY <1>1 DEF BeginCall, Answer, FirstStage
  <1>2. ASSUME NEW c \in Calls, CheckSecondList(c) \/ Insert(c) \/ Delete(c) PROVE ReplyFitsAsk'
    BY <1>2 DEF CheckSecondList, Insert, Delete, Answer
  <1>3. ASSUME NEW c \in Calls, IsInList(c) \/ GetAllFromList(c) PROVE ReplyFitsAsk'
    BY <1>3 DEF IsInList, GetAllFromList, Answer
  <1>4. ASSUME NEW c \in Calls, CallFails(c) \/ LandCall(c) PROVE ReplyFitsAsk'
    BY <1>4 DEF CallFails, LandCall, LateWrite, LateDrop, InProgress
  <1>5. CASE UNCHANGED listsVars
    BY <1>5 DEF listsVars
  <1> QED BY <1>1, <1>2, <1>3, <1>4, <1>5 DEF ListsNext, ServeCall

\* An answered call keeps its reply.
LEMMA ReplyStays ==
  ASSUME ListsTypeOK, ReplyFitsAsk, [ListsNext]_listsVars, NEW c \in Calls, reply[c] # "none"
  PROVE  reply'[c] = reply[c] /\ ask'[c] = ask[c]
  <1> USE DEF ListsTypeOK, ReplyFitsAsk
  <1>1. callStage[c] \in {"late", "done"}
    OBVIOUS
  <1>2. ASSUME NEW d \in Calls, NEW a \in Asks, BeginCall(d, a)
        PROVE  reply'[c] = reply[c] /\ ask'[c] = ask[c]
    BY <1>1, <1>2 DEF BeginCall, Answer
  <1>3. ASSUME NEW d \in Calls, ServeCall(d) \/ LandCall(d)
        PROVE  reply'[c] = reply[c] /\ ask'[c] = ask[c]
    BY <1>1, <1>3 DEF ServeCall, LandCall, CheckSecondList, Insert, Delete, IsInList,
                      GetAllFromList, CallFails, LateWrite, LateDrop, Answer, InProgress
  <1> QED BY <1>2, <1>3 DEF ListsNext, listsVars

-----------------------------------------------------------------------------
(* What the client prints. *)

\* Bodies of one shape keep their text and code, and none is the page.
LEMMA BodyFields ==
  ASSUME NEW text, NEW code
  PROVE  /\ Output(text, code) # Page /\ ListResult(text, code) # Page
         /\ Decoded(Output(text, code), "output") = Output(text, code)
         /\ Decoded(ListResult(text, code), "list") = ListResult(text, code)
         /\ Output(text, code).text = text
         /\ ListResult(text, code).text = text /\ ListResult(text, code).code = code
  BY DEF Output, ListResult, Page, Decoded

LEMMA VerdictFields ==
  ASSUME NEW code
  PROVE  /\ Verdict(code) # Page /\ Decoded(Verdict(code), "verdict") = Verdict(code)
         /\ Verdict(code).code = code
  BY DEF Verdict, Page, Decoded

\* What is printed of each kind of command, by its operation.
LEMMA ShownByOp ==
  ASSUME NEW c, NEW body
  PROVE  /\ body = Page => Shown(c, body) = "error"
         /\ body # Page =>
              /\ typed[c].op = "add" => Shown(c, body) = AddShown(body)
              /\ typed[c].op = "remove" => Shown(c, body) = RemoveShown(body)
              /\ typed[c].op = "isin" => Shown(c, body) = IsInShown(body)
              /\ typed[c].op = "getall" => Shown(c, body) = AllInShown(body)
              /\ typed[c].op = "request" => Shown(c, body) = RequestShown(body)
              /\ typed[c].op = "clear" => Shown(c, body) = ClearShown(body)
  <1>1. body = Page => Shown(c, body) = "error"
    BY DEF Shown
  <1>2. ASSUME body # Page, typed[c].op = "add" PROVE Shown(c, body) = AddShown(body)
    BY <1>2 DEF Shown
  <1>3. ASSUME body # Page, typed[c].op = "remove" PROVE Shown(c, body) = RemoveShown(body)
    BY <1>3 DEF Shown
  <1>4. ASSUME body # Page, typed[c].op = "isin" PROVE Shown(c, body) = IsInShown(body)
    BY <1>4 DEF Shown
  <1>5. ASSUME body # Page, typed[c].op = "getall" PROVE Shown(c, body) = AllInShown(body)
    BY <1>5 DEF Shown
  <1>6. ASSUME body # Page, typed[c].op = "request" PROVE Shown(c, body) = RequestShown(body)
    BY <1>6 DEF Shown
  <1>7. ASSUME body # Page, typed[c].op = "clear" PROVE Shown(c, body) = ClearShown(body)
    BY <1>7 DEF Shown
  <1> QED BY <1>1, <1>2, <1>3, <1>4, <1>5, <1>6, <1>7

\* The printout is one, and tells of nothing that was not done.
TrueOf(c, what) ==
    /\ what \in Printouts \ {"none"}
    /\ what \in {"added", "removed", "yes", "no", "all"} => reply[c] = what /\ ask[c] = typed[c]
    /\ what = "cleared" => outcome[c] = "login" /\ typed[c].kind = "login"
    /\ what = "allowed" => outcome[c] = "past"
    /\ ask[c].op = "add" => what \in {"error", "added"}
    /\ ask[c].op = "remove" => what \in {"error", "removed"}

LEMMA ShownOfReply ==
  ASSUME ServerInv, NEW c \in Calls, outcome[c] = "none", reply[c] # "none"
  PROVE  TrueOf(c, Shown(c, Body(c)))
  <1> USE DEF TrueOf, Printouts
  <1>1. ask[c] # NoAsk /\ ask[c] = typed[c]
    BY DEF ServerInv, ReplyFitsAsk, RequestFitsTyped, ClientTypeOK, ListsTypeOK
  <1>2. typed[c].op \in {"add", "remove", "isin", "getall"}
    BY <1>1, AskTypes DEF ServerInv, ClientTypeOK, ListsTypeOK, Asks
  <1>3. Body(c) = ListBody(c)
    BY <1>2 DEF Body
  <1>4. CASE typed[c].op \in {"add", "remove"}
    <2>1. /\ Failed(c) => Body(c) = Output("error", 1)
          /\ ~Failed(c) => \E code : Body(c) = Output("OK", code)
      BY <1>3, <1>4 DEF ListBody
    <2>2. /\ Body(c) # Page
          /\ Decoded(Body(c), "output").text = IF Failed(c) THEN "error" ELSE "OK"
      BY <2>1, BodyFields
    <2>3. /\ typed[c].op = "add" => Shown(c, Body(c)) = IF Failed(c) THEN "error" ELSE "added"
          /\ typed[c].op = "remove" => Shown(c, Body(c)) = IF Failed(c) THEN "error" ELSE "removed"
      BY <2>2, ShownByOp DEF AddShown, RemoveShown
    <2>4. ~Failed(c) => reply[c] = IF typed[c].op = "add" THEN "added" ELSE "removed"
      BY <1>1, <1>4 DEF Failed, ServerInv, ReplyFitsAsk
    <2> QED BY <1>1, <1>4, <2>3, <2>4
  <1>5. CASE typed[c].op \in {"isin", "getall"}
    <2>1. Body(c) = IF Failed(c) THEN ListResult("error", 1) ELSE ListResult(reply[c], 0)
      BY <1>3, <1>5 DEF ListBody
    <2>2. /\ Body(c) # Page
          /\ Decoded(Body(c), "list").code = IF Failed(c) THEN 1 ELSE 0
          /\ ~Failed(c) => Decoded(Body(c), "list").text = reply[c]
      BY <2>1, BodyFields
    <2>3. ~Failed(c) => reply[c] \in IF typed[c].op = "isin" THEN {"yes", "no"} ELSE {"all"}
      BY <1>1, <1>5 DEF Failed, ServerInv, ReplyFitsAsk
    <2>4. Shown(c, Body(c)) = IF Failed(c) THEN "error" ELSE reply[c]
      <3>1. CASE typed[c].op = "isin"
        <4>1. IsInShown(Body(c)) = IF Failed(c) THEN "error" ELSE reply[c]
          <5>1. CASE Failed(c)
            <6>1. Decoded(Body(c), "list").code # 0
              BY <2>2, <5>1
            <6> QED BY <5>1, <6>1 DEF IsInShown
          <5>2. CASE ~Failed(c)
            <6>1. Decoded(Body(c), "list").code = 0 /\ Decoded(Body(c), "list").text = reply[c]
              BY <2>2, <5>2
            <6>2. reply[c] # ""
              BY <2>3, <3>1, <5>2
            <6> QED BY <5>2, <6>1, <6>2 DEF IsInShown
          <5> QED BY <5>1, <5>2
        <4> QED BY <2>2, <3>1, <4>1, ShownByOp
      <3>2. CASE typed[c].op = "getall"
        BY <2>2, <2>3, <3>2, ShownByOp DEF AllInShown
      <3> QED BY <1>5, <3>1, <3>2
    <2> QED BY <1>1, <1>5, <2>3, <2>4
  <1> QED BY <1>2, <1>4, <1>5

LEMMA ShownOfOutcome ==
  ASSUME ServerInv, NEW c \in Calls, typed[c] # NoCommand, outcome[c] # "none"
  PROVE  TrueOf(c, Shown(c, Body(c)))
  <1> USE DEF TrueOf, Printouts
  <1>1. ask[c].op = "none" /\ OutcomeFits(c) /\ outcome[c] \in Outcomes
    BY AskTypes DEF ServerInv, ClientTypeOK, RequestFitsTyped
  <1>2. CASE outcome[c] = "badjson"
    <2>1. Body(c) = Output("error", 1)
      BY <1>2 DEF Body
    <2>2. Body(c) # Page /\ Decoded(Body(c), "output").text = "error"
      BY <2>1, BodyFields
    <2>3. typed[c].op \in {"add", "remove", "isin"}
      BY <1>1, <1>2 DEF OutcomeFits
    <2>4. Decoded(Body(c), "list").text = "" /\ Decoded(Body(c), "list").code = 0
      BY <2>1 DEF Decoded, Output
    <2>5. Shown(c, Body(c)) \in {"error", "blank"}
      BY <2>2, <2>3, <2>4, ShownByOp DEF AddShown, RemoveShown, IsInShown
    <2> QED BY <1>1, <2>5
  <1>3. CASE outcome[c] = "page"
    <2>1. Body(c) = Page
      BY <1>3 DEF Body
    <2>2. Shown(c, Body(c)) = "error"
      BY <2>1, ShownByOp
    <2> QED BY <1>1, <2>2
  <1>4. CASE typed[c].op = "request" /\ outcome[c] \in {"past", "failed"}
    <2>1. Body(c) = Verdict(IF outcome[c] = "past" THEN 1 ELSE 0)
      BY <1>4 DEF Body
    <2>2. /\ Body(c) # Page
          /\ Decoded(Body(c), "verdict").code = 1 <=> outcome[c] = "past"
      BY <2>1, VerdictFields
    <2>3. Shown(c, Body(c)) = IF outcome[c] = "past" THEN "allowed" ELSE "bruteforce"
      BY <1>4, <2>2, ShownByOp DEF RequestShown
    <2> QED BY <1>1, <2>3
  <1>5. CASE typed[c].op = "clear" /\ outcome[c] \in {"login", "failed"}
    <2>1. Body(c) = IF outcome[c] = "failed" THEN Output("error", 1) ELSE Output("OK", 0)
      BY <1>5 DEF Body
    <2>2. /\ Body(c) # Page
          /\ Decoded(Body(c), "output").text = IF outcome[c] = "failed" THEN "error" ELSE "OK"
      BY <2>1, BodyFields
    <2>3. Shown(c, Body(c)) = IF outcome[c] = "failed" THEN "error" ELSE "cleared"
      BY <1>5, <2>2, ShownByOp DEF ClearShown
    <2>4. outcome[c] = "login" => typed[c].kind = "login"
      BY <1>1 DEF OutcomeFits
    <2> QED BY <1>1, <1>5, <2>3, <2>4
  <1> QED BY <1>1, <1>2, <1>3, <1>4, <1>5 DEF OutcomeFits, Outcomes

-----------------------------------------------------------------------------
(* The steps of the client, and what each leaves alone. *)

SessionStep ==
    Ping \/ PingFails \/ Loop \/ ReadNothing \/ ReadExit \/ EndInput \/ Signal

Reads(c) == \E a \in UserCommands[c] : ReadCommand(c, a)

LEMMA StepCases ==
  ASSUME [ClientNext]_clientVars
  PROVE  \/ SessionStep
         \/ \E c \in Calls :
              \/ Reads(c) \/ ReadAnswer(c) \/ GiveUp(c) \/ Served(c)
              \/ (ServeCall(c) \/ LandCall(c)) /\ UNCHANGED <<sessionVars, commandVars>>
         \/ UNCHANGED clientVars
  BY DEF ClientNext, ClientStep, Type, ServerStep, SessionStep, Reads, Served

\* A step of the loop, the input or the signal touches no command; and the loop
\* moves only when no command waits.
LEMMA SessionFrame ==
  ASSUME SessionStep
  PROVE  /\ UNCHANGED <<commandVars, listsVars, late>>
         /\ phase' = phase \/ phase \in {"ping", "loop", "read"}
         /\ phase \in Phases => phase' \in Phases
         /\ inputEnded' \in {inputEnded, TRUE} /\ signalled' \in {signalled, TRUE}
         /\ signalled /\ phase = "loop" => phase' \in {"loop", "exited"}
  <1> USE DEF Phases
  <1>1. CASE Ping
    BY <1>1 DEF Ping
  <1>2. CASE PingFails
    BY <1>2 DEF PingFails
  <1>3. CASE Loop
    BY <1>3 DEF Loop
  <1>4. CASE ReadNothing \/ ReadExit
    BY <1>4 DEF ReadNothing, ReadExit
  <1>5. CASE EndInput
    BY <1>5 DEF EndInput
  <1>6. CASE Signal
    BY <1>6 DEF Signal
  <1> QED BY <1>1, <1>2, <1>3, <1>4, <1>5, <1>6 DEF SessionStep

\* A command is read when none waits; it is answered at once or sent.
LEMMA ReadFrame ==
  ASSUME ServerInv, NEW c \in Calls, Reads(c)
  PROVE  /\ phase = "read" /\ Fresh(c) /\ UNCHANGED <<outcome, inputEnded, signalled, listsVars>>
         /\ typed[c] = NoCommand /\ told[c] = "none" /\ wire[c] = "none"
         /\ typed' = [typed EXCEPT ![c] = typed'[c]] /\ typed'[c] \in Commands
         /\ late' \subseteq late \union {c} /\ (~signalled => late' = late)
         /\ \/ /\ typed'[c] = Local /\ wire' = wire
               /\ told' = [told EXCEPT ![c] = "error"] /\ phase' = "loop"
            \/ /\ typed'[c] # Local /\ told' = told
               /\ wire' = [wire EXCEPT ![c] = "sent"] /\ phase' = "wait"
  <1>1. PICK a \in UserCommands[c] : ReadCommand(c, a)
    BY DEF Reads
  <1>2. a \in Commands
    BY UserCommandsAssumption
  <1>3. typed' = [typed EXCEPT ![c] = a] /\ typed'[c] = a
    BY <1>1 DEF ReadCommand, ServerInv, ClientTypeOK
  <1>4. typed[c] = NoCommand /\ told[c] = "none" /\ wire[c] = "none"
    BY <1>1 DEF ReadCommand, Fresh, ServerInv, RequestFitsTyped
  <1> QED BY <1>1, <1>2, <1>3, <1>4 DEF ReadCommand

\* A command that waits is answered.
LEMMA SayFrame ==
  ASSUME ServerInv, NEW c \in Calls, ReadAnswer(c) \/ GiveUp(c)
  PROVE  /\ Waiting(c) /\ phase' = "loop"
         /\ UNCHANGED <<typed, wire, outcome, inputEnded, signalled, late, listsVars>>
         /\ told' = [told EXCEPT ![c] = told'[c]]
         /\ told'[c] \in Printouts \ {"none"}
         /\ \/ told'[c] = "error"
            \/ wire[c] = "served" /\ TrueOf(c, told'[c])
  <1> USE DEF ServerInv, ClientTypeOK
  <1>1. CASE GiveUp(c)
    BY <1>1 DEF GiveUp, Say, Printouts
  <1>2. CASE ReadAnswer(c)
    <2>1. Waiting(c) /\ wire[c] = "served" /\ Say(c, Shown(c, Body(c)))
      BY <1>2 DEF ReadAnswer
    <2>2. TrueOf(c, Shown(c, Body(c)))
      BY <1>2, ShownOfReply, ShownOfOutcome DEF ReadAnswer, Waiting
    <2>3. told' = [told EXCEPT ![c] = Shown(c, Body(c))] /\ told'[c] = Shown(c, Body(c))
      BY <2>1 DEF Say
    <2> QED BY <2>1, <2>2, <2>3 DEF Say, TrueOf
  <1> QED BY <1>1, <1>2

-----------------------------------------------------------------------------
(* Types, and requests that carry what was typed. *)

LEMMA SessionServerInv ==
  ASSUME ServerInv, SessionStep PROVE ClientTypeOK' /\ RequestFitsTyped'
  <1> USE SessionFrame DEF ServerInv
  <1>1. ListsTypeOK'
    BY DEF ClientTypeOK, ListsTypeOK, listsVars, SettledCalls
  <1>2. ClientTypeOK'
    BY <1>1 DEF ClientTypeOK, commandVars
  <1>3. RequestFitsTyped'
    BY DEF RequestFitsTyped, OutcomeFits, commandVars, listsVars
  <1> QED BY <1>2, <1>3

LEMMA ReadServerInv ==
  ASSUME ServerInv, NEW c \in Calls, Reads(c) PROVE ClientTypeOK' /\ RequestFitsTyped'
  <1> USE ReadFrame DEF ServerInv
  <1>1. ListsTypeOK'
    BY DEF ClientTypeOK, ListsTypeOK, listsVars
  <1>2. typed'[c] # NoCommand /\ \A d \in Calls : typed[d] # NoCommand => told[d] # "none"
    BY CommandKinds DEF ClientTypeOK
  <1>3. ClientTypeOK'
    BY <1>1, <1>2 DEF ClientTypeOK, Phases, Wires, Printouts
  <1>4. RequestFitsTyped'
    BY <1>2 DEF RequestFitsTyped, OutcomeFits, listsVars, ClientTypeOK
  <1> QED BY <1>3, <1>4

LEMMA SayServerInv ==
  ASSUME ServerInv, NEW c \in Calls, ReadAnswer(c) \/ GiveUp(c)
  PROVE  ClientTypeOK' /\ RequestFitsTyped'
  <1> USE SayFrame DEF ServerInv
  <1>1. ListsTypeOK'
    BY DEF ClientTypeOK, ListsTypeOK, listsVars
  <1>2. \A d \in Calls : typed[d] # NoCommand /\ told[d] = "none" => d = c
    BY DEF ClientTypeOK, Waiting
  <1>3. ClientTypeOK'
    BY <1>1, <1>2 DEF ClientTypeOK, Phases
  <1>4. RequestFitsTyped'
    BY DEF RequestFitsTyped, OutcomeFits, listsVars, ClientTypeOK, Waiting
  <1> QED BY <1>3, <1>4

LEMMA ServedServerInv ==
  ASSUME ServerInv, NEW c \in Calls, Served(c), ListsTypeOK'
  PROVE  ClientTypeOK' /\ RequestFitsTyped'
  <1> USE ServedCases DEF ServerInv
  <1>1. ClientTypeOK'
    BY DEF ClientTypeOK, Wires, sessionVars
  <1>2. CASE typed[c] \in Asks /\ BeginCall(c, typed[c]) /\ UNCHANGED outcome
    <2>1. ask' = [ask EXCEPT ![c] = typed[c]]
      BY <1>2 DEF BeginCall
    <2> QED BY <1>1, <1>2, <2>1 DEF RequestFitsTyped, OutcomeFits, ClientTypeOK, ListsTypeOK
  <1>3. CASE UNCHANGED listsVars /\ outcome' = [outcome EXCEPT ![c] = outcome'[c]] /\ OutcomeFits(c)'
    BY <1>1, <1>3 DEF RequestFitsTyped, OutcomeFits, ClientTypeOK, listsVars
  <1> QED BY <1>1, <1>2, <1>3

LEMMA GoOnServerInv ==
  ASSUME ServerInv, NEW c \in Calls, ServeCall(c) \/ LandCall(c),
         UNCHANGED <<sessionVars, commandVars>>, ListsTypeOK'
  PROVE  ClientTypeOK' /\ RequestFitsTyped'
  <1> USE DEF ServerInv
  <1>1. ask' = ask
    BY DEF ServeCall, LandCall, CheckSecondList, Insert, Delete, IsInList, GetAllFromList,
           CallFails, LateWrite, LateDrop
  <1>2. ClientTypeOK'
    BY DEF ClientTypeOK, sessionVars, commandVars
  <1>3. RequestFitsTyped'
    BY <1>1 DEF RequestFitsTyped, OutcomeFits, commandVars
  <1> QED BY <1>2, <1>3

LEMMA ServerInvNext == ASSUME ServerInv, [ClientNext]_clientVars PROVE ServerInv'
  <1>1. [ListsNext]_listsVars
    BY ClientStepIsListsStep
  <1>2. ListsInv' /\ ReplyFitsAsk' /\ ListsTypeOK'
    BY <1>1, ListsInvNext, ReplyFitsAskNext DEF ServerInv, ListsInv
  <1>3. CASE UNCHANGED clientVars
    BY <1>2, <1>3 DEF clientVars, listsVars, ServerInv, ClientTypeOK, RequestFitsTyped, OutcomeFits
  <1>4. ClientTypeOK' /\ RequestFitsTyped'
    BY <1>2, <1>3, StepCases, SessionServerInv, ReadServerInv, SayServerInv, ServedServerInv,
       GoOnServerInv DEF ServerInv
  <1> QED BY <1>2, <1>4 DEF ServerInv

-----------------------------------------------------------------------------
(* From one command to the next. *)

\* A printout comes from one action, and it stays; so does what was typed.
LEMMA ToldSteps ==
  ASSUME ServerInv, [ClientNext]_clientVars, NEW c \in Calls
  PROVE  /\ told[c] # "none" => told'[c] = told[c]
         /\ typed[c] # NoCommand => typed'[c] = typed[c]
         /\ typed[c] = NoCommand /\ typed'[c] # NoCommand => Reads(c)
         /\ told'[c] # told[c] => told'[c] = "error" \/ ReadAnswer(c)
  <1> USE DEF ServerInv, ClientTypeOK
  <1>1. CASE SessionStep \/ UNCHANGED clientVars
    BY <1>1, SessionFrame DEF commandVars, clientVars
  <1>2. ASSUME NEW d \in Calls, Reads(d)
        PROVE  /\ told[c] # "none" => told'[c] = told[c]
               /\ typed[c] # NoCommand => typed'[c] = typed[c]
               /\ typed[c] = NoCommand /\ typed'[c] # NoCommand => c = d
               /\ told'[c] # told[c] => told'[c] = "error"
    BY <1>2, ReadFrame
  <1>3. ASSUME NEW d \in Calls, ReadAnswer(d) \/ GiveUp(d)
        PROVE  /\ told[c] # "none" => told'[c] = told[c]
               /\ typed' = typed
               /\ told'[c] # told[c] => c = d
    BY <1>3, SayFrame DEF Waiting
  <1>4. ASSUME NEW d \in Calls, GiveUp(d) PROVE told'[d] = "error"
    BY <1>4 DEF GiveUp, Say
  <1>5. ASSUME NEW d \in Calls, Served(d) \/ UNCHANGED commandVars
        PROVE  told' = told /\ typed' = typed
    BY <1>5, ServedCases DEF commandVars
  <1> QED BY <1>1, <1>2, <1>3, <1>4, <1>5, StepCases

\* A request that has begun keeps what it asks for, its outcome and its place.
LEMMA RequestStays ==
  ASSUME ServerInv, [ClientNext]_clientVars, NEW c \in Calls
  PROVE  /\ outcome[c] # "none" => outcome'[c] = outcome[c]
         /\ ask[c] # NoAsk => ask'[c] = ask[c] /\ before'[c] = before[c]
         /\ ask[c] = NoAsk /\ ask'[c] # NoAsk =>
                before'[c] = SettledCalls /\ wire[c] = "sent"
         /\ wire'[c] # wire[c] => told[c] = "none" \/ wire'[c] = "served"
         /\ wire[c] = "served" => wire'[c] = "served"
  <1> USE DEF ServerInv, ClientTypeOK, ListsTypeOK
  <1>1. CASE SessionStep \/ UNCHANGED clientVars
    BY <1>1, SessionFrame DEF commandVars, clientVars, listsVars
  <1>2. ASSUME NEW d \in Calls, Reads(d)
        PROVE  /\ UNCHANGED <<outcome, listsVars>>
               /\ wire'[c] # wire[c] => told[c] = "none"
               /\ wire[c] = "served" => wire'[c] = "served"
    BY <1>2, ReadFrame
  <1>3. ASSUME NEW d \in Calls, ReadAnswer(d) \/ GiveUp(d)
        PROVE  UNCHANGED <<outcome, wire, listsVars>>
    BY <1>3, SayFrame
  <1>4. ASSUME NEW d \in Calls, Served(d)
        PROVE  /\ outcome[c] # "none" => outcome'[c] = outcome[c]
               /\ ask[c] # NoAsk => ask'[c] = ask[c] /\ before'[c] = before[c]
               /\ ask[c] = NoAsk /\ ask'[c] # NoAsk =>
                      before'[c] = SettledCalls /\ wire[c] = "sent"
               /\ wire'[c] # wire[c] => wire'[c] = "served"
    BY <1>4, ServedCases DEF BeginCall, listsVars
  <1>5. ASSUME NEW d \in Calls, ServeCall(d) \/ LandCall(d), UNCHANGED commandVars
        PROVE  UNCHANGED <<outcome, wire, ask, before>>
    BY <1>5 DEF commandVars, ServeCall, LandCall, CheckSecondList, Insert, Delete, IsInList,
                GetAllFromList, CallFails, LateWrite, LateDrop
  <1> QED BY <1>1, <1>2, <1>3, <1>4, <1>5, StepCases DEF listsVars

\* Without a request nothing was asked for, and a reply has one.
LEMMA ReplyHasAsk ==
  ASSUME ServerInv, NEW c \in Calls, reply[c] # "none"
  PROVE  ask[c] # NoAsk
  BY DEF ServerInv, ReplyFitsAsk, ClientTypeOK, ListsTypeOK

LEMMA SuccessIsTrueNext ==
  ASSUME ClientInv, [ClientNext]_clientVars PROVE SuccessIsTrue' /\ ToldFits'
  <1> USE DEF ClientInv
  <1>0. [ListsNext]_listsVars /\ ListsTypeOK /\ ReplyFitsAsk
    BY ClientStepIsListsStep DEF ServerInv, ListsInv
  <1> DEFINE Good(c) ==
        /\ told[c] \in {"added", "removed", "yes", "no", "all"} =>
               reply[c] = told[c] /\ ask[c] = typed[c]
        /\ told[c] = "cleared" => outcome[c] = typed[c].kind
        /\ told[c] = "allowed" => outcome[c] = "past"
        /\ ask[c].op = "add" => told[c] \in {"none", "error", "added"}
        /\ ask[c].op = "remove" => told[c] \in {"none", "error", "removed"}
        /\ wire[c] # "served" => told[c] \in {"none", "error"}
        /\ told[c] = "cleared" => outcome[c] = "login"
  <1> SUFFICES ASSUME NEW c \in Calls PROVE Good(c)'
    BY DEF SuccessIsTrue, ToldFits
  <1>1. Good(c)
    BY DEF SuccessIsTrue, ToldFits
  <1>2. CASE told'[c] # told[c] /\ told'[c] # "error"
    <2>1. ReadAnswer(c)
      BY <1>2, ToldSteps
    <2>2. /\ UNCHANGED <<typed, wire, outcome, listsVars>>
          /\ wire[c] = "served" /\ TrueOf(c, told'[c])
      BY <1>2, <2>1, SayFrame
    <2> QED BY <2>2 DEF TrueOf, listsVars
  <1>3. CASE told'[c] = "error"
    BY <1>3
  <1>4. CASE told'[c] = told[c] /\ told[c] \notin {"none", "error"}
    <2>1. wire[c] = "served" /\ wire'[c] = "served"
      BY <1>1, <1>4, RequestStays
    <2>2. typed[c] # NoCommand /\ typed'[c] = typed[c]
      BY <1>4, ToldSteps DEF ServerInv, RequestFitsTyped
    <2>3. told[c] \in {"added", "removed", "yes", "no", "all"} =>
              reply'[c] = told[c] /\ ask'[c] = typed[c]
      BY <1>0, <1>1, ReplyStays
    <2>4. told[c] = "cleared" => outcome'[c] = "login" /\ typed[c].kind = "login"
      BY <1>1, RequestStays
    <2>5. told[c] = "allowed" => outcome'[c] = "past"
      BY <1>1, RequestStays
    <2>6. ask'[c] = ask[c]
      BY <2>1, RequestStays
    <2> QED BY <1>1, <1>4, <2>1, <2>2, <2>3, <2>4, <2>5, <2>6
  <1>5. CASE told'[c] = "none"
    BY <1>5
  <1> QED BY <1>2, <1>3, <1>4, <1>5

LEMMA TypedInOrderNext ==
  ASSUME ClientInv, [ClientNext]_clientVars PROVE TypedInOrder'
  <1> USE DEF ClientInv
  <1> SUFFICES ASSUME NEW c \in Calls, NEW d \in Calls, typed'[d] # NoCommand, c < d
               PROVE  typed'[c] # NoCommand /\ told'[c] # "none"
    BY DEF TypedInOrder
  <1>1. typed[c] # NoCommand /\ told[c] # "none"
    <2>1. CASE typed[d] # NoCommand
      BY <2>1 DEF TypedInOrder
    <2>2. CASE typed[d] = NoCommand
      <3>1. Fresh(d) /\ phase = "read"
        BY <2>2, ToldSteps, ReadFrame
      <3>2. c \in Nat /\ d \in Nat
        BY CallsAssumption
      <3>3. typed[c] # NoCommand
        BY <3>1, <3>2 DEF Fresh
      <3> QED BY <3>1, <3>3 DEF ServerInv, ClientTypeOK
    <2> QED BY <2>1, <2>2
  <1> QED BY <1>1, ToldSteps

LEMMA DoneBeforeLaterNext ==
  ASSUME ClientInv, [ClientNext]_clientVars PROVE DoneBeforeLater'
  <1> USE DEF ClientInv
  <1> SUFFICES ASSUME NEW c \in Calls, NEW d \in Calls,
                      told'[c] \in {"added", "removed"}, c < d, ask'[d] # NoAsk
               PROVE  c \in before'[d]
    BY DEF DoneBeforeLater
  <1>1. typed[d] # NoCommand
    <2>1. ask[d] # NoAsk => typed[d] # NoCommand
      BY DEF ServerInv, RequestFitsTyped, NoCommand, NoAsk
    <2>2. ask[d] = NoAsk => wire[d] = "sent"
      BY RequestStays
    <2> QED BY <2>1, <2>2 DEF ServerInv, RequestFitsTyped
  <1>2. told[c] \in {"added", "removed"}
    BY <1>1, ToldSteps DEF TypedInOrder
  <1>3. CASE ask[d] # NoAsk
    BY <1>2, <1>3, RequestStays DEF DoneBeforeLater
  <1>4. CASE ask[d] = NoAsk
    <2>1. Settled(c)
      BY <1>2 DEF SuccessIsTrue, ServerInv, ListsInv, RepliesFit
    <2> QED BY <1>4, <2>1, RequestStays DEF SettledCalls
  <1> QED BY <1>3, <1>4

LEMMA LastAfterSignalNext ==
  ASSUME ClientInv, [ClientNext]_clientVars PROVE LastAfterSignal'
  <1> USE DEF ClientInv, LastAfterSignal, AtMostOneAfterSignal
  <1>1. CASE SessionStep
    BY <1>1, SessionFrame
  <1>2. ASSUME NEW c \in Calls, Reads(c) PROVE LastAfterSignal'
    <2>1. /\ phase = "read" /\ late' \subseteq late \union {c}
          /\ signalled' = signalled /\ phase' \in {"wait", "loop"} /\ (~signalled => late' = late)
      BY <1>2, ReadFrame
    <2>2. late = {}
      BY <2>1
    <2> QED BY <2>1, <2>2
  <1>3. ASSUME NEW c \in Calls, ReadAnswer(c) \/ GiveUp(c) PROVE LastAfterSignal'
    BY <1>3, SayFrame
  <1>4. CASE UNCHANGED sessionVars
    BY <1>4 DEF sessionVars
  <1> QED BY <1>1, <1>2, <1>3, <1>4, StepCases, ServedCases DEF clientVars, sessionVars

-----------------------------------------------------------------------------
(* What the user may rely on. *)

\* The commands of one user are ordered.
LEMMA CommandOrder ==
  ASSUME NEW c \in Calls, NEW d \in Calls, c # d
  PROVE  (c < d \/ d < c) /\ ~(c < d /\ d < c)
  BY CallsAssumption

\* The remove that lost the entry of add c was typed before lookup d, which still
\* waits: it is later than c, or it was answered with an error.
LEMMA RemoveWasTyped ==
  ASSUME ClientInv, NEW c \in Calls, NEW d \in Calls, told[c] = "added", c < d,
         Waiting(d), reply[d] \in {"no", "all"}, Misses(d, c)
  PROVE  \E e \in Calls :
            /\ ask[e].op = "remove" /\ SameEntry(c, e) /\ e < d
            /\ e > c \/ told[e] = "error"
  <1> USE DEF ClientInv, ServerInv
  <1>1. ask[d] # NoAsk /\ reply[c] = "added"
    BY ReplyHasAsk DEF SuccessIsTrue
  <1>2. c \in before[d]
    BY <1>1 DEF DoneBeforeLater
  <1>3. PICK e \in Calls : ask[e].op = "remove" /\ SameEntry(c, e) /\ e \notin before[c]
    BY <1>1, <1>2 DEF ListsInv, LookupSeesAdds, RemoveMayFollow
  <1>4. e # c /\ e # d
    BY <1>1, <1>3 DEF ListsInv, RepliesFit
  <1>5. typed[e] # NoCommand /\ typed[c] # NoCommand /\ ask[c] # NoAsk
    BY <1>1, <1>3, ReplyHasAsk DEF SameEntry, RequestFitsTyped, NoCommand, NoAsk
  <1>6. e < d
    BY <1>4, <1>5, CommandOrder DEF TypedInOrder, Waiting
  <1>7. CASE e > c
    BY <1>3, <1>6, <1>7
  <1>8. CASE e < c
    <2>1. told[e] \in {"error", "removed"}
      BY <1>3, <1>5, <1>8 DEF TypedInOrder, ToldFits
    <2>2. told[e] # "removed"
      BY <1>3, <1>5, <1>8 DEF DoneBeforeLater
    <2> QED BY <1>3, <1>6, <2>1, <2>2
  <1>9. e < c \/ e > c
    BY <1>4, CallsAssumption
  <1> QED BY <1>7, <1>8, <1>9

LEMMA ReadsOwnWritesNext ==
  ASSUME ClientInv, [ClientNext]_clientVars PROVE ReadsOwnWrites'
  <1> SUFFICES ASSUME NEW c \in Calls, NEW d \in Calls, told'[c] = "added", c < d,
                      told'[d] \in {"no", "all"}, Misses(d, c)'
               PROVE  \E e \in Calls :
                        /\ ask'[e].op = "remove" /\ SameEntry(c, e)' /\ e < d
                        /\ e > c \/ told'[e] = "error"
    BY DEF ReadsOwnWrites
  <1> USE DEF ClientInv, ServerInv
  <1>0. ListsTypeOK /\ [ListsNext]_listsVars
    BY ClientStepIsListsStep DEF ListsInv
  <1>1. CASE told'[d] = told[d]
    <2>1. typed[d] # NoCommand
      BY <1>1 DEF RequestFitsTyped
    <2>2. told[c] = "added"
      BY <2>1, ToldSteps DEF TypedInOrder
    <2>3. reply[c] = "added" /\ reply[d] = told[d]
      BY <1>1, <2>2 DEF SuccessIsTrue
    <2>4. ask'[c] = ask[c] /\ ask'[d] = ask[d] /\ reply'[d] = reply[d]
      BY <1>0, <1>1, <2>3, ReplyStays
    <2>5. listed'[d] = listed[d]
      BY <1>0, <1>1, <2>3, StepFrame DEF ListsInv, RepliesFit
    <2>6. Misses(d, c)
      BY <2>4, <2>5 DEF Misses, SameEntry
    <2>7. PICK e \in Calls : /\ ask[e].op = "remove" /\ SameEntry(c, e) /\ e < d
                             /\ e > c \/ told[e] = "error"
      BY <1>1, <2>2, <2>6 DEF ReadsOwnWrites
    <2>8. ask'[e] = ask[e] /\ (told[e] = "error" => told'[e] = "error")
      BY <2>7, RequestStays, ToldSteps DEF SameEntry
    <2> QED BY <2>4, <2>7, <2>8 DEF SameEntry
  <1>2. CASE told'[d] # told[d]
    <2>1. ReadAnswer(d)
      BY <1>2, ToldSteps
    <2>2. /\ Waiting(d) /\ UNCHANGED listsVars /\ TrueOf(d, told'[d])
          /\ told' = [told EXCEPT ![d] = told'[d]]
      BY <2>1, SayFrame
    <2>3. told[c] = "added"
      BY <2>2, ToldSteps DEF TypedInOrder, Waiting
    <2>4. reply[d] \in {"no", "all"} /\ Misses(d, c)
      BY <2>2 DEF TrueOf, listsVars, Misses, SameEntry
    <2>5. PICK e \in Calls : /\ ask[e].op = "remove" /\ SameEntry(c, e) /\ e < d
                             /\ e > c \/ told[e] = "error"
      BY <2>2, <2>3, <2>4, RemoveWasTyped
    <2>6. told[e] = "error" => told'[e] = "error"
      BY ToldSteps
    <2> QED BY <2>2, <2>5, <2>6 DEF SameEntry, listsVars
  <1> QED BY <1>1, <1>2

\* Two adds of one subnet to the two lists did not follow one another with success.
LEMMA BothListsFromInv == ClientInv => BothListsOnlyAfterError
  <1> SUFFICES ASSUME ClientInv, NEW c \in table[WhiteListName], NEW d \in table[BlackListName],
                      ask[c].subnet = ask[d].subnet
               PROVE  told[c] = "error" \/ told[d] = "error"
    BY DEF BothListsOnlyAfterError
  <1> USE DEF ClientInv, ServerInv
  <1>1. c \notin before[d] /\ d \notin before[c]
    BY CrossListFromInv DEF CrossListNeedsOverlap
  <1>2. /\ c \in Calls /\ ask[c].op = "add" /\ ask[c].list = WhiteListName
        /\ d \in Calls /\ ask[d].op = "add" /\ ask[d].list = BlackListName
    BY DEF ListsInv, ListsTypeOK, ListNames
  <1>3. c # d
    BY <1>2 DEF WhiteListName, BlackListName
  <1>4. ASSUME NEW e \in {c, d}, NEW f \in {c, d}, e < f, e \notin before[f]
        PROVE  told[e] = "error"
    <2>1. ask[f] # NoAsk /\ typed[f] # NoCommand
      BY <1>2, AskTypes DEF RequestFitsTyped, NoCommand, NoAsk
    <2>2. told[e] \in {"error", "added"}
      BY <1>2, <1>4, <2>1 DEF TypedInOrder, ToldFits
    <2> QED BY <1>2, <1>4, <2>1, <2>2 DEF DoneBeforeLater
  <1> QED BY <1>1, <1>2, <1>3, <1>4, CommandOrder

-----------------------------------------------------------------------------
(* The invariant and its theorems. *)

LEMMA ClientInvInit == ClientInit => ClientInv
  <1> SUFFICES ASSUME ClientInit PROVE ClientInv
    OBVIOUS
  <1> USE DEF ClientInit
  <1>1. ListsInv
    BY ListsInvInit
  <1>2. \A c \in Calls : /\ typed[c] = NoCommand /\ wire[c] = "none" /\ outcome[c] = "none"
                         /\ told[c] = "none" /\ ask[c] = NoAsk /\ reply[c] = "none"
    BY DEF ListsInit
  <1>3. ReplyFitsAsk
    BY <1>2 DEF ReplyFitsAsk
  <1>4. ClientTypeOK
    BY <1>1, <1>2 DEF ListsInv, ClientTypeOK, Phases, Wires, Outcomes, Printouts
  <1>5. RequestFitsTyped
    BY <1>2 DEF RequestFitsTyped, OutcomeFits
  <1>6. SuccessIsTrue /\ ToldFits /\ TypedInOrder /\ DoneBeforeLater /\ ReadsOwnWrites
    BY <1>2 DEF SuccessIsTrue, ToldFits, TypedInOrder, DoneBeforeLater, ReadsOwnWrites
  <1>7. LastAfterSignal
    BY DEF LastAfterSignal, AtMostOneAfterSignal
  <1> QED BY <1>1, <1>3, <1>4, <1>5, <1>6, <1>7 DEF ClientInv, ServerInv

LEMMA ClientInvariant == ClientSpec => []ClientInv
  <1>1. ClientInv /\ [ClientNext]_clientVars => ClientInv'
    BY ServerInvNext, SuccessIsTrueNext, TypedInOrderNext, DoneBeforeLaterNext,
       ReadsOwnWritesNext, LastAfterSignalNext DEF ClientInv
  <1> QED BY <1>1, ClientInvInit, PTL DEF ClientSpec

\* The types hold, and the client waits for one command at a time.
THEOREM ClientTypeCorrect == ClientSpec => []ClientTypeOK
  <1>1. ClientInv => ClientTypeOK
    BY DEF ClientInv, ServerInv
  <1> QED BY <1>1, ClientInvariant, PTL

\* Every success the client prints was one at the server, for what the user
\* typed, whatever is lost, late or refused in between (cli.go:98-415).
THEOREM SuccessIsTrueTheorem == ClientSpec => []SuccessIsTrue
  <1>1. ClientInv => SuccessIsTrue
    BY DEF ClientInv
  <1> QED BY <1>1, ClientInvariant, PTL

\* The user reads his own writes: an add reported as done is missed by a later
\* lookup only if its remove was typed in between, or before and answered with an
\* error (cli.go:98-304).
THEOREM ReadsOwnWritesTheorem == ClientSpec => []ReadsOwnWrites
  <1>1. ClientInv => ReadsOwnWrites
    BY DEF ClientInv
  <1> QED BY <1>1, ClientInvariant, PTL

\* One user alone gets a subnet into both lists only through an add reported as
\* failed (cli.go:98-150, app.go:191-207).
THEOREM BothListsTheorem == ClientSpec => []BothListsOnlyAfterError
  BY BothListsFromInv, ClientInvariant, PTL

\* At most one command is read after the signal (main.go:68-87).
THEOREM AtMostOneAfterSignalTheorem == ClientSpec => []AtMostOneAfterSignal
  <1>1. ClientInv => AtMostOneAfterSignal
    BY DEF ClientInv, LastAfterSignal
  <1> QED BY <1>1, ClientInvariant, PTL

\* Whatever the user types, the lists see only steps of module Lists, so that all
\* that is proved of them holds of a server behind the client too.
THEOREM ClientImplementsLists == ClientSpec => ListsSpec
  <1>1. ClientInit => ListsInit
    BY DEF ClientInit
  <1>2. ClientInv /\ [ClientNext]_clientVars => [ListsNext]_listsVars
    BY ClientStepIsListsStep DEF ClientInv
  <1>3. ClientSpec => [][ListsNext]_listsVars
    BY <1>2, ClientInvariant, PTL DEF ClientSpec
  <1> QED BY <1>1, <1>3, PTL DEF ClientSpec, ListsSpec
=============================================================================
