------------------------------- MODULE Client -------------------------------
(***************************************************************************)
(* The command-line client, cmd/cli: its start, its loop over the lines    *)
(* the user types, the HTTP request each command makes, and what it prints *)
(* of the answer; on top of the list operations of module Lists.           *)
(*                                                                         *)
(* One user types the commands 1, 2, ... one after the other.  But a       *)
(* request that the client has given up on may still be served, so that    *)
(* the calls of a single client can overlap at the server.                 *)
(***************************************************************************)
EXTENDS Lists

CONSTANTS
    RootAnswer, \* what the server answers on its root route
    UserCommands, \* bound: UserCommands[c] is what the user may type as command c
    MaxStray    \* bound: requests given up on and still under way when the user types

ASSUME CallsAssumption == Calls \subseteq Nat

\* No subnet looks like the tag of a whole list or like a mask that is no number.
ASSUME SubnetsAssumption == Subnets \intersect {"ALL", "badmask"} = {}

VARIABLES
    phase,      \* where the client is
    typed,      \* typed[c]: the command number c
    wire,       \* wire[c]: where its HTTP request is
    outcome,    \* outcome[c]: what the server did, for commands other than the lists'
    told,       \* told[c]: what the client printed
    inputEnded, \* standard input is at its end
    signalled,  \* the context of NotifyContext is done
    late        \* history: the commands read after the signal

sessionVars == <<phase, inputEnded, signalled, late>>
commandVars == <<typed, wire, outcome, told>>
clientVars == <<phase, typed, wire, outcome, told, inputEnded, signalled, late, listsVars>>

Phases == {"ping", "loop", "read", "wait", "exited", "panicked"}
Wires == {"none", "sent", "served"}

\* What the server did: cleared the bucket of a login or an IP, let a request
\* past, refused or failed, showed the page of the root route, or could not read
\* the JSON.
Outcomes == {"none", "login", "ip", "past", "failed", "page", "badjson"}

Printouts == {"none", "error", "blank", "added", "removed", "yes", "no", "all", "cleared",
            "allowed", "bruteforce"}

-----------------------------------------------------------------------------
(* What the user types: a line as processCommand splits it and puts it into
   lower case, logins and passwords included. *)

NoCommand == [op |-> "none"]

\* Commands on the lists; a mask that is no number makes the JSON of the
\* request unreadable, which only the server finds out.
Masked == [op : {"add", "remove", "isin"}, list : ListNames, subnet : {"badmask"}]
Clears == [op : {"clear"}, kind : {"login", "ip"}]
AuthRequest == [op |-> "request"]

\* "help", an unknown command, a wrong number of arguments or of slashes: an
\* answer without a request.
Local == [op |-> "local"]

Commands == Asks \union Masked \union Clears \union {AuthRequest, Local}

ASSUME UserCommandsAssumption == UserCommands \in [Calls -> SUBSET Commands]
ASSUME MaxStrayAssumption == MaxStray \in Nat

\* Commands are typed in the order of their numbers.
Fresh(c) == typed[c] = NoCommand /\ \A d \in Calls : typed[d] = NoCommand => c <= d

\* Requests given up on that the server may yet begin or go on with.
Stray == {c \in Calls : told[c] = "error" /\ (wire[c] = "sent" \/ callStage[c] \notin {"idle", "done"})}

Waiting(c) == phase = "wait" /\ typed[c] # NoCommand /\ told[c] = "none"

-----------------------------------------------------------------------------
(* The HTTP request that each command makes. *)

Message(method, path, body) == [method |-> method, path |-> path, body |-> body]

AddMessage(a) == Message("POST", a.list, a.subnet)

RemoveMessage(a) == Message("DELETE", a.list, a.subnet)

IsInMessage(a) == Message("GET", a.list, a.subnet)

AllInMessage(a) == Message("GET", a.list, "ALL")

RequestMessage == Message("GET", "request", "credentials")

ClearMessage(a) == Message("DELETE", [login |-> "clearLogin", ip |-> "clearIp"][a.kind], "tag")

MessageOf(a) ==
    CASE a.op = "add" -> AddMessage(a)
      [] a.op = "remove" -> RemoveMessage(a)
      [] a.op = "isin" -> IsInMessage(a)
      [] a.op = "getall" -> AllInMessage(a)
      [] a.op = "clear" -> ClearMessage(a)
      [] a.op = "request" -> RequestMessage

-----------------------------------------------------------------------------
(* The body the server answers with, as the shape of its JSON, its text and
   its code: an outputJSON, an IPListResult, an AuthorizationRequestAnswer, or
   a page that is no JSON. *)

Output(text, code) == [shape |-> "output", text |-> text, code |-> code]
ListResult(text, code) == [shape |-> "list", text |-> text, code |-> code]
Verdict(code) == [shape |-> "verdict", text |-> "", code |-> code]
Page == [shape |-> "page", text |-> "", code |-> 0]

Failed(c) == reply[c] \in {"invalid", "refused", "norecord", "error"}

\* listRest: a write answers an outputJSON, whose Code is the new row's ID after
\* an add, and a lookup an IPListResult.
ListBody(c) ==
    IF typed[c].op \in {"add", "remove"}
    THEN IF Failed(c) THEN Output("error", 1) ELSE Output("OK", IF reply[c] = "added" THEN c ELSE 0)
    ELSE IF Failed(c) THEN ListResult("error", 1) ELSE ListResult(reply[c], 0)

Body(c) ==
    IF outcome[c] = "badjson" THEN Output("error", 1)
    ELSE IF outcome[c] = "page" THEN Page
    ELSE CASE typed[c].op = "request" -> Verdict(IF outcome[c] = "past" THEN 1 ELSE 0)
           [] typed[c].op = "clear" ->
                  IF outcome[c] = "failed" THEN Output("error", 1) ELSE Output("OK", 0)
           [] OTHER -> ListBody(c)

-----------------------------------------------------------------------------
(* What each command prints of the body; a body that is no JSON is an error. *)

\* json.Unmarshal of a body into a struct of another shape leaves its zero value.
Decoded(body, shape) == IF body.shape = shape THEN body ELSE [body EXCEPT !.text = "", !.code = 0]

\* Mutated form: the text is not compared.
AddShownUnchecked(body) == "added"

AddShown(body) == IF Decoded(body, "output").text = "OK" THEN "added" ELSE "error"

RemoveShown(body) == IF Decoded(body, "output").text = "OK" THEN "removed" ELSE "error"

\* Lookups go by the code alone.
IsInShown(body) ==
    LET answer == Decoded(body, "list") IN
    IF answer.code # 0 THEN "error" ELSE IF answer.text = "" THEN "blank" ELSE answer.text

AllInShown(body) == IF Decoded(body, "list").code # 0 THEN "error" ELSE "all"

RequestShown(body) == IF Decoded(body, "verdict").code = 1 THEN "allowed" ELSE "bruteforce"

ClearShown(body) == IF Decoded(body, "output").text = "OK" THEN "cleared" ELSE "error"

Shown(c, body) ==
    IF body = Page THEN "error"
    ELSE CASE typed[c].op = "add" -> AddShown(body)
           [] typed[c].op = "remove" -> RemoveShown(body)
           [] typed[c].op = "isin" -> IsInShown(body)
           [] typed[c].op = "getall" -> AllInShown(body)
           [] typed[c].op = "request" -> RequestShown(body)
           [] typed[c].op = "clear" -> ClearShown(body)

-----------------------------------------------------------------------------
(* The loop of main. *)

ClientInit ==
    /\ ListsInit
    /\ phase = "ping"
    /\ typed = [c \in Calls |-> NoCommand]
    /\ wire = [c \in Calls |-> "none"]
    /\ outcome = [c \in Calls |-> "none"]
    /\ told = [c \in Calls |-> "none"]
    /\ inputEnded = FALSE
    /\ signalled = FALSE
    /\ late = {}

\* What the root route of the server really answers (handlers.go:59-61).
HelloWorld == "Hello World"

\* pingAntiBF: the root route answers, and the answer has to be "pong".
Ping ==
    /\ phase = "ping"
    /\ phase' = IF RootAnswer = "pong" THEN "loop" ELSE "panicked"
    /\ UNCHANGED <<inputEnded, signalled, late, commandVars, listsVars>>

\* The server cannot be reached, or does not answer within ten seconds.
PingFails ==
    /\ phase = "ping"
    /\ phase' = "panicked"
    /\ UNCHANGED <<inputEnded, signalled, late, commandVars, listsVars>>

\* Mutated form: the context is not looked at.
LoopBlind ==
    /\ phase = "loop"
    /\ phase' = "read"
    /\ UNCHANGED <<inputEnded, signalled, late, commandVars, listsVars>>

\* The select: only here a signal is noticed.
Loop ==
    /\ phase = "loop"
    /\ phase' = IF signalled THEN "exited" ELSE "read"
    /\ UNCHANGED <<inputEnded, signalled, late, commandVars, listsVars>>

\* Mutated form: an empty line is followed by the next Scan at once.
ReadNothingAgain ==
    /\ phase = "read"
    /\ UNCHANGED <<phase, inputEnded, signalled, late, commandVars, listsVars>>

\* Scan returns an empty line; at the end of the input it does so for ever.
ReadNothing ==
    /\ phase = "read"
    /\ phase' = "loop"
    /\ UNCHANGED <<inputEnded, signalled, late, commandVars, listsVars>>

ReadExit ==
    /\ phase = "read"
    /\ ~inputEnded
    /\ phase' = "exited"
    /\ UNCHANGED <<inputEnded, signalled, late, commandVars, listsVars>>

\* Scan returns a command: it is answered at once, or its request is sent.
ReadCommand(c, a) ==
    /\ phase = "read"
    /\ ~inputEnded
    /\ Fresh(c)
    /\ Cardinality(Stray) <= MaxStray
    /\ typed' = [typed EXCEPT ![c] = a]
    /\ late' = IF signalled THEN late \union {c} ELSE late
    /\ \/ /\ a = Local
          /\ told' = [told EXCEPT ![c] = "error"]
          /\ phase' = "loop"
          /\ UNCHANGED wire
       \/ /\ a # Local
          /\ wire' = [wire EXCEPT ![c] = "sent"]
          /\ phase' = "wait"
          /\ UNCHANGED told
    /\ UNCHANGED <<outcome, inputEnded, signalled, listsVars>>

Say(c, what) ==
    /\ told' = [told EXCEPT ![c] = what]
    /\ phase' = "loop"
    /\ UNCHANGED <<typed, wire, outcome, inputEnded, signalled, late, listsVars>>

\* The answer of the server arrives.
ReadAnswer(c) ==
    /\ Waiting(c)
    /\ wire[c] = "served"
    /\ outcome[c] # "none" \/ reply[c] # "none"
    /\ Say(c, Shown(c, Body(c)))

\* Mutated form: no timeout once the connection stands.
GiveUpOnError(c) ==
    /\ Waiting(c)
    /\ wire[c] = "sent"
    /\ Say(c, "error")

\* Mutated form: the error is not printed.
GiveUpSilent(c) ==
    /\ Waiting(c)
    /\ Say(c, "none")

\* The connection fails or ten seconds have passed.
GiveUp(c) ==
    /\ Waiting(c)
    /\ Say(c, "error")

ClientStep ==
    \/ Ping \/ PingFails \/ Loop
    \/ inputEnded /\ ReadNothing
    \/ \E c \in Calls : ReadAnswer(c) \/ GiveUp(c)

Type ==
    \/ ReadExit
    \/ ~inputEnded /\ ReadNothing
    \/ \E c \in Calls : \E a \in UserCommands[c] : ReadCommand(c, a)

\* The input ends where Scan would read the next line, or brings a line that is
\* too long for it.
EndInput ==
    /\ phase = "read"
    /\ ~inputEnded
    /\ inputEnded' = TRUE
    /\ UNCHANGED <<phase, signalled, late, commandVars, listsVars>>

\* SIGINT, SIGTERM or SIGHUP.
Signal ==
    /\ ~signalled
    /\ signalled' = TRUE
    /\ UNCHANGED <<phase, inputEnded, late, commandVars, listsVars>>

-----------------------------------------------------------------------------
(* The server. *)

\* A request reaches the handler of its route, whether or not the client still
\* waits; it may also be lost, and never get there.
Arrives(c) ==
    /\ wire[c] = "sent"
    /\ wire' = [wire EXCEPT ![c] = "served"]
    /\ UNCHANGED <<typed, told, sessionVars>>

Routes == ListNames \union {"request", "clearLogin", "clearIP"}

\* The call that listRest makes of a request, by its method.
AskOf(m) ==
    IF m.method = "GET" /\ m.body = "ALL"
    THEN [op |-> "getall", list |-> m.path]
    ELSE [op |-> [POST |-> "add", DELETE |-> "remove", GET |-> "isin"][m.method],
          list |-> m.path, subnet |-> m.body]

ServeList(c, m) ==
    /\ m.path \in ListNames
    /\ \/ m.body # "badmask" /\ BeginCall(c, AskOf(m)) /\ UNCHANGED outcome
       \/ /\ m.body = "badmask"
          /\ outcome' = [outcome EXCEPT ![c] = "badjson"]
          /\ UNCHANGED listsVars

\* clearBucketByTag; a clear that fails may have been applied, nobody is told.
ServeClear(c, m) ==
    /\ m.path \in {"clearLogin", "clearIP"}
    /\ \E o \in {IF m.path = "clearLogin" THEN "login" ELSE "ip", "failed"} :
        outcome' = [outcome EXCEPT ![c] = o]
    /\ UNCHANGED listsVars

\* AuthorizationRequest: whether it is refused or fails, OK is false.
ServeRequest(c, m) ==
    /\ m.path = "request"
    /\ \E o \in {"past", "failed"} : outcome' = [outcome EXCEPT ![c] = o]
    /\ UNCHANGED listsVars

\* The root route takes every path that no other route fits.
ServePage(c, m) ==
    /\ m.path \notin Routes
    /\ outcome' = [outcome EXCEPT ![c] = "page"]
    /\ UNCHANGED listsVars

ServerStep ==
    \E c \in Calls :
        \/ /\ Arrives(c)
           /\ LET m == MessageOf(typed[c]) IN
              ServeList(c, m) \/ ServeClear(c, m) \/ ServeRequest(c, m) \/ ServePage(c, m)
        \/ (ServeCall(c) \/ LandCall(c)) /\ UNCHANGED <<sessionVars, commandVars>>

ClientNext == ClientStep \/ Type \/ EndInput \/ Signal \/ ServerStep

ClientSpec == ClientInit /\ [][ClientNext]_clientVars

\* The start of the client with a server that is up and answers in time.
StartSpec == ClientInit /\ [][Ping]_clientVars

\* The client keeps running, and its requests have a timeout; nothing is assumed
\* of the user or of the server.
FairClientSpec == ClientSpec /\ WF_clientVars(ClientStep)

-----------------------------------------------------------------------------
(* Properties. *)

\* Type correctness; the client waits for one command at a time.
ClientTypeOK ==
    /\ ListsTypeOK
    /\ phase \in Phases
    /\ typed \in [Calls -> Commands \union {NoCommand}]
    /\ wire \in [Calls -> Wires]
    /\ outcome \in [Calls -> Outcomes]
    /\ told \in [Calls -> Printouts]
    /\ inputEnded \in BOOLEAN
    /\ signalled \in BOOLEAN
    /\ late \subseteq Calls
    /\ \A c, d \in Calls :
        typed[c] # NoCommand /\ told[c] = "none" =>
            /\ phase = "wait"
            /\ typed[d] # NoCommand /\ told[d] = "none" => c = d

\* What the client reports as done was done by the server, and as typed: a
\* write, a lookup, a clear of that bucket, an admission.  So "ipcl",
\* whose path no route has, is never reported as a clear (cli.go:371, 400-414).
SuccessIsTrue ==
    \A c \in Calls :
        /\ told[c] \in {"added", "removed", "yes", "no", "all"} => reply[c] = told[c] /\ ask[c] = typed[c]
        /\ told[c] = "cleared" => outcome[c] = typed[c].kind
        /\ told[c] = "allowed" => outcome[c] = "past"

\* The user who was told of an add is shown the entry by every later lookup,
\* unless a remove of it was typed in between, or one typed before was answered
\* with an error and has reached the table late (cli.go:98-304).
ReadsOwnWrites ==
    \A c, d \in Calls :
        told[c] = "added" /\ c < d /\ told[d] \in {"no", "all"} /\ Misses(d, c) =>
            \E e \in Calls :
                /\ ask[e].op = "remove" /\ SameEntry(c, e) /\ e < d
                /\ e > c \/ told[e] = "error"

\* A single client gets a subnet into both lists only when it gave up on one of
\* the two adds and said so (cli.go:98-150, app.go:191-207).
BothListsOnlyAfterError ==
    \A c \in table[WhiteListName], d \in table[BlackListName] :
        ask[c].subnet = ask[d].subnet => told[c] = "error" \/ told[d] = "error"

\* After a signal at most one more command is carried out: the one the user
\* types into the Scan that was waiting (main.go:68-87).
AtMostOneAfterSignal == \A c, d \in late : c = d

\* The client never waits for ever, whatever becomes of a request (cli.go:99, 153,
\* 207, 260, 307, 360: a timeout of ten seconds); by ClientTypeOK it is back in its
\* loop only when the command has been answered.
CommandsAreAnswered == phase = "wait" ~> phase = "loop"

\* At the end of the input the loop spins, but a signal still ends it
\* (main.go:70-77).
SignalEndsClient == signalled /\ inputEnded ~> phase \in {"exited", "panicked"}

\* src/README.md:75-76: through the client an administrator can clear buckets and
\* manage the lists; it must get past its start with a server that answers.
ServerIsAvailable == phase # "panicked"
=============================================================================
