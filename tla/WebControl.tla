----------------------------- MODULE WebControl -----------------------------
(***************************************************************************)
(* The control half of meteoris_web.py, composed with the control server   *)
(* it talks to.  HTTP requests take turns, by a fair lock, on one TCP      *)
(* connection.  A request is one line and its reply; when the connection   *)
(* breaks the request is sent once more on a new one, whether the first    *)
(* line was carried out or not.                                            *)
(*                                                                         *)
(* The gateway is the server's only client: its connections, one after the *)
(* other, are the Clients of ControlServer, and all its lines are SETs.    *)
(* Requests are numbered as they are made.  What is between two awaits is  *)
(* one step.  The end of the gateway's process is left out.                *)
(***************************************************************************)
EXTENDS ControlServer

CONSTANT MaxRequests  \* bound: SETs that browsers ask for

ASSUME WebAssumption == MaxRequests \in Nat

VARIABLES
  made,     \* the number of requests made
  turns,    \* the requests that hold (the first) or wait for the lock
  step,     \* where the one that holds it is in request()
  attempt,  \* its attempt
  conn,     \* the connection the gateway has, 0 for none
  mailbox,  \* the reply that has come and was not read
  lineOf,   \* history: the requests of the lines of each connection
  origin,   \* history: the request of each command
  answers   \* history: for each request, what its browser was told

webVars == <<made, turns, step, attempt, conn, mailbox, lineOf, origin, answers>>
control == <<vars, webVars>>

Requests == 1 .. MaxRequests

Failure == [NoReply EXCEPT !.kind = "failed"]

WebInit ==
  /\ Init
  /\ made = 0
  /\ turns = <<>>
  /\ step = "idle"
  /\ attempt = 0
  /\ conn = 0
  /\ mailbox = NoReply
  /\ lineOf = [c \in Clients |-> <<>>]
  /\ origin = <<>>
  /\ answers = [r \in Requests |-> NoReply]

-----------------------------------------------------------------------------
\* A handler calls request() and gets in line for the lock.
MakeRequest ==
  /\ made < MaxRequests
  /\ made' = made + 1
  /\ turns' = Append(turns, made + 1)
  /\ UNCHANGED <<vars, step, attempt, conn, mailbox, lineOf, origin,
                 answers>>

WriteLine ==
  /\ SendLine(conn)
  /\ inbox'[conn] = Append(inbox[conn], "set")
  /\ lineOf' = [lineOf EXCEPT ![conn] = Append(@, Head(turns))]
  /\ step' = "reading"
  /\ UNCHANGED <<made, turns, attempt, conn, mailbox, origin, answers>>

\* An attempt begins: _connect() finds a connection or makes one.
UseConnection ==
  /\ turns # <<>>
  /\ step = "idle"
  /\ conn # 0
  /\ WriteLine

OpenConnection ==
  /\ turns # <<>>
  /\ step = "idle"
  /\ conn = 0
  /\ \E c \in Clients : Connect(c) /\ conn' = c
  /\ step' = "greeting"
  /\ UNCHANGED <<made, turns, attempt, mailbox, lineOf, origin, answers>>

\* The server has accepted this connection and said hello.
ReadHello ==
  /\ step = "greeting"
  /\ client = conn
  /\ server = "recv"
  /\ WriteLine

\* The holder of the lock is told a and gives up the lock.
Answered(a) ==
  /\ answers' = [answers EXCEPT ![Head(turns)] = a]
  /\ turns' = Tail(turns)
  /\ attempt' = 0
  /\ step' = "idle"

ReadReply ==
  /\ step = "reading"
  /\ mailbox # NoReply
  /\ Answered(mailbox)
  /\ mailbox' = NoReply
  /\ UNCHANGED <<vars, made, conn, lineOf, origin>>

Close ==
  /\ CloseConnection(conn)
  /\ conn' = 0
  /\ mailbox' = NoReply

\* Mutant: the lock is taken for each attempt, not for the request.
TurnLost ==
  /\ turns' = Append(Tail(turns), Head(turns))
  /\ step' = "idle"
  /\ UNCHANGED <<attempt, answers>>

FailsOrRetries ==
  IF attempt = 1 THEN Answered(Failure)
  ELSE /\ attempt' = attempt + 1
       /\ step' = "idle"
       /\ UNCHANGED <<turns, answers>>

\* Greeting, writing or reading fails, whatever the server has seen of it.
ConnectionLost ==
  /\ step \in {"greeting", "reading"}
  /\ Close
  /\ FailsOrRetries
  /\ UNCHANGED <<made, lineOf, origin>>

Refused ==
  /\ turns # <<>>
  /\ step = "idle"
  /\ conn = 0
  /\ FailsOrRetries
  /\ UNCHANGED <<vars, made, conn, mailbox, lineOf, origin>>

\* The server closes the connection instead of greeting: no second attempt.
NoHello ==
  /\ step = "greeting"
  /\ client >= conn /\ ~(client = conn /\ connected)
  /\ Close
  /\ Answered(Failure)
  /\ UNCHANGED <<made, lineOf, origin>>

-----------------------------------------------------------------------------
\* The request of the line that the server reads next.
RequestRead ==
  lineOf[client][Len(lineOf[client]) - Len(inbox[client]) + 1]

\* A step of the DSP process: what it replies comes in, if it can.
ServerStep ==
  /\ Serve \/ Disconnect \/ Acquire \/ Join
  /\ mailbox' = IF replies' # replies /\ client = conn
                THEN replies'[Len(replies')] ELSE mailbox
  /\ origin' = IF nextId' # nextId THEN Append(origin, RequestRead) ELSE origin
  /\ UNCHANGED <<made, turns, step, attempt, conn, lineOf, answers>>

Request ==
  \/ MakeRequest
  \/ UseConnection
  \/ OpenConnection
  \/ ReadHello
  \/ ReadReply
  \/ ConnectionLost
  \/ Refused
  \/ NoHello

WebNext == Request \/ ServerStep

WebSpec == WebInit /\ [][WebNext]_control

-----------------------------------------------------------------------------
(***************************************************************************)
(* Properties.                                                             *)
(***************************************************************************)
AppliedRequest(i) == origin[applied[i]]

(***************************************************************************)
(* The lock and the retry: a browser is told the outcome of its own        *)
(* request, and OK only of a SET that was applied; a SET that is applied   *)
(* twice, or after its browser was told that it failed, is never applied   *)
(* after one that was asked for later.                                     *)
(***************************************************************************)
RequestsHonoured ==
  /\ \A r \in Requests : answers[r].id # NoCommand =>
       /\ origin[answers[r].id] = r
       /\ answers[r].kind = "OK" =>
            \E i \in DOMAIN applied : applied[i] = answers[r].id
  /\ \A i, j \in DOMAIN applied :
       i < j => AppliedRequest(i) <= AppliedRequest(j)
=============================================================================
