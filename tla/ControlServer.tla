--------------------------- MODULE ControlServer ---------------------------
(***************************************************************************)
(* The control half of the network server: controlLoop(), which reads the  *)
(* lines of one client at a time and answers them, the queue that takes    *)
(* SET commands to the acquisition thread, and what that thread does with  *)
(* them between two blocks of samples.                                     *)
(*                                                                         *)
(* controlLoop() queues a command, waits at most 2 s for its completion,   *)
(* forgets it and replies.  A command that was not completed in time stays *)
(* in the queue and is applied later; its completion then finds nobody.    *)
(* (doc/NETWORK_WEB.md knows only the reply that "is sent after the device  *)
(* reports the applied value".)                                            *)
(*                                                                         *)
(* Commands are numbered by their ids.  A command sets the parameter to    *)
(* its own number, so that values tell the commands apart.  Frequency and  *)
(* gain are treated alike and do not touch each other; the model follows   *)
(* one of them.  That the gain is refused under AGC is one of the          *)
(* exceptions.  Lines other than a well-formed SET are answered at once,   *)
(* with the runtime state or with less: they are the kind "status".        *)
(*                                                                         *)
(* Clients are numbered in the order in which they connect; a later one    *)
(* may connect and send while an earlier one is served.                    *)
(***************************************************************************)
EXTENDS Naturals, Sequences

CONSTANTS
  MaxClients,  \* bound: connections
  MaxLines     \* bound: lines sent over all connections

ASSUME ControlAssumption == MaxClients \in Nat /\ MaxLines \in Nat

Clients == 1 .. MaxClients

VARIABLES
  peer,        \* for each client: "new", "open" or "closed" by the peer
  inbox,       \* for each client: the lines sent and not read yet
  lines,       \* bound: the number of lines sent
  server,      \* where controlLoop() is
  client,      \* the client that is served, or was last
  connected,   \* _controlConnected
  stop,        \* _stop
  nextId,      \* _nextControlId
  queue,       \* _controlQueue: ids
  registered,  \* the keys of _controlPending
  command,     \* the command that controlLoop() waits for, 0 for none
  outcome,     \* its PendingControl: done, ok, appliedValue
  reply,       \* the reply about to be sent
  acq,         \* where the acquisition thread is
  taken,       \* the command it has popped
  result,      \* what it is about to complete the command with
  target,      \* the command whose PendingControl completeControl() found
  device,      \* the parameter at the device
  current,     \* currentFrequency or currentGain
  runtime,     \* _centerFrequencyHz or _gainDb
  applied,     \* history: the commands applied at the device, in order
  replies      \* history: the replies sent, in order

connection == <<peer, inbox, lines>>
loop       == <<server, client, connected, command, reply>>
shared     == <<nextId, queue, registered, outcome>>
acquirer   == <<acq, taken, result, target, device, current, runtime, applied>>

vars == <<connection, loop, shared, acquirer, stop, replies>>

NoCommand == 0

NotDone == [done |-> FALSE, ok |-> FALSE, value |-> 0]

NoReply == [kind |-> "none", id |-> NoCommand, value |-> 0]

Init ==
  /\ peer = [c \in Clients |-> "new"]
  /\ inbox = [c \in Clients |-> <<>>]
  /\ lines = 0
  /\ server = "listen"
  /\ client = 0
  /\ connected = FALSE
  /\ stop = FALSE
  /\ nextId = 1
  /\ queue = <<>>
  /\ registered = {}
  /\ command = NoCommand
  /\ outcome = NotDone
  /\ reply = NoReply
  /\ acq = "block"
  /\ taken = NoCommand
  /\ result = NotDone
  /\ target = NoCommand
  /\ device = 0
  /\ current = 0
  /\ runtime = 0
  /\ applied = <<>>
  /\ replies = <<>>

-----------------------------------------------------------------------------
(***************************************************************************)
(* The clients.                                                            *)
(***************************************************************************)
Connect(c) ==
  /\ peer[c] = "new"
  /\ \A d \in Clients : d < c => peer[d] # "new"
  /\ peer' = [peer EXCEPT ![c] = "open"]
  /\ UNCHANGED <<inbox, lines, loop, shared, acquirer, stop, replies>>

SendLine(c) ==
  /\ peer[c] = "open"
  /\ lines < MaxLines
  /\ \E kind \in {"set", "status"} :
       inbox' = [inbox EXCEPT ![c] = Append(@, kind)]
  /\ lines' = lines + 1
  /\ UNCHANGED <<peer, loop, shared, acquirer, stop, replies>>

CloseConnection(c) ==
  /\ peer[c] = "open"
  /\ peer' = [peer EXCEPT ![c] = "closed"]
  /\ UNCHANGED <<inbox, lines, loop, shared, acquirer, stop, replies>>

-----------------------------------------------------------------------------
(***************************************************************************)
(* controlLoop().                                                          *)
(***************************************************************************)
\* makeListener(); when it throws the thread ends.
Listen ==
  /\ server = "listen"
  /\ server' \in {"accept", "ended"}
  /\ UNCHANGED <<connection, client, connected, command, reply, shared,
                 acquirer, stop, replies>>

Accept ==
  /\ server = "accept"
  /\ client < MaxClients
  /\ peer[client + 1] # "new"
  /\ client' = client + 1
  /\ connected' = TRUE
  /\ server' = "hello"
  /\ UNCHANGED <<connection, command, reply, shared, acquirer, stop, replies>>

SayHello ==
  /\ server = "hello"
  /\ server' = "recv"
  /\ UNCHANGED <<connection, client, connected, command, reply, shared,
                 acquirer, stop, replies>>

\* The connection is closed at this end: a send has failed or timed out, the
\* peer has closed, a line is too long or the connection is lost.
Disconnect ==
  /\ server \in {"hello", "recv", "reply"}
  /\ inbox' = [inbox EXCEPT ![client] = <<>>]
  /\ connected' = FALSE
  /\ command' = NoCommand
  /\ reply' = NoReply
  /\ server' = "accept"
  /\ UNCHANGED <<peer, lines, client, shared, acquirer, stop, replies>>

\* recvLine() returns a line.
HasLine == server = "recv" /\ inbox[client] # <<>>

NextLine == Head(inbox[client])

\* A line that is answered at once.
ReadStatus ==
  /\ HasLine
  /\ NextLine = "status"
  /\ inbox' = [inbox EXCEPT ![client] = Tail(@)]
  /\ reply' = [kind |-> "STATUS", id |-> NoCommand, value |-> runtime]
  /\ server' = "reply"
  /\ UNCHANGED <<peer, lines, client, connected, command, shared, acquirer,
                 stop, replies>>

\* A SET: its command is queued and registered under the mutex.
ReadSet ==
  /\ HasLine
  /\ NextLine = "set"
  /\ inbox' = [inbox EXCEPT ![client] = Tail(@)]
  /\ nextId' = nextId + 1
  /\ queue' = Append(queue, nextId)
  /\ registered' = registered \cup {nextId}
  /\ command' = nextId
  /\ outcome' = NotDone
  /\ server' = "wait"
  /\ UNCHANGED <<peer, lines, client, connected, reply, acquirer, stop,
                 replies>>

\* Mutant: a wait without a time limit.
Forever == FALSE

TwoSecondsPassed == TRUE

\* The reply to the command.
Answer ==
  [kind  |-> IF ~outcome.done THEN "TIMEOUT" ELSE IF outcome.ok THEN "OK" ELSE "ERR",
   id    |-> command,
   value |-> outcome.value]

\* The wait ends under the mutex of the command's PendingControl: it is done,
\* or the time has passed.  A spurious wakeup changes nothing.
EndWait ==
  /\ server = "wait"
  /\ outcome.done \/ TwoSecondsPassed
  /\ reply' = Answer
  /\ server' = "erase"
  /\ UNCHANGED <<connection, client, connected, command, shared, acquirer,
                 stop, replies>>

Erase ==
  /\ server = "erase"
  /\ registered' = registered \ {command}
  /\ server' = "reply"
  /\ UNCHANGED <<connection, client, connected, command, reply, nextId,
                 queue, outcome, acquirer, stop, replies>>

Reply ==
  /\ server = "reply"
  /\ replies' = Append(replies, reply)
  /\ command' = NoCommand
  /\ reply' = NoReply
  /\ server' = "recv"
  /\ UNCHANGED <<connection, client, connected, shared, acquirer, stop>>

\* The stop is seen before a line is read or a client accepted.
Leave ==
  /\ stop
  /\ server \in {"accept", "recv"}
  /\ connected' = FALSE
  /\ server' = "ended"
  /\ UNCHANGED <<connection, client, command, reply, shared, acquirer, stop,
                 replies>>

-----------------------------------------------------------------------------
(***************************************************************************)
(* The acquisition thread.                                                 *)
(***************************************************************************)
\* A block is read; the runtime state is refreshed when hasClient(), to
\* which a PSD client counts too.
ProcessBlock ==
  /\ acq = "block"
  /\ runtime' \in IF connected THEN {current} ELSE {runtime, current}
  /\ acq' = "pop"
  /\ UNCHANGED <<connection, loop, shared, taken, result, target, device,
                 current, applied, stop, replies>>

\* Mutant: a queue that is popped at its back.
NewestCommand == queue[Len(queue)]

NextCommand == Head(queue)

\* tryPopControl()
PopCommand ==
  /\ acq = "pop"
  /\ queue # <<>>
  /\ taken' = NextCommand
  /\ queue' = Tail(queue)
  /\ acq' = "apply"
  /\ UNCHANGED <<connection, loop, nextId, registered, outcome, result,
                 target, device, current, runtime, applied, stop, replies>>

PopNothing ==
  /\ acq = "pop"
  /\ queue = <<>>
  /\ acq' = "block"
  /\ UNCHANGED <<connection, loop, shared, taken, result, target, device,
                 current, runtime, applied, stop, replies>>

\* Mutant: the runtime state is left to the next block.
CompleteAtOnce == "find"

AfterApply == "runtime"

\* The device is set and read back.
Apply ==
  /\ acq = "apply"
  /\ device' = taken
  /\ current' = taken
  /\ applied' = Append(applied, taken)
  /\ result' = [done |-> TRUE, ok |-> TRUE, value |-> taken]
  /\ acq' = AfterApply
  /\ UNCHANGED <<connection, loop, shared, taken, target, runtime, stop,
                 replies>>

\* An exception: the device was not set, or it was and could not be read back.
ApplyThrows ==
  /\ acq = "apply"
  /\ \/ UNCHANGED <<device, applied>>
     \/ device' = taken /\ applied' = Append(applied, taken)
  /\ result' = [done |-> TRUE, ok |-> FALSE, value |-> 0]
  /\ acq' = "find"
  /\ UNCHANGED <<connection, loop, shared, taken, target, current, runtime,
                 stop, replies>>

\* setRuntimeState(): two stores, of which this is the one that matters.
SetRuntimeState ==
  /\ acq = "runtime"
  /\ runtime' = current
  /\ acq' = "find"
  /\ UNCHANGED <<connection, loop, shared, taken, result, target, device,
                 current, applied, stop, replies>>

\* Mutant: whatever command waits is completed.
AnyWaiting == IF registered # {} THEN CHOOSE i \in registered : TRUE
                                 ELSE NoCommand

\* completeControl() looks the command up under the mutex.
Waiting == IF taken \in registered THEN taken ELSE NoCommand

FindPending ==
  /\ acq = "find"
  /\ target' = Waiting
  /\ acq' = "complete"
  /\ UNCHANGED <<connection, loop, shared, taken, result, device, current,
                 runtime, applied, stop, replies>>

\* The rest of completeControl().  Only the object of the command that is
\* waited for can still be seen by anybody.
CompletePending ==
  /\ acq = "complete"
  /\ outcome' = IF target # NoCommand /\ target = command THEN result ELSE outcome
  /\ taken' = NoCommand
  /\ target' = NoCommand
  /\ result' = NotDone
  /\ acq' = "pop"
  /\ UNCHANGED <<connection, loop, nextId, queue, registered, device,
                 current, runtime, applied, stop, replies>>

\* The main loop ends and the destructor runs, on this thread: nobody applies
\* commands any more.
Destroy ==
  /\ acq = "block"
  /\ stop' = TRUE
  /\ acq' = "join"
  /\ UNCHANGED <<connection, loop, shared, taken, result, target, device,
                 current, runtime, applied, replies>>

Join ==
  /\ acq = "join"
  /\ server = "ended"
  /\ acq' = "joined"
  /\ UNCHANGED <<connection, loop, shared, taken, result, target, device,
                 current, runtime, applied, stop, replies>>

-----------------------------------------------------------------------------
Client == \E c \in Clients : Connect(c) \/ SendLine(c) \/ CloseConnection(c)

\* What controlLoop() does when it is scheduled; a client's silence is not
\* its business.
Serve ==
  \/ Listen
  \/ Accept
  \/ SayHello
  \/ ReadStatus
  \/ ReadSet
  \/ EndWait
  \/ Erase
  \/ Reply
  \/ Leave

Acquire ==
  \/ ProcessBlock
  \/ PopCommand
  \/ PopNothing
  \/ Apply
  \/ ApplyThrows
  \/ SetRuntimeState
  \/ FindPending
  \/ CompletePending
  \/ Destroy

Next == Client \/ Serve \/ Disconnect \/ Acquire \/ Join

Spec == Init /\ [][Next]_vars

(***************************************************************************)
(* Fairness: the operating system runs controlLoop(); its select() and its *)
(* sends have time limits.  Nothing is assumed of the acquisition thread,  *)
(* which may hang in the device, but that it returns from a join.          *)
(***************************************************************************)
FairSpec == Spec /\ WF_vars(Serve) /\ WF_vars(Join)

-----------------------------------------------------------------------------
(***************************************************************************)
(* Properties.                                                             *)
(***************************************************************************)
ReplyKinds == {"STATUS", "OK", "ERR", "TIMEOUT"}

Outcomes == [done : BOOLEAN, ok : BOOLEAN, value : Nat]

\* Types.
TypeOK ==
  /\ peer \in [Clients -> {"new", "open", "closed"}]
  /\ inbox \in [Clients -> Seq({"set", "status"})]
  /\ lines \in 0 .. MaxLines
  /\ server \in {"listen", "accept", "hello", "recv", "wait", "erase", "reply",
                 "ended"}
  /\ client \in 0 .. MaxClients
  /\ connected \in BOOLEAN
  /\ stop \in BOOLEAN
  /\ nextId \in Nat \ {0}
  /\ queue \in Seq(Nat)
  /\ registered \in SUBSET Nat
  /\ command \in Nat
  /\ outcome \in Outcomes
  /\ reply \in [kind : ReplyKinds \cup {"none"}, id : Nat, value : Nat]
  /\ acq \in {"block", "pop", "apply", "runtime", "find", "complete", "join",
              "joined"}
  /\ taken \in Nat
  /\ result \in Outcomes
  /\ target \in Nat
  /\ device \in Nat
  /\ current \in Nat
  /\ runtime \in Nat
  /\ applied \in Seq(Nat)
  /\ replies \in Seq([kind : ReplyKinds, id : Nat, value : Nat])

(***************************************************************************)
(* A command that is answered with OK has been applied, and the value in   *)
(* the answer is its own: the late completion of a command that was given  *)
(* up never answers the one that is waited for now.                        *)
(***************************************************************************)
OkIsOwn ==
  \A i \in 1 .. Len(replies) :
    replies[i].kind = "OK" =>
      /\ replies[i].value = replies[i].id
      /\ \E j \in 1 .. Len(applied) : applied[j] = replies[i].id

(***************************************************************************)
(* Commands are applied in the order in which they were read, each at most *)
(* once, and the device is left at the last of them: a command that was    *)
(* given up and comes late never undoes a later one.                       *)
(***************************************************************************)
AppliedInOrder ==
  /\ \A i, j \in 1 .. Len(applied) : i < j => applied[i] < applied[j]
  /\ applied # <<>> => device = applied[Len(applied)]

(***************************************************************************)
(* A status asked for after a command was answered with OK shows that      *)
(* command's value or a later one.                                         *)
(***************************************************************************)
StatusKeepsUp ==
  \A i, j \in 1 .. Len(replies) :
    i < j /\ replies[i].kind = "OK" /\ replies[j].kind = "STATUS" =>
      replies[j].value >= replies[i].value

(***************************************************************************)
(* The destructor returns although it runs on the thread that would have   *)
(* completed the command that controlLoop() waits for.                     *)
(***************************************************************************)
StopEnds == stop ~> acq = "joined"
=============================================================================
