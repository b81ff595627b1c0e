------------------------- MODULE WebGateway_proofs -------------------------
(***************************************************************************)
(* Proofs about the control server and about the web gateway that talks to *)
(* it, for any number of clients, lines, requests and commands that are    *)
(* given up.  Of the server: commands are applied in order, an answer      *)
(* belongs to its command, and the status keeps up with the answers.  Of   *)
(* the gateway: its lock and its retry keep requests and answers together  *)
(* and in order, and the event of the PSD task says whether anybody        *)
(* watches.                                                                *)
(***************************************************************************)
EXTENDS WebGateway, TLAPS

-----------------------------------------------------------------------------
(***************************************************************************)
(* The control server.                                                     *)
(***************************************************************************)
\* The command i is among the commands q.
Among(i, q) == \E k \in 1 .. Len(q) : q[k] = i

(***************************************************************************)
(* What the two threads hold, depending on where they are.                 *)
(***************************************************************************)
Places ==
  /\ taken # NoCommand <=> acq \in {"apply", "runtime", "find", "complete"}
  /\ result.ok => acq \in {"runtime", "find", "complete"}
  /\ target # NoCommand => target = taken
  /\ server \in {"erase", "reply"} => reply.kind \in ReplyKinds
  /\ server \in {"wait", "erase"} => command # NoCommand

(***************************************************************************)
(* The applied commands, the one in hand, the queue and the next id ascend. *)
(***************************************************************************)
Ascending ==
  /\ taken < nextId
  /\ command < nextId
  /\ \A i \in 1 .. Len(queue) : queue[i] < nextId /\ taken < queue[i]
  /\ \A i, j \in 1 .. Len(queue) : i < j => queue[i] < queue[j]
  /\ \A k \in 1 .. Len(applied) :
       /\ applied[k] < nextId
       /\ applied[k] # NoCommand
       /\ \A i \in 1 .. Len(queue) : applied[k] < queue[i]
       /\ acq = "apply" => applied[k] < taken

\* Every answer on its way belongs to its command.
AnswersOwn ==
  /\ result.ok => result.value = taken /\ Among(taken, applied)
  /\ outcome.ok /\ command # NoCommand =>
       outcome.value = command /\ Among(command, applied)
  /\ reply.kind = "OK" => reply.value = reply.id /\ Among(reply.id, applied)

\* The runtime state is ahead of every answer on its way, and of those sent.
RuntimeAhead ==
  /\ runtime <= current
  /\ current # 0 => Among(current, applied)
  /\ result.ok => result.value <= IF acq = "runtime" THEN current ELSE runtime
  /\ outcome.ok => outcome.value <= runtime
  /\ reply.kind = "OK" => reply.value <= runtime
  /\ \A i \in 1 .. Len(replies) :
       replies[i].kind = "OK" =>
         /\ replies[i].value <= runtime
         /\ reply.kind = "STATUS" => replies[i].value <= reply.value

\* The inductive invariant of the server.
Inv == /\ TypeOK
       /\ Places
       /\ Ascending
       /\ AppliedInOrder
       /\ AnswersOwn
       /\ OkIsOwn
       /\ RuntimeAhead
       /\ StatusKeepsUp

-----------------------------------------------------------------------------
\* One more element at the end of a sequence.
LEMMA Appended ==
  ASSUME NEW S, NEW q \in Seq(S), NEW x \in S
  PROVE  /\ Append(q, x) \in Seq(S)
         /\ Len(Append(q, x)) = Len(q) + 1
         /\ Len(q) \in Nat
         /\ \A i \in 1 .. Len(q) : Append(q, x)[i] = q[i]
         /\ Append(q, x)[Len(q) + 1] = x
  OBVIOUS

\* What is in a sequence.
LEMMA Elements ==
  ASSUME NEW S, NEW q \in Seq(S)
  PROVE  \A i \in 1 .. Len(q) : q[i] \in S
  OBVIOUS

\* A sequence without its head.
LEMMA Beheaded ==
  ASSUME NEW S, NEW q \in Seq(S), q # <<>>
  PROVE  /\ Head(q) = q[1]
         /\ Head(q) \in S
         /\ Tail(q) \in Seq(S)
         /\ Len(q) \in Nat \ {0}
         /\ Len(Tail(q)) = Len(q) - 1
         /\ \A i \in 1 .. Len(q) - 1 : Tail(q)[i] = q[i + 1]
  OBVIOUS

\* The invariant holds at the start.
LEMMA InvInit == Init => Inv
<1> SUFFICES ASSUME Init PROVE Inv
  OBVIOUS
<1>1. TypeOK
  <2>1. /\ 0 \in 0 .. MaxLines
        /\ 0 \in 0 .. MaxClients
    BY ControlAssumption
  <2>2. NotDone \in Outcomes /\ NoReply \in [kind : ReplyKinds \cup {"none"}, id : Nat, value : Nat]
    BY DEF NotDone, NoReply, NoCommand, Outcomes
  <2>3. /\ peer \in [Clients -> {"new", "open", "closed"}]
        /\ inbox \in [Clients -> Seq({"set", "status"})]
        /\ queue \in Seq(Nat)
        /\ applied \in Seq(Nat)
        /\ replies \in Seq([kind : ReplyKinds, id : Nat, value : Nat])
    BY DEF Init
  <2>4. /\ lines \in 0 .. MaxLines /\ client \in 0 .. MaxClients
        /\ server = "listen" /\ acq = "block"
        /\ connected \in BOOLEAN /\ stop \in BOOLEAN
        /\ nextId = 1 /\ registered = {}
    BY <2>1 DEF Init
  <2>5. /\ outcome \in Outcomes /\ result \in Outcomes
        /\ reply \in [kind : ReplyKinds \cup {"none"}, id : Nat, value : Nat]
        /\ command = 0 /\ taken = 0 /\ target = 0
        /\ device = 0 /\ current = 0 /\ runtime = 0
    BY <2>2 DEF Init, NoCommand
  <2> QED
    BY <2>3, <2>4, <2>5 DEF TypeOK
<1>2. Places /\ Ascending /\ AppliedInOrder
  BY DEF Init, Places, Ascending, AppliedInOrder, NotDone, NoReply, NoCommand
<1>3. AnswersOwn /\ OkIsOwn /\ RuntimeAhead /\ StatusKeepsUp
  BY DEF Init, AnswersOwn, OkIsOwn, RuntimeAhead, StatusKeepsUp, NotDone,
     NoReply, NoCommand
<1> QED
  BY <1>1, <1>2, <1>3 DEF Inv

\* Every step keeps the types.
LEMMA TypeStep == TypeOK /\ Places /\ [Next]_vars => TypeOK'
<1> SUFFICES ASSUME TypeOK, Places, [Next]_vars PROVE TypeOK'
  OBVIOUS
<1> USE ControlAssumption
<1>1. ASSUME NEW c \in Clients, Connect(c) \/ SendLine(c) \/ CloseConnection(c)
      PROVE  TypeOK'
  <2>1. CASE Connect(c)
    BY <2>1 DEF Connect, TypeOK, loop, shared, acquirer
  <2>2. CASE SendLine(c)
    <3>1. PICK kind \in {"set", "status"} :
            inbox' = [inbox EXCEPT ![c] = Append(@, kind)]
      BY <2>2 DEF SendLine
    <3>2. inbox' \in [Clients -> Seq({"set", "status"})]
      BY <3>1, Appended DEF TypeOK
    <3>3. lines' \in 0 .. MaxLines
      BY <2>2 DEF SendLine, TypeOK
    <3> QED
      BY <2>2, <3>2, <3>3 DEF SendLine, TypeOK, loop, shared, acquirer
  <2>3. CASE CloseConnection(c)
    BY <2>3 DEF CloseConnection, TypeOK, loop, shared, acquirer
  <2> QED
    BY <1>1, <2>1, <2>2, <2>3
<1>2. CASE Listen \/ SayHello \/ Leave
  BY <1>2 DEF Listen, SayHello, Leave, TypeOK, connection, shared, acquirer
<1>15. CASE Accept
  <2>1. client' \in 0 .. MaxClients
    BY <1>15 DEF Accept, TypeOK
  <2> QED
    BY <1>15, <2>1 DEF Accept, TypeOK, connection, shared, acquirer
<1>3. ASSUME inbox' = [inbox EXCEPT ![client] = <<>>]
             \/ (inbox' = [inbox EXCEPT ![client] = Tail(@)]
                 /\ inbox[client] # <<>>)
      PROVE  inbox' \in [Clients -> Seq({"set", "status"})]
  <2>1. CASE inbox' = [inbox EXCEPT ![client] = <<>>]
    <3>1. <<>> \in Seq({"set", "status"})
      OBVIOUS
    <3> QED
      BY <2>1, <3>1 DEF TypeOK
  <2>2. CASE /\ client \in Clients
             /\ inbox' = [inbox EXCEPT ![client] = Tail(@)]
             /\ inbox[client] # <<>>
    <3>1. inbox[client] \in Seq({"set", "status"})
      BY <2>2 DEF TypeOK
    <3>2. Tail(inbox[client]) \in Seq({"set", "status"})
      BY <2>2, <3>1, Beheaded
    <3> QED
      BY <2>2, <3>2 DEF TypeOK
  <2>3. CASE client \notin Clients /\ inbox' = [inbox EXCEPT ![client] = Tail(@)]
    BY <2>3 DEF TypeOK
  <2> QED
    BY <1>3, <2>1, <2>2, <2>3
<1>4. CASE Disconnect
  <2>1. inbox' \in [Clients -> Seq({"set", "status"})]
    BY <1>3, <1>4 DEF Disconnect
  <2>2. reply' \in [kind : ReplyKinds \cup {"none"}, id : Nat, value : Nat]
    BY <1>4 DEF Disconnect, NoReply, NoCommand
  <2> QED
    BY <1>4, <2>1, <2>2 DEF Disconnect, TypeOK, NoCommand, shared, acquirer
<1>5. CASE ReadStatus
  <2>1. inbox' \in [Clients -> Seq({"set", "status"})]
    BY <1>3, <1>5 DEF ReadStatus, HasLine
  <2>2. reply' \in [kind : ReplyKinds \cup {"none"}, id : Nat, value : Nat]
    BY <1>5 DEF ReadStatus, NoCommand, ReplyKinds, TypeOK
  <2> QED
    BY <1>5, <2>1, <2>2 DEF ReadStatus, TypeOK, shared, acquirer
<1>6. CASE ReadSet
  <2>1. inbox' \in [Clients -> Seq({"set", "status"})]
    BY <1>3, <1>6 DEF ReadSet, HasLine
  <2>2. queue' \in Seq(Nat)
    BY <1>6, Appended DEF ReadSet, TypeOK
  <2>3. outcome' \in Outcomes
    BY <1>6 DEF ReadSet, NotDone, Outcomes
  <2> QED
    BY <1>6, <2>1, <2>2, <2>3 DEF ReadSet, TypeOK, acquirer
<1>7. CASE EndWait
  <2>1. Answer \in [kind : ReplyKinds \cup {"none"}, id : Nat, value : Nat]
    BY DEF Answer, ReplyKinds, TypeOK, Outcomes
  <2> QED
    BY <1>7, <2>1 DEF EndWait, TypeOK, connection, shared, acquirer
<1>8. CASE Erase
  BY <1>8 DEF Erase, TypeOK, connection, acquirer
<1>9. CASE Reply
  <2>1. reply \in [kind : ReplyKinds, id : Nat, value : Nat]
    BY <1>9 DEF Reply, Places, TypeOK
  <2>2. replies' \in Seq([kind : ReplyKinds, id : Nat, value : Nat])
    BY <1>9, <2>1, Appended DEF Reply, TypeOK
  <2>3. reply' \in [kind : ReplyKinds \cup {"none"}, id : Nat, value : Nat]
    BY <1>9 DEF Reply, NoReply, NoCommand
  <2> QED
    BY <1>9, <2>2, <2>3 DEF Reply, TypeOK, NoCommand, connection, shared, acquirer
<1>10. CASE PopCommand
  <2>1. queue' \in Seq(Nat) /\ taken' \in Nat
    BY <1>10, Beheaded DEF PopCommand, NextCommand, TypeOK
  <2> QED
    BY <1>10, <2>1 DEF PopCommand, TypeOK, connection, loop
<1>11. CASE Apply \/ ApplyThrows
  <2>1. taken \in Nat /\ device \in Nat /\ current \in Nat /\ applied \in Seq(Nat)
    BY DEF TypeOK
  <2>2. Append(applied, taken) \in Seq(Nat)
    BY <2>1, Appended
  <2>3. device' \in Nat /\ current' \in Nat /\ applied' \in Seq(Nat)
    BY <1>11, <2>1, <2>2 DEF Apply, ApplyThrows
  <2>4. result' \in Outcomes
    <3>1. CASE Apply
      BY <2>1, <3>1 DEF Apply, Outcomes
    <3>2. CASE ApplyThrows
      BY <3>2 DEF ApplyThrows, Outcomes
    <3> QED
      BY <1>11, <3>1, <3>2
  <2>5. acq' \in {"runtime", "find"}
    BY <1>11 DEF Apply, ApplyThrows, AfterApply
  <2>6. UNCHANGED <<connection, loop, shared, taken, target, runtime, stop, replies>>
    BY <1>11 DEF Apply, ApplyThrows
  <2> QED
    BY <2>3, <2>4, <2>5, <2>6 DEF TypeOK, connection, loop, shared
<1>12. CASE PopNothing \/ SetRuntimeState
  BY <1>12 DEF PopNothing, SetRuntimeState, TypeOK, connection, loop, shared
<1>17. CASE Destroy \/ Join
  BY <1>17 DEF Destroy, Join, TypeOK, connection, loop, shared
<1>18. CASE FindPending
  <2>1. target' \in Nat
    BY <1>18 DEF FindPending, Waiting, NoCommand, TypeOK
  <2> QED
    BY <1>18, <2>1 DEF FindPending, TypeOK, connection, loop, shared
<1>16. CASE ProcessBlock
  <2>1. runtime' \in Nat
    BY <1>16 DEF ProcessBlock, TypeOK
  <2> QED
    BY <1>16, <2>1 DEF ProcessBlock, TypeOK, connection, loop, shared
<1>13. CASE CompletePending
  <2>1. result' \in Outcomes /\ outcome' \in Outcomes
    BY <1>13 DEF CompletePending, NotDone, Outcomes, TypeOK
  <2> QED
    BY <1>13, <2>1 DEF CompletePending, TypeOK, NoCommand, connection, loop
<1>14. CASE UNCHANGED vars
  BY <1>14 DEF vars, TypeOK, connection, loop, shared, acquirer
<1> QED
  BY <1>1, <1>2, <1>4, <1>5, <1>6, <1>7, <1>8, <1>9, <1>10, <1>11, <1>12, <1>13,
     <1>14, <1>15, <1>16, <1>17, <1>18 DEF Next, Client, Serve, Acquire

\* Every step keeps what the two threads hold.
LEMMA PlacesStep == TypeOK /\ Places /\ Ascending /\ [Next]_vars => Places'
<1> SUFFICES ASSUME TypeOK, Places, Ascending, [Next]_vars PROVE Places'
  OBVIOUS
<1>1. CASE Client \/ Listen \/ Accept \/ SayHello \/ Leave \/ Disconnect
  BY <1>1 DEF Client, Connect, SendLine, CloseConnection, Listen, Accept, SayHello,
     Leave, Disconnect, Places, loop, shared, acquirer
<1>2. CASE ReadStatus
  BY <1>2 DEF ReadStatus, Places, ReplyKinds, acquirer
<1>8. CASE ReadSet
  <2>1. nextId # NoCommand
    BY DEF TypeOK, NoCommand
  <2> QED
    BY <1>8, <2>1 DEF ReadSet, Places, acquirer
<1>6. CASE Erase \/ Reply
  <2>1. CASE Erase
    <3>1. reply.kind \in ReplyKinds
      BY <2>1 DEF Erase, Places
    <3> QED
      BY <2>1, <3>1 DEF Erase, Places, acquirer
  <2>2. CASE Reply
    BY <2>2 DEF Reply, Places, acquirer
  <2> QED
    BY <1>6, <2>1, <2>2
<1>7. CASE EndWait
  <2>1. Answer.kind \in ReplyKinds
    BY DEF Answer, ReplyKinds
  <2> QED
    BY <1>7, <2>1 DEF EndWait, Places, acquirer
<1>3. CASE PopCommand
  <2>1. queue[1] > taken /\ taken' = queue[1] /\ taken' \in Nat
    BY <1>3, Beheaded DEF PopCommand, NextCommand, Ascending, TypeOK
  <2> QED
    BY <1>3, <2>1 DEF PopCommand, Places, TypeOK, NoCommand, loop
<1>4. CASE ProcessBlock \/ PopNothing \/ Apply \/ ApplyThrows \/ SetRuntimeState
           \/ FindPending \/ CompletePending \/ Destroy \/ Join
  BY <1>4 DEF ProcessBlock, PopNothing, Apply, ApplyThrows, AfterApply,
     SetRuntimeState, FindPending, Waiting, CompletePending, Destroy, Join,
     Places, NotDone, NoCommand, loop, shared
<1>5. CASE UNCHANGED vars
  BY <1>5 DEF vars, Places, loop, shared, acquirer
<1> QED
  BY <1>1, <1>2, <1>3, <1>4, <1>5, <1>6, <1>7, <1>8 DEF Next, Serve, Acquire

\* Every step keeps the order of the commands.
LEMMA AscendingStep ==
  TypeOK /\ Places /\ Ascending /\ AppliedInOrder /\ [Next]_vars
    => Ascending' /\ AppliedInOrder'
<1> SUFFICES ASSUME TypeOK, Places, Ascending, AppliedInOrder, [Next]_vars
             PROVE  Ascending' /\ AppliedInOrder'
  OBVIOUS
<1>1. /\ queue \in Seq(Nat) /\ applied \in Seq(Nat)
      /\ taken \in Nat /\ nextId \in Nat \ {0} /\ command \in Nat
  BY DEF TypeOK
<1>2. CASE ReadSet
  <2>1. /\ queue' = Append(queue, nextId)
        /\ nextId' = nextId + 1
        /\ command' = nextId
        /\ UNCHANGED <<taken, applied, acq, device>>
    BY <1>2 DEF ReadSet, acquirer
  <2>2. /\ Len(queue') = Len(queue) + 1
        /\ Len(queue) \in Nat
        /\ \A i \in 1 .. Len(queue) : queue'[i] = queue[i]
        /\ queue'[Len(queue) + 1] = nextId
    BY <1>1, <2>1, Appended
  <2>3. \A i \in 1 .. Len(queue') : queue'[i] = nextId \/ i \in 1 .. Len(queue)
    BY <2>2
  <2>4. \A i \in 1 .. Len(queue) : queue[i] \in Nat
    BY <1>1
  <2>5. \A k \in 1 .. Len(applied) : applied[k] \in Nat
    BY <1>1
  <2>6. Ascending'
    BY <1>1, <2>1, <2>2, <2>3, <2>4, <2>5 DEF Ascending
  <2> QED
    BY <2>1, <2>6 DEF AppliedInOrder
<1>3. CASE PopCommand
  <2>1. /\ queue # <<>>
        /\ taken' = Head(queue)
        /\ queue' = Tail(queue)
        /\ acq' = "apply"
        /\ acq = "pop"
        /\ UNCHANGED <<nextId, command, applied, device>>
    BY <1>3 DEF PopCommand, NextCommand, loop
  <2>2. /\ taken' = queue[1]
        /\ Len(queue) \in Nat \ {0}
        /\ Len(queue') = Len(queue) - 1
        /\ \A i \in 1 .. Len(queue) - 1 : queue'[i] = queue[i + 1]
    BY <1>1, <2>1, Beheaded
  <2>3. \A i \in 1 .. Len(queue) - 1 :
          i + 1 \in 1 .. Len(queue) /\ 1 \in 1 .. Len(queue) /\ 1 < i + 1
    BY <2>2
  <2>4. 1 \in 1 .. Len(queue)
    BY <2>2
  <2>5. Ascending'
    BY <1>1, <2>1, <2>2, <2>3, <2>4 DEF Ascending
  <2> QED
    BY <2>1, <2>5 DEF AppliedInOrder
<1>4. CASE Apply \/ ApplyThrows
  <2>1. /\ UNCHANGED <<nextId, command, queue, taken>>
        /\ acq = "apply"
        /\ acq' # "apply"
    BY <1>4 DEF Apply, ApplyThrows, AfterApply, loop, shared
  <2>2. CASE UNCHANGED <<applied, device>>
    BY <2>1, <2>2 DEF Ascending, AppliedInOrder
  <2>3. CASE applied' = Append(applied, taken) /\ device' = taken
    <3>1. /\ Len(applied') = Len(applied) + 1
          /\ Len(applied) \in Nat
          /\ \A k \in 1 .. Len(applied) : applied'[k] = applied[k]
          /\ applied'[Len(applied) + 1] = taken
      BY <1>1, <2>3, Appended
    <3>2. \A k \in 1 .. Len(applied') :
            k = Len(applied) + 1 \/ k \in 1 .. Len(applied)
      BY <3>1
    <3>3. taken # NoCommand
      BY <2>1 DEF Places
    <3>4. \A k \in 1 .. Len(applied) : applied[k] < taken
      BY <2>1 DEF Ascending
    <3>5. Ascending'
      BY <1>1, <2>1, <3>1, <3>2, <3>3 DEF Ascending
    <3>6. \A i, j \in 1 .. Len(applied') : i < j => applied'[i] < applied'[j]
      <4> SUFFICES ASSUME NEW i \in 1 .. Len(applied'),
                          NEW j \in 1 .. Len(applied'), i < j
                   PROVE  applied'[i] < applied'[j]
        OBVIOUS
      <4>1. i \in 1 .. Len(applied)
        BY <3>1
      <4>2. CASE j \in 1 .. Len(applied)
        BY <3>1, <4>1, <4>2 DEF AppliedInOrder
      <4>3. CASE j = Len(applied) + 1
        BY <3>1, <3>4, <4>1, <4>3
      <4> QED
        BY <3>2, <4>2, <4>3
    <3> QED
      BY <2>3, <3>1, <3>5, <3>6 DEF AppliedInOrder
  <2> QED
    BY <1>4, <2>2, <2>3 DEF Apply, ApplyThrows
<1>5. CASE CompletePending
  <2>1. /\ taken' = NoCommand
        /\ acq' = "pop"
        /\ UNCHANGED <<nextId, command, queue, applied, device>>
    BY <1>5 DEF CompletePending, loop
  <2>2. \A i \in 1 .. Len(queue) : queue[i] \in Nat
    BY <1>1
  <2>3. Ascending'
    BY <1>1, <2>1, <2>2 DEF Ascending, NoCommand
  <2> QED
    BY <2>1, <2>3 DEF AppliedInOrder
<1>6. CASE Disconnect \/ Reply
  <2>1. /\ command' = NoCommand
        /\ UNCHANGED <<nextId, queue, taken, applied, acq, device>>
    BY <1>6 DEF Disconnect, Reply, shared, acquirer
  <2> QED
    BY <1>1, <2>1 DEF Ascending, AppliedInOrder, NoCommand
<1>7. CASE Client \/ Listen \/ Accept \/ SayHello \/ Leave \/ ReadStatus
           \/ EndWait \/ Erase
  BY <1>7 DEF Client, Connect, SendLine, CloseConnection, Listen, Accept, SayHello,
     Leave, ReadStatus, EndWait, Erase, Ascending, AppliedInOrder, loop, shared,
     acquirer
<1>8. CASE ProcessBlock \/ PopNothing \/ SetRuntimeState \/ FindPending
           \/ Destroy \/ Join \/ UNCHANGED vars
  BY <1>8 DEF ProcessBlock, PopNothing, SetRuntimeState, FindPending, Destroy,
     Join, vars, Ascending, AppliedInOrder, loop, shared, acquirer
<1> QED
  BY <1>2, <1>3, <1>4, <1>5, <1>6, <1>7, <1>8 DEF Next, Serve, Acquire

\* What has been applied stays applied.
LEMMA AppliedStays ==
  ASSUME TypeOK, [Next]_vars
  PROVE  \A i : Among(i, applied) => Among(i, applied')
<1>1. CASE UNCHANGED applied
  BY <1>1
<1>2. CASE applied' = Append(applied, taken)
  <2>1. applied \in Seq(Nat) /\ taken \in Nat
    BY DEF TypeOK
  <2>2. /\ Len(applied') = Len(applied) + 1
        /\ Len(applied) \in Nat
        /\ \A k \in 1 .. Len(applied) : applied'[k] = applied[k]
    BY <1>2, <2>1, Appended
  <2> QED
    BY <2>2 DEF Among
<1> QED
  BY <1>1, <1>2 DEF Next, Client, Serve, Acquire, Connect, SendLine,
     CloseConnection, Listen, Accept, SayHello, Leave, Disconnect, ReadStatus,
     ReadSet, EndWait, Erase, Reply, ProcessBlock, PopCommand, PopNothing, Apply,
     ApplyThrows, SetRuntimeState, FindPending, CompletePending, Destroy, Join,
     vars, acquirer

\* Every answer on its way keeps belonging to its command.
LEMMA AnswersStep ==
  TypeOK /\ Places /\ AnswersOwn /\ [Next]_vars => AnswersOwn'
<1> SUFFICES ASSUME TypeOK, Places, AnswersOwn, [Next]_vars PROVE AnswersOwn'
  OBVIOUS
<1>1. \A i : Among(i, applied) => Among(i, applied')
  BY AppliedStays
<1>2. CASE ReadStatus \/ ReadSet \/ Disconnect
  <2>1. /\ UNCHANGED <<result, taken>>
        /\ UNCHANGED <<outcome, command>> \/ ~outcome'.ok \/ command' = NoCommand
        /\ reply' = reply \/ reply'.kind # "OK"
    BY <1>2 DEF ReadStatus, ReadSet, Disconnect, NotDone, NoReply, shared, acquirer
  <2> QED
    BY <1>1, <2>1 DEF AnswersOwn
<1>3. CASE EndWait
  <2>1. UNCHANGED <<result, taken, outcome, command, applied>>
    BY <1>3 DEF EndWait, shared, acquirer
  <2>2. command # NoCommand
    BY <1>3 DEF EndWait, Places
  <2>3. /\ reply'.kind = "OK" => outcome.ok
        /\ reply'.id = command
        /\ reply'.value = outcome.value
    BY <1>3 DEF EndWait, Answer
  <2> QED
    BY <2>1, <2>2, <2>3 DEF AnswersOwn
<1>4. CASE Reply
  <2>1. UNCHANGED <<result, taken>> /\ command' = NoCommand /\ reply'.kind # "OK"
    BY <1>4 DEF Reply, NoReply, acquirer
  <2> QED
    BY <1>1, <2>1 DEF AnswersOwn
<1>5. CASE Apply
  <2>1. /\ UNCHANGED <<taken, outcome, command, reply>>
        /\ result'.value = taken
        /\ applied' = Append(applied, taken)
    BY <1>5 DEF Apply, loop, shared
  <2>2. applied \in Seq(Nat) /\ taken \in Nat
    BY DEF TypeOK
  <2>3. /\ Len(applied') = Len(applied) + 1
        /\ Len(applied) \in Nat
        /\ applied'[Len(applied) + 1] = taken
    BY <2>1, <2>2, Appended
  <2>4. Among(taken, applied')
    BY <2>3 DEF Among
  <2> QED
    BY <1>1, <2>1, <2>4 DEF AnswersOwn
<1>6. CASE ApplyThrows \/ PopCommand
  <2>1. UNCHANGED <<outcome, command, reply>> /\ ~result'.ok
    <3>1. CASE ApplyThrows
      BY <3>1 DEF ApplyThrows, loop, shared
    <3>2. CASE PopCommand
      BY <3>2 DEF PopCommand, Places, loop
    <3> QED
      BY <1>6, <3>1, <3>2
  <2> QED
    BY <1>1, <2>1 DEF AnswersOwn
<1>7. CASE CompletePending
  <2>1. /\ UNCHANGED <<command, reply, applied>>
        /\ ~result'.ok
        /\ outcome' = outcome \/ (outcome' = result /\ taken = command)
    BY <1>7 DEF CompletePending, NotDone, Places, loop
  <2> QED
    BY <2>1 DEF AnswersOwn
<1>8. CASE UNCHANGED <<result, taken, outcome, command, reply>>
  BY <1>1, <1>8 DEF AnswersOwn
<1> QED
  BY <1>2, <1>3, <1>4, <1>5, <1>6, <1>7, <1>8 DEF Next, Client, Serve, Acquire,
     Connect, SendLine, CloseConnection, Listen, Accept, SayHello, Leave, Erase,
     ProcessBlock, PopNothing, SetRuntimeState, FindPending, Destroy, Join, vars,
     loop, shared, acquirer

\* A reply is sent as it was made up.
LEMMA RepliesGrow ==
  ASSUME TypeOK, Places, Reply
  PROVE  /\ Len(replies') = Len(replies) + 1
         /\ Len(replies) \in Nat
         /\ \A i \in 1 .. Len(replies) : replies'[i] = replies[i]
         /\ replies'[Len(replies) + 1] = reply
         /\ \A i \in 1 .. Len(replies') :
              i = Len(replies) + 1 \/ i \in 1 .. Len(replies)
<1>1. /\ reply \in [kind : ReplyKinds, id : Nat, value : Nat]
      /\ replies \in Seq([kind : ReplyKinds, id : Nat, value : Nat])
  BY DEF Reply, Places, TypeOK
<1>2. replies' = Append(replies, reply)
  BY DEF Reply
<1>3. /\ Len(replies') = Len(replies) + 1
      /\ Len(replies) \in Nat
      /\ \A i \in 1 .. Len(replies) : replies'[i] = replies[i]
      /\ replies'[Len(replies) + 1] = reply
  BY <1>1, <1>2, Appended
<1> QED
  BY <1>3

\* Only Reply sends.
LEMMA OnlyReplySends == [Next]_vars => Reply \/ UNCHANGED replies
  BY DEF Next, Client, Serve, Acquire, Connect, SendLine, CloseConnection, Listen,
     Accept, SayHello, Leave, Disconnect, ReadStatus, ReadSet, EndWait, Erase,
     ProcessBlock, PopCommand, PopNothing, Apply, ApplyThrows, SetRuntimeState,
     FindPending, CompletePending, Destroy, Join, vars

\* What is sent belongs to its command.
LEMMA OkStep ==
  TypeOK /\ Places /\ AnswersOwn /\ OkIsOwn /\ [Next]_vars => OkIsOwn'
<1> SUFFICES ASSUME TypeOK, Places, AnswersOwn, OkIsOwn, [Next]_vars
             PROVE  OkIsOwn'
  OBVIOUS
<1>1. \A i : Among(i, applied) => Among(i, applied')
  BY AppliedStays
<1>2. \A i \in 1 .. Len(replies) :
        replies[i].kind = "OK" =>
          replies[i].value = replies[i].id /\ Among(replies[i].id, applied)
  BY DEF OkIsOwn, Among
<1>3. \A i \in 1 .. Len(replies') :
        replies'[i].kind = "OK" =>
          replies'[i].value = replies'[i].id /\ Among(replies'[i].id, applied')
  <2>1. CASE UNCHANGED replies
    BY <1>1, <1>2, <2>1
  <2>2. CASE Reply
    BY <1>1, <1>2, <2>2, RepliesGrow DEF AnswersOwn
  <2> QED
    BY <2>1, <2>2, OnlyReplySends
<1> QED
  BY <1>3 DEF OkIsOwn, Among

\* The runtime state stays ahead of the answers.
LEMMA RuntimeStep ==
  TypeOK /\ Places /\ Ascending /\ RuntimeAhead /\ [Next]_vars => RuntimeAhead'
<1> SUFFICES ASSUME TypeOK, Places, Ascending, RuntimeAhead, [Next]_vars
             PROVE  RuntimeAhead'
  OBVIOUS
<1>1. \A i : Among(i, applied) => Among(i, applied')
  BY AppliedStays
<1>2. /\ runtime \in Nat /\ current \in Nat /\ taken \in Nat
      /\ outcome.value \in Nat /\ result.value \in Nat /\ reply.value \in Nat
  BY DEF TypeOK, Outcomes
<1>3. \A i \in 1 .. Len(replies) : replies[i].value \in Nat
  <2>1. replies \in Seq([kind : ReplyKinds, id : Nat, value : Nat])
    BY DEF TypeOK
  <2>2. \A i \in 1 .. Len(replies) :
          replies[i] \in [kind : ReplyKinds, id : Nat, value : Nat]
    BY <2>1, Elements
  <2> QED
    BY <2>2
<1>4. CASE ReadStatus \/ ReadSet \/ Disconnect
  <2>1. /\ UNCHANGED <<result, acq, runtime, current, replies>>
        /\ outcome' = outcome \/ ~outcome'.ok
        /\ reply'.kind # "OK" \/ reply' = reply
        /\ reply'.kind = "STATUS" => reply' = reply \/ reply'.value = runtime
    BY <1>4 DEF ReadStatus, ReadSet, Disconnect, NotDone, NoReply, shared, acquirer
  <2> QED
    BY <1>1, <2>1 DEF RuntimeAhead
<1>5. CASE EndWait
  <2>1. UNCHANGED <<result, acq, runtime, current, replies, outcome, applied>>
    BY <1>5 DEF EndWait, shared, acquirer
  <2>2. /\ reply'.kind = "OK" => outcome.ok
        /\ reply'.kind # "STATUS"
        /\ reply'.value = outcome.value
    BY <1>5 DEF EndWait, Answer
  <2> QED
    BY <2>1, <2>2 DEF RuntimeAhead
<1>6. CASE Reply
  <2>1. /\ UNCHANGED <<result, acq, runtime, current, outcome>>
        /\ reply'.kind = "none"
    BY <1>6 DEF Reply, NoReply, shared, acquirer
  <2>2. \A i \in 1 .. Len(replies') :
          replies'[i].kind = "OK" => replies'[i].value <= runtime
    BY <1>6, RepliesGrow DEF RuntimeAhead
  <2> QED
    BY <1>1, <2>1, <2>2 DEF RuntimeAhead
<1>7. CASE Apply
  <2>1. /\ UNCHANGED <<runtime, outcome, reply, replies>>
        /\ acq = "apply" /\ acq' = "runtime"
        /\ current' = taken
        /\ result'.value = taken
        /\ applied' = Append(applied, taken)
    BY <1>7 DEF Apply, AfterApply, loop, shared
  <2>2. current <= taken
    BY <1>2, <2>1 DEF RuntimeAhead, Among, Ascending
  <2>3. Among(taken, applied')
    <3>1. applied \in Seq(Nat)
      BY DEF TypeOK
    <3>2. /\ Len(applied') = Len(applied) + 1
          /\ Len(applied) \in Nat
          /\ applied'[Len(applied) + 1] = taken
      BY <1>2, <2>1, <3>1, Appended
    <3> QED
      BY <3>2 DEF Among
  <2> QED
    BY <1>2, <2>1, <2>2, <2>3 DEF RuntimeAhead
<1>8. CASE ApplyThrows \/ PopCommand \/ PopNothing
  <2>1. /\ UNCHANGED <<runtime, current, outcome, reply, replies>>
        /\ ~result'.ok
    BY <1>8 DEF ApplyThrows, PopCommand, PopNothing, Places, loop, shared
  <2> QED
    BY <1>1, <2>1 DEF RuntimeAhead
<1>9. CASE ProcessBlock \/ SetRuntimeState
  <2>1. /\ UNCHANGED <<current, outcome, reply, replies, result>>
        /\ runtime <= runtime' /\ runtime' <= current /\ runtime' \in Nat
        /\ result.ok => runtime' = current /\ acq' # "runtime"
    <3>1. CASE ProcessBlock
      BY <1>2, <3>1 DEF ProcessBlock, Places, RuntimeAhead, loop, shared
    <3>2. CASE SetRuntimeState
      BY <1>2, <3>2 DEF SetRuntimeState, RuntimeAhead, loop, shared
    <3> QED
      BY <1>9, <3>1, <3>2
  <2>2. result.ok => result.value <= current
    BY <1>2 DEF RuntimeAhead
  <2> QED
    BY <1>1, <1>2, <1>3, <2>1, <2>2 DEF RuntimeAhead
<1>10. CASE CompletePending
  <2>1. /\ UNCHANGED <<runtime, current, reply, replies>>
        /\ acq = "complete"
        /\ ~result'.ok
        /\ outcome' = outcome \/ outcome' = result
    BY <1>10 DEF CompletePending, NotDone, loop
  <2> QED
    BY <1>1, <2>1 DEF RuntimeAhead
<1>11. CASE FindPending
  <2>1. /\ UNCHANGED <<result, runtime, current, outcome, reply, replies>>
        /\ acq = "find" /\ acq' = "complete"
    BY <1>11 DEF FindPending, loop, shared
  <2> QED
    BY <1>1, <2>1 DEF RuntimeAhead
<1>12. CASE Destroy \/ Join
  <2>1. /\ UNCHANGED <<result, runtime, current, outcome, reply, replies>>
        /\ ~result.ok
    BY <1>12 DEF Destroy, Join, Places, loop, shared
  <2> QED
    BY <1>1, <2>1 DEF RuntimeAhead
<1>13. CASE UNCHANGED <<result, acq, runtime, current, outcome, reply, replies>>
  BY <1>1, <1>13 DEF RuntimeAhead
<1> QED
  BY <1>4, <1>5, <1>6, <1>7, <1>8, <1>9, <1>10, <1>11, <1>12, <1>13 DEF Next,
     Client, Serve, Acquire, Connect, SendLine, CloseConnection, Listen, Accept,
     SayHello, Leave, Erase, vars, loop, shared, acquirer

\* A status that is sent keeps up with the answers before it.
LEMMA StatusStep ==
  TypeOK /\ Places /\ RuntimeAhead /\ StatusKeepsUp /\ [Next]_vars
    => StatusKeepsUp'
<1> SUFFICES ASSUME TypeOK, Places, RuntimeAhead, StatusKeepsUp, Reply
             PROVE  StatusKeepsUp'
  BY OnlyReplySends DEF StatusKeepsUp
<1> SUFFICES ASSUME NEW i \in 1 .. Len(replies'), NEW j \in 1 .. Len(replies'),
                    i < j, replies'[i].kind = "OK", replies'[j].kind = "STATUS"
             PROVE  replies'[j].value >= replies'[i].value
  BY DEF StatusKeepsUp
<1>1. i \in 1 .. Len(replies) /\ replies'[i] = replies[i]
  BY RepliesGrow
<1>2. CASE j \in 1 .. Len(replies)
  BY <1>1, <1>2, RepliesGrow DEF StatusKeepsUp
<1>3. CASE j = Len(replies) + 1
  BY <1>1, <1>3, RepliesGrow DEF RuntimeAhead, TypeOK
<1> QED
  BY <1>2, <1>3, RepliesGrow

-----------------------------------------------------------------------------
\* Every step preserves the invariant.
LEMMA InvStep == Inv /\ [Next]_vars => Inv'
  BY TypeStep, PlacesStep, AscendingStep, AnswersStep, OkStep, RuntimeStep,
     StatusStep DEF Inv

\* The invariant holds in every reachable state.
THEOREM Invariant == Spec => []Inv
  BY InvStep, InvInit, PTL DEF Spec

\* Types of the control server.
THEOREM TypeCorrect == Spec => []TypeOK
<1>1. Inv => TypeOK
  BY DEF Inv
<1> QED
  BY <1>1, Invariant, PTL

\* Commands are applied once and in order, given up or not.
THEOREM InOrder == Spec => []AppliedInOrder
<1>1. Inv => AppliedInOrder
  BY DEF Inv
<1> QED
  BY <1>1, Invariant, PTL

\* No answer is that of another command.
THEOREM OwnAnswers == Spec => []OkIsOwn
<1>1. Inv => OkIsOwn
  BY DEF Inv
<1> QED
  BY <1>1, Invariant, PTL

\* The status never falls behind an answer.
THEOREM StatusCurrent == Spec => []StatusKeepsUp
<1>1. Inv => StatusKeepsUp
  BY DEF Inv
<1> QED
  BY <1>1, Invariant, PTL

-----------------------------------------------------------------------------
(***************************************************************************)
(* The gateway's control half.                                             *)
(***************************************************************************)
Told == [kind : ReplyKinds \cup {"none", "failed"}, id : Nat, value : Nat]

\* Types, and as many requests of commands as there are commands.
WebTypes ==
  /\ made \in 0 .. MaxRequests
  /\ turns \in Seq(Requests)
  /\ step \in {"idle", "greeting", "reading"}
  /\ conn \in 0 .. MaxClients
  /\ mailbox \in Told
  /\ lineOf \in [Clients -> Seq(Requests)]
  /\ origin \in Seq(Requests)
  /\ answers \in [Requests -> Told]
  /\ Len(origin) = nextId - 1

\* Connections are made one after the other, and served in that order.
Connections ==
  /\ step # "idle" => turns # <<>> /\ conn # 0
  /\ conn # 0 => peer[conn] = "open" /\ client <= conn
  /\ client # 0 => peer[client] # "new"
  /\ server \in {"hello", "recv", "wait", "erase", "reply"} => client # 0
  /\ \A c, d \in Clients : c < d /\ peer[c] = "new" => peer[d] = "new"
  /\ \A c \in Clients : conn # 0 /\ conn < c => peer[c] = "new"
  /\ \A c \in Clients : /\ Len(inbox[c]) <= Len(lineOf[c])
                        /\ peer[c] = "new" => lineOf[c] = <<>>

\* Requests wait in the order in which they were made, and whatever was sent or
\* queued is of the first of them or of an earlier one.
InTurn ==
  /\ \A j \in 1 .. Len(turns) : turns[j] <= made
  /\ \A j, k \in 1 .. Len(turns) : j <= k => turns[j] <= turns[k]

\* The request r was made, and nobody in line made one before it.
NoLater(r) == r <= made /\ \A j \in 1 .. Len(turns) : r <= turns[j]

\* The lines that were sent, over all connections, are in turn.
LinesInTurn ==
  /\ \A c \in Clients : \A i \in 1 .. Len(lineOf[c]) : NoLater(lineOf[c][i])
  /\ \A c, d \in Clients : \A i \in 1 .. Len(lineOf[c]), j \in 1 .. Len(lineOf[d]) :
       c < d \/ (c = d /\ i <= j) => lineOf[c][i] <= lineOf[d][j]

\* The lines of a connection that were read or dropped.
Past(c) == Len(lineOf[c]) - Len(inbox[c])

\* So are the commands, and the lines still to be read come after them.
OriginInTurn ==
  /\ \A k \in 1 .. Len(origin) : NoLater(origin[k])
  /\ \A j, k \in 1 .. Len(origin) : j <= k => origin[j] <= origin[k]
  /\ \A k \in 1 .. Len(origin) : \A c \in Clients : \A i \in 1 .. Len(lineOf[c]) :
       client <= c /\ Past(c) < i => origin[k] <= lineOf[c][i]

\* Nothing is on its way on the connection.
Calm ==
  /\ server \notin {"wait", "erase", "reply"}
  /\ server \in {"hello", "recv"} => inbox[conn] = <<>>

\* The command i, if it is one, is of the request that holds the lock.
OfHolder(i) == i # NoCommand => i < nextId /\ origin[i] = Head(turns)

\* One line at most is on its way, or its command, or its reply, and it is of the
\* request that holds the lock.
OneLine ==
  /\ conn # 0 /\ client # conn => step = "greeting"
  /\ step = "greeting" => lineOf[conn] = <<>>
  /\ step # "reading" => mailbox = NoReply /\ (conn # 0 /\ client = conn => Calm)
  /\ step = "reading" =>
       /\ lineOf[conn] # <<>> /\ lineOf[conn][Len(lineOf[conn])] = Head(turns)
       /\ mailbox # NoReply => Calm /\ OfHolder(mailbox.id)
       /\ server \in {"hello", "recv"} => Len(inbox[conn]) <= 1
       /\ server \in {"wait", "erase", "reply"} => inbox[conn] = <<>>
       /\ server = "wait" => OfHolder(command)
       /\ server \in {"erase", "reply"} => OfHolder(reply.id)

\* What browsers were told.
AnswersKnown ==
  /\ mailbox.kind = "OK" => Among(mailbox.id, applied)
  /\ \A r \in Requests : answers[r].id # NoCommand =>
       /\ answers[r].id < nextId
       /\ origin[answers[r].id] = r
       /\ answers[r].kind = "OK" => Among(answers[r].id, applied)

\* The inductive invariant of the gateway's control half.
WebInv ==
  /\ Inv
  /\ WebTypes
  /\ Connections
  /\ InTurn
  /\ LinesInTurn
  /\ OriginInTurn
  /\ OneLine
  /\ AnswersKnown

-----------------------------------------------------------------------------
(***************************************************************************)
(* What the steps do to what the gateway sees of the server.               *)
(***************************************************************************)
\* The server's own progress, which neither reads nor answers.
Progress ==
  \/ server' = server /\ reply' = reply
  \/ server = "hello" /\ server' = "recv" /\ reply' = reply
  \/ server = "wait" /\ server' = "erase" /\ reply'.id = command
  \/ server = "erase" /\ server' = "reply" /\ reply' = reply
  \/ server \in {"listen", "accept", "recv"} /\ server' \in {"accept", "ended"}
       /\ reply' = reply

\* A step of the server reads a line, sends a reply, gives up a connection, takes
\* the next one or does none of these.
LEMMA ServerCases ==
  ASSUME ServerStep
  PROVE  /\ UNCHANGED <<made, turns, step, attempt, conn, lineOf, answers, peer>>
         /\ [Next]_vars
         /\ \/ ReadSet \/ ReadStatus \/ Reply \/ Disconnect \/ Accept
            \/ /\ UNCHANGED <<inbox, client, nextId, command, replies, origin, mailbox>>
               /\ Progress
<1>1. /\ UNCHANGED <<made, turns, step, attempt, conn, lineOf, answers>>
      /\ Serve \/ Disconnect \/ Acquire \/ Join
      /\ replies' = replies => mailbox' = mailbox
      /\ nextId' = nextId => origin' = origin
  BY DEF ServerStep
<1>2. [Next]_vars
  BY <1>1 DEF Next
<1>3. CASE ReadSet \/ ReadStatus \/ Reply \/ Disconnect \/ Accept
  <2>1. peer' = peer
    BY <1>3 DEF ReadSet, ReadStatus, Reply, Disconnect, Accept, connection
  <2> QED
    BY <1>1, <1>2, <1>3, <2>1
<1>4. CASE Acquire \/ Join
  <2>1. UNCHANGED <<peer, inbox, client, nextId, command, replies, server, reply>>
    BY <1>4 DEF Acquire, ProcessBlock, PopCommand, PopNothing, Apply, ApplyThrows,
       SetRuntimeState, FindPending, CompletePending, Destroy, Join, connection, loop, shared
  <2> QED
    BY <1>1, <1>2, <2>1 DEF Progress
<1>5. CASE Listen \/ SayHello \/ EndWait \/ Erase \/ Leave
  <2>1. UNCHANGED <<peer, inbox, client, nextId, command, replies>>
    BY <1>5 DEF Listen, SayHello, EndWait, Erase, Leave, connection, shared
  <2>2. Progress
    BY <1>5 DEF Listen, SayHello, EndWait, Erase, Leave, Answer, Progress
  <2> QED
    BY <1>1, <1>2, <2>1, <2>2
<1> QED
  BY <1>1, <1>3, <1>4, <1>5 DEF Serve

\* The gateway's steps touch the server's inbox and the peer's side only.
LEMMA RequestEffects ==
  ASSUME Request
  PROVE  UNCHANGED <<server, client, nextId, command, reply, replies, applied, origin>>
  BY DEF Request, MakeRequest, UseConnection, OpenConnection, ReadHello, WriteLine, ReadReply,
     ConnectionLost, Refused, NoHello, Close, SendLine, Connect, CloseConnection,
     vars, loop, shared, acquirer

\* The lock is held by a request.
LEMMA Holder ==
  ASSUME WebTypes, turns # <<>>
  PROVE  /\ Head(turns) = turns[1] /\ Head(turns) \in Requests
         /\ Tail(turns) \in Seq(Requests) /\ Len(turns) \in Nat \ {0}
         /\ Len(Tail(turns)) = Len(turns) - 1
         /\ \A i \in 1 .. Len(turns) - 1 : Tail(turns)[i] = turns[i + 1]
  BY Beheaded DEF WebTypes

\* The types of the server that are used here.
LEMMA ServerTypes ==
  ASSUME Inv
  PROVE  /\ inbox \in [Clients -> Seq({"set", "status"})]
         /\ peer \in [Clients -> {"new", "open", "closed"}]
         /\ client \in 0 .. MaxClients /\ MaxClients \in Nat
         /\ nextId \in Nat \ {0} /\ command \in Nat /\ command < nextId
         /\ reply \in [kind : ReplyKinds \cup {"none"}, id : Nat, value : Nat]
         /\ server \in {"wait", "erase"} => command # NoCommand
  BY ControlAssumption DEF Inv, TypeOK, Ascending, Places

\* A connection is one of the server's clients.
LEMMA ClientOf ==
  ASSUME NEW c \in 0 .. MaxClients, c # 0
  PROVE  c \in Clients
  BY ControlAssumption DEF Clients

\* A line is written.
LEMMA LineWritten ==
  ASSUME WebInv, turns # <<>>, conn # 0, WriteLine
  PROVE  /\ conn \in Clients
         /\ UNCHANGED <<made, turns, attempt, conn, mailbox, origin, answers, peer>>
         /\ step' = "reading"
         /\ \A c \in Clients : c # conn => inbox'[c] = inbox[c] /\ lineOf'[c] = lineOf[c]
         /\ inbox'[conn] = Append(inbox[conn], "set")
         /\ lineOf'[conn] = Append(lineOf[conn], Head(turns))
         /\ lineOf' \in [Clients -> Seq(Requests)]
         /\ Len(inbox'[conn]) = Len(inbox[conn]) + 1 /\ Len(inbox[conn]) \in Nat
         /\ Len(lineOf'[conn]) = Len(lineOf[conn]) + 1 /\ Len(lineOf[conn]) \in Nat
         /\ \A i \in 1 .. Len(lineOf[conn]) : lineOf'[conn][i] = lineOf[conn][i]
         /\ lineOf'[conn][Len(lineOf[conn]) + 1] = Head(turns)
         /\ [Next]_vars
<1>1. conn \in Clients
  BY ClientOf DEF WebInv, WebTypes
<1>2. /\ inbox[conn] \in Seq({"set", "status"}) /\ lineOf[conn] \in Seq(Requests)
      /\ Head(turns) \in Requests
  BY <1>1, ServerTypes, Holder DEF WebInv, WebTypes
<1>3. PICK kind \in {"set", "status"} :
        inbox' = [inbox EXCEPT ![conn] = Append(inbox[conn], kind)]
  BY DEF WriteLine, SendLine
<1>4. lineOf' = [lineOf EXCEPT ![conn] = Append(lineOf[conn], Head(turns))]
  BY DEF WriteLine
<1>5. Append(lineOf[conn], Head(turns)) \in Seq(Requests)
  BY <1>2
<1>6. lineOf' \in [Clients -> Seq(Requests)]
  BY <1>4, <1>5 DEF WebInv, WebTypes
<1>7. \A c \in Clients : c # conn => inbox'[c] = inbox[c] /\ lineOf'[c] = lineOf[c]
  BY <1>3, <1>4, ServerTypes DEF WebInv, WebTypes
<1>8. /\ inbox'[conn] = Append(inbox[conn], "set")
      /\ lineOf'[conn] = Append(lineOf[conn], Head(turns))
  BY <1>1, <1>4 DEF WebInv, WebTypes, WriteLine
<1>9. [Next]_vars
  BY <1>1 DEF WriteLine, Next, Client
<1>10. /\ UNCHANGED <<made, turns, attempt, conn, mailbox, origin, answers, peer>>
       /\ step' = "reading"
  BY DEF WriteLine, SendLine
<1> QED
  BY <1>1, <1>2, <1>6, <1>7, <1>8, <1>9, <1>10, Appended

\* The holder is told something.
LEMMA HolderTold ==
  ASSUME WebInv, turns # <<>>, NEW a \in Told, Answered(a)
  PROVE  /\ turns' = Tail(turns) /\ turns' \in Seq(Requests) /\ step' = "idle"
         /\ answers' \in [Requests -> Told]
         /\ answers'[Head(turns)] = a
         /\ \A r \in Requests : r # Head(turns) => answers'[r] = answers[r]
<1>1. answers' = [answers EXCEPT ![Head(turns)] = a] /\ turns' = Tail(turns) /\ step' = "idle"
  BY DEF Answered
<1>2. Head(turns) \in Requests /\ Tail(turns) \in Seq(Requests)
  BY Holder DEF WebInv
<1> QED
  BY <1>1, <1>2 DEF WebInv, WebTypes

-----------------------------------------------------------------------------
(***************************************************************************)
(* Every step of the gateway keeps what is known of it.                    *)
(***************************************************************************)
\* Requests are numbers.
LEMMA Numbered ==
  ASSUME NEW q \in Seq(Requests)
  PROVE  \A i \in 1 .. Len(q) : q[i] \in Requests /\ q[i] \in Nat
<1>1. \A i \in 1 .. Len(q) : q[i] \in Requests
  BY Elements
<1> QED
  BY <1>1 DEF Requests

\* Whoever waits moves up, or nobody does; nothing is sent or read.
LEMMA TurnsMoveUp ==
  ASSUME WebInv,
         turns' = turns \/ (turns # <<>> /\ turns' = Tail(turns)),
         UNCHANGED <<made, lineOf, origin, inbox, client>>
  PROVE  InTurn' /\ LinesInTurn' /\ OriginInTurn'
<1>1. CASE turns' = turns
  BY <1>1 DEF WebInv, InTurn, LinesInTurn, OriginInTurn, NoLater, Past
<1>2. CASE turns # <<>> /\ turns' = Tail(turns)
  <2>1. /\ Len(turns) \in Nat \ {0} /\ Len(turns') = Len(turns) - 1
        /\ \A i \in 1 .. Len(turns) - 1 : turns'[i] = turns[i + 1]
    BY <1>2, Holder DEF WebInv
  <2>2. \A i \in 1 .. Len(turns') : i + 1 \in 1 .. Len(turns) /\ turns'[i] = turns[i + 1]
    BY <2>1
  <2>3. InTurn'
    BY <2>1, <2>2 DEF WebInv, InTurn
  <2>4. \A r : NoLater(r) => NoLater(r)'
    BY <2>2 DEF NoLater
  <2>5. LinesInTurn'
    BY <2>4 DEF WebInv, LinesInTurn
  <2>6. OriginInTurn'
    BY <2>4 DEF WebInv, OriginInTurn, Past
  <2> QED
    BY <2>3, <2>5, <2>6
<1> QED
  BY <1>1, <1>2

\* A request gets in line.
LEMMA MakeRequestStep == ASSUME WebInv, MakeRequest PROVE WebInv'
<1>1. /\ made < MaxRequests /\ made' = made + 1 /\ turns' = Append(turns, made + 1)
      /\ UNCHANGED <<vars, step, attempt, conn, mailbox, lineOf, origin, answers>>
  BY DEF MakeRequest
<1>2. /\ UNCHANGED <<peer, inbox, server, client, nextId, command, reply, applied>>
      /\ UNCHANGED <<step, conn, mailbox, lineOf, origin, answers>>
  BY <1>1 DEF vars, connection, loop, shared, acquirer
<1>3. made \in Nat /\ made + 1 \in Requests /\ turns \in Seq(Requests) /\ MaxRequests \in Nat
  BY <1>1, WebAssumption DEF WebInv, WebTypes, Requests
<1>4. /\ turns' \in Seq(Requests) /\ Len(turns') = Len(turns) + 1 /\ Len(turns) \in Nat
      /\ \A i \in 1 .. Len(turns) : turns'[i] = turns[i]
      /\ turns'[Len(turns) + 1] = made + 1
  BY <1>1, <1>3, Appended
<1>5. turns # <<>> => turns' # <<>> /\ Head(turns') = Head(turns)
  BY <1>1, <1>3
<1>6. Inv'
  BY <1>1, InvStep DEF WebInv
<1>7. WebTypes'
  BY <1>1, <1>2, <1>3, <1>4 DEF WebInv, WebTypes
<1>8. Connections'
  BY <1>2, <1>5 DEF WebInv, Connections
<1>9. \A j \in 1 .. Len(turns') : j \in 1 .. Len(turns) \/ j = Len(turns) + 1
  BY <1>4
<1>10. \A j \in 1 .. Len(turns) : turns[j] <= made /\ turns[j] \in Nat
  BY <1>3, Elements DEF WebInv, InTurn, Requests
<1>11. InTurn'
  <2>1. \A j \in 1 .. Len(turns') : turns'[j] <= made'
    BY <1>1, <1>3, <1>4, <1>9, <1>10
  <2>2. \A j, k \in 1 .. Len(turns') : j <= k => turns'[j] <= turns'[k]
    BY <1>3, <1>4, <1>9, <1>10 DEF WebInv, InTurn
  <2> QED
    BY <2>1, <2>2 DEF InTurn
<1>12. ASSUME NEW r \in Nat, NoLater(r)
       PROVE  r <= made' /\ \A j \in 1 .. Len(turns') : r <= turns'[j]
  BY <1>1, <1>3, <1>4, <1>9, <1>12 DEF NoLater
<1>13. LinesInTurn'
  <2>1. \A c \in Clients : \A i \in 1 .. Len(lineOf[c]) : lineOf[c][i] \in Nat
    BY Numbered DEF WebInv, WebTypes
  <2> QED
    BY <1>2, <1>12, <2>1 DEF WebInv, LinesInTurn, NoLater
<1>14. OriginInTurn'
  <2>1. \A i \in 1 .. Len(origin) : origin[i] \in Nat
    BY Numbered DEF WebInv, WebTypes
  <2>2. \A k \in 1 .. Len(origin) : NoLater(origin[k])
    BY DEF WebInv, OriginInTurn
  <2>3. ASSUME NEW k \in 1 .. Len(origin)
        PROVE  origin[k] <= made' /\ \A j \in 1 .. Len(turns') : origin[k] <= turns'[j]
    <3>1. origin[k] \in Nat /\ NoLater(origin[k])
      BY <2>1, <2>2
    <3> QED
      BY <1>12, <3>1
  <2>4. /\ \A j, k \in 1 .. Len(origin) : j <= k => origin[j] <= origin[k]
        /\ \A k \in 1 .. Len(origin) : \A c \in Clients : \A i \in 1 .. Len(lineOf[c]) :
             client <= c /\ Past(c) < i => origin[k] <= lineOf[c][i]
    BY DEF WebInv, OriginInTurn
  <2> QED
    BY <1>2, <2>3, <2>4 DEF WebInv, OriginInTurn, NoLater, Past
<1>15. OneLine'
  <2>1. step = "reading" => turns # <<>>
    BY DEF WebInv, Connections
  <2>2. step = "reading" => Head(turns') = Head(turns)
    BY <1>5, <2>1
  <2> QED
    BY <1>2, <2>2 DEF WebInv, OneLine, Calm, OfHolder
<1>16. AnswersKnown'
  BY <1>2 DEF WebInv, AnswersKnown, Among
<1> QED
  BY <1>6, <1>7, <1>8, <1>11, <1>13, <1>14, <1>15, <1>16 DEF WebInv

\* A line is written on a connection on which nothing is on its way.
LEMMA WriteLineStep ==
  ASSUME WebInv, UseConnection \/ ReadHello
  PROVE  WebInv'
<1>1. WriteLine /\ turns # <<>> /\ conn # 0 /\ client = conn /\ step # "reading"
  BY DEF UseConnection, ReadHello, WebInv, Connections, OneLine
<1>2. mailbox = NoReply /\ Calm
  BY <1>1 DEF WebInv, OneLine
<1>3. UNCHANGED <<server, client, nextId, command, reply, replies, applied>>
  BY RequestEffects DEF Request
<1>4. /\ conn \in Clients
      /\ UNCHANGED <<made, turns, conn, mailbox, origin, answers, peer>>
      /\ step' = "reading"
  BY <1>1, LineWritten
<1>5. \A c \in Clients : c # conn => inbox'[c] = inbox[c] /\ lineOf'[c] = lineOf[c]
  BY <1>1, LineWritten
<1>6. /\ Len(inbox'[conn]) = Len(inbox[conn]) + 1 /\ Len(inbox[conn]) \in Nat
      /\ Len(lineOf'[conn]) = Len(lineOf[conn]) + 1 /\ Len(lineOf[conn]) \in Nat
      /\ \A i \in 1 .. Len(lineOf[conn]) : lineOf'[conn][i] = lineOf[conn][i]
      /\ lineOf'[conn][Len(lineOf[conn]) + 1] = Head(turns)
  BY <1>1, LineWritten
<1>7. Inv'
  BY <1>1, LineWritten, InvStep DEF WebInv
<1>8. WebTypes'
  <2>1. lineOf' \in [Clients -> Seq(Requests)]
    BY <1>1, LineWritten
  <2> QED
    BY <1>3, <1>4, <2>1 DEF WebInv, WebTypes
<1>9. Connections'
  <2>1. \A c \in Clients : /\ Len(inbox[c]) <= Len(lineOf[c])
                           /\ peer[c] = "new" => lineOf[c] = <<>>
    BY DEF WebInv, Connections
  <2>2. peer[conn] = "open"
    BY <1>1 DEF WebInv, Connections
  <2>3. \A c \in Clients : /\ Len(inbox'[c]) <= Len(lineOf'[c])
                           /\ peer'[c] = "new" => lineOf'[c] = <<>>
    <3> SUFFICES ASSUME NEW c \in Clients
                 PROVE  /\ Len(inbox'[c]) <= Len(lineOf'[c])
                        /\ peer'[c] = "new" => lineOf'[c] = <<>>
      OBVIOUS
    <3>1. CASE c = conn
      BY <1>4, <1>6, <2>1, <2>2, <3>1
    <3>2. CASE c # conn
      BY <1>4, <1>5, <2>1, <3>2
    <3> QED
      BY <3>1, <3>2
  <2> QED
    BY <1>1, <1>3, <1>4, <2>3 DEF WebInv, Connections
<1>10. InTurn'
  BY <1>4 DEF WebInv, InTurn
<1>11. /\ Head(turns) \in Nat /\ NoLater(Head(turns))
       /\ \A r : NoLater(r) => r <= Head(turns)
  <2>1. Head(turns) = turns[1] /\ Head(turns) \in Requests /\ 1 \in 1 .. Len(turns)
    BY <1>1, Holder DEF WebInv
  <2>2. \A j \in 1 .. Len(turns) : 1 <= j
    OBVIOUS
  <2> QED
    BY <2>1, <2>2 DEF WebInv, InTurn, NoLater, Requests
<1>12. \A c \in Clients : \A i \in 1 .. Len(lineOf'[c]) :
         \/ i \in 1 .. Len(lineOf[c]) /\ lineOf'[c][i] = lineOf[c][i]
         \/ c = conn /\ i = Len(lineOf[c]) + 1 /\ lineOf'[c][i] = Head(turns)
  <2> SUFFICES ASSUME NEW c \in Clients, NEW i \in 1 .. Len(lineOf'[c])
               PROVE  \/ i \in 1 .. Len(lineOf[c]) /\ lineOf'[c][i] = lineOf[c][i]
                      \/ c = conn /\ i = Len(lineOf[c]) + 1 /\ lineOf'[c][i] = Head(turns)
    OBVIOUS
  <2>1. CASE c = conn
    BY <1>6, <2>1
  <2>2. CASE c # conn
    BY <1>5, <2>2
  <2> QED
    BY <2>1, <2>2
<1>13. LinesInTurn'
  <2>1. \A c \in Clients : \A i \in 1 .. Len(lineOf'[c]) : NoLater(lineOf'[c][i])
    BY <1>11, <1>12 DEF WebInv, LinesInTurn
  <2>2. ASSUME NEW c \in Clients, NEW d \in Clients,
               NEW i \in 1 .. Len(lineOf'[c]), NEW j \in 1 .. Len(lineOf'[d]),
               c < d \/ (c = d /\ i <= j)
        PROVE  lineOf'[c][i] <= lineOf'[d][j]
    <3>1. CASE j \in 1 .. Len(lineOf[d]) /\ lineOf'[d][j] = lineOf[d][j]
      <4>1. ~(c = conn /\ i = Len(lineOf[c]) + 1)
        <5>1. CASE c = d
          <6> SUFFICES ASSUME c = conn, i = Len(lineOf[conn]) + 1 PROVE FALSE
            OBVIOUS
          <6>1. i <= j /\ j \in 1 .. Len(lineOf[conn])
            BY <2>2, <3>1, <5>1 DEF Clients
          <6> QED
            BY <1>6, <6>1
        <5>2. CASE c # d
          <6>1. c = conn => peer[d] = "new" /\ lineOf[d] = <<>>
            BY <1>1, <1>4, <2>2, <5>2 DEF WebInv, Connections
          <6> QED
            BY <3>1, <6>1
        <5> QED
          BY <5>1, <5>2
      <4>2. i \in 1 .. Len(lineOf[c]) /\ lineOf'[c][i] = lineOf[c][i]
        BY <1>12, <4>1
      <4> QED
        BY <2>2, <3>1, <4>2 DEF WebInv, LinesInTurn
    <3>2. CASE lineOf'[d][j] = Head(turns)
      BY <1>11, <2>1, <3>2
    <3> QED
      BY <1>12, <3>1, <3>2
  <2>3. \A c \in Clients : \A i \in 1 .. Len(lineOf'[c]) :
          lineOf'[c][i] <= made' /\ \A k \in 1 .. Len(turns') : lineOf'[c][i] <= turns'[k]
    BY <1>4, <2>1 DEF NoLater
  <2> QED
    BY <2>2, <2>3 DEF LinesInTurn, NoLater
<1>14. OriginInTurn'
  <2>1. /\ \A k \in 1 .. Len(origin) : NoLater(origin[k])
        /\ \A j, k \in 1 .. Len(origin) : j <= k => origin[j] <= origin[k]
        /\ \A k \in 1 .. Len(origin) : \A c \in Clients : \A i \in 1 .. Len(lineOf[c]) :
             client <= c /\ Past(c) < i => origin[k] <= lineOf[c][i]
    BY DEF WebInv, OriginInTurn
  <2>2. \A c \in Clients : Len(lineOf'[c]) - Len(inbox'[c]) = Past(c)
    <3> SUFFICES ASSUME NEW c \in Clients PROVE Len(lineOf'[c]) - Len(inbox'[c]) = Past(c)
      OBVIOUS
    <3>1. CASE c = conn
      <4>1. Len(lineOf'[conn]) - Len(inbox'[conn]) = Len(lineOf[conn]) - Len(inbox[conn])
        BY <1>6
      <4> QED
        BY <3>1, <4>1 DEF Past
    <3>2. CASE c # conn
      BY <1>5, <3>2 DEF Past
    <3> QED
      BY <3>1, <3>2
  <2>3. ASSUME NEW k \in 1 .. Len(origin), NEW c \in Clients, NEW i \in 1 .. Len(lineOf'[c]),
               client <= c, Len(lineOf'[c]) - Len(inbox'[c]) < i
        PROVE  origin[k] <= lineOf'[c][i]
    <3>1. Past(c) < i
      BY <2>2, <2>3
    <3> QED
      BY <1>11, <1>12, <2>1, <2>3, <3>1
  <2> QED
    BY <1>3, <1>4, <2>1, <2>3 DEF OriginInTurn, NoLater, Past
<1>15. OneLine'
  <2>1. inbox[conn] = <<>> => Len(inbox[conn]) = 0
    OBVIOUS
  <2>2. server \in {"hello", "recv"} => Len(inbox'[conn]) <= 1
    BY <1>1, <1>2, <1>6, <2>1 DEF Calm
  <2>3. /\ lineOf'[conn] # <<>>
        /\ lineOf'[conn][Len(lineOf'[conn])] = Head(turns)
    <3>1. Len(<<>>) = 0 /\ Len(lineOf'[conn]) # 0
      BY <1>6
    <3> QED
      BY <1>6, <3>1
  <2> QED
    BY <1>1, <1>2, <1>3, <1>4, <2>2, <2>3 DEF OneLine, Calm
<1>16. AnswersKnown'
  BY <1>3, <1>4 DEF WebInv, AnswersKnown, Among
<1> QED
  BY <1>7, <1>8, <1>9, <1>10, <1>13, <1>14, <1>15, <1>16 DEF WebInv

\* A connection is made: the next one, which the server has not seen.
LEMMA OpenConnectionStep == ASSUME WebInv, OpenConnection PROVE WebInv'
<1>1. PICK c \in Clients : Connect(c) /\ conn' = c
  BY DEF OpenConnection
<1>2. /\ turns # <<>> /\ step = "idle" /\ conn = 0 /\ step' = "greeting"
      /\ UNCHANGED <<made, turns, mailbox, lineOf, origin, answers>>
  BY DEF OpenConnection
<1>3. /\ peer[c] = "new" /\ peer' = [peer EXCEPT ![c] = "open"]
      /\ \A d \in Clients : d < c => peer[d] # "new"
      /\ UNCHANGED <<inbox, server, client, nextId, command, reply, applied>>
  BY <1>1 DEF Connect, loop, shared, acquirer
<1>4. peer'[c] = "open" /\ \A d \in Clients : d # c => peer'[d] = peer[d]
  BY <1>3, ServerTypes DEF WebInv
<1>5. [Next]_vars
  BY <1>1 DEF Next, Client
<1>6. Inv'
  BY <1>5, InvStep DEF WebInv
<1>7. c \in Nat \ {0} /\ c \in 0 .. MaxClients /\ \A d \in Clients : d \in Nat
  BY ControlAssumption DEF Clients
<1>8. WebTypes'
  BY <1>1, <1>2, <1>3, <1>7 DEF WebInv, WebTypes
<1>9. /\ client # 0 => client \in Clients /\ peer[client] # "new"
      /\ client \in Nat
      /\ \A a, b \in Clients : a < b /\ peer[a] = "new" => peer[b] = "new"
      /\ \A d \in Clients : Len(inbox[d]) <= Len(lineOf[d])
      /\ \A d \in Clients : peer[d] = "new" => lineOf[d] = <<>>
      /\ server \in {"hello", "recv", "wait", "erase", "reply"} => client # 0
  BY ServerTypes, ClientOf DEF WebInv, Connections
<1>10. client < c
  BY <1>1, <1>3, <1>7, <1>9
<1>11. Connections'
  <2>1. \A a, b \in Clients : a < b /\ peer'[a] = "new" => peer'[b] = "new"
    BY <1>3, <1>4, <1>9
  <2>2. \A d \in Clients : c < d => peer'[d] = "new"
    BY <1>1, <1>3, <1>4, <1>7, <1>9
  <2>3. \A d \in Clients : peer'[d] = "new" => lineOf[d] = <<>>
    BY <1>4, <1>9
  <2>4. client # 0 => peer'[client] # "new"
    BY <1>4, <1>9
  <2> QED
    BY <1>1, <1>2, <1>3, <1>4, <1>7, <1>9, <1>10, <2>1, <2>2, <2>3, <2>4 DEF Connections
<1>12. InTurn' /\ LinesInTurn' /\ OriginInTurn'
  BY <1>2, <1>3, TurnsMoveUp
<1>13. OneLine'
  <2>1. lineOf[c] = <<>>
    BY <1>1, <1>3, <1>9
  <2>2. mailbox = NoReply
    BY <1>2 DEF WebInv, OneLine
  <2>3. client # c
    BY <1>7, <1>9, <1>10
  <2> QED
    BY <1>1, <1>2, <1>3, <2>1, <2>2, <2>3 DEF OneLine
<1>14. AnswersKnown'
  BY <1>2, <1>3 DEF WebInv, AnswersKnown, Among
<1> QED
  BY <1>6, <1>8, <1>11, <1>12, <1>13, <1>14 DEF WebInv

\* The reply that has come is of the holder of the lock.
LEMMA ReadReplyStep == ASSUME WebInv, ReadReply PROVE WebInv'
<1>1. /\ step = "reading" /\ mailbox # NoReply /\ Answered(mailbox) /\ mailbox' = NoReply
      /\ UNCHANGED <<vars, made, conn, lineOf, origin>>
  BY DEF ReadReply
<1>2. UNCHANGED <<peer, inbox, server, client, nextId, command, reply, applied>>
  BY <1>1 DEF vars, connection, loop, shared, acquirer
<1>3. turns # <<>> /\ conn # 0 /\ mailbox \in Told
  BY <1>1 DEF WebInv, Connections, WebTypes
<1>4. /\ turns' = Tail(turns) /\ turns' \in Seq(Requests) /\ step' = "idle"
      /\ answers' \in [Requests -> Told]
      /\ answers'[Head(turns)] = mailbox
      /\ \A r \in Requests : r # Head(turns) => answers'[r] = answers[r]
  BY <1>1, <1>3, HolderTold
<1>5. Inv'
  BY <1>1, InvStep DEF WebInv
<1>6. NoReply \in Told
  BY DEF NoReply, NoCommand, Told
<1>7. WebTypes'
  BY <1>1, <1>2, <1>4, <1>6 DEF WebInv, WebTypes
<1>8. Connections'
  BY <1>1, <1>2, <1>4 DEF WebInv, Connections
<1>9. InTurn' /\ LinesInTurn' /\ OriginInTurn'
  BY <1>1, <1>2, <1>3, <1>4, TurnsMoveUp
<1>10. Calm /\ OfHolder(mailbox.id) /\ client = conn
  BY <1>1, <1>3 DEF WebInv, OneLine
<1>11. OneLine'
  BY <1>1, <1>2, <1>4, <1>10 DEF OneLine, Calm
<1>12. AnswersKnown'
  <2>1. mailbox.kind = "OK" => Among(mailbox.id, applied)
    BY DEF WebInv, AnswersKnown
  <2>2. ASSUME NEW r \in Requests, answers'[r].id # NoCommand
        PROVE  /\ answers'[r].id < nextId
               /\ origin[answers'[r].id] = r
               /\ answers'[r].kind = "OK" => Among(answers'[r].id, applied)
    <3>1. CASE r = Head(turns)
      BY <1>4, <1>10, <2>1, <2>2, <3>1 DEF OfHolder
    <3>2. CASE r # Head(turns)
      BY <1>4, <2>2, <3>2 DEF WebInv, AnswersKnown
    <3> QED
      BY <3>1, <3>2
  <2>3. NoReply.kind # "OK"
    BY DEF NoReply
  <2> QED
    BY <1>1, <1>2, <2>2, <2>3 DEF AnswersKnown, Among
<1> QED
  BY <1>5, <1>7, <1>8, <1>9, <1>11, <1>12 DEF WebInv

\* A request fails or is tried again: nobody is told of a command.
LEMMA FailedOrRetried ==
  ASSUME WebInv, turns # <<>>, FailsOrRetries \/ Answered(Failure)
  PROVE  /\ turns' = turns \/ turns' = Tail(turns)
         /\ turns' \in Seq(Requests)
         /\ step' = "idle"
         /\ answers' \in [Requests -> Told]
         /\ \A r \in Requests : answers'[r].id # NoCommand => answers'[r] = answers[r]
<1>1. CASE Answered(Failure)
  <2>1. Failure \in Told /\ Failure.id = NoCommand
    BY DEF Failure, NoReply, NoCommand, Told
  <2>2. /\ turns' = Tail(turns) /\ turns' \in Seq(Requests) /\ step' = "idle"
        /\ answers' \in [Requests -> Told]
        /\ answers'[Head(turns)] = Failure
        /\ \A r \in Requests : r # Head(turns) => answers'[r] = answers[r]
    BY <1>1, <2>1, HolderTold
  <2>3. \A r \in Requests : answers'[r].id # NoCommand => r # Head(turns)
    BY <2>1, <2>2
  <2> QED
    BY <2>2, <2>3
<1>2. CASE FailsOrRetries /\ ~Answered(Failure)
  <2>1. step' = "idle" /\ UNCHANGED <<turns, answers>>
    BY <1>2 DEF FailsOrRetries
  <2> QED
    BY <2>1 DEF WebInv, WebTypes
<1> QED
  BY <1>1, <1>2

\* A connection is given up, or none was made.
LEMMA GiveUpStep ==
  ASSUME WebInv, ConnectionLost \/ NoHello \/ Refused
  PROVE  WebInv'
<1>1. /\ turns # <<>>
      /\ FailsOrRetries \/ Answered(Failure)
      /\ UNCHANGED <<made, lineOf, origin>>
  BY DEF ConnectionLost, NoHello, Refused, WebInv, Connections
<1>2. /\ turns' = turns \/ turns' = Tail(turns)
      /\ turns' \in Seq(Requests)
      /\ step' = "idle"
      /\ answers' \in [Requests -> Told]
      /\ \A r \in Requests : answers'[r].id # NoCommand => answers'[r] = answers[r]
  BY <1>1, FailedOrRetried
<1>3. /\ UNCHANGED <<inbox, server, client, nextId, command, reply, applied>>
      /\ conn' = 0 /\ mailbox' = NoReply
      /\ [Next]_vars
      /\ \A c \in Clients : peer'[c] = "new" <=> peer[c] = "new"
  <2>1. CASE Refused
    <3>1. conn = 0 /\ step = "idle" /\ UNCHANGED <<vars, conn, mailbox>>
      BY <2>1 DEF Refused
    <3> QED
      BY <3>1 DEF vars, connection, loop, shared, acquirer, WebInv, OneLine
  <2>2. CASE ConnectionLost \/ NoHello
    <3>1. conn # 0 /\ Close
      BY <2>2 DEF ConnectionLost, NoHello, WebInv, Connections
    <3>2. conn \in Clients
      BY <3>1, ClientOf DEF WebInv, WebTypes
    <3>3. /\ CloseConnection(conn) /\ peer[conn] = "open"
          /\ peer' = [peer EXCEPT ![conn] = "closed"]
          /\ UNCHANGED <<inbox, server, client, nextId, command, reply, applied>>
          /\ conn' = 0 /\ mailbox' = NoReply
      BY <3>1 DEF Close, CloseConnection, loop, shared, acquirer
    <3>4. [Next]_vars
      BY <3>2, <3>3 DEF Next, Client
    <3>5. \A c \in Clients : peer'[c] = "new" <=> peer[c] = "new"
      BY <3>2, <3>3, ServerTypes DEF WebInv
    <3> QED
      BY <3>3, <3>4, <3>5
  <2> QED
    BY <2>1, <2>2
<1>4. Inv'
  BY <1>3, InvStep DEF WebInv
<1>5. NoReply \in Told /\ NoReply.kind # "OK" /\ 0 \in 0 .. MaxClients
  BY ControlAssumption DEF NoReply, NoCommand, Told
<1>6. WebTypes'
  BY <1>1, <1>2, <1>3, <1>5 DEF WebInv, WebTypes
<1>7. Connections'
  <2>1. client # 0 => client \in Clients
    BY ServerTypes, ClientOf DEF WebInv
  <2> QED
    BY <1>1, <1>2, <1>3, <2>1 DEF WebInv, Connections
<1>8. InTurn' /\ LinesInTurn' /\ OriginInTurn'
  <2>1. turns' = turns \/ (turns # <<>> /\ turns' = Tail(turns))
    BY <1>1, <1>2
  <2>2. UNCHANGED <<made, lineOf, origin, inbox, client>>
    BY <1>1, <1>3
  <2> QED
    BY <2>1, <2>2, TurnsMoveUp
<1>9. OneLine'
  BY <1>2, <1>3 DEF OneLine
<1>10. AnswersKnown'
  <2>1. \A r \in Requests : answers'[r].id # NoCommand =>
          /\ answers'[r].id < nextId
          /\ origin[answers'[r].id] = r
          /\ answers'[r].kind = "OK" => Among(answers'[r].id, applied)
    BY <1>2 DEF WebInv, AnswersKnown
  <2> QED
    BY <1>1, <1>3, <1>5, <2>1 DEF AnswersKnown, Among
<1> QED
  BY <1>4, <1>6, <1>7, <1>8, <1>9, <1>10 DEF WebInv

\* Every step of the gateway itself preserves the invariant.
LEMMA RequestStep == ASSUME WebInv, Request PROVE WebInv'
  BY MakeRequestStep, WriteLineStep, OpenConnectionStep, ReadReplyStep, GiveUpStep DEF Request

\* Whatever the server does, it leaves the gateway's requests alone.
LEMMA ServerKeeps ==
  ASSUME WebInv, ServerStep
  PROVE  /\ Inv' /\ InTurn' /\ LinesInTurn'
         /\ \A i : Among(i, applied) => Among(i, applied')
<1>1. UNCHANGED <<made, turns, lineOf>> /\ [Next]_vars
  BY ServerCases
<1>2. Inv'
  BY <1>1, InvStep DEF WebInv
<1>3. InTurn' /\ LinesInTurn'
  BY <1>1 DEF WebInv, InTurn, LinesInTurn, NoLater
<1>4. \A i : Among(i, applied) => Among(i, applied')
  BY <1>1, AppliedStays DEF WebInv, Inv
<1> QED
  BY <1>2, <1>3, <1>4

\* What was read was read before, too, if less is left.
LEMMA FewerLeft ==
  ASSUME NEW n \in Nat, NEW a \in Nat, NEW b \in Nat, NEW i \in Nat, b <= a, n - b < i
  PROVE  n - a < i
  OBVIOUS

\* A step of the server that reads no SET keeps the requests of the commands.
LEMMA OriginKept ==
  ASSUME WebInv, ServerStep, UNCHANGED <<origin, nextId>>,
         client' \in Nat, client <= client',
         \A c \in Clients : Len(inbox'[c]) <= Len(inbox[c]) /\ Len(inbox'[c]) \in Nat,
         mailbox' \in Told,
         mailbox'.kind = "OK" => Among(mailbox'.id, applied)
  PROVE  /\ WebTypes' /\ OriginInTurn' /\ AnswersKnown'
         /\ \A c \in Clients : Len(inbox'[c]) <= Len(lineOf'[c])
<1>1. UNCHANGED <<made, turns, step, attempt, conn, lineOf, answers, peer>>
  BY ServerCases
<1>2. WebTypes'
  BY <1>1 DEF WebInv, WebTypes
<1>3. AnswersKnown'
  BY <1>1, ServerKeeps DEF WebInv, AnswersKnown
<1>4. client \in Nat /\ \A c \in Clients : c \in Nat
  BY ServerTypes DEF WebInv, Clients
<1>5. \A c \in Clients : /\ Len(lineOf[c]) \in Nat /\ Len(inbox[c]) \in Nat
                         /\ Len(inbox[c]) <= Len(lineOf[c])
  BY ServerTypes DEF WebInv, WebTypes, Connections
<1>6. OriginInTurn'
  <2>1. /\ \A k \in 1 .. Len(origin) : NoLater(origin[k])
        /\ \A j, k \in 1 .. Len(origin) : j <= k => origin[j] <= origin[k]
        /\ \A k \in 1 .. Len(origin) : \A c \in Clients : \A i \in 1 .. Len(lineOf[c]) :
             client <= c /\ Past(c) < i => origin[k] <= lineOf[c][i]
    BY DEF WebInv, OriginInTurn
  <2>2. ASSUME NEW k \in 1 .. Len(origin), NEW c \in Clients, NEW i \in 1 .. Len(lineOf[c]),
               client' <= c, Len(lineOf[c]) - Len(inbox'[c]) < i
        PROVE  origin[k] <= lineOf[c][i]
    <3>1. client <= c
      BY <1>4, <2>2
    <3>2. /\ Len(inbox'[c]) <= Len(inbox[c]) /\ Len(inbox'[c]) \in Nat
          /\ Len(inbox[c]) \in Nat /\ Len(lineOf[c]) \in Nat /\ i \in Nat
      BY <1>5
    <3>3. Len(lineOf[c]) - Len(inbox[c]) < i
      BY <2>2, <3>2, FewerLeft
    <3>4. Past(c) < i
      BY <3>3 DEF Past
    <3> QED
      BY <2>1, <3>1, <3>4
  <2> QED
    BY <1>1, <2>1, <2>2 DEF OriginInTurn, NoLater, Past
<1> QED
  BY <1>1, <1>2, <1>3, <1>5, <1>6

\* The server makes progress that the gateway does not see.
LEMMA ProgressStep ==
  ASSUME WebInv, ServerStep, Progress,
         UNCHANGED <<inbox, client, nextId, command, replies, origin, mailbox>>
  PROVE  WebInv'
<1>1. UNCHANGED <<made, turns, step, attempt, conn, lineOf, answers, peer>>
  BY ServerCases
<1>2. WebTypes' /\ OriginInTurn' /\ AnswersKnown'
  <2>1. client' \in Nat /\ client <= client'
    BY ServerTypes DEF WebInv
  <2>2. \A c \in Clients : Len(inbox'[c]) <= Len(inbox[c]) /\ Len(inbox'[c]) \in Nat
    BY ServerTypes DEF WebInv
  <2>3. mailbox' \in Told /\ (mailbox'.kind = "OK" => Among(mailbox'.id, applied))
    BY DEF WebInv, WebTypes, AnswersKnown
  <2> QED
    BY <2>1, <2>2, <2>3, OriginKept
<1>3. Connections'
  <2>1. server' \in {"hello", "recv", "wait", "erase", "reply"} =>
          server \in {"hello", "recv", "wait", "erase", "reply"}
    BY DEF Progress
  <2> QED
    BY <1>1, <2>1 DEF WebInv, Connections
<1>4. OneLine'
  <2>1. Calm => Calm'
    BY <1>1 DEF Calm, Progress
  <2>2. \A i : OfHolder(i) => OfHolder(i)'
    BY <1>1 DEF OfHolder
  <2>3. step = "reading" =>
          /\ server' \in {"hello", "recv"} => Len(inbox[conn]) <= 1
          /\ server' \in {"wait", "erase", "reply"} => inbox[conn] = <<>>
          /\ server' = "wait" => OfHolder(command)
          /\ server' \in {"erase", "reply"} => OfHolder(reply'.id)
    BY DEF WebInv, OneLine, Progress
  <2> QED
    BY <1>1, <2>1, <2>3 DEF WebInv, OneLine, OfHolder
<1> QED
  BY <1>2, <1>3, <1>4, ServerKeeps DEF WebInv

\* The server takes the next connection.
LEMMA AcceptStep == ASSUME WebInv, ServerStep, Accept PROVE WebInv'
<1>1. UNCHANGED <<made, turns, step, attempt, conn, lineOf, answers, peer>>
  BY ServerCases
<1>2. /\ server = "accept" /\ client < MaxClients /\ peer[client + 1] # "new"
      /\ client' = client + 1 /\ server' = "hello"
      /\ UNCHANGED <<inbox, nextId, command, reply, applied, replies>>
  BY DEF Accept, connection, shared, acquirer
<1>3. UNCHANGED <<origin, mailbox>>
  BY <1>2 DEF ServerStep
<1>4. client \in Nat /\ client + 1 \in Clients /\ MaxClients \in Nat
  BY <1>2, ServerTypes DEF WebInv, Clients
<1>5. WebTypes' /\ OriginInTurn' /\ AnswersKnown'
  <2>1. client' \in Nat /\ client <= client'
    BY <1>2, <1>4
  <2>2. \A c \in Clients : Len(inbox'[c]) <= Len(inbox[c]) /\ Len(inbox'[c]) \in Nat
    BY <1>2, ServerTypes DEF WebInv
  <2>3. mailbox' \in Told /\ (mailbox'.kind = "OK" => Among(mailbox'.id, applied))
    BY <1>3 DEF WebInv, WebTypes, AnswersKnown
  <2> QED
    BY <1>2, <1>3, <2>1, <2>2, <2>3, OriginKept
<1>6. conn \in 0 .. MaxClients
  BY DEF WebInv, WebTypes
<1>7. conn # 0 => client + 1 <= conn
  BY <1>2, <1>4, <1>6 DEF WebInv, Connections
<1>8. Connections'
  BY <1>1, <1>2, <1>4, <1>7 DEF WebInv, Connections
<1>9. conn # 0 => step = "greeting" /\ inbox[conn] = <<>>
  <2> SUFFICES ASSUME conn # 0 PROVE step = "greeting" /\ inbox[conn] = <<>>
    OBVIOUS
  <2>1. client # conn /\ conn \in Clients
    BY <1>4, <1>6, <1>7, ClientOf
  <2>2. step = "greeting" /\ lineOf[conn] = <<>>
    BY <2>1 DEF WebInv, OneLine
  <2>3. inbox[conn] \in Seq({"set", "status"}) /\ Len(inbox[conn]) <= Len(lineOf[conn])
    BY <2>1, ServerTypes DEF WebInv, Connections
  <2> QED
    BY <2>2, <2>3
<1>10. OneLine'
  <2>1. step # "reading" /\ mailbox = NoReply
    BY <1>9 DEF WebInv, OneLine, Connections
  <2>2. step = "greeting" => lineOf[conn] = <<>>
    BY DEF WebInv, OneLine
  <2> QED
    BY <1>1, <1>2, <1>3, <1>9, <2>1, <2>2 DEF OneLine, Calm
<1> QED
  BY <1>5, <1>8, <1>10, ServerKeeps DEF WebInv

\* The place of the next line, of n that are left of m.
LEMMA NextPlace ==
  ASSUME NEW n \in Nat \ {0}, NEW m \in Nat, n <= m
  PROVE  /\ m - n \in Nat /\ (m - n) + 1 \in 1 .. m
         /\ n <= 1 => n = 1 /\ (m - n) + 1 = m
  OBVIOUS

\* What is still to be read after the next line.
LEMMA AfterNext ==
  ASSUME NEW n \in Nat, NEW m \in Nat, NEW i \in Nat, m - (n - 1) < i
  PROVE  (m - n) + 1 <= i /\ m - n < i
  OBVIOUS

\* Nothing follows the only line.
LEMMA OnlyLine ==
  ASSUME NEW S, NEW q \in Seq(S), Len(q) = 1
  PROVE  Tail(q) = <<>>
<1>1. q # <<>>
  OBVIOUS
<1>2. Tail(q) \in Seq(S) /\ Len(Tail(q)) = 0
  BY <1>1, Beheaded
<1>3. ASSUME NEW s \in Seq(S), s # <<>> PROVE Len(s) # 0
  BY <1>3, Beheaded
<1> QED
  BY <1>2, <1>3

\* A line is read: the one line that is on its way, if it is on the connection
\* that the gateway has.
LEMMA LineRead ==
  ASSUME WebInv, HasLine, inbox' = [inbox EXCEPT ![client] = Tail(@)]
  PROVE  /\ client \in Clients /\ server = "recv"
         /\ \A c \in Clients : c # client => inbox'[c] = inbox[c]
         /\ Len(inbox'[client]) = Len(inbox[client]) - 1
         /\ Len(inbox[client]) \in Nat \ {0}
         /\ Len(lineOf[client]) \in Nat /\ Past(client) \in Nat
         /\ Past(client) + 1 \in 1 .. Len(lineOf[client])
         /\ conn # 0 /\ client = conn =>
              /\ step = "reading" /\ mailbox = NoReply /\ inbox'[conn] = <<>>
              /\ Past(client) + 1 = Len(lineOf[client])
         /\ step = "reading" => conn # 0 /\ client = conn
<1>1. server = "recv" /\ inbox[client] # <<>>
  BY DEF HasLine
<1>2. client \in Clients
  BY <1>1, ServerTypes, ClientOf DEF WebInv, Connections
<1>3. inbox[client] \in Seq({"set", "status"}) /\ lineOf[client] \in Seq(Requests)
  BY <1>2, ServerTypes DEF WebInv, WebTypes
<1>4. inbox'[client] = Tail(inbox[client]) /\ \A c \in Clients : c # client => inbox'[c] = inbox[c]
  BY <1>2, ServerTypes DEF WebInv
<1>5. Len(inbox'[client]) = Len(inbox[client]) - 1 /\ Len(inbox[client]) \in Nat \ {0}
  BY <1>1, <1>3, <1>4, Beheaded
<1>6. Len(inbox[client]) <= Len(lineOf[client]) /\ Len(lineOf[client]) \in Nat
  BY <1>2, <1>3 DEF WebInv, Connections
<1>7. Past(client) \in Nat /\ Past(client) + 1 \in 1 .. Len(lineOf[client])
  <2>1. Len(inbox[client]) \in Nat \ {0} /\ Len(lineOf[client]) \in Nat
    BY <1>5, <1>6
  <2> QED
    BY <1>6, <2>1, NextPlace DEF Past
<1>8. ASSUME conn # 0, client = conn
      PROVE  /\ step = "reading" /\ mailbox = NoReply /\ inbox'[conn] = <<>>
             /\ Past(client) + 1 = Len(lineOf[client])
  <2>1. ~Calm
    BY <1>1, <1>8 DEF Calm
  <2>2. step = "reading" /\ mailbox = NoReply
    BY <1>8, <2>1 DEF WebInv, OneLine
  <2>3. Len(inbox[client]) <= 1
    BY <1>1, <1>8, <2>2 DEF WebInv, OneLine
  <2>4. Len(inbox[client]) \in Nat \ {0} /\ Len(lineOf[client]) \in Nat
    BY <1>5, <1>6
  <2>5. Len(inbox[client]) = 1 /\ Past(client) + 1 = Len(lineOf[client])
    BY <1>6, <2>3, <2>4, NextPlace DEF Past
  <2>6. Tail(inbox[client]) = <<>>
    BY <1>3, <2>5, OnlyLine
  <2>7. inbox'[conn] = <<>>
    BY <1>4, <1>8, <2>6
  <2> QED
    BY <2>2, <2>5, <2>7
<1>9. step = "reading" => conn # 0 /\ client = conn
  BY DEF WebInv, OneLine, Connections
<1> QED
  BY <1>1, <1>2, <1>4, <1>5, <1>6, <1>7, <1>8, <1>9

\* A line that the gateway does not write, and that would change nothing for it.
LEMMA ReadStatusStep == ASSUME WebInv, ServerStep, ReadStatus PROVE WebInv'
<1>1. UNCHANGED <<made, turns, step, attempt, conn, lineOf, answers, peer>>
  BY ServerCases
<1>2. /\ HasLine /\ inbox' = [inbox EXCEPT ![client] = Tail(@)]
      /\ reply'.id = NoCommand /\ server' = "reply"
      /\ UNCHANGED <<client, command, nextId, applied, replies>>
  BY DEF ReadStatus, shared, acquirer
<1>3. UNCHANGED <<origin, mailbox>>
  BY <1>2 DEF ServerStep
<1>4. /\ client \in Clients
      /\ \A c \in Clients : c # client => inbox'[c] = inbox[c]
      /\ Len(inbox'[client]) = Len(inbox[client]) - 1 /\ Len(inbox[client]) \in Nat \ {0}
  BY <1>2, LineRead
<1>5. \A c \in Clients : Len(inbox'[c]) <= Len(inbox[c]) /\ Len(inbox'[c]) \in Nat
  <2> SUFFICES ASSUME NEW c \in Clients PROVE Len(inbox'[c]) <= Len(inbox[c]) /\ Len(inbox'[c]) \in Nat
    OBVIOUS
  <2>1. CASE c = client
    BY <1>4, <2>1
  <2>2. CASE c # client
    BY <1>4, <2>2, ServerTypes DEF WebInv
  <2> QED
    BY <2>1, <2>2
<1>6. /\ WebTypes' /\ OriginInTurn' /\ AnswersKnown'
      /\ \A c \in Clients : Len(inbox'[c]) <= Len(lineOf'[c])
  <2>1. client' \in Nat /\ client <= client'
    BY <1>2, <1>4 DEF Clients
  <2>2. mailbox' \in Told /\ (mailbox'.kind = "OK" => Among(mailbox'.id, applied))
    BY <1>3 DEF WebInv, WebTypes, AnswersKnown
  <2> QED
    BY <1>2, <1>3, <1>5, <2>1, <2>2, OriginKept
<1>7. Connections'
  <2>1. client # 0
    BY <1>4 DEF Clients
  <2> QED
    BY <1>1, <1>2, <1>6, <2>1 DEF WebInv, Connections
<1>8. OneLine'
  <2>1. conn # 0 /\ client = conn => step = "reading" /\ mailbox = NoReply /\ inbox'[conn] = <<>>
    BY <1>2, LineRead
  <2>2. step = "reading" => conn # 0 /\ client = conn
    BY <1>2, LineRead
  <2> QED
    BY <1>1, <1>2, <1>3, <2>1, <2>2 DEF WebInv, OneLine, OfHolder
<1> QED
  BY <1>6, <1>7, <1>8, ServerKeeps DEF WebInv

\* A connection is closed at the server's end; what was sent on it is lost.
LEMMA DisconnectStep == ASSUME WebInv, ServerStep, Disconnect PROVE WebInv'
<1>1. UNCHANGED <<made, turns, step, attempt, conn, lineOf, answers, peer>>
  BY ServerCases
<1>2. /\ server \in {"hello", "recv", "reply"} /\ inbox' = [inbox EXCEPT ![client] = <<>>]
      /\ server' = "accept"
      /\ UNCHANGED <<client, nextId, applied, replies>>
  BY DEF Disconnect, shared, acquirer
<1>3. UNCHANGED <<origin, mailbox>>
  BY <1>2 DEF ServerStep
<1>4. client \in Clients
  BY <1>2, ServerTypes, ClientOf DEF WebInv, Connections
<1>5. \A c \in Clients : Len(inbox'[c]) <= Len(inbox[c]) /\ Len(inbox'[c]) \in Nat
  <2> SUFFICES ASSUME NEW c \in Clients PROVE Len(inbox'[c]) <= Len(inbox[c]) /\ Len(inbox'[c]) \in Nat
    OBVIOUS
  <2>1. inbox[c] \in Seq({"set", "status"}) /\ Len(inbox[c]) \in Nat
    BY ServerTypes DEF WebInv
  <2>2. inbox'[c] = <<>> \/ inbox'[c] = inbox[c]
    BY <1>2, <1>4, ServerTypes DEF WebInv
  <2> QED
    BY <2>1, <2>2
<1>6. /\ WebTypes' /\ OriginInTurn' /\ AnswersKnown'
      /\ \A c \in Clients : Len(inbox'[c]) <= Len(lineOf'[c])
  <2>1. client' \in Nat /\ client <= client'
    BY <1>2, <1>4 DEF Clients
  <2>2. mailbox' \in Told /\ (mailbox'.kind = "OK" => Among(mailbox'.id, applied))
    BY <1>3 DEF WebInv, WebTypes, AnswersKnown
  <2> QED
    BY <1>2, <1>3, <1>5, <2>1, <2>2, OriginKept
<1>7. Connections'
  BY <1>1, <1>2, <1>6 DEF WebInv, Connections
<1>8. OneLine'
  BY <1>1, <1>2, <1>3 DEF WebInv, OneLine, Calm, OfHolder
<1> QED
  BY <1>6, <1>7, <1>8, ServerKeeps DEF WebInv

\* A reply comes in, on the connection on which its line was sent.
LEMMA ReplyStep == ASSUME WebInv, ServerStep, Reply PROVE WebInv'
<1>1. UNCHANGED <<made, turns, step, attempt, conn, lineOf, answers, peer>>
  BY ServerCases
<1>2. /\ server = "reply" /\ server' = "recv" /\ replies' = Append(replies, reply)
      /\ UNCHANGED <<inbox, client, nextId, applied>>
  BY DEF Reply, connection, shared, acquirer
<1>3. origin' = origin /\ mailbox' = IF client = conn THEN reply ELSE mailbox
  <2>1. /\ Len(replies') = Len(replies) + 1 /\ Len(replies) \in Nat
        /\ replies'[Len(replies) + 1] = reply
    BY RepliesGrow DEF WebInv, Inv
  <2>2. replies' # replies
    BY <2>1
  <2> QED
    BY <1>2, <2>1, <2>2 DEF ServerStep
<1>4. client # 0
  BY <1>2 DEF WebInv, Connections
<1>5. WebTypes' /\ OriginInTurn' /\ AnswersKnown'
  <2>1. client' \in Nat /\ client <= client'
    BY <1>2, ServerTypes DEF WebInv
  <2>2. \A c \in Clients : Len(inbox'[c]) <= Len(inbox[c]) /\ Len(inbox'[c]) \in Nat
    BY <1>2, ServerTypes DEF WebInv
  <2>3. mailbox' \in Told
    <3>1. reply \in Told /\ mailbox \in Told
      BY ServerTypes DEF Told, WebInv, WebTypes
    <3> QED
      BY <1>3, <3>1
  <2>4. mailbox'.kind = "OK" => Among(mailbox'.id, applied)
    BY <1>3 DEF WebInv, AnswersKnown, Inv, AnswersOwn
  <2> QED
    BY <1>2, <1>3, <2>1, <2>2, <2>3, <2>4, OriginKept
<1>6. Connections'
  BY <1>1, <1>2, <1>4 DEF WebInv, Connections
<1>7. OneLine'
  <2>1. ~Calm
    BY <1>2 DEF Calm
  <2>2. CASE client = conn
    <3>1. step = "reading" /\ inbox[conn] = <<>> /\ OfHolder(reply.id) /\ mailbox' = reply
      BY <1>2, <1>3, <1>4, <2>1, <2>2 DEF WebInv, OneLine
    <3>2. /\ conn # 0 /\ client' = conn
          /\ lineOf[conn] # <<>> /\ lineOf[conn][Len(lineOf[conn])] = Head(turns)
      BY <1>2, <1>4, <2>2, <3>1 DEF WebInv, OneLine
    <3>3. Len(<<>>) <= 1
      OBVIOUS
    <3> QED
      BY <1>1, <1>2, <1>3, <3>1, <3>2, <3>3 DEF OneLine, Calm, OfHolder
  <2>3. CASE client # conn
    <3>1. step # "reading" /\ mailbox' = NoReply
      BY <1>3, <2>3 DEF WebInv, OneLine, Connections
    <3> QED
      BY <1>1, <1>2, <2>3, <3>1 DEF WebInv, OneLine
  <2> QED
    BY <2>2, <2>3
<1> QED
  BY <1>5, <1>6, <1>7, ServerKeeps DEF WebInv

\* A SET is read: its command is of the line's request, and the next in turn.
LEMMA ReadSetStep == ASSUME WebInv, ServerStep, ReadSet PROVE WebInv'
<1>1. UNCHANGED <<made, turns, step, attempt, conn, lineOf, answers, peer>>
  BY ServerCases
<1>2. /\ HasLine /\ inbox' = [inbox EXCEPT ![client] = Tail(@)]
      /\ nextId' = nextId + 1 /\ command' = nextId /\ server' = "wait"
      /\ UNCHANGED <<client, reply, applied, replies>>
  BY DEF ReadSet, acquirer
<1>3. nextId \in Nat \ {0} /\ Len(origin) = nextId - 1 /\ origin \in Seq(Requests)
  BY ServerTypes DEF WebInv, WebTypes
<1>4. mailbox' = mailbox /\ origin' = Append(origin, RequestRead)
  BY <1>2, <1>3 DEF ServerStep
<1>5. /\ client \in Clients
      /\ \A c \in Clients : c # client => inbox'[c] = inbox[c]
      /\ Len(inbox'[client]) = Len(inbox[client]) - 1 /\ Len(inbox[client]) \in Nat \ {0}
      /\ Len(lineOf[client]) \in Nat /\ Past(client) \in Nat
      /\ Past(client) + 1 \in 1 .. Len(lineOf[client])
  BY <1>2, LineRead
<1>6. RequestRead = lineOf[client][Past(client) + 1]
  BY DEF RequestRead, Past
<1>7. RequestRead \in Requests /\ RequestRead \in Nat /\ NoLater(RequestRead)
  <2>1. lineOf[client] \in Seq(Requests)
    BY <1>5 DEF WebInv, WebTypes
  <2> QED
    BY <1>5, <1>6, <2>1, Numbered DEF WebInv, LinesInTurn
<1>8. /\ origin' \in Seq(Requests)
      /\ Len(origin') = Len(origin) + 1 /\ Len(origin) \in Nat
      /\ \A i \in 1 .. Len(origin) : origin'[i] = origin[i]
      /\ origin'[Len(origin) + 1] = RequestRead
  BY <1>3, <1>4, <1>7, Appended
<1>9. Len(origin) + 1 = nextId
  BY <1>3
<1>10. \A i \in Nat : i # NoCommand /\ i < nextId => origin'[i] = origin[i]
  BY <1>3, <1>8 DEF NoCommand
<1>11. WebTypes'
  BY <1>1, <1>2, <1>3, <1>4, <1>8 DEF WebInv, WebTypes
<1>12. \A c \in Clients : Len(inbox'[c]) <= Len(lineOf[c]) /\ Len(inbox[c]) \in Nat
  <2> SUFFICES ASSUME NEW c \in Clients
               PROVE  Len(inbox'[c]) <= Len(lineOf[c]) /\ Len(inbox[c]) \in Nat
    OBVIOUS
  <2>1. Len(inbox[c]) <= Len(lineOf[c]) /\ Len(inbox[c]) \in Nat /\ Len(lineOf[c]) \in Nat
    BY ServerTypes DEF WebInv, WebTypes, Connections
  <2>2. CASE c = client
    BY <1>5, <2>1, <2>2
  <2>3. CASE c # client
    BY <1>5, <2>1, <2>3
  <2> QED
    BY <2>2, <2>3
<1>13. Connections'
  <2>1. client # 0
    BY <1>5 DEF Clients
  <2> QED
    BY <1>1, <1>2, <1>12, <2>1 DEF WebInv, Connections
<1>14. OriginInTurn'
  <2>1. /\ \A k \in 1 .. Len(origin) : NoLater(origin[k])
        /\ \A j, k \in 1 .. Len(origin) : j <= k => origin[j] <= origin[k]
        /\ \A k \in 1 .. Len(origin) : \A c \in Clients : \A i \in 1 .. Len(lineOf[c]) :
             client <= c /\ Past(c) < i => origin[k] <= lineOf[c][i]
    BY DEF WebInv, OriginInTurn
  <2>2. \A k \in 1 .. Len(origin') : \/ k \in 1 .. Len(origin) /\ origin'[k] = origin[k]
                                     \/ k = Len(origin) + 1 /\ origin'[k] = RequestRead
    BY <1>8
  <2>3. \A k \in 1 .. Len(origin) : origin[k] <= RequestRead
    <3>1. client <= client /\ Past(client) < Past(client) + 1
      BY <1>5 DEF Clients
    <3> QED
      BY <1>5, <1>6, <2>1, <3>1
  <2>4. \A k \in 1 .. Len(origin') : NoLater(origin'[k])
    BY <1>7, <2>1, <2>2
  <2>5. ASSUME NEW j \in 1 .. Len(origin'), NEW k \in 1 .. Len(origin'), j <= k
        PROVE  origin'[j] <= origin'[k]
    <3>1. CASE k \in 1 .. Len(origin) /\ origin'[k] = origin[k]
      <4>1. j \in 1 .. Len(origin) /\ origin'[j] = origin[j]
        BY <1>8, <2>2, <2>5, <3>1
      <4> QED
        BY <2>1, <2>5, <3>1, <4>1
    <3>2. CASE origin'[k] = RequestRead
      BY <1>7, <2>2, <2>3, <3>2
    <3> QED
      BY <2>2, <3>1, <3>2
  <2>6. ASSUME NEW c \in Clients, NEW i \in 1 .. Len(lineOf[c]),
               client <= c, Len(lineOf[c]) - Len(inbox'[c]) < i
        PROVE  RequestRead <= lineOf[c][i] /\ Past(c) < i
    <3>1. CASE c = client
      <4>1. Len(lineOf[client]) - (Len(inbox[client]) - 1) < i
        BY <1>5, <2>6, <3>1
      <4>2. Len(inbox[client]) \in Nat \ {0} /\ Len(lineOf[client]) \in Nat /\ i \in Nat
        BY <1>5
      <4>3. Past(client) + 1 <= i /\ Past(client) < i
        BY <4>1, <4>2, AfterNext DEF Past
      <4>4. i \in 1 .. Len(lineOf[client])
        BY <3>1
      <4>5. RequestRead <= lineOf[client][i]
        BY <1>5, <1>6, <4>3, <4>4 DEF WebInv, LinesInTurn
      <4> QED
        BY <3>1, <4>3, <4>5
    <3>2. CASE c # client
      <4>1. client < c
        BY <1>5, <2>6, <3>2 DEF Clients
      <4>2. Past(c) < i
        BY <1>5, <2>6, <3>2 DEF Past
      <4> QED
        BY <1>5, <1>6, <4>1, <4>2 DEF WebInv, LinesInTurn
    <3> QED
      BY <3>1, <3>2
  <2>7. ASSUME NEW k \in 1 .. Len(origin'), NEW c \in Clients, NEW i \in 1 .. Len(lineOf[c]),
               client <= c, Len(lineOf[c]) - Len(inbox'[c]) < i
        PROVE  origin'[k] <= lineOf[c][i]
    BY <2>1, <2>2, <2>6, <2>7
  <2> QED
    BY <1>1, <1>2, <2>4, <2>5, <2>7 DEF OriginInTurn, NoLater, Past
<1>15. OneLine'
  <2>1. step = "reading" => conn # 0 /\ client = conn
    BY <1>2, LineRead
  <2>2. ASSUME conn # 0, client = conn
        PROVE  /\ step = "reading" /\ mailbox = NoReply /\ inbox'[conn] = <<>>
               /\ lineOf[conn] # <<>> /\ lineOf[conn][Len(lineOf[conn])] = Head(turns)
               /\ command' < nextId' /\ origin'[command'] = Head(turns)
    <3>1. /\ step = "reading" /\ mailbox = NoReply /\ inbox'[conn] = <<>>
          /\ Past(client) + 1 = Len(lineOf[client])
      BY <1>2, <2>2, LineRead
    <3>2. lineOf[conn] # <<>> /\ lineOf[conn][Len(lineOf[conn])] = Head(turns)
      BY <3>1 DEF WebInv, OneLine
    <3>3. RequestRead = Head(turns)
      BY <1>6, <2>2, <3>1, <3>2
    <3>4. command' < nextId'
      BY <1>2, <1>3
    <3>5. origin'[command'] = Head(turns)
      BY <1>2, <1>8, <1>9, <3>3
    <3> QED
      BY <3>1, <3>2, <3>4, <3>5
  <2>3. CASE conn # 0 /\ client = conn
    BY <1>1, <1>2, <1>4, <2>2, <2>3 DEF OneLine, OfHolder
  <2>4. CASE ~(conn # 0 /\ client = conn)
    BY <1>1, <1>2, <1>4, <2>1, <2>4 DEF WebInv, OneLine
  <2> QED
    BY <2>3, <2>4
<1>16. AnswersKnown'
  <2>1. ASSUME NEW r \in Requests, answers[r].id # NoCommand
        PROVE  /\ answers[r].id < nextId'
               /\ origin'[answers[r].id] = r
               /\ answers[r].kind = "OK" => Among(answers[r].id, applied)
    <3>1. answers[r].id \in Nat
      BY DEF WebInv, WebTypes, Told
    <3>2. /\ answers[r].id < nextId /\ origin[answers[r].id] = r
          /\ answers[r].kind = "OK" => Among(answers[r].id, applied)
      BY <2>1 DEF WebInv, AnswersKnown
    <3>3. answers[r].id < nextId'
      BY <1>2, <1>3, <3>1, <3>2
    <3>4. origin'[answers[r].id] = r
      BY <1>10, <2>1, <3>1, <3>2
    <3> QED
      BY <3>2, <3>3, <3>4
  <2> QED
    BY <1>1, <1>4, <2>1, ServerKeeps DEF WebInv, AnswersKnown
<1> QED
  BY <1>11, <1>13, <1>14, <1>15, <1>16, ServerKeeps DEF WebInv

\* Every step of the DSP process preserves the invariant.
LEMMA ServerStepKeeps == ASSUME WebInv, ServerStep PROVE WebInv'
  BY ServerCases, ReadSetStep, ReadStatusStep, ReplyStep, DisconnectStep, AcceptStep, ProgressStep

\* The invariant holds at the start.
LEMMA WebInvInit == WebInit => WebInv
<1> SUFFICES ASSUME WebInit PROVE WebInv
  OBVIOUS
<1>1. Init /\ Inv
  BY InvInit DEF WebInit
<1>2. /\ made = 0 /\ turns = <<>> /\ step = "idle" /\ conn = 0 /\ mailbox = NoReply
      /\ lineOf = [c \in Clients |-> <<>>] /\ origin = <<>>
      /\ answers = [r \in Requests |-> NoReply]
  BY DEF WebInit
<1>3. /\ peer = [c \in Clients |-> "new"] /\ inbox = [c \in Clients |-> <<>>]
      /\ client = 0 /\ server = "listen" /\ nextId = 1
  BY <1>1 DEF Init
<1>4. NoReply \in Told /\ NoReply.id = NoCommand /\ NoReply.kind # "OK"
  BY DEF NoReply, NoCommand, Told
<1>5. Len(<<>>) = 0 /\ \A S : <<>> \in Seq(S)
  OBVIOUS
<1>6. WebTypes
  <2>1. /\ made \in 0 .. MaxRequests /\ conn \in 0 .. MaxClients
        /\ Len(origin) = nextId - 1
    BY <1>2, <1>3, <1>5, ControlAssumption, WebAssumption
  <2>2. turns \in Seq(Requests) /\ origin \in Seq(Requests) /\ mailbox \in Told
    BY <1>2, <1>4, <1>5
  <2>3. lineOf \in [Clients -> Seq(Requests)] /\ answers \in [Requests -> Told]
    BY <1>2, <1>4, <1>5
  <2> QED
    BY <1>2, <2>1, <2>2, <2>3 DEF WebTypes
<1>7. Connections
  BY <1>2, <1>3, <1>5 DEF Connections
<1>8. \A c \in Clients : Len(lineOf[c]) = 0
  BY <1>2, <1>5
<1>9. InTurn /\ LinesInTurn /\ OriginInTurn
  BY <1>2, <1>5, <1>8 DEF InTurn, LinesInTurn, OriginInTurn
<1>10. OneLine
  BY <1>2 DEF OneLine
<1>11. AnswersKnown
  BY <1>2, <1>4 DEF AnswersKnown
<1> QED
  BY <1>1, <1>6, <1>7, <1>9, <1>10, <1>11 DEF WebInv

\* Every step preserves the invariant.
LEMMA WebInvStep == WebInv /\ [WebNext]_control => WebInv'
<1> SUFFICES ASSUME WebInv, [WebNext]_control PROVE WebInv'
  OBVIOUS
<1>1. CASE WebNext
  BY <1>1, RequestStep, ServerStepKeeps DEF WebNext
<1>2. CASE UNCHANGED control
  <2>1. UNCHANGED <<vars, webVars>>
    BY <1>2 DEF control
  <2>2. Inv'
    BY <2>1, InvStep DEF WebInv
  <2>3. /\ UNCHANGED <<made, turns, step, conn, mailbox, lineOf, origin, answers>>
        /\ UNCHANGED <<peer, inbox, server, client, nextId, command, reply, applied>>
    BY <2>1 DEF webVars, vars, connection, loop, shared, acquirer
  <2>4. WebTypes' /\ Connections' /\ AnswersKnown'
    BY <2>3 DEF WebInv, WebTypes, Connections, AnswersKnown, Among
  <2>5. InTurn' /\ LinesInTurn' /\ OriginInTurn'
    BY <2>3 DEF WebInv, InTurn, LinesInTurn, OriginInTurn, NoLater, Past
  <2>6. OneLine'
    BY <2>3 DEF WebInv, OneLine, Calm, OfHolder
  <2> QED
    BY <2>2, <2>4, <2>5, <2>6 DEF WebInv
<1> QED
  BY <1>1, <1>2

\* What is known of the gateway makes it honour its requests.
LEMMA Honoured == WebInv => RequestsHonoured
<1> SUFFICES ASSUME WebInv PROVE RequestsHonoured
  OBVIOUS
<1>1. applied \in Seq(Nat) /\ DOMAIN applied = 1 .. Len(applied)
  BY DEF WebInv, Inv, TypeOK
<1>2. \A r \in Requests : answers[r].id # NoCommand =>
        /\ origin[answers[r].id] = r
        /\ answers[r].kind = "OK" => \E i \in DOMAIN applied : applied[i] = answers[r].id
  BY <1>1 DEF WebInv, AnswersKnown, Among
<1>3. \A k \in 1 .. Len(applied) : applied[k] \in 1 .. Len(origin)
  <2>1. \A k \in 1 .. Len(applied) : applied[k] < nextId /\ applied[k] # 0 /\ applied[k] \in Nat
    BY <1>1, Elements DEF WebInv, Inv, Ascending, NoCommand
  <2>2. nextId \in Nat \ {0} /\ Len(origin) = nextId - 1
    BY ServerTypes DEF WebInv, WebTypes
  <2> QED
    BY <2>1, <2>2
<1>4. \A i, j \in DOMAIN applied : i < j => AppliedRequest(i) <= AppliedRequest(j)
  <2> SUFFICES ASSUME NEW i \in 1 .. Len(applied), NEW j \in 1 .. Len(applied), i < j
               PROVE  origin[applied[i]] <= origin[applied[j]]
    BY <1>1 DEF AppliedRequest
  <2>1. applied[i] < applied[j]
    BY DEF WebInv, Inv, AppliedInOrder
  <2>2. applied[i] \in 1 .. Len(origin) /\ applied[j] \in 1 .. Len(origin)
    BY <1>3
  <2>3. applied[i] <= applied[j]
    BY <2>1, <2>2
  <2> QED
    BY <2>2, <2>3 DEF WebInv, OriginInTurn
<1> QED
  BY <1>2, <1>4 DEF RequestsHonoured

-----------------------------------------------------------------------------
(***************************************************************************)
(* The gateway as a whole.                                                 *)
(***************************************************************************)
\* A step of the gateway is one of its control half, or leaves that alone.
LEMMA ControlOrNot == [GatewayNext]_gatewayVars => [WebNext]_control
  BY DEF GatewayNext, ControlStep, FanOutStep, gatewayVars

\* What is known of the control half holds in every reachable state.
THEOREM GatewayInvariant == GatewaySpec => []WebInv
<1>1. GatewayInit => WebInv
  BY WebInvInit DEF GatewayInit
<1>2. WebInv /\ [GatewayNext]_gatewayVars => WebInv'
  BY WebInvStep, ControlOrNot
<1> QED
  BY <1>1, <1>2, PTL DEF GatewaySpec

\* A browser is told the outcome of its own request, and a SET that is applied
\* again or late is never applied after a later one.
THEOREM Honours == GatewaySpec => []RequestsHonoured
  BY GatewayInvariant, Honoured, PTL

\* The gateway is one of the clients that the control server is specified for: what
\* is proved of the server holds for it, lost connections and retries included.
THEOREM UsesServer == GatewaySpec => Spec
<1>1. GatewayInit => Init
  BY DEF GatewayInit, WebInit
<1>2. WebInv /\ [GatewayNext]_gatewayVars => [Next]_vars
  <2> SUFFICES ASSUME WebInv, [WebNext]_control PROVE [Next]_vars
    BY ControlOrNot
  <2>1. conn # 0 => conn \in Clients
    BY ClientOf DEF WebInv, WebTypes
  <2>2. CASE ServerStep
    BY <2>2, ServerCases
  <2>3. CASE MakeRequest \/ ReadReply \/ Refused
    BY <2>3 DEF MakeRequest, ReadReply, Refused
  <2>4. CASE UseConnection \/ ReadHello
    BY <2>1, <2>4 DEF UseConnection, ReadHello, WriteLine, WebInv, Connections, Next, Client
  <2>5. CASE OpenConnection
    BY <2>5 DEF OpenConnection, Next, Client
  <2>6. CASE ConnectionLost \/ NoHello
    BY <2>1, <2>6 DEF ConnectionLost, NoHello, Close, WebInv, Connections, Next, Client
  <2>7. CASE UNCHANGED control
    BY <2>7 DEF control
  <2> QED
    BY <2>2, <2>3, <2>4, <2>5, <2>6, <2>7 DEF WebNext, Request
<1> QED
  BY <1>1, <1>2, GatewayInvariant, PTL DEF GatewaySpec, Spec

\* The event of the PSD task says whether anybody watches, although handlers and the
\* task set it, clear it and drop viewers on their own.
THEOREM Wanted == GatewaySpec => []WantedWhenWatched
<1>1. GatewayInit => WantedWhenWatched
  BY DEF GatewayInit, WantedWhenWatched, P!WantedWhenWatched, P!Init
<1>2. WantedWhenWatched /\ [GatewayNext]_gatewayVars => WantedWhenWatched'
  <2> SUFFICES ASSUME wanted <=> websockets # {}, [GatewayNext]_gatewayVars
               PROVE  wanted' <=> websockets' # {}
    BY DEF WantedWhenWatched, P!WantedWhenWatched
  <2>1. CASE UNCHANGED <<wanted, websockets>>
    BY <2>1
  <2>2. ASSUME NEW v \in P!Viewers, P!ViewerComes(v) PROVE wanted' <=> websockets' # {}
    BY <2>2 DEF P!ViewerComes, P!SetWanted
  <2>3. ASSUME NEW v \in P!Viewers, P!HandlerEnds(v) PROVE wanted' <=> websockets' # {}
    BY <2>3 DEF P!HandlerEnds, P!Unwatched
  <2>4. CASE P!UpstreamFails
    BY <2>4 DEF P!UpstreamFails
  <2>5. CASE P!FrameSent
    BY <2>5 DEF P!FrameSent, P!Unwatched
  <2>6. CASE P!Next
    BY <2>1, <2>2, <2>3, <2>4, <2>5, <2>6 DEF P!Next, P!Viewer, P!ViewerStalls, P!ViewerGoes,
       P!PsdLoop, P!Wake, P!ConnectUpstream, P!Slept, P!CloseUpstream, P!ReadFrame, P!Send,
       P!SendFrame
  <2> QED
    BY <2>1, <2>6 DEF GatewayNext, ControlStep, FanOutStep, gatewayVars, fanOut
<1> QED
  BY <1>1, <1>2, PTL DEF GatewaySpec
=============================================================================
