----------------------------- MODULE PsdStream -----------------------------
(***************************************************************************)
(* The PSD half of the network server: publish(), called by the            *)
(* acquisition thread for each frame, psdLoop(), which sends the frames to *)
(* one client at a time, and the destructor.                               *)
(*                                                                         *)
(* publish() reads the flag _psdConnected before it takes the mutex, so    *)
(* the two are steps of their own; a critical section is one step, and     *)
(* notify_one() after it another.  A wait of psdLoop() ends by a           *)
(* notification, after 200 ms or spuriously, and is then evaluated again.  *)
(*                                                                         *)
(* A client may connect whenever the server accepts, and any send may fail *)
(* (the peer is gone, or has not read for 500 ms).  Frames are numbered    *)
(* 1, 2, ... as they are published, clients as they are accepted.          *)
(***************************************************************************)
EXTENDS Naturals, Sequences

CONSTANTS
  QueueFrames,  \* _config.queueFrames
  MaxFrames,    \* bound: frames published
  MaxClients    \* bound: clients accepted

ASSUME StreamAssumption == /\ QueueFrames \in Nat
                           /\ MaxFrames \in Nat
                           /\ MaxClients \in Nat

VARIABLES
  queue,      \* _psdQueue
  connected,  \* _psdConnected
  stop,       \* _stop
  sender,     \* where psdLoop() is
  frame,      \* the frame that psdLoop() is sending
  caller,     \* where the acquisition thread is in its use of the server
  published,  \* history: the number of frames publish() was called with
  since,      \* history: for each client accepted, the frames published before
  sent        \* history: the frames sent whole, with their clients, in order

vars == <<queue, connected, stop, sender, frame, caller, published, since, sent>>

NoFrame == 0

Init ==
  /\ queue = <<>>
  /\ connected = FALSE
  /\ stop = FALSE
  /\ sender = "listen"
  /\ frame = NoFrame
  /\ caller = "running"
  /\ published = 0
  /\ since = <<>>
  /\ sent = <<>>

\* The constructor makes room for one frame at least.
Limit == IF QueueFrames = 0 THEN 1 ELSE QueueFrames

-----------------------------------------------------------------------------
(***************************************************************************)
(* The acquisition thread.                                                 *)
(***************************************************************************)
\* publish() returns at once: nobody is connected.
PublishNothing ==
  /\ caller = "running"
  /\ published < MaxFrames
  /\ ~connected
  /\ published' = published + 1
  /\ UNCHANGED <<queue, connected, stop, sender, frame, caller, since, sent>>

\* publish() has seen a client.
PublishBegin ==
  /\ caller = "running"
  /\ published < MaxFrames
  /\ connected
  /\ published' = published + 1
  /\ caller' = "push"
  /\ UNCHANGED <<queue, connected, stop, sender, frame, since, sent>>

\* The loop that drops the oldest frames until one more fits.
RoomMade ==
  IF Len(queue) >= Limit THEN SubSeq(queue, Len(queue) - Limit + 2, Len(queue))
                         ELSE queue

Push ==
  /\ caller = "push"
  /\ queue' = Append(RoomMade, published)
  /\ caller' = "notify"
  /\ UNCHANGED <<connected, stop, sender, frame, published, since, sent>>

\* notify_one() or notify_all().
Woken == IF sender = "waiting" THEN "lock" ELSE sender

NotifyPushed ==
  /\ caller = "notify"
  /\ sender' = Woken
  /\ caller' = "running"
  /\ UNCHANGED <<queue, connected, stop, frame, published, since, sent>>

(***************************************************************************)
(* The destructor.  It sets the flag without the mutex, so its             *)
(* notification may come between the sender's test and its wait.           *)
(***************************************************************************)
RequestStop ==
  /\ caller = "running"
  /\ stop' = TRUE
  /\ caller' = "notifyStop"
  /\ UNCHANGED <<queue, connected, sender, frame, published, since, sent>>

NotifyStop ==
  /\ caller = "notifyStop"
  /\ sender' = Woken
  /\ caller' = "join"
  /\ UNCHANGED <<queue, connected, stop, frame, published, since, sent>>

Join ==
  /\ caller = "join"
  /\ sender = "ended"
  /\ caller' = "joined"
  /\ UNCHANGED <<queue, connected, stop, sender, frame, published, since, sent>>

-----------------------------------------------------------------------------
(***************************************************************************)
(* psdLoop().                                                              *)
(***************************************************************************)
\* makeListener(); when it throws the thread ends and there is no stream.
Listen ==
  /\ sender = "listen"
  /\ sender' \in {"accept", "ended"}
  /\ UNCHANGED <<queue, connected, stop, frame, caller, published, since, sent>>

\* The stop may come between the loop's test and the accept.
Accept ==
  /\ sender = "accept"
  /\ Len(since) < MaxClients
  /\ connected' = TRUE
  /\ since' = Append(since, published)
  /\ sender' = "lock"
  /\ UNCHANGED <<queue, stop, frame, caller, published, sent>>

\* Mutant: a loop that looks at the stop only between two clients.
StopSeenBetweenClients == stop /\ sender = "accept"

StopSeen == stop /\ sender \in {"accept", "lock"}

Leave ==
  /\ StopSeen
  /\ connected' = FALSE
  /\ sender' = "ended"
  /\ UNCHANGED <<queue, stop, frame, caller, published, since, sent>>

\* Mutant: the last frame is left in the queue.
HasTwoFrames == Len(queue) > 1

HasFrame == queue # <<>>

\* The test of the wait under the mutex; the stop may come right after it.
Wait ==
  /\ sender = "lock"
  /\ ~stop
  /\ ~HasFrame
  /\ sender' = "waiting"
  /\ UNCHANGED <<queue, connected, stop, frame, caller, published, since, sent>>

\* The wait is over: 200 ms have passed, or for no reason.
WaitOver ==
  /\ sender = "waiting"
  /\ sender' = "lock"
  /\ UNCHANGED <<queue, connected, stop, frame, caller, published, since, sent>>

\* Mutant: the newest frame is sent first.
NewestFrame == queue[Len(queue)]

FrontFrame == Head(queue)

Take ==
  /\ sender = "lock"
  /\ ~stop
  /\ HasFrame
  /\ frame' = FrontFrame
  /\ queue' = Tail(queue)
  /\ sender' = "send"
  /\ UNCHANGED <<connected, stop, caller, published, since, sent>>

Send ==
  /\ sender = "send"
  /\ sent' = Append(sent, [client |-> Len(since), frame |-> frame])
  /\ frame' = NoFrame
  /\ sender' = "lock"
  /\ UNCHANGED <<queue, connected, stop, caller, published, since>>

\* A send fails: the client is closed and the flag reset.
SendFails ==
  /\ sender = "send"
  /\ frame' = NoFrame
  /\ connected' = FALSE
  /\ sender' = "clear"
  /\ UNCHANGED <<queue, stop, caller, published, since, sent>>

\* Mutant: the queue is kept for the next client.
QueueKept == queue

QueueCleared == <<>>

ClearQueue ==
  /\ sender = "clear"
  /\ queue' = QueueCleared
  /\ sender' = "accept"
  /\ UNCHANGED <<connected, stop, frame, caller, published, since, sent>>

-----------------------------------------------------------------------------
Publisher ==
  \/ PublishNothing
  \/ PublishBegin
  \/ Push
  \/ NotifyPushed
  \/ RequestStop
  \/ NotifyStop
  \/ Join

\* What psdLoop() does when it is scheduled.
Sender ==
  \/ Listen
  \/ Leave
  \/ Wait
  \/ WaitOver
  \/ Take
  \/ Send
  \/ SendFails
  \/ ClearQueue

Next == Publisher \/ Sender \/ Accept

Spec == Init /\ [][Next]_vars

(***************************************************************************)
(* Fairness: the operating system runs both threads, a wait ends after 200 *)
(* ms and a send returns after 500 ms without progress at the latest.      *)
(* What publish() and the destructor have begun goes on.  Clients need not *)
(* come.                                                                   *)
(***************************************************************************)
FairSpec == /\ Spec
            /\ WF_vars(Sender)
            /\ WF_vars(Push \/ NotifyPushed \/ NotifyStop)
            /\ WF_vars(Join)

-----------------------------------------------------------------------------
(***************************************************************************)
(* Properties.                                                             *)
(***************************************************************************)
\* Types.  However slow the client, the queue never holds more than its limit.
TypeOK ==
  /\ queue \in Seq(1 .. MaxFrames)
  /\ Len(queue) <= Limit
  /\ connected \in BOOLEAN
  /\ stop \in BOOLEAN
  /\ sender \in {"listen", "accept", "lock", "waiting", "send", "clear", "ended"}
  /\ frame \in 0 .. MaxFrames
  /\ caller \in {"running", "push", "notify", "notifyStop", "join", "joined"}
  /\ published \in 0 .. MaxFrames
  /\ since \in Seq(0 .. MaxFrames)
  /\ sent \in Seq([client : 1 .. MaxClients, frame : 1 .. MaxFrames])

(***************************************************************************)
(* Frames are sent in the order in which they were published and none is   *)
(* sent twice, over drops, failed sends, disconnects and new clients: the  *)
(* frames sent, the one in hand and those in the queue ascend.             *)
(***************************************************************************)
FramesInOrder ==
  /\ \A i, j \in 1 .. Len(sent) : i < j => sent[i].frame < sent[j].frame
  /\ \A i \in 1 .. Len(sent) :
       /\ sender = "send" => sent[i].frame < frame
       /\ \A j \in 1 .. Len(queue) : sent[i].frame < queue[j]
  /\ \A i, j \in 1 .. Len(queue) : i < j => queue[i] < queue[j]
  /\ sender = "send" => \A j \in 1 .. Len(queue) : frame < queue[j]

\* A publish() that has seen a client and has not queued its frame yet.
UnderWay == IF caller = "push" THEN 1 ELSE 0

(***************************************************************************)
(* Between two clients the server holds back one frame at most: the queue  *)
(* is cleared after the flag is reset, so only a publish() that had read   *)
(* the flag before can still add to it.                                    *)
(***************************************************************************)
OneLeftOver == sender = "accept" => Len(queue) + UnderWay <= 1

\* While a client is connected no frame stays in the queue.
FramesMoveOn ==
  \A n \in 1 .. MaxFrames :
    LET Queued == \E i \in 1 .. Len(queue) : queue[i] = n
    IN  Queued /\ connected ~> ~Queued \/ stop

\* The destructor returns, whatever notification came when.
StopEnds == stop ~> caller = "joined"

(***************************************************************************)
(* doc/NETWORK_WEB.md, Network configuration: "PSD frames are not queued   *)
(* or transmitted until a PSD client is connected".  So a client receives  *)
(* only frames published after it was accepted.                            *)
(***************************************************************************)
FreshStream ==
  \A i \in 1 .. Len(sent) : sent[i].frame > since[sent[i].client]
=============================================================================
