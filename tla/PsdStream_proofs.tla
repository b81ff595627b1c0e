-------------------------- MODULE PsdStream_proofs --------------------------
(***************************************************************************)
(* Proofs about the PSD stream, for every length of the queue, number of   *)
(* frames and number of clients: frames are sent in order and once, and    *)
(* between two clients one frame at most is held back.                     *)
(***************************************************************************)
EXTENDS PsdStream, SequenceTheorems, TLAPS

-----------------------------------------------------------------------------
(***************************************************************************)
(* The inductive invariant.  The properties hold because every frame that  *)
(* the server knows is older than the one that publish() is about to       *)
(* queue, and because a client is served exactly when the flag is set.     *)
(***************************************************************************)
\* The last frame that was queued, or could have been.
Newest == IF caller = "push" THEN published - 1 ELSE published

KnownFrames ==
  /\ caller = "push" => published > 0
  /\ \A i \in 1 .. Len(sent) : sent[i].frame <= Newest
  /\ sender = "send" => frame <= Newest
  /\ \A i \in 1 .. Len(queue) : queue[i] <= Newest

Serving == {"lock", "waiting", "send"}

FlagAgrees ==
  /\ connected <=> sender \in Serving
  /\ sender \in Serving \cup {"clear"} => Len(since) > 0
  /\ Len(since) <= MaxClients
  /\ sender = "send" <=> frame # NoFrame

BeforeListening == sender = "listen" => queue = <<>> /\ caller # "push"

Inv == /\ TypeOK
       /\ FramesInOrder
       /\ OneLeftOver
       /\ KnownFrames
       /\ FlagAgrees
       /\ BeforeListening

-----------------------------------------------------------------------------
(***************************************************************************)
(* The queue.                                                              *)
(***************************************************************************)
LEMMA LimitPositive == Limit \in Nat /\ Limit >= 1
  BY StreamAssumption DEF Limit

\* Making room leaves the newest frames of the queue, fewer than the limit.
LEMMA RoomMadeKeeps ==
  ASSUME NEW S, queue \in Seq(S), Len(queue) <= Limit
  PROVE  /\ RoomMade \in Seq(S)
         /\ Len(RoomMade) < Limit
         /\ Len(RoomMade) <= Len(queue)
         /\ \E d \in Nat : \A j \in 1 .. Len(RoomMade) :
              j + d \in 1 .. Len(queue) /\ RoomMade[j] = queue[j + d]
<1>1. CASE Len(queue) < Limit
  <2>1. RoomMade = queue
    BY <1>1, LimitPositive DEF RoomMade
  <2> QED
    BY <1>1, <2>1
<1>2. CASE Len(queue) = Limit
  <2>1. RoomMade = SubSeq(queue, 2, Len(queue))
    BY <1>2, LimitPositive DEF RoomMade
  <2>2. Len(queue) \in Nat /\ Len(queue) >= 1
    BY <1>2, LimitPositive
  <2>3. \A i \in 2 .. Len(queue) : queue[i] \in S
    BY <2>2
  <2>4. /\ RoomMade \in Seq(S)
        /\ Len(RoomMade) = Len(queue) - 1
        /\ \A j \in 1 .. Len(queue) - 1 : RoomMade[j] = queue[j + 1]
    <3> DEFINE n == Len(queue)
    <3>1. /\ SubSeq(queue, 2, n) \in Seq(S)
          /\ Len(SubSeq(queue, 2, n)) = IF 2 <= n THEN n - 2 + 1 ELSE 0
          /\ \A i \in 1 .. n - 2 + 1 : SubSeq(queue, 2, n)[i] = queue[2 + i - 1]
      BY <2>2, <2>3, SubSeqProperties
    <3>2. /\ RoomMade \in Seq(S)
          /\ Len(RoomMade) = IF 2 <= n THEN n - 2 + 1 ELSE 0
          /\ \A i \in 1 .. n - 2 + 1 : RoomMade[i] = queue[2 + i - 1]
      BY <2>1, <3>1
    <3>3. n \in Nat /\ n >= 1
      BY <2>2
    <3> HIDE DEF n
    <3>4. Len(RoomMade) = n - 1 /\ \A j \in 1 .. n - 1 : RoomMade[j] = queue[j + 1]
      BY <3>2, <3>3
    <3> QED
      BY <3>2, <3>4 DEF n
  <2>5. \A j \in 1 .. Len(RoomMade) :
          j + 1 \in 1 .. Len(queue) /\ RoomMade[j] = queue[j + 1]
    BY <2>2, <2>4
  <2>6. Len(RoomMade) < Limit /\ Len(RoomMade) <= Len(queue)
    BY <1>2, <2>2, <2>4
  <2> QED
    BY <2>4, <2>5, <2>6
<1> QED
  BY <1>1, <1>2, LimitPositive

-----------------------------------------------------------------------------
(***************************************************************************)
(* Type correctness.                                                       *)
(***************************************************************************)
LEMMA InitInv == Init => Inv
<1> SUFFICES ASSUME Init PROVE Inv
  OBVIOUS
<1>1. TypeOK
  <2>1. /\ queue \in Seq(1 .. MaxFrames) /\ Len(queue) <= Limit
        /\ since \in Seq(0 .. MaxFrames)
        /\ sent \in Seq([client : 1 .. MaxClients, frame : 1 .. MaxFrames])
    BY LimitPositive DEF Init
  <2>2. frame \in 0 .. MaxFrames /\ published \in 0 .. MaxFrames
    BY StreamAssumption DEF Init, NoFrame
  <2> QED
    BY <2>1, <2>2, Zenon DEF Init, TypeOK
<1>2. FramesInOrder /\ OneLeftOver
  BY DEF Init, FramesInOrder, OneLeftOver
<1>3. KnownFrames /\ FlagAgrees /\ BeforeListening
  BY StreamAssumption DEF Init, KnownFrames, FlagAgrees, BeforeListening, Serving, NoFrame
<1> QED
  BY <1>1, <1>2, <1>3 DEF Inv

\* The numbers of the frames that the server knows.
LEMMA Numbers ==
  ASSUME TypeOK
  PROVE  /\ \A i \in 1 .. Len(sent) : sent[i].frame \in Nat
         /\ \A i \in 1 .. Len(queue) : queue[i] \in Nat
         /\ frame \in Nat /\ published \in Nat
         /\ Len(sent) \in Nat /\ Len(queue) \in Nat
<1>1. \A i \in 1 .. Len(sent) : sent[i] \in [client : 1 .. MaxClients, frame : 1 .. MaxFrames]
  BY ElementOfSeq DEF TypeOK
<1>2. \A i \in 1 .. Len(sent) : sent[i].frame \in Nat
  BY <1>1
<1>3. \A i \in 1 .. Len(queue) : queue[i] \in 1 .. MaxFrames
  BY ElementOfSeq DEF TypeOK
<1> QED
  BY <1>2, <1>3 DEF TypeOK

\* Every step preserves the types.
LEMMA TypeStep == Inv /\ [Next]_vars => TypeOK'
<1> SUFFICES ASSUME Inv, [Next]_vars PROVE TypeOK'
  OBVIOUS
<1> USE StreamAssumption, LimitPositive DEF Inv, TypeOK
<1>1. CASE PublishNothing \/ PublishBegin
  <2>1. published' \in 0 .. MaxFrames
    BY <1>1 DEF PublishNothing, PublishBegin
  <2>2. /\ UNCHANGED <<queue, connected, stop, sender, frame, since, sent>>
        /\ caller' \in {"running", "push"}
    BY <1>1 DEF PublishNothing, PublishBegin
  <2> QED
    BY <2>1, <2>2 DEF Limit
<1>2. CASE Push
  <2>1. published \in 1 .. MaxFrames
    BY <1>2 DEF Push, KnownFrames
  <2>2. queue' = Append(RoomMade, published)
    BY <1>2 DEF Push
  <2>3. queue' \in Seq(1 .. MaxFrames) /\ Len(queue') <= Limit
    BY <2>1, <2>2, RoomMadeKeeps
  <2> QED
    BY <1>2, <2>3 DEF Push, Limit
<1>3. CASE NotifyPushed \/ RequestStop \/ NotifyStop \/ Join
  BY <1>3 DEF NotifyPushed, RequestStop, NotifyStop, Join, Woken, Limit
<1>4. CASE Listen \/ Leave \/ Wait \/ WaitOver \/ SendFails
  <2>1. frame' \in 0 .. MaxFrames
    BY <1>4 DEF Listen, Leave, Wait, WaitOver, SendFails, NoFrame
  <2>2. /\ sender' \in {"listen", "accept", "lock", "waiting", "send", "clear", "ended"}
        /\ connected' \in BOOLEAN
        /\ UNCHANGED <<queue, stop, caller, published, since, sent>>
    BY <1>4, Zenon DEF Listen, Leave, Wait, WaitOver, SendFails
  <2> QED
    BY <2>1, <2>2 DEF Limit
<1>5. CASE ClearQueue
  BY <1>5 DEF ClearQueue, QueueCleared, Limit
<1>6. CASE Take
  <2>1. queue # <<>> /\ frame' = Head(queue) /\ queue' = Tail(queue)
    BY <1>6 DEF Take, HasFrame, FrontFrame
  <2>2. frame' \in 1 .. MaxFrames
    BY <2>1
  <2>3. queue' \in Seq(1 .. MaxFrames) /\ Len(queue') <= Limit
    BY <2>1
  <2> QED
    BY <1>6, <2>2, <2>3 DEF Take, Limit
<1>7. CASE Send
  <2>1. frame \in 1 .. MaxFrames /\ Len(since) \in 1 .. MaxClients
    BY <1>7 DEF Send, FlagAgrees, Serving, NoFrame
  <2>2. sent' \in Seq([client : 1 .. MaxClients, frame : 1 .. MaxFrames])
    BY <1>7, <2>1 DEF Send
  <2> QED
    BY <1>7, <2>2 DEF Send, NoFrame, Limit
<1>8. CASE Accept
  BY <1>8 DEF Accept, Limit
<1>9. CASE UNCHANGED vars
  BY <1>9 DEF vars, Limit
<1> QED
  BY <1>1, <1>2, <1>3, <1>4, <1>5, <1>6, <1>7, <1>8, <1>9 DEF Next, Publisher, Sender

\* Every step preserves what is known of the client flag and of the listener.
LEMMA FlagStep == Inv /\ [Next]_vars => FlagAgrees' /\ BeforeListening'
<1> SUFFICES ASSUME Inv, [Next]_vars PROVE FlagAgrees' /\ BeforeListening'
  OBVIOUS
<1> USE StreamAssumption DEF Inv, TypeOK, FlagAgrees, BeforeListening, Serving
<1>1. CASE PublishNothing \/ PublishBegin \/ Push
  BY <1>1 DEF PublishNothing, PublishBegin, Push
<1>3. CASE NotifyPushed \/ RequestStop \/ NotifyStop \/ Join
  BY <1>3 DEF NotifyPushed, RequestStop, NotifyStop, Join, Woken
<1>4. CASE Listen \/ Leave \/ Wait \/ WaitOver \/ SendFails \/ ClearQueue
  BY <1>4 DEF Listen, Leave, StopSeen, Wait, WaitOver, SendFails, NoFrame, ClearQueue,
     QueueCleared
<1>6. CASE Take
  <2>1. frame' \in 1 .. MaxFrames
    BY <1>6 DEF Take, HasFrame, FrontFrame
  <2> QED
    BY <1>6, <2>1 DEF Take, NoFrame
<1>7. CASE Send
  BY <1>7 DEF Send, NoFrame
<1>8. CASE Accept
  BY <1>8 DEF Accept
<1>9. CASE UNCHANGED vars
  BY <1>9 DEF vars
<1> QED
  BY <1>1, <1>3, <1>4, <1>6, <1>7, <1>8, <1>9 DEF Next, Publisher, Sender

\* A push that can still come after the flag is reset finds an empty queue.
LEMMA LeftOverStep == Inv /\ [Next]_vars => OneLeftOver'
<1> SUFFICES ASSUME Inv, [Next]_vars, sender' = "accept"
             PROVE  Len(queue') + UnderWay' <= 1
  BY DEF OneLeftOver
<1> USE DEF Inv, TypeOK, OneLeftOver, UnderWay
<1>1. CASE PublishNothing
  BY <1>1 DEF PublishNothing
<1>2. CASE PublishBegin
  BY <1>2 DEF PublishBegin, FlagAgrees, Serving
<1>3. CASE Push
  <2>1. Len(queue) = 0 /\ UnderWay' = 0
    BY <1>3 DEF Push
  <2>2. RoomMade \in Seq(1 .. MaxFrames) /\ Len(RoomMade) = 0
    BY <2>1, RoomMadeKeeps
  <2> QED
    BY <1>3, <2>1, <2>2 DEF Push
<1>4. CASE NotifyPushed \/ RequestStop \/ NotifyStop \/ Join
  BY <1>4 DEF NotifyPushed, RequestStop, NotifyStop, Join, Woken
<1>5. CASE Listen
  BY <1>5 DEF Listen, BeforeListening
<1>6. CASE ClearQueue
  BY <1>6 DEF ClearQueue, QueueCleared
<1>7. CASE Leave \/ Wait \/ WaitOver \/ Take \/ Send \/ SendFails \/ Accept
  BY <1>7 DEF Leave, Wait, WaitOver, Take, Send, SendFails, Accept
<1>8. CASE UNCHANGED vars
  BY <1>8 DEF vars
<1> QED
  BY <1>1, <1>2, <1>3, <1>4, <1>5, <1>6, <1>7, <1>8 DEF Next, Publisher, Sender

\* The frames that anybody knows, over every step.
LEMMA KnownStep == Inv /\ [Next]_vars => KnownFrames'
<1> SUFFICES ASSUME Inv, [Next]_vars PROVE KnownFrames'
  OBVIOUS
<1> USE DEF Inv, TypeOK, KnownFrames, Newest
<1>1. CASE PublishNothing \/ PublishBegin
  <2>1. /\ published' = published + 1
        /\ caller = "running" /\ caller' \in {"running", "push"}
        /\ UNCHANGED <<queue, sender, frame, sent>>
    BY <1>1 DEF PublishNothing, PublishBegin
  <2>2. Newest = published /\ Newest' \in Nat /\ Newest' >= published /\ published' > 0
    BY <2>1, Numbers
  <2> HIDE DEF Newest
  <2> QED
    BY <2>1, <2>2, Numbers
<1>2. CASE Push
  <2>1. /\ queue' = Append(RoomMade, published)
        /\ caller = "push" /\ caller' = "notify"
        /\ published' = published /\ sent' = sent /\ frame' = frame /\ sender' = sender
    BY <1>2 DEF Push
  <2>2. /\ \A i \in 1 .. Len(sent') : sent'[i].frame <= Newest'
        /\ sender' = "send" => frame' <= Newest'
    BY <2>1, Numbers
  <2>3. PICK d \in Nat : \A j \in 1 .. Len(RoomMade) :
                           j + d \in 1 .. Len(queue) /\ RoomMade[j] = queue[j + d]
    BY RoomMadeKeeps
  <2>4. RoomMade \in Seq(1 .. MaxFrames)
    BY RoomMadeKeeps
  <2>5. \A j \in 1 .. Len(RoomMade) : RoomMade[j] \in Nat /\ RoomMade[j] <= published
    <3>1. \A j \in 1 .. Len(queue) : queue[j] \in Nat /\ queue[j] <= published
      BY <2>1, Numbers
    <3> QED
      BY <2>3, <3>1
  <2>6. \A j \in 1 .. Len(queue') : queue'[j] <= published
    BY <2>1, <2>4, <2>5
  <2> QED
    BY <2>1, <2>2, <2>6
<1>3. CASE NotifyPushed \/ RequestStop \/ NotifyStop \/ Join
  BY <1>3 DEF NotifyPushed, RequestStop, NotifyStop, Join, Woken
<1>4. CASE Listen \/ Leave \/ Wait \/ WaitOver \/ SendFails \/ Accept
  BY <1>4 DEF Listen, Leave, StopSeen, Wait, WaitOver, SendFails, Accept
<1>5. CASE ClearQueue
  BY <1>5 DEF ClearQueue, QueueCleared
<1>6. CASE Take
  BY <1>6 DEF Take, HasFrame, FrontFrame
<1>7. CASE Send
  BY <1>7 DEF Send
<1>8. CASE UNCHANGED vars
  BY <1>8 DEF vars
<1> QED
  BY <1>1, <1>2, <1>3, <1>4, <1>5, <1>6, <1>7, <1>8 DEF Next, Publisher, Sender

\* The frames sent, the one in hand and those in the queue ascend.
LEMMA OrderStep == Inv /\ [Next]_vars => FramesInOrder'
<1> SUFFICES ASSUME Inv, [Next]_vars PROVE FramesInOrder'
  OBVIOUS
<1> USE DEF Inv, TypeOK, FramesInOrder
<1>1. CASE PublishNothing \/ PublishBegin
  BY <1>1 DEF PublishNothing, PublishBegin
<1>2. CASE Push
  <2>1. /\ queue' = Append(RoomMade, published)
        /\ caller = "push"
        /\ sent' = sent /\ frame' = frame /\ sender' = sender
    BY <1>2 DEF Push
  <2>2. PICK d \in Nat : \A j \in 1 .. Len(RoomMade) :
                           j + d \in 1 .. Len(queue) /\ RoomMade[j] = queue[j + d]
    BY RoomMadeKeeps
  <2>3. RoomMade \in Seq(1 .. MaxFrames)
    BY RoomMadeKeeps
  <2>4. /\ \A i \in 1 .. Len(sent) : sent[i].frame < published
        /\ sender = "send" => frame < published
        /\ \A i \in 1 .. Len(queue) : queue[i] < published
    BY <2>1, Numbers DEF KnownFrames, Newest
  <2>5. \A i, j \in 1 .. Len(queue') : i < j => queue'[i] < queue'[j]
    <3> SUFFICES ASSUME NEW i \in 1 .. Len(queue'), NEW j \in 1 .. Len(queue'), i < j
                 PROVE  queue'[i] < queue'[j]
      OBVIOUS
    <3>1. Len(RoomMade) \in Nat /\ Len(queue') = Len(RoomMade) + 1
      BY <2>1, <2>3
    <3>2. i \in 1 .. Len(RoomMade) /\ queue'[i] = RoomMade[i]
      BY <2>1, <2>3, <3>1
    <3>3. i + d \in 1 .. Len(queue) /\ RoomMade[i] = queue[i + d]
      BY <2>2, <3>2
    <3>4. CASE j = Len(queue')
      <4>1. queue'[j] = published
        BY <2>1, <2>3, <3>1, <3>4
      <4> QED
        BY <2>4, <3>2, <3>3, <4>1
    <3>5. CASE j # Len(queue')
      <4>1. j \in 1 .. Len(RoomMade) /\ queue'[j] = RoomMade[j]
        BY <2>1, <2>3, <3>1, <3>5
      <4>2. j + d \in 1 .. Len(queue) /\ RoomMade[j] = queue[j + d] /\ i + d < j + d
        BY <2>2, <3>1, <4>1
      <4> QED
        BY <3>2, <3>3, <4>1, <4>2
    <3> QED
      BY <3>4, <3>5
  <2>8. ASSUME NEW j \in 1 .. Len(queue')
        PROVE  queue'[j] = published \/ \E k \in 1 .. Len(queue) : queue'[j] = queue[k]
    <3>1. Len(RoomMade) \in Nat /\ Len(queue') = Len(RoomMade) + 1
      BY <2>1, <2>3
    <3>2. CASE j = Len(RoomMade) + 1
      BY <2>1, <2>3, <3>2
    <3>3. CASE j # Len(RoomMade) + 1
      <4>1. j \in 1 .. Len(RoomMade) /\ queue'[j] = RoomMade[j]
        BY <2>1, <2>3, <3>1, <3>3
      <4> QED
        BY <2>2, <4>1
    <3> QED
      BY <3>2, <3>3
  <2>6. \A i \in 1 .. Len(sent) : \A j \in 1 .. Len(queue') : sent[i].frame < queue'[j]
    BY <2>4, <2>8
  <2>7. sender = "send" => \A j \in 1 .. Len(queue') : frame < queue'[j]
    BY <2>4, <2>8
  <2> QED
    BY <2>1, <2>5, <2>6, <2>7
<1>3. CASE NotifyPushed \/ RequestStop \/ NotifyStop \/ Join
  BY <1>3 DEF NotifyPushed, RequestStop, NotifyStop, Join, Woken
<1>4. CASE Listen \/ Leave \/ Wait \/ WaitOver \/ SendFails \/ Accept
  BY <1>4 DEF Listen, Leave, StopSeen, Wait, WaitOver, SendFails, Accept
<1>5. CASE ClearQueue
  BY <1>5 DEF ClearQueue, QueueCleared
<1>6. CASE Take
  <2>1. /\ queue # <<>> /\ frame' = Head(queue) /\ queue' = Tail(queue)
        /\ sent' = sent
    BY <1>6 DEF Take, HasFrame, FrontFrame
  <2>2. /\ Len(queue) \in Nat /\ Len(queue) >= 1 /\ Len(queue') = Len(queue) - 1
        /\ frame' = queue[1]
        /\ \A j \in 1 .. Len(queue') : queue'[j] = queue[j + 1]
    BY <2>1
  <2>3. \A j \in 1 .. Len(queue') : j + 1 \in 1 .. Len(queue)
    BY <2>2
  <2>4. 1 \in 1 .. Len(queue)
    BY <2>2
  <2>5. \A i \in 1 .. Len(sent) :
          sent[i].frame < frame' /\ \A j \in 1 .. Len(queue') : sent[i].frame < queue'[j]
    BY <2>2, <2>3, <2>4
  <2>6. \A i, j \in 1 .. Len(queue) : i < j => queue[i] < queue[j]
    OBVIOUS
  <2>7. ASSUME NEW i \in 1 .. Len(queue'), NEW j \in 1 .. Len(queue'), i < j
        PROVE  queue'[i] < queue'[j]
    <3>1. i + 1 \in 1 .. Len(queue) /\ j + 1 \in 1 .. Len(queue) /\ i + 1 < j + 1
      BY <2>2, <2>3, <2>7
    <3> QED
      BY <2>2, <2>6, <3>1
  <2>8. ASSUME NEW j \in 1 .. Len(queue')
        PROVE  frame' < queue'[j]
    <3>1. j + 1 \in 1 .. Len(queue) /\ 1 < j + 1
      BY <2>2, <2>3
    <3> QED
      BY <2>2, <2>4, <2>6, <3>1
  <2> QED
    BY <2>1, <2>5, <2>7, <2>8
<1>7. CASE Send
  <2>1. /\ sender = "send" /\ sender' = "lock" /\ queue' = queue
        /\ sent' = Append(sent, [client |-> Len(since), frame |-> frame])
    BY <1>7 DEF Send
  <2>2. /\ Len(sent) \in Nat /\ Len(sent') = Len(sent) + 1
        /\ sent'[Len(sent')].frame = frame
        /\ \A i \in 1 .. Len(sent) : sent'[i] = sent[i]
    BY <2>1, Numbers
  <2>3. \A i \in 1 .. Len(sent') : i \in 1 .. Len(sent) \/ i = Len(sent')
    BY <2>2
  <2>4. \A i, j \in 1 .. Len(sent') : i < j => i \in 1 .. Len(sent)
    BY <2>2
  <2>5. \A i, j \in 1 .. Len(sent') : i < j => sent'[i].frame < sent'[j].frame
    BY <2>1, <2>2, <2>3, <2>4
  <2>6. \A i \in 1 .. Len(sent') : \A j \in 1 .. Len(queue) : sent'[i].frame < queue[j]
    BY <2>1, <2>2, <2>3
  <2> QED
    BY <2>1, <2>5, <2>6
<1>8. CASE UNCHANGED vars
  BY <1>8 DEF vars
<1> QED
  BY <1>1, <1>2, <1>3, <1>4, <1>5, <1>6, <1>7, <1>8 DEF Next, Publisher, Sender

-----------------------------------------------------------------------------
(***************************************************************************)
(* The theorems.                                                           *)
(***************************************************************************)
\* The invariant from which the properties follow.
THEOREM StreamInvariant == Spec => []Inv
<1>1. Inv /\ [Next]_vars => Inv'
  BY TypeStep, FlagStep, LeftOverStep, KnownStep, OrderStep DEF Inv
<1> QED
  BY InitInv, <1>1, PTL DEF Spec

\* Types; the queue never holds more than its limit, however slow the client.
THEOREM TypeCorrect == Spec => []TypeOK
<1>1. Inv => TypeOK
  BY DEF Inv
<1> QED
  BY <1>1, StreamInvariant, PTL

\* Frames are sent in the order of publication and none twice, over drops,
\* failed sends and new clients.
THEOREM InOrder == Spec => []FramesInOrder
<1>1. Inv => FramesInOrder
  BY DEF Inv
<1> QED
  BY <1>1, StreamInvariant, PTL

\* Between two clients one frame at most is held back, whatever publish() had
\* read before the flag was reset.
THEOREM OneHeldBack == Spec => []OneLeftOver
<1>1. Inv => OneLeftOver
  BY DEF Inv
<1> QED
  BY <1>1, StreamInvariant, PTL

-----------------------------------------------------------------------------
(***************************************************************************)
(* What the frame that is held back means for a client.  FreshStream does  *)
(* not hold, but of the frames that a client receives only the first can   *)
(* have been published before it was accepted.                             *)
(***************************************************************************)
OneStaleFrame ==
  \A i, j \in 1 .. Len(sent) :
    i < j /\ sent[i].client = sent[j].client => sent[j].frame > since[sent[j].client]

\* Frame n was published after the present client was accepted.
Fresh(n) == n > since[Len(since)]

Begun == \E i \in 1 .. Len(sent) : sent[i].client = Len(since)

\* While a client is served only the oldest frame on its way can be stale.
StaleFirst ==
  sender \in Serving =>
    /\ Begun /\ sender = "send" => Fresh(frame)
    /\ \A j \in 1 .. Len(queue) : j > 1 \/ Begun \/ sender = "send" => Fresh(queue[j])
    /\ caller = "push" /\ (queue # <<>> \/ Begun \/ sender = "send") => Fresh(published)

ClientsKnown ==
  /\ \A i \in 1 .. Len(sent) : sent[i].client <= Len(since)
  /\ \A c \in 1 .. Len(since) : since[c] <= published

StaleInv == OneStaleFrame /\ StaleFirst /\ ClientsKnown

\* The clients of the frames sent, and what they found published.
LEMMA Clients ==
  ASSUME TypeOK
  PROVE  /\ \A i \in 1 .. Len(sent) : sent[i].client \in Nat /\ sent[i].client > 0
         /\ \A c \in 1 .. Len(since) : since[c] \in Nat
         /\ Len(since) \in Nat
<1>1. \A i \in 1 .. Len(sent) : sent[i] \in [client : 1 .. MaxClients, frame : 1 .. MaxFrames]
  BY ElementOfSeq DEF TypeOK
<1>2. \A i \in 1 .. Len(sent) : sent[i].client \in 1 .. MaxClients
  BY <1>1
<1>3. \A c \in 1 .. Len(since) : since[c] \in 0 .. MaxFrames
  BY ElementOfSeq DEF TypeOK
<1> QED
  BY <1>2, <1>3, StreamAssumption DEF TypeOK

\* Every step preserves what is known of the clients.
LEMMA ClientsStep == Inv /\ ClientsKnown /\ [Next]_vars => ClientsKnown'
<1> SUFFICES ASSUME Inv, ClientsKnown, [Next]_vars PROVE ClientsKnown'
  OBVIOUS
<1> USE DEF Inv
<1>1. CASE PublishNothing \/ PublishBegin
  <2>1. published' = published + 1 /\ UNCHANGED <<since, sent>>
    BY <1>1 DEF PublishNothing, PublishBegin
  <2> QED
    BY <2>1, Numbers, Clients DEF ClientsKnown
<1>2. CASE Accept
  <2>1. since' = Append(since, published) /\ UNCHANGED <<published, sent>>
    BY <1>2 DEF Accept
  <2>2. /\ Len(since') = Len(since) + 1 /\ since'[Len(since')] = published
        /\ \A c \in 1 .. Len(since) : since'[c] = since[c]
    BY <2>1 DEF TypeOK
  <2>3. \A c \in 1 .. Len(since') : c \in 1 .. Len(since) \/ c = Len(since')
    BY <2>2, Clients
  <2>4. \A c \in 1 .. Len(since') : since'[c] <= published
    BY <2>2, <2>3, Numbers, Clients DEF ClientsKnown
  <2>5. \A i \in 1 .. Len(sent) : sent[i].client <= Len(since')
    BY <2>2, Clients DEF ClientsKnown
  <2> QED
    BY <2>1, <2>4, <2>5 DEF ClientsKnown
<1>3. CASE Send
  <2>1. /\ sent' = Append(sent, [client |-> Len(since), frame |-> frame])
        /\ UNCHANGED <<since, published>>
    BY <1>3 DEF Send
  <2>2. /\ Len(sent') = Len(sent) + 1 /\ sent'[Len(sent')].client = Len(since)
        /\ \A i \in 1 .. Len(sent) : sent'[i] = sent[i]
    BY <2>1 DEF TypeOK
  <2>3. \A i \in 1 .. Len(sent') : i \in 1 .. Len(sent) \/ i = Len(sent')
    BY <2>2, Numbers
  <2> QED
    BY <2>1, <2>2, <2>3, Clients DEF ClientsKnown
<1>4. CASE UNCHANGED <<since, sent, published>>
  BY <1>4 DEF ClientsKnown
<1> QED
  BY <1>1, <1>2, <1>3, <1>4, Zenon DEF Next, Publisher, Sender, vars, Push, NotifyPushed,
     RequestStop, NotifyStop, Join, Listen, Leave, Wait, WaitOver, Take, SendFails, ClearQueue

\* Steps that leave what has been sent, and to whom, alone.
LEMMA BegunSame ==
  ASSUME UNCHANGED <<since, sent>>
  PROVE  /\ Begun' <=> Begun
         /\ \A n : Fresh(n)' <=> Fresh(n)
         /\ OneStaleFrame' <=> OneStaleFrame
  BY DEF Begun, Fresh, OneStaleFrame

\* Every step preserves StaleFirst.
LEMMA StaleStep == Inv /\ StaleInv /\ [Next]_vars => StaleFirst'
<1> SUFFICES ASSUME Inv, StaleInv, [Next]_vars, sender' \in Serving
             PROVE  /\ Begun' /\ sender' = "send" => Fresh(frame)'
                    /\ \A j \in 1 .. Len(queue') :
                         j > 1 \/ Begun' \/ sender' = "send" => Fresh(queue[j])'
                    /\ caller' = "push" /\ (queue' # <<>> \/ Begun' \/ sender' = "send")
                         => Fresh(published)'
  BY Zenon DEF StaleFirst
<1> USE DEF Inv, StaleInv
<1>1. CASE PublishNothing
  <2>1. ~connected /\ UNCHANGED sender
    BY <1>1 DEF PublishNothing
  <2> QED
    BY <2>1 DEF FlagAgrees
<1>2. CASE PublishBegin
  <2>1. /\ published' = published + 1 /\ sender \in Serving
        /\ UNCHANGED <<queue, sender, frame, since, sent>>
    BY <1>2 DEF PublishBegin
  <2>2. Len(since) \in 1 .. Len(since)
    BY <2>1, Clients DEF FlagAgrees
  <2>3. since[Len(since)] \in Nat /\ since[Len(since)] <= published
    BY <2>2, Clients DEF ClientsKnown
  <2>4. Fresh(published)'
    BY <2>1, <2>3, Numbers DEF Fresh
  <2> QED
    BY <2>1, <2>4, BegunSame DEF StaleFirst, Fresh
<1>3. CASE Push
  <2>1. /\ queue' = Append(RoomMade, published) /\ caller = "push" /\ caller' = "notify"
        /\ sender \in Serving
        /\ UNCHANGED <<sender, frame, since, sent, published>>
    BY <1>3 DEF Push
  <2>2. PICK d \in Nat : \A j \in 1 .. Len(RoomMade) :
                           j + d \in 1 .. Len(queue) /\ RoomMade[j] = queue[j + d]
    BY RoomMadeKeeps DEF TypeOK
  <2>3. RoomMade \in Seq(1 .. MaxFrames) /\ Len(RoomMade) <= Len(queue)
    BY RoomMadeKeeps DEF TypeOK
  <2>4. ASSUME NEW j \in 1 .. Len(queue'), j > 1 \/ Begun \/ sender = "send"
        PROVE  Fresh(queue'[j])
    <3>1. Len(RoomMade) \in Nat /\ Len(queue') = Len(RoomMade) + 1
      BY <2>1, <2>3
    <3>2. CASE j = Len(queue')
      <4>1. queue'[j] = published
        BY <2>1, <2>3, <3>1, <3>2
      <4>2. j > 1 => queue # <<>>
        BY <2>3, <3>1, <3>2
      <4> QED
        BY <2>1, <2>4, <4>1, <4>2 DEF StaleFirst
    <3>3. CASE j # Len(queue')
      <4>1. j \in 1 .. Len(RoomMade) /\ queue'[j] = RoomMade[j]
        BY <2>1, <2>3, <3>1, <3>3
      <4>2. j + d \in 1 .. Len(queue) /\ RoomMade[j] = queue[j + d] /\ (j > 1 => j + d > 1)
        BY <2>2, <3>1, <4>1
      <4> QED
        BY <2>1, <2>4, <4>1, <4>2 DEF StaleFirst
    <3> QED
      BY <3>2, <3>3
  <2> QED
    BY <2>1, <2>4, BegunSame DEF StaleFirst, Fresh
<1>4. CASE Accept
  <2>1. /\ sender = "accept" /\ sender' = "lock"
        /\ since' = Append(since, published) /\ UNCHANGED <<queue, caller, sent>>
    BY <1>4 DEF Accept
  <2>2. Len(since') = Len(since) + 1
    BY <2>1 DEF TypeOK
  <2>3. ~Begun'
    BY <2>1, <2>2, Clients DEF Begun, ClientsKnown
  <2>4. Len(queue) + UnderWay <= 1
    BY <2>1 DEF OneLeftOver
  <2>5. \A j \in 1 .. Len(queue) : ~ (j > 1)
    BY <2>4, Numbers DEF UnderWay
  <2>6. caller = "push" => queue = <<>>
    BY <2>4, Numbers DEF UnderWay, TypeOK
  <2> QED
    BY <2>1, <2>3, <2>5, <2>6
<1>5. CASE Take
  <2>1. /\ sender = "lock" /\ sender' = "send"
        /\ queue # <<>> /\ frame' = Head(queue) /\ queue' = Tail(queue)
        /\ UNCHANGED <<caller, published, since, sent>>
    BY <1>5 DEF Take, HasFrame, FrontFrame
  <2>2. /\ Len(queue) \in Nat /\ Len(queue) >= 1 /\ Len(queue') = Len(queue) - 1
        /\ frame' = queue[1]
        /\ \A j \in 1 .. Len(queue') : queue'[j] = queue[j + 1]
    BY <2>1 DEF TypeOK
  <2>3. \A j \in 1 .. Len(queue') : j + 1 \in 1 .. Len(queue) /\ j + 1 > 1
    BY <2>2
  <2>4. 1 \in 1 .. Len(queue) /\ sender \in Serving
    BY <2>1, <2>2 DEF Serving
  <2>5. Begun => Fresh(frame')
    BY <2>2, <2>4 DEF StaleFirst
  <2>6. \A j \in 1 .. Len(queue') : Fresh(queue'[j])
    BY <2>2, <2>3, <2>4 DEF StaleFirst
  <2>7. caller = "push" => Fresh(published)
    BY <2>1, <2>4 DEF StaleFirst
  <2> QED
    BY <2>1, <2>5, <2>6, <2>7, BegunSame DEF Fresh
<1>6. CASE Send
  <2>1. sender = "send" /\ sender' = "lock" /\ UNCHANGED <<queue, caller, published, since>>
    BY <1>6 DEF Send
  <2>2. /\ \A j \in 1 .. Len(queue) : Fresh(queue[j])
        /\ caller = "push" => Fresh(published)
    BY <2>1 DEF StaleFirst, Serving
  <2> QED
    BY <2>1, <2>2 DEF Fresh
<1>7. CASE /\ UNCHANGED <<queue, frame, caller, published, since, sent>>
           /\ sender \in Serving
           /\ sender' # "send" \/ sender = "send"
  BY <1>7, BegunSame DEF StaleFirst, Fresh
<1>8. CASE UNCHANGED <<queue, frame, published, since, sent, sender>> /\ caller' # "push"
  BY <1>8, BegunSame DEF StaleFirst, Fresh
<1> QED
  <2>1. CASE NotifyPushed \/ RequestStop \/ NotifyStop \/ Join
    <3>1. UNCHANGED <<queue, frame, published, since, sent>> /\ caller' # "push"
      BY <2>1 DEF NotifyPushed, RequestStop, NotifyStop, Join
    <3>2. sender' = sender \/ (sender = "waiting" /\ sender' = "lock")
      BY <2>1 DEF NotifyPushed, RequestStop, NotifyStop, Join, Woken
    <3>3. CASE sender = "waiting" /\ sender' = "lock"
      BY <3>1, <3>3, BegunSame DEF StaleFirst, Fresh, Serving
    <3> QED
      BY <1>8, <3>1, <3>2, <3>3
  <2>2. CASE Wait \/ WaitOver \/ UNCHANGED vars
    BY <1>7, <2>2 DEF Wait, WaitOver, vars, Serving
  <2>3. CASE Listen \/ Leave \/ SendFails \/ ClearQueue
    BY <2>3 DEF Listen, Leave, SendFails, ClearQueue, Serving
  <2> QED
    BY <1>1, <1>2, <1>3, <1>4, <1>5, <1>6, <2>1, <2>2, <2>3 DEF Next, Publisher, Sender

\* Every step preserves OneStaleFrame.
LEMMA OneStaleStep == Inv /\ StaleInv /\ [Next]_vars => OneStaleFrame'
<1> SUFFICES ASSUME Inv, StaleInv, [Next]_vars PROVE OneStaleFrame'
  OBVIOUS
<1> USE DEF Inv, StaleInv
<1>1. CASE Accept
  <2>1. since' = Append(since, published) /\ sent' = sent
    BY <1>1 DEF Accept
  <2>2. \A c \in 1 .. Len(since) : since'[c] = since[c]
    BY <2>1 DEF TypeOK
  <2>3. \A i \in 1 .. Len(sent) : sent[i].client \in 1 .. Len(since)
    BY Clients DEF ClientsKnown
  <2> QED
    BY <2>1, <2>2, <2>3 DEF OneStaleFrame
<1>2. CASE Send
  <2>1. /\ sender = "send" /\ since' = since
        /\ sent' = Append(sent, [client |-> Len(since), frame |-> frame])
    BY <1>2 DEF Send
  <2>2. /\ Len(sent) \in Nat /\ Len(sent') = Len(sent) + 1
        /\ sent'[Len(sent')].client = Len(since) /\ sent'[Len(sent')].frame = frame
        /\ \A i \in 1 .. Len(sent) : sent'[i] = sent[i]
    BY <2>1, Numbers DEF TypeOK
  <2>3. SUFFICES ASSUME NEW i \in 1 .. Len(sent'), NEW j \in 1 .. Len(sent'), i < j,
                        sent'[i].client = sent'[j].client
                 PROVE  sent'[j].frame > since[sent'[j].client]
    BY <2>1 DEF OneStaleFrame
  <2>4. i \in 1 .. Len(sent)
    BY <2>2, <2>3
  <2>5. CASE j = Len(sent')
    <3>1. Begun
      BY <2>2, <2>3, <2>4, <2>5 DEF Begun
    <3>2. Fresh(frame)
      BY <2>1, <3>1 DEF StaleFirst, Serving
    <3> QED
      BY <2>2, <2>5, <3>2 DEF Fresh
  <2>6. CASE j # Len(sent')
    <3>1. j \in 1 .. Len(sent)
      BY <2>2, <2>6
    <3> QED
      BY <2>2, <2>3, <2>4, <3>1 DEF OneStaleFrame
  <2> QED
    BY <2>5, <2>6
<1>3. CASE UNCHANGED <<since, sent>>
  BY <1>3, BegunSame
<1> QED
  BY <1>1, <1>2, <1>3, Zenon DEF Next, Publisher, Sender, vars, PublishNothing, PublishBegin, Push,
     NotifyPushed, RequestStop, NotifyStop, Join, Listen, Leave, Wait, WaitOver, Take, SendFails,
     ClearQueue

\* Of the frames sent to one client only the first can have been published
\* before it was accepted: that is all that is left of FreshStream.
THEOREM OneStale == Spec => []OneStaleFrame
<1>1. Init => StaleInv
  BY DEF Init, StaleInv, OneStaleFrame, StaleFirst, ClientsKnown, Serving
<1>2. Inv /\ StaleInv /\ [Next]_vars => StaleInv'
  BY ClientsStep, StaleStep, OneStaleStep DEF StaleInv
<1>3. StaleInv => OneStaleFrame
  BY DEF StaleInv
<1> QED
  BY <1>1, <1>2, <1>3, StreamInvariant, PTL DEF Spec
=============================================================================
