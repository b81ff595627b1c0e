------------------------- MODULE Acquisition_proofs -------------------------
(***************************************************************************)
(* Proofs about the recorder queue and the acquisition thread that feeds   *)
(* it, for every duration, capacity and number of frames.  Of the queue:   *)
(* nothing is lost, no wakeup is lost, and it implements FrameQueue.  Of   *)
(* the thread: it uses the recorder as AsyncPsdRecorder expects, so that   *)
(* what is proved of the queue holds here, and its end is complete.        *)
(***************************************************************************)
EXTENDS Acquisition, SequenceTheorems, TLAPS

-----------------------------------------------------------------------------
(***************************************************************************)
(* The recorder queue: theorems about Spec of AsyncPsdRecorder.            *)
(***************************************************************************)

(***************************************************************************)
(* The inductive invariant adds to the properties how the positions hang   *)
(* together, and which states the two threads can be in together.          *)
(***************************************************************************)
PositionsAgree ==
  /\ writePos = At(count)
  /\ count <= accepted
  /\ accepted <= MaxFrames

ThreadsAgree ==
  /\ stop <=> caller \in {"notifyStop", "join", "joined"}
  /\ error => worker = "ended"
  /\ worker = "ended" => error \/ (stop /\ count = 0)
  /\ worker \in {"consume", "release", "catch"} => count > 0

Inv == TypeOK /\ NothingLost /\ WakeupComing /\ PositionsAgree /\ ThreadsAgree

-----------------------------------------------------------------------------
(***************************************************************************)
(* Positions in the ring.                                                  *)
(***************************************************************************)
\* Distinct distances from the read position are distinct slots.
LEMMA DistinctSlots ==
  ASSUME readPos \in Slots, NEW i \in 0 .. Capacity - 1,
         NEW j \in 0 .. Capacity - 1, i # j
  PROVE  At(i) \in Slots /\ At(i) # At(j)
  BY QueueAssumption DEF At, Slots

\* The next slot after one that is i places on is i + 1 places on.
LEMMA NextSlot ==
  ASSUME readPos \in Slots, NEW i \in 0 .. Capacity - 1
  PROVE  /\ Advanced(At(i)) = At(i + 1)
         /\ At(i) \in Slots
         /\ Advanced(At(i)) \in Slots
         /\ At(0) = readPos
  BY QueueAssumption DEF At, Advanced, Slots

\* Once the read position has moved on, every slot is one place nearer.
LEMMA ReadAdvances ==
  ASSUME readPos \in Slots, readPos' = Advanced(readPos),
         NEW i \in 0 .. Capacity - 1
  PROVE  At(i)' = At(i + 1)
  BY QueueAssumption DEF At, Advanced, Slots

\* One more element at the end of a sequence.
LEMMA Appended ==
  ASSUME NEW S, NEW q \in Seq(S), NEW x \in S
  PROVE  /\ Append(q, x) \in Seq(S)
         /\ Len(Append(q, x)) = Len(q) + 1
         /\ \A i \in 1 .. Len(q) : Append(q, x)[i] = q[i]
         /\ Append(q, x)[Len(q) + 1] = x
  OBVIOUS

-----------------------------------------------------------------------------
\* The invariant holds at the start.
LEMMA InvInit == Init => Inv
<1> SUFFICES ASSUME Init PROVE Inv
  OBVIOUS
<1>1. TypeOK
  <2>1. slots \in [Slots -> Nat] /\ 0 \in Slots /\ 0 \in 0 .. Capacity
    BY QueueAssumption DEF Init, Slots, NoFrame
  <2>2. consumed \in Seq(Nat)
    BY DEF Init
  <2> QED
    BY <2>1, <2>2 DEF Init, TypeOK, NoFrame
<1>2. NothingLost
  BY QueueAssumption DEF Init, NothingLost, HeadConsumed
<1>3. PositionsAgree
  BY QueueAssumption DEF Init, PositionsAgree, At
<1>4. WakeupComing /\ ThreadsAgree
  BY DEF Init, WakeupComing, ThreadsAgree
<1> QED
  BY <1>1, <1>2, <1>3, <1>4 DEF Inv

\* enqueue() fills the first free slot.
LEMMA EnqueueInv == Inv /\ Enqueue => Inv'
<1> SUFFICES ASSUME Inv, Enqueue PROVE Inv'
  OBVIOUS
<1>1. /\ count \in 0 .. Capacity - 1
      /\ readPos \in Slots
      /\ accepted \in Nat
      /\ accepted < MaxFrames
      /\ writePos = At(count)
      /\ slots \in [Slots -> Nat]
      /\ count <= accepted
  BY QueueAssumption DEF Inv, TypeOK, Enqueue, Full, PositionsAgree
<1>2. /\ count' = count + 1
      /\ accepted' = accepted + 1
      /\ slots' = [slots EXCEPT ![writePos] = accepted + 1]
      /\ writePos' = Advanced(writePos)
      /\ UNCHANGED <<readPos, stop, error, finished, worker, frame, consumed>>
      /\ caller = "running"
      /\ caller' = "notify"
      /\ ~error /\ ~stop
  BY DEF Enqueue
<1>3. /\ At(count) \in Slots
      /\ Advanced(At(count)) = At(count + 1)
      /\ Advanced(At(count)) \in Slots
      /\ At(0) = readPos
  BY <1>1, NextSlot
<1>4. TypeOK'
  <2>1. /\ slots' \in [Slots -> Nat]
        /\ count' \in 0 .. Capacity
        /\ accepted' \in Nat
        /\ writePos' \in Slots
    BY <1>1, <1>2, <1>3, QueueAssumption
  <2> QED
    BY <1>1, <1>2, <2>1 DEF Inv, TypeOK
<1>5. PositionsAgree'
  BY <1>1, <1>2, <1>3, QueueAssumption DEF PositionsAgree, At
<1>6. \A i \in 0 .. count - 1 : slots'[At(i)] = slots[At(i)]
  <2> SUFFICES ASSUME NEW i \in 0 .. count - 1
               PROVE  slots'[At(i)] = slots[At(i)]
    OBVIOUS
  <2>1. At(i) # At(count) /\ At(i) \in Slots
    BY <1>1, QueueAssumption, DistinctSlots
  <2> QED
    BY <1>1, <1>2, <2>1
<1>7. slots'[At(count)] = accepted + 1
  BY <1>1, <1>2, <1>3
<1>8. \A i \in 0 .. count' - 1 : slots'[At(i)'] = accepted' - count' + i + 1
  <2> SUFFICES ASSUME NEW i \in 0 .. count
               PROVE  slots'[At(i)] = accepted - count + i + 1
    BY <1>1, <1>2 DEF At
  <2>1. CASE i = count
    BY <1>1, <1>7, <2>1
  <2>2. CASE i \in 0 .. count - 1
    BY <1>6, <2>2 DEF Inv, NothingLost
  <2> QED
    BY <1>1, <2>1, <2>2
<1>9. worker \in {"consume", "release", "catch"} =>
        count > 0 /\ frame = slots[readPos] /\ slots'[readPos] = slots[readPos]
  <2> SUFFICES ASSUME worker \in {"consume", "release", "catch"}
               PROVE  count > 0 /\ frame = slots[readPos]
                      /\ slots'[readPos] = slots[readPos]
    OBVIOUS
  <2>1. count > 0 /\ frame = slots[readPos]
    BY DEF Inv, NothingLost
  <2>2. 0 \in 0 .. count - 1
    BY <1>1, <2>1
  <2>3. slots'[At(0)] = slots[At(0)]
    BY <1>6, <2>2
  <2> QED
    BY <1>3, <2>1, <2>3
<1>10. NothingLost'
  <2>1. Len(consumed') = accepted' - count' + HeadConsumed'
    <3>1. Len(consumed) = accepted - count + HeadConsumed
      BY DEF Inv, NothingLost
    <3>2. /\ HeadConsumed' = HeadConsumed /\ HeadConsumed \in Nat
          /\ Len(consumed') = Len(consumed)
      BY <1>2 DEF HeadConsumed
    <3>3. accepted' - count' = accepted - count
      BY <1>1, <1>2
    <3> QED
      BY <3>1, <3>2, <3>3
  <2>2. \A i \in 1 .. Len(consumed') : consumed'[i] = i
    BY <1>2 DEF Inv, NothingLost
  <2>3. worker' \in {"consume", "release", "catch"} =>
          count' > 0 /\ frame' = slots'[readPos']
    BY <1>1, <1>2, <1>9
  <2> QED
    BY <1>8, <2>1, <2>2, <2>3 DEF NothingLost
<1>11. WakeupComing' /\ ThreadsAgree'
  BY <1>1, <1>2 DEF Inv, WakeupComing, ThreadsAgree
<1> QED
  BY <1>4, <1>5, <1>10, <1>11 DEF Inv

\* The worker's release gives back the slot of the consumed frame.
LEMMA ReleaseInv == Inv /\ Release => Inv'
<1> SUFFICES ASSUME Inv, Release PROVE Inv'
  OBVIOUS
<1>1. /\ count \in 1 .. Capacity
      /\ readPos \in Slots
      /\ accepted \in Nat
      /\ count <= accepted
      /\ writePos = At(count)
      /\ slots \in [Slots -> Nat]
      /\ worker = "release"
      /\ Len(consumed) = accepted - count + 1
      /\ \A i \in 0 .. count - 1 : slots[At(i)] = accepted - count + i + 1
  BY DEF Inv, TypeOK, NothingLost, ThreadsAgree, Release, HeadConsumed,
     PositionsAgree
<1>2. /\ slots' = [slots EXCEPT ![readPos] = NoFrame]
      /\ readPos' = Advanced(readPos)
      /\ count' = count - 1
      /\ frame' = NoFrame
      /\ worker' = "lock"
      /\ UNCHANGED <<writePos, stop, error, finished, caller, accepted, consumed>>
  BY DEF Release
<1>3. At(0) = readPos /\ Advanced(readPos) \in Slots
  BY <1>1, QueueAssumption, NextSlot
<1>4. \A i \in 0 .. Capacity - 1 : At(i)' = At(i + 1)
  BY <1>1, <1>2, ReadAdvances
<1>5. TypeOK'
  BY <1>1, <1>2, <1>3, QueueAssumption DEF Inv, TypeOK, NoFrame
<1>6. PositionsAgree'
  <2>1. writePos' = (At(count))'
    BY <1>1, <1>2, QueueAssumption DEF At, Advanced, Slots
  <2> QED
    BY <1>1, <1>2, <2>1 DEF Inv, PositionsAgree
<1>7. \A i \in 0 .. count' - 1 : slots'[At(i)'] = accepted' - count' + i + 1
  <2> SUFFICES ASSUME NEW i \in 0 .. count - 2
               PROVE  slots'[At(i)'] = accepted - (count - 1) + i + 1
    BY <1>1, <1>2
  <2>1. /\ i \in 0 .. Capacity - 1
        /\ i + 1 \in 0 .. Capacity - 1
        /\ 0 \in 0 .. Capacity - 1
        /\ i + 1 \in 0 .. count - 1
        /\ i + 1 # 0
    BY <1>1, QueueAssumption
  <2>2. At(i)' = At(i + 1) /\ At(i + 1) # At(0) /\ At(i + 1) \in Slots
    BY <1>1, <1>4, <2>1, DistinctSlots
  <2>3. slots'[At(i + 1)] = slots[At(i + 1)]
    BY <1>1, <1>2, <1>3, <2>2
  <2>4. slots[At(i + 1)] = accepted - count + (i + 1) + 1
    BY <1>1, <2>1
  <2> QED
    BY <1>1, <2>1, <2>2, <2>3, <2>4
<1>8. NothingLost'
  <2>1. Len(consumed') = accepted' - count' + HeadConsumed'
    BY <1>1, <1>2 DEF HeadConsumed
  <2>2. \A i \in 1 .. Len(consumed') : consumed'[i] = i
    BY <1>2 DEF Inv, NothingLost
  <2> QED
    BY <1>2, <1>7, <2>1, <2>2 DEF NothingLost
<1>9. WakeupComing' /\ ThreadsAgree'
  BY <1>1, <1>2 DEF Inv, WakeupComing, ThreadsAgree
<1> QED
  BY <1>5, <1>6, <1>8, <1>9 DEF Inv

\* consume() takes the frame at the head, which is the next in order.
LEMMA ConsumeInv == Inv /\ Consume => Inv'
<1> SUFFICES ASSUME Inv, Consume PROVE Inv'
  OBVIOUS
<1>1. /\ count \in 1 .. Capacity
      /\ accepted \in Nat
      /\ worker = "consume"
      /\ frame \in Nat
      /\ consumed \in Seq(Nat)
      /\ Len(consumed) = accepted - count
      /\ \A i \in 1 .. Len(consumed) : consumed[i] = i
      /\ frame = slots[readPos]
      /\ readPos \in Slots
      /\ \A i \in 0 .. count - 1 : slots[At(i)] = accepted - count + i + 1
  BY DEF Inv, TypeOK, NothingLost, ThreadsAgree, Consume, HeadConsumed
<1>2. /\ consumed' = Append(consumed, frame)
      /\ finished' \in BOOLEAN
      /\ worker' = "release"
      /\ UNCHANGED <<slots, readPos, writePos, count, stop, error, frame, caller,
                     accepted>>
  BY DEF Consume, Inv, TypeOK
<1>3. frame = Len(consumed) + 1
  <2>1. 0 \in 0 .. count - 1 /\ 0 \in 0 .. Capacity - 1
    BY <1>1, QueueAssumption
  <2>2. slots[At(0)] = accepted - count + 0 + 1
    BY <1>1, <2>1
  <2>3. At(0) = readPos
    BY <1>1, <2>1, NextSlot
  <2> QED
    BY <1>1, <2>2, <2>3
<1>4. /\ consumed' \in Seq(Nat)
      /\ Len(consumed') = Len(consumed) + 1
      /\ \A i \in 1 .. Len(consumed) : consumed'[i] = consumed[i]
      /\ consumed'[Len(consumed) + 1] = frame
  <2>1. consumed \in Seq(Nat) /\ frame \in Nat
    BY <1>1
  <2> DEFINE longer == Append(consumed, frame)
  <2>2. /\ longer \in Seq(Nat)
        /\ Len(longer) = Len(consumed) + 1
        /\ \A i \in 1 .. Len(consumed) : longer[i] = consumed[i]
        /\ longer[Len(consumed) + 1] = frame
    BY <2>1, Appended
  <2>3. consumed' = longer
    BY <1>2
  <2> HIDE DEF longer
  <2> QED
    BY <2>2, <2>3
<1>5. TypeOK'
  BY <1>2, <1>4 DEF Inv, TypeOK
<1>6. NothingLost'
  <2>1. \A i \in 1 .. Len(consumed') : i \in 1 .. Len(consumed)
                                       \/ i = Len(consumed) + 1
    BY <1>1, <1>4
  <2>2. \A i \in 1 .. Len(consumed') : consumed'[i] = i
    BY <1>1, <1>3, <1>4, <2>1
  <2>3. Len(consumed') = accepted' - count' + HeadConsumed'
    BY <1>1, <1>2, <1>4 DEF HeadConsumed
  <2>4. \A i \in 0 .. count' - 1 : slots'[At(i)'] = accepted' - count' + i + 1
    BY <1>1, <1>2 DEF At
  <2> QED
    BY <1>1, <1>2, <2>2, <2>3, <2>4 DEF NothingLost
<1>7. PositionsAgree' /\ WakeupComing' /\ ThreadsAgree'
  BY <1>1, <1>2 DEF Inv, PositionsAgree, At, WakeupComing, ThreadsAgree
<1> QED
  BY <1>5, <1>6, <1>7 DEF Inv

\* The worker copies the frame at the head.
LEMMA TakeInv == Inv /\ Take => Inv'
<1> SUFFICES ASSUME Inv, Take PROVE Inv'
  OBVIOUS
<1>1. /\ frame' = slots[readPos]
      /\ worker = "lock"
      /\ worker' = "consume"
      /\ count # 0
      /\ count \in 0 .. Capacity
      /\ slots[readPos] \in Nat
      /\ UNCHANGED <<slots, readPos, writePos, count, stop, error, finished,
                     caller, accepted, consumed>>
  BY DEF Take, Inv, TypeOK
<1>2. TypeOK'
  BY <1>1 DEF Inv, TypeOK
<1>3. NothingLost'
  BY <1>1, QueueAssumption DEF Inv, NothingLost, HeadConsumed, At
<1>4. PositionsAgree' /\ WakeupComing' /\ ThreadsAgree'
  BY <1>1, QueueAssumption
     DEF Inv, PositionsAgree, At, WakeupComing, ThreadsAgree
<1> QED
  BY <1>2, <1>3, <1>4 DEF Inv

\* The steps that leave the ring and the frames alone.
LEMMA OtherInv ==
  ASSUME Inv,
         \/ NotifyEnqueued \/ EnqueueRefused \/ RequestStop \/ NotifyStop \/ Join
         \/ Wait \/ SpuriousWakeup \/ Exit \/ ConsumeThrows \/ SetError
         \/ UNCHANGED vars
  PROVE  Inv'
<1>1. /\ UNCHANGED <<slots, readPos, writePos, count, finished, accepted, consumed>>
      /\ worker' = "release" <=> worker = "release"
      /\ frame' = frame \/ (frame' = NoFrame /\ worker' = "ended")
  BY DEF NotifyEnqueued, EnqueueRefused, RequestStop, NotifyStop, Join, Wait,
     SpuriousWakeup, Exit, ConsumeThrows, SetError, vars, Woken
<1>2. TypeOK'
  <2>1. /\ frame \in Nat /\ NoFrame \in Nat
        /\ stop \in BOOLEAN
        /\ error \in BOOLEAN
        /\ worker \in {"lock", "waiting", "consume", "release", "catch", "ended"}
        /\ caller \in {"running", "notify", "refused", "notifyStop", "join",
                       "joined"}
    BY DEF Inv, TypeOK, NoFrame
  <2>2. /\ frame' \in Nat
        /\ stop' \in BOOLEAN
        /\ error' \in BOOLEAN
    BY <1>1, <2>1 DEF NotifyEnqueued, EnqueueRefused, RequestStop, NotifyStop,
       Join, Wait, SpuriousWakeup, Exit, ConsumeThrows, SetError, vars
  <2>3. /\ worker' \in {"lock", "waiting", "consume", "release", "catch", "ended"}
        /\ caller' \in {"running", "notify", "refused", "notifyStop", "join",
                        "joined"}
    BY <2>1 DEF NotifyEnqueued, EnqueueRefused, RequestStop, NotifyStop, Join,
       Wait, SpuriousWakeup, Exit, ConsumeThrows, SetError, vars, Woken
  <2> QED
    BY <1>1, <2>2, <2>3 DEF Inv, TypeOK
<1>3. ThreadsAgree'
  BY <1>1 DEF Inv, TypeOK, ThreadsAgree, NotifyEnqueued, EnqueueRefused,
     RequestStop, NotifyStop, Join, Wait, SpuriousWakeup, Exit, ConsumeThrows,
     SetError, vars, Woken, NothingToDo, Drained
<1>4. WakeupComing'
  BY <1>1 DEF Inv, TypeOK, ThreadsAgree, WakeupComing, NotifyEnqueued,
     EnqueueRefused, RequestStop, NotifyStop, Join, Wait, SpuriousWakeup, Exit,
     ConsumeThrows, SetError, vars, Woken, NothingToDo, Drained
<1>5. PositionsAgree'
  BY <1>1 DEF Inv, PositionsAgree, At
<1>6. worker' \in {"consume", "release", "catch"} =>
        worker \in {"consume", "release", "catch"} /\ frame' = frame
  BY <1>1 DEF Inv, NotifyEnqueued, EnqueueRefused, RequestStop, NotifyStop, Join,
     Wait, SpuriousWakeup, Exit, ConsumeThrows, SetError, vars, Woken
<1>7. NothingLost'
  BY <1>1, <1>6 DEF Inv, NothingLost, HeadConsumed, At
<1> QED
  BY <1>2, <1>3, <1>4, <1>5, <1>7 DEF Inv

\* Every step keeps the invariant.
LEMMA InvStep == Inv /\ [Next]_vars => Inv'
  BY EnqueueInv, ReleaseInv, ConsumeInv, TakeInv, OtherInv
     DEF Next, Caller, Work

\* The inductive invariant holds in every reachable state.
THEOREM Invariant == Spec => []Inv
  BY InvInit, InvStep, PTL DEF Spec

\* The positions of the ring never leave it and the count never exceeds the
\* capacity.
THEOREM TypeCorrect == Spec => []TypeOK
<1>1. Inv => TypeOK
  BY DEF Inv
<1> QED
  BY Invariant, <1>1, PTL

\* enqueue() and run() neither lose nor repeat nor reorder a frame.
THEOREM NoFrameLost == Spec => []NothingLost
<1>1. Inv => NothingLost
  BY DEF Inv
<1> QED
  BY Invariant, <1>1, PTL

\* The worker never sleeps over work without a notify_one() to come.
THEOREM NoLostWakeup == Spec => []WakeupComing
<1>1. Inv => WakeupComing
  BY DEF Inv
<1> QED
  BY Invariant, <1>1, PTL

-----------------------------------------------------------------------------
(***************************************************************************)
(* The queue implements FrameQueue.  Frames are offered in the order of    *)
(* their numbers, so what is pending is a run of consecutive numbers.      *)
(***************************************************************************)
\* The n numbers after b.
After(b, n) == [i \in 1 .. n |-> b + i]

\* A run is a sequence of its length.
LEMMA AfterIsSeq ==
  ASSUME NEW b \in Nat, NEW n \in Nat
  PROVE  After(b, n) \in Seq(Nat) /\ Len(After(b, n)) = n
  BY DEF After

\* The number after a run makes it one longer.
LEMMA AfterAppend ==
  ASSUME NEW b \in Nat, NEW n \in Nat
  PROVE  Append(After(b, n), b + n + 1) = After(b, n + 1)
<1> DEFINE longer == Append(After(b, n), b + n + 1)
<1>1. longer \in Seq(Nat) /\ Len(longer) = n + 1
  <2>1. After(b, n) \in Seq(Nat) /\ Len(After(b, n)) = n
    BY AfterIsSeq
  <2>2. b + n + 1 \in Nat
    OBVIOUS
  <2> QED
    BY <2>1, <2>2, Appended
<1>2. \A i \in 1 .. n + 1 : longer[i] = b + i
  BY AfterIsSeq DEF After
<1>3. After(b, n + 1) \in Seq(Nat) /\ Len(After(b, n + 1)) = n + 1
  BY AfterIsSeq
<1>4. \A i \in 1 .. n + 1 : After(b, n + 1)[i] = b + i
  BY DEF After
<1> HIDE DEF longer
<1>5. longer = After(b, n + 1)
  BY <1>1, <1>2, <1>3, <1>4, SeqEqual
<1> QED
  BY <1>5 DEF longer

\* A run that is not empty starts with the next number; the rest is a run.
LEMMA AfterTail ==
  ASSUME NEW b \in Nat, NEW n \in Nat, n > 0
  PROVE  /\ After(b, n) # <<>>
         /\ Head(After(b, n)) = b + 1
         /\ Tail(After(b, n)) = After(b + 1, n - 1)
<1> DEFINE run == After(b, n)
           rest == After(b + 1, n - 1)
<1>1. run \in Seq(Nat) /\ Len(run) = n
  BY AfterIsSeq
<1>2. \A i \in 1 .. n : run[i] = b + i
  BY DEF After
<1>3. rest \in Seq(Nat) /\ Len(rest) = n - 1
  BY AfterIsSeq
<1>4. \A i \in 1 .. n - 1 : rest[i] = b + 1 + i
  BY DEF After
<1> HIDE DEF run, rest
<1>5. run # <<>>
  BY <1>1
<1>6. /\ Head(run) = run[1]
      /\ Tail(run) \in Seq(Nat)
      /\ Len(Tail(run)) = n - 1
      /\ \A i \in 1 .. n - 1 : Tail(run)[i] = run[i + 1]
  BY <1>1, <1>5, HeadTailProperties
<1>7. Tail(run) = rest
  <2>1. \A i \in 1 .. n - 1 : Tail(run)[i] = rest[i]
    BY <1>2, <1>4, <1>6
  <2> DEFINE tail == Tail(run)
  <2>2. tail \in Seq(Nat) /\ Len(tail) = Len(rest)
    BY <1>3, <1>6
  <2>3. \A i \in 1 .. Len(tail) : tail[i] = rest[i]
    BY <1>6, <2>1
  <2> HIDE DEF tail
  <2>4. tail = rest
    BY <1>3, <2>2, <2>3, SeqEqual
  <2> QED
    BY <2>4 DEF tail
<1> QED
  BY <1>2, <1>5, <1>6, <1>7 DEF run, rest

\* What is pending in a state: the accepted frames that are not consumed.
PendingIsRun ==
  /\ count - HeadConsumed \in 0 .. Capacity
  /\ accepted - count + HeadConsumed \in Nat
  /\ Pending = After(accepted - count + HeadConsumed, count - HeadConsumed)

\* The invariant says what is pending.
LEMMA PendingIs == Inv => PendingIsRun
<1> SUFFICES ASSUME Inv PROVE PendingIsRun
  OBVIOUS
<1>1. /\ count \in 0 .. Capacity
      /\ accepted \in Nat
      /\ count <= accepted
      /\ HeadConsumed \in {0, 1}
      /\ HeadConsumed <= count
      /\ Capacity \in Nat
      /\ \A i \in 0 .. count - 1 : slots[At(i)] = accepted - count + i + 1
  BY QueueAssumption
     DEF Inv, TypeOK, NothingLost, PositionsAgree, ThreadsAgree, HeadConsumed
<1> DEFINE h == HeadConsumed
<1> HIDE DEF h
<1>2. /\ count - h \in 0 .. Capacity
      /\ accepted - count + h \in Nat
  BY <1>1 DEF h
<1>3. \A i \in 1 .. count - h : slots[At(i - 1 + h)] = accepted - count + h + i
  <2> TAKE i \in 1 .. count - h
  <2>1. i - 1 + h \in 0 .. count - 1
    BY <1>1 DEF h
  <2>2. slots[At(i - 1 + h)] = accepted - count + (i - 1 + h) + 1
    BY <1>1, <2>1
  <2> QED
    BY <1>1, <2>2 DEF h
<1>4. Pending = After(accepted - count + h, count - h)
  BY <1>3 DEF h, Pending, After
<1> QED
  BY <1>2, <1>4 DEF h, PendingIsRun

\* The same of the next state.
LEMMA PendingIsNext == Inv' => PendingIsRun'
  BY PendingIs, PTL

\* The initial states are FrameQueue's.
LEMMA QueueInit == Init => FQ!Init
<1> SUFFICES ASSUME Init PROVE FQ!Init
  OBVIOUS
<1>1. Pending = <<>>
  BY DEF Init, Pending, HeadConsumed
<1> QED
  BY <1>1 DEF Init, FQ!Init

\* enqueue() accepts a frame.
LEMMA EnqueueAccepts == Inv /\ Inv' /\ Enqueue => FQ!Next
<1> SUFFICES ASSUME Inv, Inv', Enqueue PROVE FQ!Next
  OBVIOUS
<1> DEFINE h == HeadConsumed
           b == accepted - count + h
           n == count - h
<1>1. /\ count \in 0 .. Capacity - 1
      /\ accepted \in Nat
      /\ accepted + 1 \in 1 .. MaxFrames
      /\ h \in {0, 1}
      /\ Capacity \in Nat
  BY QueueAssumption DEF Inv, TypeOK, Enqueue, Full, HeadConsumed
<1>2. /\ count' = count + 1
      /\ accepted' = accepted + 1
      /\ HeadConsumed' = h
      /\ UNCHANGED <<consumed, error, stop>>
      /\ ~error /\ ~stop
      /\ caller # "joined" /\ caller' # "joined"
  BY DEF Enqueue, HeadConsumed
<1>3. Pending = After(b, n) /\ b \in Nat /\ n \in Nat
  BY <1>1, PendingIs DEF PendingIsRun
<1>4. Pending' = After(accepted' - count' + HeadConsumed', count' - HeadConsumed')
  BY PendingIsNext DEF PendingIsRun
<1>5. /\ accepted' - count' + HeadConsumed' = b
      /\ count' - HeadConsumed' = n + 1
      /\ b + n + 1 = accepted + 1
      /\ n < Capacity
  BY <1>1, <1>2
<1> HIDE DEF b, n, h
<1>6. Pending' = After(b, n + 1)
  BY <1>4, <1>5
<1>7. Append(After(b, n), b + n + 1) = After(b, n + 1) /\ Len(After(b, n)) = n
  BY <1>3, AfterAppend, AfterIsSeq
<1>8. Pending' = Append(Pending, accepted + 1) /\ Len(Pending) < Capacity
  BY <1>3, <1>5, <1>6, <1>7
<1>9. (caller = "joined")' = (caller = "joined")
  BY <1>2
<1>10. FQ!Accept(accepted + 1)
  BY <1>2, <1>8, <1>9 DEF FQ!Accept
<1> QED
  BY <1>1, <1>10 DEF FQ!Next

\* consume() takes the oldest pending frame.
LEMMA ConsumeConsumes == Inv /\ Inv' /\ Consume => FQ!Next
<1> SUFFICES ASSUME Inv, Inv', Consume PROVE FQ!Next
  OBVIOUS
<1> DEFINE b == accepted - count
<1>1. /\ count \in 1 .. Capacity
      /\ accepted \in Nat
      /\ b \in Nat
      /\ Capacity \in Nat
      /\ readPos \in Slots
      /\ frame = slots[readPos]
      /\ \A i \in 0 .. count - 1 : slots[At(i)] = b + i + 1
  BY QueueAssumption
     DEF Inv, TypeOK, Consume, NothingLost, ThreadsAgree, PositionsAgree
<1>2. /\ consumed' = Append(consumed, frame)
      /\ HeadConsumed = 0 /\ HeadConsumed' = 1
      /\ UNCHANGED <<count, accepted, error, stop, caller>>
      /\ ~error
  BY DEF Consume, HeadConsumed, Inv, ThreadsAgree
<1>3. Pending = After(b, count)
  <2>1. Pending = After(b + HeadConsumed, count - HeadConsumed)
    BY PendingIs DEF PendingIsRun
  <2>2. b + HeadConsumed = b /\ count - HeadConsumed = count
    BY <1>1, <1>2
  <2> QED
    BY <2>1, <2>2
<1>4. Pending' = After(b + 1, count - 1)
  <2>1. Pending' = After(accepted' - count' + HeadConsumed', count' - HeadConsumed')
    BY PendingIsNext DEF PendingIsRun
  <2>2. accepted' - count' + HeadConsumed' = b + 1 /\ count' - HeadConsumed' = count - 1
    BY <1>1, <1>2
  <2> QED
    BY <2>1, <2>2
<1>5. frame = b + 1
  <2>1. 0 \in 0 .. count - 1 /\ 0 \in 0 .. Capacity - 1
    BY <1>1
  <2>2. slots[At(0)] = b + 0 + 1 /\ At(0) = readPos
    BY <1>1, <2>1, NextSlot
  <2> QED
    BY <1>1, <2>2
<1> HIDE DEF b
<1>6. /\ Pending # <<>>
      /\ Head(Pending) = frame
      /\ Pending' = Tail(Pending)
  <2>1. b \in Nat /\ count \in Nat /\ count > 0
    BY <1>1
  <2>2. /\ After(b, count) # <<>>
        /\ Head(After(b, count)) = b + 1
        /\ Tail(After(b, count)) = After(b + 1, count - 1)
    BY <2>1, AfterTail
  <2> QED
    BY <1>3, <1>4, <1>5, <2>2
<1>7. FQ!Consume
  BY <1>2, <1>6 DEF FQ!Consume
<1> QED
  BY <1>7 DEF FQ!Next

\* The release of a slot, and every step that keeps the ring, keep what is
\* pending.
LEMMA PendingKept ==
  Inv /\ Inv' /\ [Next]_vars => Pending' = Pending \/ Enqueue \/ Consume
<1> SUFFICES ASSUME Inv, Inv', [Next]_vars, ~Enqueue, ~Consume
             PROVE  Pending' = Pending
  OBVIOUS
<1>1. /\ accepted' - count' + HeadConsumed' = accepted - count + HeadConsumed
      /\ count' - HeadConsumed' = count - HeadConsumed
  <2>1. count \in Nat /\ accepted \in Nat
    BY QueueAssumption DEF Inv, TypeOK
  <2>2. CASE Release
    BY <2>1, <2>2 DEF Release, HeadConsumed
  <2>3. CASE ~Release
    BY <2>3 DEF Next, Caller, Work, NotifyEnqueued, EnqueueRefused, RequestStop,
       NotifyStop, Join, Wait, SpuriousWakeup, Exit, Take, ConsumeThrows,
       SetError, vars, Woken, HeadConsumed
  <2> QED
    BY <2>2, <2>3
<1> QED
  BY <1>1, PendingIs, PendingIsNext DEF PendingIsRun

\* Every step of the recorder is a step of FrameQueue or leaves it as it is.
LEMMA QueueStep == Inv /\ Inv' /\ [Next]_vars => [FQ!Next]_(FQ!vars)
<1> SUFFICES ASSUME Inv, Inv', [Next]_vars PROVE [FQ!Next]_(FQ!vars)
  OBVIOUS
<1>1. CASE Enqueue
  BY <1>1, EnqueueAccepts
<1>2. CASE Consume
  BY <1>2, ConsumeConsumes
<1>3. CASE RequestStop
  <2>1. FQ!Close
    BY <1>3, PendingKept
       DEF RequestStop, Enqueue, Consume, Inv, ThreadsAgree, FQ!Close
  <2> QED
    BY <2>1 DEF FQ!Next
<1>4. CASE Join
  <2>1. error \/ Pending = <<>>
    <3>1. error \/ (count = 0 /\ HeadConsumed = 0)
      BY <1>4 DEF Join, Inv, ThreadsAgree, HeadConsumed
    <3> QED
      BY <3>1 DEF Pending
  <2>2. FQ!End
    BY <1>4, <2>1, PendingKept
       DEF Join, Enqueue, Consume, Inv, ThreadsAgree, FQ!End
  <2> QED
    BY <2>2 DEF FQ!Next
<1>5. CASE SetError
  <2>1. Pending # <<>>
    <3>1. /\ count \in Nat \ {0}
          /\ HeadConsumed = 0
          /\ accepted \in Nat
          /\ accepted - count \in Nat
      BY <1>5, QueueAssumption
         DEF SetError, Inv, TypeOK, ThreadsAgree, PositionsAgree, HeadConsumed
    <3>2. Pending = After(accepted - count, count)
      BY <3>1, PendingIs DEF PendingIsRun
    <3> QED
      BY <3>1, <3>2, AfterTail
  <2>2. FQ!Fail
    BY <1>5, <2>1, PendingKept
       DEF SetError, Enqueue, Consume, Inv, ThreadsAgree, FQ!Fail
  <2> QED
    BY <2>2 DEF FQ!Next
<1>6. CASE ~Enqueue /\ ~Consume /\ ~RequestStop /\ ~Join /\ ~SetError
  <2>1. Pending' = Pending
    BY <1>6, PendingKept
  <2>2. UNCHANGED <<consumed, error, stop>>
    BY <1>6 DEF Next, Caller, Work, NotifyEnqueued, EnqueueRefused, NotifyStop,
       Wait, SpuriousWakeup, Exit, Take, Release, ConsumeThrows, vars
  <2>3. (caller = "joined")' = (caller = "joined")
    BY <1>6 DEF Next, Caller, Work, NotifyEnqueued, EnqueueRefused, NotifyStop,
       Wait, SpuriousWakeup, Exit, Take, Release, ConsumeThrows, vars
  <2> QED
    BY <2>1, <2>2, <2>3 DEF FQ!vars
<1> QED
  BY <1>1, <1>2, <1>3, <1>4, <1>5, <1>6

\* AsyncPsdRecorder is a bounded first-in first-out queue that is drained when
\* it is closed, unless its consumer fails.
THEOREM ImplementsQueue == Spec => IsFrameQueue
  BY Invariant, QueueInit, QueueStep, PTL DEF Spec, IsFrameQueue, FQ!Spec

-----------------------------------------------------------------------------
(***************************************************************************)
(* The process: theorems about ProcessSpec of Acquisition.                 *)
(***************************************************************************)

\* Every step of the process is a step of the recorder or leaves it alone.
LEMMA RecorderStep == [ProcessNext]_processVars => [Next]_vars
<1> SUFFICES ASSUME [ProcessNext]_processVars PROVE [Next]_vars
  OBVIOUS
<1>1. CASE UNCHANGED vars
  BY <1>1 DEF vars
<1>2. CASE EnqueueFrame \/ NotifyWorker \/ FrameRefused \/ StopRecorder
  BY <1>2 DEF EnqueueFrame, NotifyWorker, FrameRefused, StopRecorder, Next, Caller
<1>3. CASE ConsumeFrame \/ OtherWork \/ WorkerChance
  BY <1>3 DEF ConsumeFrame, OtherWork, WorkerChance, Next, Work
<1> QED
  BY <1>1, <1>2, <1>3 DEF ProcessNext, Main, Worker, LoopCondition, CheckRecorder,
     ReadBlock, ReadNothing, BlockDone, Throws, EndProcess, Signal, processVars

\* The acquisition thread uses the recorder as its class expects.
THEOREM UsesRecorder == ProcessSpec => Spec
<1>1. ProcessInit => Init
  BY DEF ProcessInit
<1> QED
  BY <1>1, RecorderStep, PTL DEF ProcessSpec, Spec

\* What is proved of the queue holds in the process.
LEMMA RecorderInv == ProcessSpec => []Inv
  BY UsesRecorder, Invariant, PTL

-----------------------------------------------------------------------------
(***************************************************************************)
(* The inductive invariant: how far the main thread is with the recorder   *)
(* and with the frames it has made.                                        *)
(***************************************************************************)
InStep ==
  /\ main \in {"loop", "check", "read"} => caller = "running" /\ made = accepted
  /\ main = "enqueue" => /\ caller \in {"running", "notify"}
                         /\ made = accepted + pending
                         /\ blocks < MaxBlocks
  /\ main = "stopping" =>
       /\ caller \in {"running", "notifyStop", "join", "joined"}
       /\ made = accepted
  /\ main = "unwinding" =>
       caller \in {"running", "refused", "notifyStop", "join", "joined"}
  /\ main \in Ended => caller = "joined"
  /\ main = "success" => ~error /\ made = accepted
  /\ caller = "joined" => worker = "ended"

LoopInv == LoopTypes /\ InStep

\* The invariant holds at the start.
LEMMA LoopInvInit == ProcessInit => LoopInv
<1> SUFFICES ASSUME ProcessInit PROVE LoopInv
  OBVIOUS
<1>1. 0 \in 0 .. BlockFrames /\ 0 \in 0 .. MaxBlocks /\ 0 \in 0 .. 2
  BY LoopAssumption
<1>2. LoopTypes
  BY <1>1 DEF ProcessInit, LoopTypes
<1>3. InStep
  BY DEF ProcessInit, InStep, Ended, Init
<1> QED
  BY <1>2, <1>3 DEF LoopInv

\* The steps of the main loop keep the types.
LEMMA TypeStep == LoopTypes /\ InStep /\ [ProcessNext]_processVars => LoopTypes'
<1> SUFFICES ASSUME LoopTypes, InStep, [ProcessNext]_processVars PROVE LoopTypes'
  OBVIOUS
<1>1. CASE ReadBlock
  BY <1>1, LoopAssumption DEF ReadBlock, LoopTypes, eventVars
<1>2. CASE EnqueueFrame
  BY <1>2, LoopAssumption DEF EnqueueFrame, FramesLeft, LoopTypes, eventVars
<1>3. CASE BlockDone
  BY <1>3, LoopAssumption DEF BlockDone, LoopTypes, InStep, eventVars
<1>4. CASE Signal
  BY <1>4 DEF Signal, LoopTypes
<1>5. CASE ConsumeFrame
  BY <1>5 DEF ConsumeFrame, LoopTypes
<1>6. CASE LoopCondition \/ CheckRecorder \/ ReadNothing \/ NotifyWorker
           \/ FrameRefused \/ StopRecorder \/ EndProcess \/ Throws
  BY <1>6 DEF LoopCondition, CheckRecorder, ReadNothing, NotifyWorker,
     FrameRefused, AfterRefusal, StopRecorder, EndProcess, Throws, Ended, LoopTypes,
     eventVars
<1>7. CASE OtherWork \/ WorkerChance \/ UNCHANGED processVars
  BY <1>7 DEF OtherWork, WorkerChance, processVars, LoopTypes, eventVars
<1> QED
  BY <1>1, <1>2, <1>3, <1>4, <1>5, <1>6, <1>7 DEF ProcessNext, Main, Worker

\* Every step keeps the two threads in step.
LEMMA InStepStep ==
  LoopTypes /\ InStep /\ Inv /\ [ProcessNext]_processVars => InStep'
<1> SUFFICES ASSUME LoopTypes, InStep, Inv, [ProcessNext]_processVars PROVE InStep'
  OBVIOUS
<1>1. accepted \in Nat /\ made \in Nat /\ pending \in Nat /\ blocks \in Nat
  BY LoopAssumption DEF LoopTypes, Inv, TypeOK
<1>2. CASE LoopCondition \/ CheckRecorder \/ ReadNothing \/ Throws \/ EndProcess
  BY <1>2 DEF LoopCondition, CheckRecorder, ReadNothing, Throws, EndProcess, ExitsWell,
     InStep, Ended, vars, LoopTypes
<1>3. CASE ReadBlock
  BY <1>1, <1>3 DEF ReadBlock, InStep, Ended, vars
<1>4. CASE EnqueueFrame
  BY <1>1, <1>4 DEF EnqueueFrame, Enqueue, InStep, Ended
<1>5. CASE NotifyWorker
  BY <1>5 DEF NotifyWorker, NotifyEnqueued, InStep, Ended
<1>6. CASE FrameRefused
  BY <1>6 DEF FrameRefused, AfterRefusal, EnqueueRefused, InStep, Ended
<1>7. CASE BlockDone
  BY <1>1, <1>7 DEF BlockDone, FramesLeft, InStep, Ended, vars
<1>8. CASE StopRecorder
  BY <1>8 DEF StopRecorder, RequestStop, NotifyStop, Join, InStep, Ended
<1>9. CASE Signal \/ UNCHANGED processVars
  BY <1>9 DEF Signal, processVars, InStep, vars
<1>10. CASE ConsumeFrame
  BY <1>10 DEF ConsumeFrame, Consume, InStep, Ended
<1>11. CASE OtherWork
  BY <1>11 DEF OtherWork, Wait, Exit, Take, Release, SetError, InStep,
     Ended
<1>12. CASE WorkerChance
  BY <1>12 DEF WorkerChance, SpuriousWakeup, ConsumeThrows, InStep, Ended
<1> QED
  BY <1>2, <1>3, <1>4, <1>5, <1>6, <1>7, <1>8, <1>9, <1>10, <1>11, <1>12
     DEF ProcessNext, Main, Worker

\* The invariant holds in every reachable state.
THEOREM ProcessInvariant == ProcessSpec => [](LoopInv /\ Inv)
<1>1. LoopInv /\ Inv /\ [ProcessNext]_processVars => LoopInv'
  BY TypeStep, InStepStep DEF LoopInv
<1> QED
  BY <1>1, LoopInvInit, RecorderInv, PTL DEF ProcessSpec

\* Types of the acquisition thread.
THEOREM LoopTypesCorrect == ProcessSpec => []LoopTypes
<1>1. LoopInv => LoopTypes
  BY DEF LoopInv
<1> QED
  BY <1>1, ProcessInvariant, PTL

\* The process ends only when every accepted frame has been consumed or the
\* recorder has failed, and with success only when the recorder took every frame.
THEOREM CompleteEnd == ProcessSpec => []EndIsComplete
<1>1. LoopInv /\ Inv => EndIsComplete
  <2> SUFFICES ASSUME LoopInv, Inv PROVE EndIsComplete
    OBVIOUS
  <2>1. CASE main \in Ended
    <3>1. worker = "ended"
      BY <2>1 DEF LoopInv, InStep
    <3>2. error \/ count = 0
      BY <3>1 DEF Inv, ThreadsAgree
    <3>3. Len(consumed) = accepted - count
      BY <3>1 DEF Inv, NothingLost, HeadConsumed, TypeOK
    <3>4. accepted \in Nat
      BY DEF Inv, TypeOK
    <3> QED
      BY <3>1, <3>2, <3>3, <3>4 DEF LoopInv, InStep, EndIsComplete
  <2>2. CASE main \notin Ended
    BY <2>2 DEF EndIsComplete, Ended
  <2> QED
    BY <2>1, <2>2
<1> QED
  BY <1>1, ProcessInvariant, PTL
=============================================================================
