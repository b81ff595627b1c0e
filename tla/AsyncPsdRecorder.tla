-------------------------- MODULE AsyncPsdRecorder --------------------------
(***************************************************************************)
(* Class AsyncPsdRecorder: the queue between the acquisition thread and    *)
(* the thread that detects and records.  Frames wait in a ring buffer      *)
(* under a mutex; the worker sleeps on a condition variable.  The worker   *)
(* copies the frame at the read position, consumes it without the mutex    *)
(* and gives its slot back afterwards.                                     *)
(*                                                                         *)
(* A critical section is one step.  notify_one() comes after the unlock,   *)
(* in a step of its own; it wakes the worker only when that is waiting     *)
(* now, and a waiting worker may also wake up for no reason.               *)
(*                                                                         *)
(* Frames are numbered 1, 2, ... as the acquisition thread offers them.    *)
(* The atomics _queued and _workerBusy only serve eventInProgress(), which *)
(* nothing calls, and are left out, as are the statistics.                 *)
(***************************************************************************)
EXTENDS Naturals, Sequences

CONSTANTS
  Capacity,   \* _queueCapacity
  LastFrame,  \* the frame that completes the last segment of a continuous
              \* recording, 0 when the recording has no last segment
  MaxFrames   \* bound: the number of frames offered

ASSUME QueueAssumption == /\ Capacity \in Nat \ {0}
                          /\ LastFrame \in Nat
                          /\ MaxFrames \in Nat

VARIABLES
  slots,     \* _queue
  readPos,   \* _queueRead
  writePos,  \* _queueWrite
  count,     \* _queueCount
  stop,      \* _stopRequested
  error,     \* whether _workerError is set
  finished,  \* _finished
  worker,    \* where run() is
  frame,     \* the worker's copy of the frame
  caller,    \* where the acquisition thread is in its use of the recorder
  accepted,  \* history: the number of frames that enqueue() has accepted
  consumed   \* history: the frames whose consume() has returned, in order

vars == <<slots, readPos, writePos, count, stop, error, finished, worker, frame,
          caller, accepted, consumed>>

Slots == 0 .. Capacity - 1

NoFrame == 0

Init ==
  /\ slots = [i \in Slots |-> NoFrame]
  /\ readPos = 0
  /\ writePos = 0
  /\ count = 0
  /\ stop = FALSE
  /\ error = FALSE
  /\ finished = FALSE
  /\ worker = "lock"
  /\ frame = NoFrame
  /\ caller = "running"
  /\ accepted = 0
  /\ consumed = <<>>

Advanced(i) == IF i + 1 = Capacity THEN 0 ELSE i + 1

\* Mutant: notify_one() that reaches nobody.
WakeNobody == worker

\* notify_one().
Woken == IF worker = "waiting" THEN "lock" ELSE worker

-----------------------------------------------------------------------------
(***************************************************************************)
(* The acquisition thread.                                                 *)
(***************************************************************************)
Full == count >= Capacity

\* enqueue() under the mutex, when it takes the frame.
Enqueue ==
  /\ caller = "running"
  /\ accepted < MaxFrames
  /\ ~error
  /\ ~stop
  /\ ~Full
  /\ slots' = [slots EXCEPT ![writePos] = accepted + 1]
  /\ writePos' = Advanced(writePos)
  /\ count' = count + 1
  /\ accepted' = accepted + 1
  /\ caller' = "notify"
  /\ UNCHANGED <<readPos, stop, error, finished, worker, frame, consumed>>

\* The rest of enqueue().
NotifyEnqueued ==
  /\ caller = "notify"
  /\ worker' = Woken
  /\ caller' = "running"
  /\ UNCHANGED <<slots, readPos, writePos, count, stop, error, finished, frame,
                 accepted, consumed>>

\* enqueue() returns false, on which the acquisition thread gives up.
EnqueueRefused ==
  /\ caller = "running"
  /\ error \/ stop \/ Full
  /\ caller' = "refused"
  /\ UNCHANGED <<slots, readPos, writePos, count, stop, error, finished, worker,
                 frame, accepted, consumed>>

(***************************************************************************)
(* stopAndDrain() or the destructor: after the main loop, or while an      *)
(* exception (a refused frame, throwIfFailed(), any other) unwinds it.     *)
(***************************************************************************)
RequestStop ==
  /\ caller \in {"running", "refused"}
  /\ stop' = TRUE
  /\ caller' = "notifyStop"
  /\ UNCHANGED <<slots, readPos, writePos, count, error, finished, worker, frame,
                 accepted, consumed>>

NotifyStop ==
  /\ caller = "notifyStop"
  /\ worker' = Woken
  /\ caller' = "join"
  /\ UNCHANGED <<slots, readPos, writePos, count, stop, error, finished, frame,
                 accepted, consumed>>

Join ==
  /\ caller = "join"
  /\ worker = "ended"
  /\ caller' = "joined"
  /\ UNCHANGED <<slots, readPos, writePos, count, stop, error, finished, worker,
                 frame, accepted, consumed>>

-----------------------------------------------------------------------------
(***************************************************************************)
(* The worker.  At "lock" it takes the mutex and evaluates the predicate   *)
(* of the wait.                                                            *)
(***************************************************************************)
NothingToDo == ~stop /\ count = 0

Wait ==
  /\ worker = "lock"
  /\ NothingToDo
  /\ worker' = "waiting"
  /\ UNCHANGED <<slots, readPos, writePos, count, stop, error, finished, frame,
                 caller, accepted, consumed>>

SpuriousWakeup ==
  /\ worker = "waiting"
  /\ worker' = "lock"
  /\ UNCHANGED <<slots, readPos, writePos, count, stop, error, finished, frame,
                 caller, accepted, consumed>>

\* Mutant: a worker that leaves at the stop without draining.
ExitsUndrained == stop

Drained == stop /\ count = 0

Exit ==
  /\ worker = "lock"
  /\ Drained
  /\ worker' = "ended"
  /\ UNCHANGED <<slots, readPos, writePos, count, stop, error, finished, frame,
                 caller, accepted, consumed>>

Take ==
  /\ worker = "lock"
  /\ count # 0
  /\ frame' = slots[readPos]
  /\ worker' = "consume"
  /\ UNCHANGED <<slots, readPos, writePos, count, stop, error, finished, caller,
                 accepted, consumed>>

\* consume() returns, and _finished is stored.
Consume ==
  /\ worker = "consume"
  /\ consumed' = Append(consumed, frame)
  /\ finished' = (finished \/ (LastFrame # 0 /\ frame = LastFrame))
  /\ worker' = "release"
  /\ UNCHANGED <<slots, readPos, writePos, count, stop, error, frame, caller,
                 accepted>>

\* consume() throws: the thread goes to the catch block.
ConsumeThrows ==
  /\ worker = "consume"
  /\ worker' = "catch"
  /\ UNCHANGED <<slots, readPos, writePos, count, stop, error, finished, frame,
                 caller, accepted, consumed>>

Release ==
  /\ worker = "release"
  /\ slots' = [slots EXCEPT ![readPos] = NoFrame]
  /\ readPos' = Advanced(readPos)
  /\ count' = count - 1
  /\ frame' = NoFrame
  /\ worker' = "lock"
  /\ UNCHANGED <<writePos, stop, error, finished, caller, accepted, consumed>>

\* The catch block sets _workerError under the mutex and the thread ends.
SetError ==
  /\ worker = "catch"
  /\ error' = TRUE
  /\ frame' = NoFrame
  /\ worker' = "ended"
  /\ UNCHANGED <<slots, readPos, writePos, count, stop, finished, caller,
                 accepted, consumed>>

-----------------------------------------------------------------------------
Caller ==
  \/ Enqueue
  \/ NotifyEnqueued
  \/ EnqueueRefused
  \/ RequestStop
  \/ NotifyStop
  \/ Join

\* What the worker does when it is scheduled; spurious wakeups and exceptions
\* may happen but need not.
Work ==
  \/ Wait
  \/ Exit
  \/ Take
  \/ Consume
  \/ Release
  \/ SetError

Next == Caller \/ Work \/ SpuriousWakeup \/ ConsumeThrows

Spec == Init /\ [][Next]_vars

-----------------------------------------------------------------------------
(***************************************************************************)
(* Properties.                                                             *)
(***************************************************************************)
\* Types: the positions never leave the ring.
TypeOK ==
  /\ slots \in [Slots -> Nat]
  /\ readPos \in Slots
  /\ writePos \in Slots
  /\ count \in 0 .. Capacity
  /\ stop \in BOOLEAN
  /\ error \in BOOLEAN
  /\ finished \in BOOLEAN
  /\ worker \in {"lock", "waiting", "consume", "release", "catch", "ended"}
  /\ frame \in Nat
  /\ caller \in {"running", "notify", "refused", "notifyStop", "join", "joined"}
  /\ accepted \in Nat
  /\ consumed \in Seq(Nat)

\* The slot i places after the read position.
At(i) == IF readPos + i < Capacity THEN readPos + i ELSE readPos + i - Capacity

\* The frame at the head of the ring has been consumed and awaits its release.
HeadConsumed == IF worker = "release" THEN 1 ELSE 0

(***************************************************************************)
(* The consumed frames and then the ring, from the read position on, are   *)
(* all the accepted frames in order: none lost, repeated or overtaken.  In *)
(* particular the slot of the frame that the worker holds without the      *)
(* mutex is not reused ("The producer therefore cannot wrap around and     *)
(* overwrite it.").                                                        *)
(***************************************************************************)
NothingLost ==
  /\ Len(consumed) = accepted - count + HeadConsumed
  /\ \A i \in 1 .. Len(consumed) : consumed[i] = i
  /\ \A i \in 0 .. count - 1 : slots[At(i)] = accepted - count + i + 1
  /\ worker \in {"consume", "release", "catch"} =>
       count > 0 /\ frame = slots[readPos]

(***************************************************************************)
(* No lost wakeup: whenever the worker sleeps although a frame is queued   *)
(* or the stop has been requested, a notification is still to come.        *)
(***************************************************************************)
WakeupComing ==
  worker = "waiting" /\ (count # 0 \/ stop) =>
    caller \in {"notify", "notifyStop"}

(***************************************************************************)
(* The recorder is a FrameQueue: what waits in the ring is pending, but    *)
(* for a head that has been consumed.                                      *)
(***************************************************************************)
Pending == [i \in 1 .. count - HeadConsumed |->
              slots[At(i - 1 + HeadConsumed)]]

FQ == INSTANCE FrameQueue WITH
        Frames  <- 1 .. MaxFrames,
        pending <- Pending,
        failed  <- error,
        closed  <- stop,
        ended   <- caller = "joined"

IsFrameQueue == FQ!Spec
=============================================================================
