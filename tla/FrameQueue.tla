----------------------------- MODULE FrameQueue -----------------------------
(***************************************************************************)
(* What the asynchronous recorder promises to the acquisition thread: a    *)
(* bounded first-in first-out queue with one producer, in front of a       *)
(* consumer that takes every accepted frame in order until it fails.  Once *)
(* closed it accepts nothing more and ends when it is empty or has failed. *)
(***************************************************************************)
EXTENDS Naturals, Sequences

CONSTANTS
  Capacity,  \* _queueCapacity
  Frames     \* the frames that can be offered

VARIABLES
  pending,   \* accepted and not yet consumed, oldest first
  consumed,  \* consumed, in the order of consumption
  failed,    \* the consumer has failed
  closed,    \* the producer has closed the queue
  ended      \* the consumer is known to have ended

vars == <<pending, consumed, failed, closed, ended>>

Init ==
  /\ pending = <<>>
  /\ consumed = <<>>
  /\ failed = FALSE
  /\ closed = FALSE
  /\ ended = FALSE

Accept(f) ==
  /\ ~closed
  /\ ~failed
  /\ Len(pending) < Capacity
  /\ pending' = Append(pending, f)
  /\ UNCHANGED <<consumed, failed, closed, ended>>

Consume ==
  /\ ~failed
  /\ pending # <<>>
  /\ pending' = Tail(pending)
  /\ consumed' = Append(consumed, Head(pending))
  /\ UNCHANGED <<failed, closed, ended>>

\* The frames that are pending when the consumer fails stay unconsumed.
Fail ==
  /\ ~failed
  /\ pending # <<>>
  /\ failed' = TRUE
  /\ UNCHANGED <<pending, consumed, closed, ended>>

Close ==
  /\ ~closed
  /\ closed' = TRUE
  /\ UNCHANGED <<pending, consumed, failed, ended>>

End ==
  /\ closed
  /\ ~ended
  /\ failed \/ pending = <<>>
  /\ ended' = TRUE
  /\ UNCHANGED <<pending, consumed, failed, closed>>

Next ==
  \/ \E f \in Frames : Accept(f)
  \/ Consume
  \/ Fail
  \/ Close
  \/ End

Spec == Init /\ [][Next]_vars
=============================================================================
