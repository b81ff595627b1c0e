---------------------------- MODULE Acquisition ----------------------------
(***************************************************************************)
(* The acquisition thread: the main loop of main() and what follows it,    *)
(* over the recorder queue of AsyncPsdRecorder, until the process ends.    *)
(*                                                                         *)
(* The loop condition, the test for a failed recorder, the read and each   *)
(* enqueue() are steps of their own: signals and the worker come between   *)
(* them.  A read waits at most 250 ms, then returns without data.  A block *)
(* of samples yields any number of frames up to BlockFrames.  Every call   *)
(* to the device or the DSP chain may throw.                               *)
(*                                                                         *)
(* Which frames belong to an event is the recorder's and the detector's    *)
(* matter (TriggeredRecorder); here the event is open or not after each    *)
(* consume(), arbitrarily.  Control commands are applied between two       *)
(* blocks and cannot leave the loop; they are left out, and so are AGC and *)
(* the network stream, a best-effort consumer of its own.                  *)
(***************************************************************************)
EXTENDS AsyncPsdRecorder

CONSTANTS
  Duration,     \* duration in blocks, 0 to run until stopped (finiteRun)
  BlockFrames,  \* bound: frames that one block of samples can complete
  MaxBlocks     \* bound: blocks that are read

ASSUME LoopAssumption ==
  /\ Duration \in Nat
  /\ BlockFrames \in Nat
  /\ MaxBlocks \in Nat
  /\ MaxBlocks * BlockFrames <= MaxFrames

VARIABLES
  main,     \* where the acquisition thread is, or how the process ended
  pending,  \* the number of frames left in pendingPsdFrames
  blocks,   \* the number of blocks processed, for totalInput
  made,     \* history: the number of frames that the DSP chain has made
  signals,  \* the number of SIGINT and SIGTERM received, at most 2
  event,    \* an event is open at the recorder
  interrupted  \* history: the event that was open at the first signal still is

eventVars == <<signals, event, interrupted>>

processVars == <<vars, main, pending, blocks, made, eventVars>>

Ended == {"success", "failure"}

ProcessInit ==
  /\ Init
  /\ main = "loop"
  /\ pending = 0
  /\ blocks = 0
  /\ made = 0
  /\ signals = 0
  /\ event = FALSE
  /\ interrupted = FALSE

-----------------------------------------------------------------------------
(***************************************************************************)
(* The main loop.                                                          *)
(***************************************************************************)
\* gStopRequested
StopRequested == signals > 0

\* Mutant: a loop that does not look at the recorder.
LoopEndsUnlessFinished == (Duration # 0 /\ blocks >= Duration) \/ StopRequested

LoopEnds ==
  \/ Duration # 0 /\ blocks >= Duration
  \/ finished
  \/ StopRequested

LoopCondition ==
  /\ main = "loop"
  /\ main' = IF LoopEnds THEN "stopping" ELSE "check"
  /\ UNCHANGED <<vars, pending, blocks, made, eventVars>>

\* throwIfFailed()
CheckRecorder ==
  /\ main = "check"
  /\ main' = IF error THEN "unwinding" ELSE "read"
  /\ UNCHANGED <<vars, pending, blocks, made, eventVars>>

\* A read that gives data, and the frames the DSP chain makes of it.
ReadBlock ==
  /\ main = "read"
  /\ blocks < MaxBlocks
  /\ \E n \in 0 .. BlockFrames :
       /\ pending' = n
       /\ made' = made + n
  /\ main' = "enqueue"
  /\ UNCHANGED <<vars, blocks, eventVars>>

\* A read that timed out or overflowed.
ReadNothing ==
  /\ main = "read"
  /\ main' = IF StopRequested THEN "stopping" ELSE "loop"
  /\ UNCHANGED <<vars, pending, blocks, made, eventVars>>

FramesLeft == pending > 0

EnqueueFrame ==
  /\ main = "enqueue"
  /\ FramesLeft
  /\ Enqueue
  /\ pending' = pending - 1
  /\ UNCHANGED <<main, blocks, made, eventVars>>

NotifyWorker ==
  /\ main = "enqueue"
  /\ NotifyEnqueued
  /\ UNCHANGED <<main, pending, blocks, made, eventVars>>

\* Mutant: a refused frame that is dropped.
DropRefused == "enqueue"

AfterRefusal == "unwinding"

\* enqueue() returns false: the worker failed or the queue is full.
FrameRefused ==
  /\ main = "enqueue"
  /\ FramesLeft
  /\ EnqueueRefused
  /\ main' = AfterRefusal
  /\ UNCHANGED <<pending, blocks, made, eventVars>>

BlockDone ==
  /\ main = "enqueue"
  /\ ~FramesLeft
  /\ caller = "running"
  /\ main' = "loop"
  /\ blocks' = blocks + 1
  /\ UNCHANGED <<vars, pending, made, eventVars>>

\* A call to the device, the DSP chain or the AGC throws; before the first
\* frame of a block is enqueued, or while the stream is being closed.
Throws ==
  /\ \/ main = "read"
     \/ main = "stopping" /\ caller = "running"
  /\ main' = "unwinding"
  /\ UNCHANGED <<vars, pending, blocks, made, eventVars>>

-----------------------------------------------------------------------------
(***************************************************************************)
(* The end: stopAndDrain() after the loop, or the recorder's destructor    *)
(* while an exception leaves main()'s block.  stopAndDrain() throws when   *)
(* the worker failed; the destructor then finds nothing left to join.      *)
(***************************************************************************)
StopRecorder ==
  /\ main \in {"stopping", "unwinding"}
  /\ RequestStop \/ NotifyStop \/ Join
  /\ UNCHANGED <<main, pending, blocks, made, eventVars>>

\* Mutant: an end that does not look at the worker's error.
ExitBlindly == main = "stopping"

ExitsWell == main = "stopping" /\ ~error

EndProcess ==
  /\ main \in {"stopping", "unwinding"}
  /\ caller = "joined"
  /\ main' = IF ExitsWell THEN "success" ELSE "failure"
  /\ UNCHANGED <<vars, pending, blocks, made, eventVars>>

-----------------------------------------------------------------------------
\* meteorisSignalHandler()
Signal ==
  /\ main \notin Ended
  /\ signals < 2
  /\ signals' = signals + 1
  /\ interrupted' = IF signals = 0 THEN event ELSE interrupted
  /\ UNCHANGED <<vars, main, pending, blocks, made, event>>

\* The worker; a consumed frame may open or close an event, but not in a
\* continuous recording.
ConsumeFrame ==
  /\ Consume
  /\ event' \in IF LastFrame = 0 THEN BOOLEAN ELSE {FALSE}
  /\ interrupted' = (interrupted /\ event')
  /\ UNCHANGED <<main, pending, blocks, made, signals>>

OtherWork ==
  /\ Wait \/ Exit \/ Take \/ Release \/ SetError
  /\ UNCHANGED <<main, pending, blocks, made, eventVars>>

WorkerChance ==
  /\ SpuriousWakeup \/ ConsumeThrows
  /\ UNCHANGED <<main, pending, blocks, made, eventVars>>

Main ==
  \/ LoopCondition
  \/ CheckRecorder
  \/ ReadBlock
  \/ ReadNothing
  \/ EnqueueFrame
  \/ NotifyWorker
  \/ FrameRefused
  \/ BlockDone
  \/ StopRecorder
  \/ EndProcess

Worker == ConsumeFrame \/ OtherWork

ProcessNext == Main \/ Throws \/ Signal \/ Worker \/ WorkerChance

ProcessSpec == ProcessInit /\ [][ProcessNext]_processVars

(***************************************************************************)
(* Fairness: the operating system runs both threads, a read returns, with  *)
(* data or without, and consume() returns or throws.  Signals, exceptions  *)
(* and data need never come.                                               *)
(***************************************************************************)
FairProcess == ProcessSpec /\ WF_processVars(Main) /\ WF_processVars(Worker)

-----------------------------------------------------------------------------
(***************************************************************************)
(* Properties.                                                             *)
(***************************************************************************)
\* Types.
LoopTypes ==
  /\ main \in {"loop", "check", "read", "enqueue", "stopping", "unwinding"}
                \cup Ended
  /\ pending \in 0 .. BlockFrames
  /\ blocks \in 0 .. MaxBlocks
  /\ made \in Nat
  /\ signals \in 0 .. 2
  /\ event \in BOOLEAN
  /\ interrupted \in BOOLEAN

(***************************************************************************)
(* The process never ends over frames that wait: when it has ended, the    *)
(* worker has ended too and has consumed every accepted frame, unless it   *)
(* failed.  And an end that reports success means that every frame the DSP *)
(* chain made has been through the recorder.                               *)
(***************************************************************************)
EndIsComplete ==
  /\ main \in Ended => /\ worker = "ended"
                       /\ error \/ Len(consumed) = accepted
  /\ main = "success" => ~error /\ made = accepted

(***************************************************************************)
(* Every frame that enqueue() accepted is consumed, or the recorder has    *)
(* failed; and a failure of the recorder ends the process, with an error.  *)
(***************************************************************************)
RecordedOrFailed ==
  /\ \A n \in 1 .. MaxFrames :
       accepted >= n ~> Len(consumed) >= n \/ error
  /\ error ~> main = "failure"

\* A signal, a finished recording or a passed duration ends the process.
EndsWhenAsked ==
  StopRequested \/ finished \/ (Duration # 0 /\ blocks >= Duration)
    ~> main \in Ended

(***************************************************************************)
(* doc/RECORDING_FORMAT.md, Graceful shutdown: after one signal the        *)
(* acquisition goes on until the event that is open is complete.           *)
(***************************************************************************)
GracefulShutdown == main = "success" /\ signals = 1 => ~interrupted
=============================================================================
