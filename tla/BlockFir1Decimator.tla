------------------------- MODULE BlockFir1Decimator -------------------------
(***************************************************************************)
(* The first filter of the DSP chain.  A block of samples is put behind    *)
(* the last Taps - 1 samples of the blocks before it; every Decimation-th  *)
(* position gives one output, the dot product of the Taps samples there.   *)
(* With two threads a long block is split in the middle: a worker computes *)
(* the second half into the same vector, handed over with the flags        *)
(* _jobReady and _jobDone under a mutex and two condition variables.       *)
(*                                                                         *)
(* Samples are known by their number, those before the first by negative   *)
(* numbers.  A dot product is known by the number of the output that it    *)
(* is, when its window is whole and where an output is due, and is Garbage *)
(* otherwise.  A critical section is one step, and so are each notify, the *)
(* filling of the block and every dot product.                             *)
(***************************************************************************)
EXTENDS Integers, Sequences

CONSTANTS
  Taps,        \* the number of taps
  Decimation,  \* _decimation
  Threads,     \* _threads
  MinSplit,    \* the 512 outputs from which a block is split
  MaxSamples   \* bound: samples that are processed

ASSUME FirAssumption ==
  /\ Taps \in Nat \ {0}
  /\ Decimation \in Nat \ {0}
  /\ Threads \in {1, 2}
  /\ MinSplit \in Nat \ {0}
  /\ MaxSamples \in Nat

VARIABLES
  history,     \* _historyRe and _historyIm
  block,       \* _blockRe and _blockIm
  out,         \* the caller's vector, *_jobOut
  inputIndex,  \* _inputIndex
  nextOutput,  \* _nextOutputIndex
  main,        \* where the thread in processCs8() or the destructor is
  range,       \* the outputs it is computing: next, end and firstLocal
  job,         \* _jobBegin, _jobEnd, _jobFirstLocal
  ready,       \* _jobReady
  done,        \* _jobDone
  stop,        \* _stopWorker
  worker,      \* where the worker is in workerLoop()
  part         \* the outputs the worker is computing

buffers == <<history, block, out, inputIndex, nextOutput>>
flags == <<ready, done, stop>>
firVars == <<buffers, main, range, job, flags, worker, part>>

Garbage == 0 - 100

NoRange == [next |-> 0, end |-> 0, first |-> 0]

FirInit ==
  /\ history = [i \in 1 .. Taps - 1 |-> i - Taps]
  /\ block = <<>>
  /\ out = <<>>
  /\ inputIndex = 0
  /\ nextOutput = 0
  /\ main = "idle"
  /\ range = NoRange
  /\ job = NoRange
  /\ ready = FALSE
  /\ done = FALSE
  /\ stop = FALSE
  /\ worker = IF Threads = 2 THEN "testing" ELSE "ended"
  /\ part = NoRange

-----------------------------------------------------------------------------
(***************************************************************************)
(* dotComplex() and computeRange().                                        *)
(***************************************************************************)
\* The number of the output that the window w, of a filter that gives one
\* output in d samples, is.
Output(w, d) ==
  IF (\A i \in 1 .. Len(w) - 1 : w[i + 1] = w[i] + 1) /\ w[Len(w)] % d = 0
  THEN w[Len(w)] \div d ELSE Garbage

\* The output at r.next of the block is computed.
Computed(r) ==
  LET local == r.first + r.next * Decimation
  IN [out EXCEPT ![r.next + 1] =
        Output(SubSeq(block, local + 1, local + Taps), Decimation)]

-----------------------------------------------------------------------------
(***************************************************************************)
(* processCs8(), up to the copy of the new history.                        *)
(***************************************************************************)
Outputs(first, n) ==
  IF first < n THEN 1 + (n - 1 - first) \div Decimation ELSE 0

\* A block of n samples arrives.  resize() keeps what the vector held.
Begin(n) ==
  LET first == nextOutput - inputIndex
      nout == Outputs(first, n)
  IN /\ main = "idle"
     /\ inputIndex + n <= MaxSamples
     /\ block' = history \o [i \in 1 .. n |-> inputIndex + i - 1]
     /\ out' = [j \in 1 .. nout |-> IF j <= Len(out) THEN out[j] ELSE Garbage]
     /\ main' = IF nout = 0 THEN "ending"
                ELSE IF Threads = 2 /\ nout >= MinSplit THEN "posting"
                ELSE "computing"
     /\ range' = [next |-> 0, end |-> nout, first |-> first]
     /\ UNCHANGED <<history, inputIndex, nextOutput, job, flags, worker, part>>

\* Mutant: the flag of the last block is left as it was.
DoneKept == done

DoneReset == FALSE

PostJob ==
  /\ main = "posting"
  /\ main' = "notifying"
  /\ LET mid == range.end \div 2
     IN /\ job' = [range EXCEPT !.next = mid]
        /\ range' = [range EXCEPT !.end = mid]
  /\ done' = DoneReset
  /\ ready' = TRUE
  /\ UNCHANGED <<buffers, stop, worker, part>>

\* notify_one() wakes the worker if it waits.
WakeWorker == worker' = IF worker = "waiting" THEN "testing" ELSE worker

NotifyJob ==
  /\ main = "notifying"
  /\ main' = "computing"
  /\ WakeWorker
  /\ UNCHANGED <<buffers, range, job, flags, part>>

\* Is the other half with the worker?
Split == range.end < Len(out)

Compute ==
  /\ main = "computing"
  /\ IF range.next < range.end
     THEN /\ out' = Computed(range)
          /\ range' = [range EXCEPT !.next = @ + 1]
          /\ UNCHANGED main
     ELSE /\ main' = IF Split THEN "checking" ELSE "ending"
          /\ UNCHANGED <<out, range>>
  /\ UNCHANGED <<history, block, inputIndex, nextOutput, job, flags, worker,
                 part>>

CheckDone ==
  /\ main = "checking"
  /\ main' = IF done THEN "ending" ELSE "waiting"
  /\ UNCHANGED <<buffers, range, job, flags, worker, part>>

\* Mutant: the history begins a sample too early.
HistoryEarly(n) == SubSeq(block, n, n + Taps - 2)

\* The last Taps - 1 samples of the history and the n new ones.
NewHistory(n) == SubSeq(block, n + 1, n + Taps - 1)

End ==
  LET n == Len(block) - (Taps - 1)
  IN /\ main = "ending"
     /\ main' = "idle"
     /\ inputIndex' = inputIndex + n
     /\ nextOutput' = nextOutput + Len(out) * Decimation
     /\ history' = NewHistory(n)
     /\ UNCHANGED <<block, out, range, job, flags, worker, part>>

-----------------------------------------------------------------------------
(***************************************************************************)
(* The destructor.                                                         *)
(***************************************************************************)
RequestStop ==
  /\ main = "idle"
  /\ main' = IF Threads = 2 THEN "stopping" ELSE "destroyed"
  /\ stop' = (Threads = 2)
  /\ UNCHANGED <<buffers, range, job, ready, done, worker, part>>

NotifyStop ==
  /\ main = "stopping"
  /\ main' = "joining"
  /\ WakeWorker
  /\ UNCHANGED <<buffers, range, job, flags, part>>

Join ==
  /\ main = "joining"
  /\ worker = "ended"
  /\ main' = "destroyed"
  /\ UNCHANGED <<buffers, range, job, flags, worker, part>>

-----------------------------------------------------------------------------
(***************************************************************************)
(* workerLoop().                                                           *)
(***************************************************************************)
\* Mutant: a worker that waits without looking at the flag first.
TestNothing == FALSE

HasJob == ready

Test ==
  /\ worker = "testing"
  /\ worker' = IF stop THEN "ended" ELSE IF HasJob THEN "computing"
                                    ELSE "waiting"
  /\ IF ~stop /\ HasJob
     THEN part' = job /\ ready' = FALSE
     ELSE UNCHANGED <<part, ready>>
  /\ UNCHANGED <<buffers, main, range, job, done, stop>>

WorkerComputes ==
  /\ worker = "computing"
  /\ IF part.next < part.end
     THEN /\ out' = Computed(part)
          /\ part' = [part EXCEPT !.next = @ + 1]
          /\ UNCHANGED worker
     ELSE /\ worker' = "finishing"
          /\ UNCHANGED <<out, part>>
  /\ UNCHANGED <<history, block, inputIndex, nextOutput, main, range, job,
                 flags>>

SetDone ==
  /\ worker = "finishing"
  /\ worker' = "notifying"
  /\ done' = TRUE
  /\ UNCHANGED <<buffers, main, range, job, ready, stop, part>>

NotifyDone ==
  /\ worker = "notifying"
  /\ worker' = "testing"
  /\ main' = IF main = "waiting" THEN "checking" ELSE main
  /\ UNCHANGED <<buffers, range, job, flags, part>>

\* A condition variable may wake without a notify.
SpuriousWakeup ==
  /\ \/ /\ worker = "waiting"
        /\ worker' = "testing"
        /\ UNCHANGED main
     \/ /\ main = "waiting"
        /\ main' = "checking"
        /\ UNCHANGED worker
  /\ UNCHANGED <<buffers, range, job, flags, part>>

Worker == Test \/ WorkerComputes \/ SetDone \/ NotifyDone

InBlock == PostJob \/ NotifyJob \/ Compute \/ CheckDone \/ End

Destructor == RequestStop \/ NotifyStop \/ Join

FirNext ==
  \/ \E n \in 1 .. MaxSamples : Begin(n)
  \/ InBlock
  \/ Destructor
  \/ Worker
  \/ SpuriousWakeup

FirSpec == FirInit /\ [][FirNext]_firVars

-----------------------------------------------------------------------------
(***************************************************************************)
(* Properties.                                                             *)
(***************************************************************************)
(***************************************************************************)
(* Each output is the dot product of the right samples, however the stream *)
(* is cut into blocks and whichever thread computed it: when a block ends, *)
(* the vector holds the outputs that follow those of the block before.     *)
(***************************************************************************)
OutputsExact ==
  main = "ending" =>
    /\ nextOutput + Len(out) * Decimation >= Len(block) - Taps + 1 + inputIndex
    /\ \A j \in 1 .. Len(out) : out[j] = nextOutput \div Decimation + j - 1

(***************************************************************************)
(* The comment at _stage1OutRef(): the vector is the worker's only during  *)
(* a call.  Outside of the halves of a split block no output is left to    *)
(* the worker, and inside no output is left to both.                       *)
(***************************************************************************)
WorkerConfined ==
  worker = "computing" /\ part.next < part.end =>
    /\ main \in {"notifying", "computing", "checking", "waiting"}
    /\ range.end <= part.next
=============================================================================
