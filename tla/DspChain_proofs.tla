-------------------------- MODULE DspChain_proofs ---------------------------
(***************************************************************************)
(* Proofs about the DSP chain, for every number of taps, decimation, split *)
(* threshold, window, pool and cutting of the stream into blocks.  Of the  *)
(* threaded filter: the worker writes only while the caller waits for it,  *)
(* and only its own half, and every output is the right one.  Of the       *)
(* chain: it uses the filter as BlockFir1Decimator describes it, every     *)
(* frame is of the right samples, and a frame that somebody holds is not   *)
(* written again.                                                          *)
(***************************************************************************)
EXTENDS DspChain, FiniteSetTheorems, TLAPS

-----------------------------------------------------------------------------
(***************************************************************************)
(* The threaded filter: theorems about FirSpec of BlockFir1Decimator.      *)
(***************************************************************************)

(***************************************************************************)
(* The inductive invariant.                                                *)
(***************************************************************************)
Ranges == [next : Nat, end : Nat, first : Nat]

FirTypes ==
  /\ history \in Seq(Int) /\ Len(history) = Taps - 1
  /\ block \in Seq(Int)
  /\ out \in Seq(Int)
  /\ inputIndex \in Nat
  /\ nextOutput \in Nat
  /\ range \in Ranges
  /\ job \in Ranges
  /\ part \in Ranges
  /\ ready \in BOOLEAN
  /\ done \in BOOLEAN

\* The caller has posted a job and not yet seen it done.
Halves == {"notifying", "computing", "checking", "waiting"}

InBlockNow == Halves \cup {"posting", "ending"}

\* The worker's half is still to be computed.
Owed == ready \/ worker \in {"computing", "finishing"}

\* A job is posted once, and its answer belongs to it: while it is owed the
\* caller is in the split block and the flag of its end is down.
HandOver ==
  /\ ready => worker \notin {"computing", "finishing"}
  /\ Owed => main \in Halves /\ ~done /\ Split
  /\ main \in Halves /\ Split => Owed \/ done
  /\ main \in {"checking", "waiting"} => Split

\* Where the stream is: the history ends before the next sample, and the next
\* output is due at a multiple of Decimation, not before that sample.
InStream ==
  /\ inputIndex <= nextOutput
  /\ nextOutput % Decimation = 0
  /\ \A i \in 1 .. Taps - 1 : history[i] = inputIndex - Taps + i

\* The samples of the block, and how many outputs it has.
Fresh == Len(block) - (Taps - 1)

BlockRight ==
  main \in InBlockNow =>
    /\ Len(block) >= Taps
    /\ \A i \in 1 .. Len(block) : block[i] = inputIndex - Taps + i
    /\ range.first = nextOutput - inputIndex
    /\ range.first + Len(out) * Decimation >= Fresh
    /\ \A j \in 0 .. Len(out) - 1 : range.first + j * Decimation < Fresh

\* The outputs from a to before b have been computed, in the vector o.
Right(o, a, b) ==
  \A j \in a .. b - 1 : o[j + 1] = nextOutput \div Decimation + j

\* The caller's half, and the worker's.
FirstHalf ==
  main \in InBlockNow =>
    /\ range.next <= range.end
    /\ range.end <= Len(out)
    /\ Right(out, 0, range.next)
    /\ main \in {"checking", "waiting"} => range.next = range.end
    /\ main = "posting" => /\ range.next = 0
                           /\ range.end = Len(out)
                           /\ range.end > 0
    /\ main = "ending" => Right(out, 0, Len(out))

SecondHalf ==
  main \in Halves /\ Split =>
    /\ ready => job = [next |-> range.end, end |-> Len(out),
                       first |-> range.first]
    /\ worker = "computing" =>
         /\ part.first = range.first
         /\ part.end = Len(out)
         /\ part.next \in range.end .. Len(out)
         /\ Right(out, range.end, part.next)
    /\ worker = "finishing" \/ done => Right(out, range.end, Len(out))

FirInv ==
  /\ FirTypes
  /\ HandOver
  /\ InStream
  /\ BlockRight
  /\ FirstHalf
  /\ SecondHalf

-----------------------------------------------------------------------------
(***************************************************************************)
(* Arithmetic of multiples.                                                *)
(***************************************************************************)
\* A quotient, by the multiples on both sides of the dividend.
LEMMA Quotient ==
  ASSUME NEW a \in Int, NEW d \in Nat \ {0}
  PROVE  /\ a \div d \in Int
         /\ a = (a \div d) * d + (a % d)
         /\ a % d \in 0 .. d - 1
  OBVIOUS

\* Multiples are ordered like their factors.
LEMMA Multiples ==
  ASSUME NEW a \in Int, NEW b \in Int, NEW d \in Nat \ {0}
  PROVE  /\ a <= b => a * d <= b * d
         /\ a < b => a * d + d <= b * d
         /\ (a + b) * d = a * d + b * d
  OBVIOUS

\* A product of natural numbers is one.
LEMMA ProductNat == \A a \in Nat, d \in Nat : a * d \in Nat
  OBVIOUS

\* The quotient is the only factor that fits.
LEMMA QuotientUnique ==
  ASSUME NEW a \in Int, NEW d \in Nat \ {0}, NEW q \in Int, NEW r \in 0 .. d - 1,
         a = q * d + r
  PROVE  a \div d = q /\ a % d = r
<1> DEFINE p == a \div d
<1>1. p \in Int /\ a = p * d + (a % d) /\ a % d \in 0 .. d - 1
  BY Quotient
<1>2. ~(p < q)
  <2> SUFFICES ASSUME p < q PROVE FALSE
    OBVIOUS
  <2>1. p * d + d <= q * d
    BY <1>1, Multiples
  <2> QED
    BY <1>1, <2>1
<1>3. ~(q < p)
  <2> SUFFICES ASSUME q < p PROVE FALSE
    OBVIOUS
  <2>1. q * d + d <= p * d
    BY <1>1, Multiples
  <2> QED
    BY <1>1, <2>1
<1> QED
  BY <1>1, <1>2, <1>3

\* A multiple that is moved by a multiple.
LEMMA MultipleMoved ==
  ASSUME NEW a \in Int, NEW d \in Nat \ {0}, NEW k \in Int, a % d = 0
  PROVE  /\ (a + k * d) % d = 0
         /\ (a + k * d) \div d = a \div d + k
<1> DEFINE q == a \div d
           b == a + k * d
<1>1. q \in Int /\ a = q * d
  BY Quotient
<1>2. (q + k) * d = q * d + k * d
  BY <1>1, Multiples
<1>3. b \in Int /\ b = (q + k) * d + 0 /\ 0 \in 0 .. d - 1
  BY <1>1, <1>2
<1>4. q + k \in Int
  BY <1>1
<1> HIDE DEF q, b
<1>5. b \div d = q + k /\ b % d = 0
  <2>1. PICK p \in Int : p = q + k
    BY <1>4
  <2>2. b = p * d + 0
    BY <1>3, <2>1
  <2>3. b \div d = p /\ b % d = 0
    BY <1>3, <2>2, QuotientUnique
  <2> QED
    BY <2>1, <2>3
<1> QED
  BY <1>5 DEF q, b

\* A block of n samples of which the one at first is due has as many outputs
\* as there are due positions in it.
LEMMA OutputsCount ==
  ASSUME NEW first \in Nat, NEW n \in Nat
  PROVE  /\ Outputs(first, n) \in Nat
         /\ first + Outputs(first, n) * Decimation >= n
         /\ \A j \in 0 .. Outputs(first, n) - 1 : first + j * Decimation < n
<1>1. CASE first >= n
  BY <1>1, FirAssumption DEF Outputs
<1>2. CASE first < n
  <2> DEFINE a == n - 1 - first
             q == a \div Decimation
  <2>1. a \in Nat /\ Decimation \in Nat \ {0}
    BY <1>2, FirAssumption
  <2>2. /\ q \in Int
        /\ a = q * Decimation + (a % Decimation)
        /\ a % Decimation \in 0 .. Decimation - 1
    BY <2>1, Quotient
  <2>3. q >= 0
    <3> SUFFICES ASSUME q < 0 PROVE FALSE
      BY <2>2
    <3>1. q * Decimation + Decimation <= 0 * Decimation
      BY <2>1, <2>2, Multiples
    <3> QED
      BY <2>1, <2>2, <3>1
  <2>4. Outputs(first, n) = 1 + q
    BY <1>2 DEF Outputs
  <2>5. (1 + q) * Decimation = 1 * Decimation + q * Decimation
    BY <2>1, <2>2, Multiples
  <2>6. ASSUME NEW j \in 0 .. q PROVE first + j * Decimation < n
    <3>1. j * Decimation <= q * Decimation
      BY <2>1, <2>2, Multiples
    <3>2. j * Decimation \in Int /\ q * Decimation \in Int
      BY <2>1, <2>2
    <3> QED
      BY <2>1, <2>2, <3>1, <3>2
  <2>7. first + (1 + q) * Decimation >= n
    <3>1. q * Decimation \in Int
      BY <2>1, <2>2
    <3> HIDE DEF q
    <3> QED
      BY <2>1, <2>2, <2>5, <3>1
  <2> HIDE DEF q
  <2> QED
    BY <2>2, <2>3, <2>4, <2>6, <2>7
<1> QED
  BY <1>1, <1>2

-----------------------------------------------------------------------------
(***************************************************************************)
(* What one dot product gives.                                             *)
(***************************************************************************)
\* The window of the output at r.next is whole and lies in the block, and the
\* output that is written is that one.
LEMMA ComputedRight ==
  ASSUME FirTypes, InStream, BlockRight, main \in InBlockNow,
         NEW r \in Ranges, r.first = range.first, r.next < Len(out)
  PROVE  /\ Computed(r) \in Seq(Int)
         /\ Len(Computed(r)) = Len(out)
         /\ Computed(r)[r.next + 1] = nextOutput \div Decimation + r.next
         /\ \A j \in 1 .. Len(out) :
              j # r.next + 1 => Computed(r)[j] = out[j]
<1> DEFINE k == r.next
           local == r.first + k * Decimation
           w == SubSeq(block, local + 1, local + Taps)
           v == Output(w, Decimation)
<1>1. /\ k \in Nat /\ r.first \in Nat /\ Len(out) \in Nat /\ out \in Seq(Int)
      /\ block \in Seq(Int) /\ Len(block) \in Nat
      /\ inputIndex \in Nat /\ nextOutput \in Nat
      /\ Taps \in Nat \ {0} /\ Decimation \in Nat \ {0}
  BY FirAssumption DEF FirTypes, Ranges
<1>2. k * Decimation \in Nat /\ local \in Nat
  <2>1. k * Decimation \in Nat
    BY <1>1, ProductNat
  <2> QED
    BY <1>1, <2>1
<1>3. local < Fresh
  <2>1. k \in 0 .. Len(out) - 1
    BY <1>1
  <2>2. \A j \in 0 .. Len(out) - 1 : range.first + j * Decimation < Fresh
    BY DEF BlockRight
  <2> QED
    BY <2>1, <2>2
<1>4. local + Taps <= Len(block)
  <2> HIDE DEF local
  <2> QED
    BY <1>1, <1>2, <1>3 DEF Fresh
<1>5. /\ w \in Seq(Int)
      /\ Len(w) = Taps
      /\ \A i \in 1 .. Taps : w[i] = block[local + i]
  <2> HIDE DEF local
  <2> QED
    BY <1>1, <1>2, <1>4
<1>6. \A i \in 1 .. Taps : w[i] = inputIndex - Taps + (local + i)
  <2>1. \A i \in 1 .. Len(block) : block[i] = inputIndex - Taps + i
    BY DEF BlockRight
  <2> SUFFICES ASSUME NEW i \in 1 .. Taps
               PROVE  w[i] = inputIndex - Taps + (local + i)
    OBVIOUS
  <2> HIDE DEF local, w
  <2>2. local + i \in 1 .. Len(block)
    BY <1>1, <1>2, <1>4
  <2> QED
    BY <1>5, <2>1, <2>2
<1>7. \A i \in 1 .. Len(w) - 1 : w[i + 1] = w[i] + 1
  <2> HIDE DEF local, w
  <2> QED
    BY <1>1, <1>2, <1>5, <1>6
<1>8. w[Len(w)] = nextOutput + k * Decimation
  <2>1. w[Len(w)] = inputIndex + local
    <3> HIDE DEF local, w
    <3> QED
      BY <1>1, <1>2, <1>5, <1>6
  <2>2. r.first = nextOutput - inputIndex
    BY DEF BlockRight
  <2>3. k * Decimation \in Int
    BY <1>1
  <2> HIDE DEF w, k
  <2> QED
    BY <1>1, <2>1, <2>2, <2>3
<1>9. /\ (nextOutput + k * Decimation) % Decimation = 0
      /\ (nextOutput + k * Decimation) \div Decimation
           = nextOutput \div Decimation + k
  <2>1. nextOutput \in Int /\ k \in Int /\ nextOutput % Decimation = 0
    BY <1>1 DEF InStream
  <2> HIDE DEF k
  <2> QED
    BY <1>1, <2>1, MultipleMoved
<1>10. v = nextOutput \div Decimation + k
  <2> HIDE DEF w, k
  <2> QED
    BY <1>7, <1>8, <1>9 DEF Output
<1>11. v \in Int
  <2>1. nextOutput \div Decimation \in Int
    BY <1>1, Quotient
  <2> HIDE DEF v
  <2> QED
    BY <1>1, <1>10, <2>1
<1>12. Computed(r) = [out EXCEPT ![k + 1] = v]
  BY DEF Computed
<1> HIDE DEF v, k
<1> QED
  BY <1>1, <1>10, <1>11, <1>12 DEF k

-----------------------------------------------------------------------------
(***************************************************************************)
(* The invariant holds at the start and in every step.                     *)
(***************************************************************************)
\* The filter starts before the first sample, with nothing handed over.
LEMMA FirInvInit == FirInit => FirInv
<1> SUFFICES ASSUME FirInit PROVE FirInv
  OBVIOUS
<1>1. Taps \in Nat \ {0} /\ Decimation \in Nat \ {0}
  BY FirAssumption
<1>2. history \in Seq(Int) /\ Len(history) = Taps - 1
  BY <1>1 DEF FirInit
<1>3. FirTypes
  <2>1. <<>> \in Seq(Int) /\ NoRange \in Ranges
    BY DEF Ranges, NoRange
  <2> QED
    BY <1>2, <2>1 DEF FirInit, FirTypes
<1>4. 0 % Decimation = 0
  BY <1>1
<1>5. InStream
  BY <1>1, <1>4 DEF FirInit, InStream
<1> QED
  BY <1>3, <1>5 DEF FirInit, FirInv, HandOver, Owed, BlockRight, FirstHalf,
     SecondHalf, InBlockNow, Halves

\* Two sequences put together.
LEMMA Joined ==
  ASSUME NEW s \in Seq(Int), NEW t \in Seq(Int)
  PROVE  /\ s \o t \in Seq(Int)
         /\ Len(s \o t) = Len(s) + Len(t)
         /\ \A i \in 1 .. Len(s) : (s \o t)[i] = s[i]
         /\ \A i \in 1 .. Len(t) : (s \o t)[Len(s) + i] = t[i]
  OBVIOUS

\* A block begins: its samples follow the history, and its outputs are those
\* that are due in it.
LEMMA BeginStep ==
  ASSUME FirInv, NEW n \in 1 .. MaxSamples, Begin(n)
  PROVE  FirInv'
<1> DEFINE first == nextOutput - inputIndex
           nout == Outputs(first, n)
           fill == [i \in 1 .. n |-> inputIndex + i - 1]
<1>1. /\ Taps \in Nat \ {0} /\ Decimation \in Nat \ {0} /\ n \in Nat \ {0}
      /\ MinSplit \in Nat \ {0}
      /\ inputIndex \in Nat /\ nextOutput \in Nat /\ first \in Nat
      /\ history \in Seq(Int) /\ Len(history) = Taps - 1
      /\ out \in Seq(Int)
  BY FirAssumption DEF FirInv, FirTypes, InStream
<1>2. /\ nout \in Nat
      /\ first + nout * Decimation >= n
      /\ \A j \in 0 .. nout - 1 : first + j * Decimation < n
  BY <1>1, OutputsCount
<1>3. /\ fill \in Seq(Int) /\ Len(fill) = n
      /\ \A i \in 1 .. n : fill[i] = inputIndex + i - 1
  BY <1>1
<1>4. /\ block' = history \o fill
      /\ out' = [j \in 1 .. nout |-> IF j <= Len(out) THEN out[j] ELSE Garbage]
      /\ main' = IF nout = 0 THEN "ending"
                 ELSE IF Threads = 2 /\ nout >= MinSplit THEN "posting"
                 ELSE "computing"
      /\ range' = [next |-> 0, end |-> nout, first |-> first]
      /\ UNCHANGED <<history, inputIndex, nextOutput, job, flags, worker, part>>
      /\ main = "idle"
  BY DEF Begin
<1> HIDE DEF first, nout, fill
<1>5. /\ block' \in Seq(Int)
      /\ Len(block') = Taps - 1 + n
      /\ \A i \in 1 .. Len(block') : block'[i] = inputIndex - Taps + i
  <2>1. block' \in Seq(Int) /\ Len(block') = Taps - 1 + n
    BY <1>1, <1>3, <1>4, Joined
  <2>2. ASSUME NEW i \in 1 .. Taps - 1 + n
        PROVE  block'[i] = inputIndex - Taps + i
    <3>1. CASE i <= Taps - 1
      <4>1. block'[i] = history[i]
        BY <1>1, <1>3, <1>4, <3>1, Joined
      <4> QED
        BY <1>1, <3>1, <4>1 DEF FirInv, InStream
    <3>2. CASE i > Taps - 1
      <4>1. block'[i] = fill[i - (Taps - 1)]
        <5> DEFINE k == i - (Taps - 1)
        <5>1. k \in 1 .. Len(fill) /\ i = Len(history) + k
          BY <1>1, <1>3, <3>2
        <5>2. (history \o fill)[Len(history) + k] = fill[k]
          BY <1>1, <1>3, <5>1, Joined
        <5> QED
          BY <1>4, <5>1, <5>2
      <4> QED
        BY <1>1, <1>3, <3>2, <4>1
    <3> QED
      BY <1>1, <3>1, <3>2
  <2> QED
    BY <2>1, <2>2
<1>6. out' \in Seq(Int) /\ Len(out') = nout
  BY <1>1, <1>2, <1>4 DEF Garbage
<1>7. ~Owed
  BY <1>4 DEF FirInv, HandOver, Halves
<1>8. FirTypes'
  BY <1>1, <1>2, <1>4, <1>5, <1>6 DEF FirInv, FirTypes, Ranges, flags
<1>9. HandOver'
  <2>1. ~Owed'
    BY <1>4, <1>7 DEF Owed, flags
  <2>2. ~Split'
    BY <1>2, <1>4, <1>6 DEF Split
  <2>3. main' \notin {"checking", "waiting"}
    BY <1>4
  <2> QED
    BY <2>1, <2>2, <2>3 DEF HandOver, Owed
<1>10. InStream'
  BY <1>4 DEF FirInv, InStream
<1>11. BlockRight'
  <2>1. Fresh' = n
    BY <1>1, <1>5 DEF Fresh
  <2> QED
    <3>1. range'.first = first /\ first = nextOutput' - inputIndex'
      BY <1>4 DEF first
    <3>2. Len(block') >= Taps
      BY <1>1, <1>5
    <3>3. inputIndex' = inputIndex
      BY <1>4
    <3> QED
      BY <1>2, <1>5, <1>6, <2>1, <3>1, <3>2, <3>3 DEF BlockRight
<1>12. FirstHalf'
  BY <1>1, <1>2, <1>4, <1>6 DEF FirstHalf, Right
<1>13. SecondHalf'
  <2>1. ~Split'
    BY <1>2, <1>4, <1>6 DEF Split
  <2> QED
    BY <2>1 DEF SecondHalf
<1> QED
  BY <1>8, <1>9, <1>10, <1>11, <1>12, <1>13 DEF FirInv

\* A block is split: the caller keeps the first half.
LEMMA PostJobStep ==
  ASSUME FirInv, PostJob
  PROVE  FirInv'
<1> DEFINE mid == range.end \div 2
<1>1. /\ range \in Ranges /\ out \in Seq(Int) /\ Len(out) \in Nat
      /\ range.next = 0 /\ range.end = Len(out) /\ range.end > 0
      /\ main = "posting" /\ ~Owed
  BY DEF FirInv, FirTypes, FirstHalf, PostJob, InBlockNow, Halves, HandOver
<1>2. mid \in Nat /\ mid < range.end
  BY <1>1 DEF Ranges
<1>3. /\ main' = "notifying"
      /\ job' = [range EXCEPT !.next = mid]
      /\ range' = [range EXCEPT !.end = mid]
      /\ done' = FALSE /\ ready' = TRUE
      /\ UNCHANGED <<buffers, stop, worker, part>>
  BY DEF PostJob, DoneReset
<1> HIDE DEF mid
<1>4. FirTypes'
  BY <1>1, <1>2, <1>3 DEF FirInv, FirTypes, Ranges, buffers
<1>5. HandOver'
  BY <1>1, <1>2, <1>3
     DEF HandOver, Owed, Halves, Split, buffers, Ranges
<1>6. InStream' /\ BlockRight'
  BY <1>1, <1>3
     DEF FirInv, InStream, BlockRight, InBlockNow, Fresh, buffers, Ranges
<1>7. FirstHalf'
  BY <1>1, <1>2, <1>3 DEF FirstHalf, Right, buffers, Ranges
<1>8. SecondHalf'
  BY <1>1, <1>2, <1>3 DEF SecondHalf, Owed, buffers, Ranges
<1> QED
  BY <1>4, <1>5, <1>6, <1>7, <1>8 DEF FirInv

\* What only the control of the two threads changes, changes no buffer and no
\* range: the invariants of the data stay, for the places that stay.
LEMMA DataKept ==
  ASSUME FirInv, UNCHANGED <<buffers, range>>,
         main' \in InBlockNow => main \in InBlockNow
  PROVE  InStream' /\ BlockRight'
  BY DEF FirInv, InStream, BlockRight, Fresh, buffers

\* Notifications, waits and the destructor.
LEMMA ControlStep ==
  ASSUME FirInv,
         NotifyJob \/ CheckDone \/ RequestStop \/ NotifyStop \/ Join
           \/ NotifyDone \/ SpuriousWakeup \/ UNCHANGED firVars
  PROVE  FirInv'
<1> DEFINE Idle == {"idle", "stopping", "joining", "destroyed"}
<1>1. UNCHANGED <<buffers, range, job, ready, done, part>>
  BY DEF NotifyJob, CheckDone, RequestStop, NotifyStop, Join, NotifyDone,
     SpuriousWakeup, firVars, flags
<1>2. /\ worker' \in {"computing", "finishing"} <=>
           worker \in {"computing", "finishing"}
      /\ worker' = "computing" <=> worker = "computing"
      /\ worker' = "finishing" <=> worker = "finishing"
  BY DEF NotifyJob, CheckDone, RequestStop, NotifyStop, Join, NotifyDone,
     SpuriousWakeup, firVars, flags, WakeWorker
<1>3. \/ main' = main
      \/ main = "notifying" /\ main' = "computing"
      \/ main = "checking" /\ main' = "waiting"
      \/ main = "checking" /\ done /\ main' = "ending"
      \/ main = "waiting" /\ main' = "checking"
      \/ main \in Idle /\ main' \in Idle
  BY DEF NotifyJob, CheckDone, RequestStop, NotifyStop, Join, NotifyDone,
     SpuriousWakeup, firVars
<1>4. FirTypes'
  BY <1>1 DEF FirInv, FirTypes, buffers
<1>5. HandOver'
  BY <1>1, <1>2, <1>3 DEF FirInv, HandOver, Owed, Halves, Split, buffers
<1>6. InStream' /\ BlockRight'
  BY <1>1, <1>3, DataKept DEF InBlockNow, Halves
<1>7. FirstHalf'
  <2>1. main' \in InBlockNow => main \in InBlockNow
    BY <1>3 DEF InBlockNow, Halves
  <2>2. main' = "ending" => Right(out, 0, Len(out))
    <3>1. CASE main = "ending"
      BY <3>1 DEF FirInv, FirstHalf, InBlockNow
    <3>2. CASE main = "checking" /\ done
      <4>1. Split /\ range.next = range.end
        BY <3>2 DEF FirInv, HandOver, FirstHalf, InBlockNow, Halves
      <4>2. Right(out, 0, range.end) /\ Right(out, range.end, Len(out))
        BY <3>2, <4>1 DEF FirInv, FirstHalf, SecondHalf, InBlockNow, Halves
      <4>3. range.end \in Nat /\ Len(out) \in Nat
        BY DEF FirInv, FirTypes, Ranges
      <4> QED
        BY <4>2, <4>3 DEF Right
    <3> QED
      BY <1>3, <3>1, <3>2
  <2>3. main' \in {"checking", "waiting"} => main \in {"checking", "waiting"}
    BY <1>3
  <2>4. main' = "posting" => main = "posting"
    BY <1>3
  <2> QED
    BY <1>1, <2>1, <2>2, <2>3, <2>4 DEF FirInv, FirstHalf, Right, buffers
<1>8. SecondHalf'
  <2>1. main' \in Halves => main \in Halves
    BY <1>3 DEF Halves
  <2> QED
    BY <1>1, <1>2, <2>1 DEF FirInv, SecondHalf, Split, Right, buffers
<1> QED
  BY <1>4, <1>5, <1>6, <1>7, <1>8 DEF FirInv

\* A write at k + 1 leaves the outputs elsewhere right, and makes those up to it
\* right when it is.
LEMMA RightKept ==
  ASSUME NEW o, NEW p, NEW n \in Nat, NEW k \in Nat,
         NEW a \in Nat, NEW b \in Nat, b <= n, k \notin a .. b - 1,
         \A j \in 1 .. n : j # k + 1 => p[j] = o[j],
         Right(o, a, b)
  PROVE  Right(p, a, b)
<1> SUFFICES ASSUME NEW j \in a .. b - 1
             PROVE  p[j + 1] = nextOutput \div Decimation + j
  BY DEF Right
<1>1. j + 1 \in 1 .. n /\ j + 1 # k + 1
  OBVIOUS
<1>2. o[j + 1] = nextOutput \div Decimation + j
  BY DEF Right
<1> QED
  BY <1>1, <1>2

\* The same for the right end of the interval.
LEMMA RightOneMore ==
  ASSUME NEW o, NEW p, NEW n \in Nat, NEW a \in Nat, NEW k \in Nat,
         a <= k, k < n,
         \A j \in 1 .. n : j # k + 1 => p[j] = o[j],
         p[k + 1] = nextOutput \div Decimation + k,
         Right(o, a, k)
  PROVE  Right(p, a, k + 1)
<1>1. Right(p, a, k)
  <2>1. k <= n /\ k \notin a .. k - 1
    OBVIOUS
  <2> QED
    BY <2>1, RightKept
<1> SUFFICES ASSUME NEW j \in a .. (k + 1) - 1
             PROVE  p[j + 1] = nextOutput \div Decimation + j
  BY DEF Right
<1>2. CASE j = k
  BY <1>2
<1>3. CASE j # k
  <2>1. j \in a .. k - 1
    BY <1>3
  <2> QED
    BY <1>1, <2>1 DEF Right
<1> QED
  BY <1>2, <1>3

\* The caller computes an output of its half, or is through with it.
LEMMA ComputeStep ==
  ASSUME FirInv, Compute
  PROVE  FirInv'
<1>1. /\ main = "computing" /\ main \in InBlockNow /\ main \in Halves
      /\ range \in Ranges /\ out \in Seq(Int) /\ Len(out) \in Nat
      /\ range.next <= range.end /\ range.end <= Len(out)
      /\ Right(out, 0, range.next)
      /\ UNCHANGED <<history, block, inputIndex, nextOutput, job, flags, worker,
                     part>>
  BY DEF FirInv, FirTypes, FirstHalf, Compute, InBlockNow, Halves
<1>2. CASE range.next < range.end
  <2>1. /\ out' = Computed(range)
        /\ range' = [range EXCEPT !.next = @ + 1]
        /\ UNCHANGED main
    BY <1>2 DEF Compute
  <2>2. /\ out' \in Seq(Int)
        /\ Len(out') = Len(out)
        /\ out'[range.next + 1] = nextOutput \div Decimation + range.next
        /\ \A j \in 1 .. Len(out) : j # range.next + 1 => out'[j] = out[j]
    <3>1. range.next < Len(out) /\ range.next \in Nat /\ range.end \in Nat
      BY <1>1, <1>2 DEF Ranges
    <3>2. FirTypes /\ InStream /\ BlockRight
      BY DEF FirInv
    <3> QED
      BY <1>1, <2>1, <3>1, <3>2, ComputedRight
  <2>3. range' \in Ranges /\ range'.next = range.next + 1
        /\ range'.end = range.end /\ range'.first = range.first
    BY <1>1, <2>1 DEF Ranges
  <2>4. FirTypes'
    BY <1>1, <2>2, <2>3 DEF FirInv, FirTypes, flags
  <2>5. HandOver'
    BY <1>1, <2>1, <2>2, <2>3 DEF FirInv, HandOver, Owed, Split, flags
  <2>6. InStream' /\ BlockRight'
    BY <1>1, <2>1, <2>2, <2>3 DEF FirInv, InStream, BlockRight, Fresh
  <2>7. FirstHalf'
    <3>1. Right(out', 0, range.next + 1)
      <4>1. /\ range.next \in Nat /\ 0 \in Nat /\ 0 <= range.next
            /\ range.next < Len(out)
        BY <1>1, <1>2 DEF Ranges
      <4> QED
        BY <1>1, <2>2, <4>1, RightOneMore
    <3>2. nextOutput' = nextOutput
      BY <1>1
    <3>3. Right(out, 0, range.next)'
      BY <2>3, <3>1, <3>2 DEF Right
    <3> QED
      BY <1>1, <1>2, <2>1, <2>2, <2>3, <3>3 DEF FirstHalf, Ranges
  <2>8. SecondHalf'
    <3>1. ASSUME NEW b \in Nat, b <= Len(out), Right(out, range.end, b)
          PROVE  Right(out', range.end, b)
      <4>1. /\ range.next \in Nat /\ range.end \in Nat
            /\ range.next \notin range.end .. b - 1
        BY <1>1, <1>2 DEF Ranges
      <4> QED
        BY <1>1, <2>2, <3>1, <4>1, RightKept
    <3>2. Split' <=> Split
      BY <2>2, <2>3 DEF Split
    <3>3. worker = "computing" /\ Split => Right(out', range.end, part.next)
      <4> SUFFICES ASSUME worker = "computing", Split
                   PROVE  Right(out', range.end, part.next)
        OBVIOUS
      <4>1. /\ part.next \in range.end .. Len(out)
            /\ Right(out, range.end, part.next)
        BY <1>1 DEF FirInv, SecondHalf
      <4>2. part.next \in Nat /\ part.next <= Len(out)
        BY <1>1, <4>1 DEF Ranges
      <4> QED
        BY <3>1, <4>1, <4>2
    <3>4. (worker = "finishing" \/ done) /\ Split => Right(out', range.end, Len(out))
      <4> SUFFICES ASSUME worker = "finishing" \/ done, Split
                   PROVE  Right(out', range.end, Len(out))
        OBVIOUS
      <4>1. Right(out, range.end, Len(out))
        BY <1>1 DEF FirInv, SecondHalf
      <4> QED
        BY <1>1, <3>1, <4>1
    <3>5. /\ main' = main /\ worker' = worker /\ part' = part /\ job' = job
          /\ ready' = ready /\ done' = done /\ nextOutput' = nextOutput
      BY <1>1, <2>1 DEF flags
    <3>6. SecondHalf
      BY DEF FirInv
    <3> QED
      BY <1>1, <2>2, <2>3, <3>2, <3>3, <3>4, <3>5, <3>6 DEF SecondHalf, Right
  <2> QED
    BY <2>4, <2>5, <2>6, <2>7, <2>8 DEF FirInv
<1>3. CASE ~(range.next < range.end)
  <2>1. /\ main' = IF Split THEN "checking" ELSE "ending"
        /\ UNCHANGED <<out, range>>
    BY <1>3 DEF Compute
  <2>2. range.next = range.end
    BY <1>1, <1>3 DEF Ranges
  <2>3. ~Split => range.end = Len(out)
    BY <1>1 DEF Split, Ranges
  <2>4. FirTypes'
    BY <1>1, <2>1 DEF FirInv, FirTypes, flags
  <2>5. HandOver'
    BY <1>1, <2>1 DEF FirInv, HandOver, Owed, Split, Halves, flags
  <2>6. InStream' /\ BlockRight'
    BY <1>1, <2>1, DataKept DEF buffers
  <2>7. FirstHalf'
    BY <1>1, <2>1, <2>2, <2>3 DEF FirstHalf, Right
  <2>8. SecondHalf'
    BY <1>1, <2>1 DEF FirInv, SecondHalf, Split, Right, Halves, flags
  <2> QED
    BY <2>4, <2>5, <2>6, <2>7, <2>8 DEF FirInv
<1> QED
  BY <1>2, <1>3

\* A stretch of a sequence.
LEMMA Stretch ==
  ASSUME NEW s \in Seq(Int), NEW m \in Nat, NEW k \in Nat, m + k <= Len(s)
  PROVE  /\ SubSeq(s, m + 1, m + k) \in Seq(Int)
         /\ Len(SubSeq(s, m + 1, m + k)) = k
         /\ \A i \in 1 .. k : SubSeq(s, m + 1, m + k)[i] = s[m + i]
<1>1. SubSeq(s, m + 1, m + k) \in Seq(Int)
  OBVIOUS
<1>2. Len(SubSeq(s, m + 1, m + k)) = k
  OBVIOUS
<1>3. ASSUME NEW i \in 1 .. k PROVE SubSeq(s, m + 1, m + k)[i] = s[m + i]
  BY SMTT(20)
<1> QED
  BY <1>1, <1>2, <1>3

\* A block ends: all its outputs are right, the next output and the history
\* move on by what it held.
LEMMA EndStep ==
  ASSUME FirInv, End
  PROVE  FirInv'
<1> DEFINE n == Fresh
<1>1. /\ main = "ending" /\ main' = "idle" /\ main \in InBlockNow
      /\ inputIndex' = inputIndex + n
      /\ nextOutput' = nextOutput + Len(out) * Decimation
      /\ history' = SubSeq(block, n + 1, n + Taps - 1)
      /\ UNCHANGED <<block, out, range, job, flags, worker, part>>
  BY DEF End, Fresh, NewHistory, InBlockNow
<1>2. /\ Taps \in Nat \ {0} /\ Decimation \in Nat \ {0}
      /\ block \in Seq(Int) /\ Len(block) \in Nat /\ Len(block) >= Taps
      /\ out \in Seq(Int) /\ Len(out) \in Nat
      /\ inputIndex \in Nat /\ nextOutput \in Nat
      /\ n \in Nat \ {0} /\ Len(block) = n + Taps - 1
  <2>1. /\ Taps \in Nat \ {0} /\ Decimation \in Nat \ {0}
        /\ inputIndex \in Nat /\ nextOutput \in Nat
        /\ block \in Seq(Int) /\ out \in Seq(Int)
    BY FirAssumption DEF FirInv, FirTypes
  <2>2. Len(block) \in Nat /\ Len(out) \in Nat
    BY <2>1
  <2>3. Len(block) >= Taps
    BY <1>1 DEF FirInv, BlockRight
  <2>4. n \in Nat \ {0} /\ Len(block) = n + Taps - 1
    BY <2>1, <2>2, <2>3 DEF Fresh
  <2> QED
    BY <2>1, <2>2, <2>3, <2>4
<1>3. Len(out) * Decimation \in Nat
  BY <1>2, ProductNat
<1> HIDE DEF n
<1>4. /\ history' \in Seq(Int)
      /\ Len(history') = Taps - 1
      /\ \A i \in 1 .. Taps - 1 : history'[i] = block[n + i]
  <2>1. Taps - 1 \in Nat /\ n + (Taps - 1) <= Len(block)
        /\ n + (Taps - 1) = n + Taps - 1 /\ n \in Nat
    BY <1>2
  <2>2. history' = SubSeq(block, n + 1, n + (Taps - 1))
    BY <1>1, <2>1
  <2> QED
    BY <1>2, <2>1, <2>2, Stretch
<1>5. FirTypes'
  <2> DEFINE p == Len(out) * Decimation
  <2>1. inputIndex' \in Nat /\ nextOutput' \in Nat
    <3>1. p \in Nat /\ nextOutput' = nextOutput + p
      BY <1>1, <1>3
    <3> HIDE DEF p
    <3> QED
      BY <1>1, <1>2, <3>1
  <2> QED
    BY <1>1, <1>4, <2>1 DEF FirInv, FirTypes, flags
<1>6. ~Owed /\ ~Owed'
  BY <1>1 DEF FirInv, HandOver, Halves, Owed, flags
<1>7. HandOver'
  BY <1>1, <1>6 DEF FirInv, HandOver, Halves, Owed, flags
<1>8. InStream'
  <2>1. inputIndex' <= nextOutput'
    <3>1. /\ nextOutput - inputIndex + Len(out) * Decimation >= n
      BY <1>1 DEF FirInv, BlockRight, n
    <3> QED
      BY <1>1, <1>2, <1>3, <3>1
  <2>2. nextOutput' % Decimation = 0
    <3>1. nextOutput % Decimation = 0 /\ nextOutput \in Int /\ Len(out) \in Int
      BY <1>2 DEF FirInv, InStream
    <3> QED
      BY <1>1, <1>2, <3>1, MultipleMoved
  <2>3. ASSUME NEW i \in 1 .. Taps - 1
        PROVE  history'[i] = inputIndex' - Taps + i
    <3>1. n + i \in 1 .. Len(block)
      BY <1>2
    <3>2. block[n + i] = inputIndex - Taps + (n + i)
      BY <1>1, <3>1 DEF FirInv, BlockRight
    <3> QED
      BY <1>1, <1>2, <1>4, <3>2
  <2> QED
    BY <2>1, <2>2, <2>3 DEF InStream
<1> QED
  BY <1>1, <1>5, <1>7, <1>8 DEF FirInv, BlockRight, FirstHalf, SecondHalf,
     InBlockNow, Halves

\* The worker looks at its flags and takes the job.
LEMMA TestStep ==
  ASSUME FirInv, Test
  PROVE  FirInv'
<1>1. /\ worker = "testing"
      /\ UNCHANGED <<buffers, main, range, job, done, stop>>
  BY DEF Test
<1>2. InStream' /\ BlockRight'
  BY <1>1, DataKept
<1>3. FirstHalf'
  BY <1>1 DEF FirInv, FirstHalf, Right, buffers
<1>4. CASE ~stop /\ ready
  <2>1. worker' = "computing" /\ part' = job /\ ready' = FALSE
    BY <1>4 DEF Test, HasJob
  <2>2. Owed /\ main \in Halves /\ ~done /\ Split
    BY <1>4 DEF FirInv, HandOver, Owed
  <2>3. FirTypes'
    BY <1>1, <2>1 DEF FirInv, FirTypes, buffers
  <2>4. HandOver'
    BY <1>1, <2>1, <2>2 DEF FirInv, HandOver, Owed, Split, buffers
  <2>5. SecondHalf'
    <3>1. job = [next |-> range.end, end |-> Len(out), first |-> range.first]
      BY <1>4, <2>2 DEF FirInv, SecondHalf
    <3>2. range.end \in Nat /\ Len(out) \in Nat /\ range.end <= Len(out)
      BY <2>2 DEF FirInv, FirTypes, Ranges, FirstHalf, InBlockNow
    <3>3. Right(out, range.end, range.end)
      BY <3>2 DEF Right
    <3> QED
      BY <1>1, <2>1, <2>2, <3>1, <3>2, <3>3 DEF SecondHalf, Right, buffers
  <2> QED
    BY <1>2, <1>3, <2>3, <2>4, <2>5 DEF FirInv
<1>5. CASE ~(~stop /\ ready)
  <2>1. /\ worker' \in {"ended", "waiting"}
        /\ UNCHANGED <<part, ready>>
    BY <1>5 DEF Test, HasJob
  <2>2. FirTypes'
    BY <1>1, <2>1 DEF FirInv, FirTypes, buffers
  <2>3. HandOver'
    BY <1>1, <2>1 DEF FirInv, HandOver, Owed, Split, buffers
  <2>4. SecondHalf'
    BY <1>1, <2>1 DEF FirInv, SecondHalf, Split, Right, buffers
  <2> QED
    BY <1>2, <1>3, <2>2, <2>3, <2>4 DEF FirInv
<1> QED
  BY <1>4, <1>5

\* The worker computes an output of its half, or is through with it.
LEMMA WorkerComputesStep ==
  ASSUME FirInv, WorkerComputes
  PROVE  FirInv'
<1>1. /\ worker = "computing" /\ ~ready /\ Owed
      /\ main \in Halves /\ main \in InBlockNow /\ ~done /\ Split
  BY DEF FirInv, HandOver, Owed, WorkerComputes, InBlockNow
<1>2. /\ part \in Ranges /\ range \in Ranges /\ out \in Seq(Int)
      /\ Len(out) \in Nat
      /\ part.first = range.first /\ part.end = Len(out)
      /\ range.end <= part.next /\ part.next <= Len(out)
      /\ range.next <= range.end
      /\ Right(out, range.end, part.next)
      /\ Right(out, 0, range.next)
  BY <1>1 DEF FirInv, FirTypes, FirstHalf, SecondHalf, Ranges
<1>3. UNCHANGED <<history, block, inputIndex, nextOutput, main, range, job, flags>>
  BY DEF WorkerComputes
<1>4. CASE part.next < part.end
  <2>1. /\ out' = Computed(part)
        /\ part' = [part EXCEPT !.next = @ + 1]
        /\ UNCHANGED worker
    BY <1>4 DEF WorkerComputes
  <2>2. /\ out' \in Seq(Int)
        /\ Len(out') = Len(out)
        /\ out'[part.next + 1] = nextOutput \div Decimation + part.next
        /\ \A j \in 1 .. Len(out) : j # part.next + 1 => out'[j] = out[j]
    <3>1. FirTypes /\ InStream /\ BlockRight
      BY DEF FirInv
    <3>2. part.next < Len(out)
      BY <1>2, <1>4
    <3> QED
      BY <1>1, <1>2, <2>1, <3>1, <3>2, ComputedRight
  <2>3. /\ part' \in Ranges /\ part'.next = part.next + 1
        /\ part'.end = part.end /\ part'.first = part.first
    BY <1>2, <2>1 DEF Ranges
  <2>4. FirTypes'
    BY <1>3, <2>2, <2>3 DEF FirInv, FirTypes, flags
  <2>5. HandOver'
    BY <1>3, <2>1, <2>2 DEF FirInv, HandOver, Owed, Split, flags
  <2>6. InStream' /\ BlockRight'
    BY <1>3, <2>2 DEF FirInv, InStream, BlockRight, Fresh
  <2>7. FirstHalf'
    <3>1. /\ part.next \in Nat /\ range.next \in Nat /\ 0 \in Nat
          /\ range.next <= Len(out) /\ part.next \notin 0 .. range.next - 1
      BY <1>2 DEF Ranges
    <3>2. Right(out', 0, range.next)
      BY <1>2, <2>2, <3>1, RightKept
    <3>3. FirstHalf
      BY DEF FirInv
    <3> QED
      BY <1>1, <1>3, <2>2, <3>2, <3>3 DEF FirstHalf, Right, Halves
  <2>8. SecondHalf'
    <3>1. part.next \in Nat /\ range.end \in Nat /\ part.next < Len(out)
      BY <1>2, <1>4 DEF Ranges
    <3>2. Right(out', range.end, part.next + 1)
      BY <1>2, <2>2, <3>1, RightOneMore
    <3>3. part'.next \in range.end .. Len(out)
      BY <1>2, <2>3, <3>1
    <3> QED
      BY <1>1, <1>2, <1>3, <2>1, <2>2, <2>3, <3>2, <3>3
         DEF SecondHalf, Right, flags
  <2> QED
    BY <2>4, <2>5, <2>6, <2>7, <2>8 DEF FirInv
<1>5. CASE ~(part.next < part.end)
  <2>1. worker' = "finishing" /\ UNCHANGED <<out, part>>
    BY <1>5 DEF WorkerComputes
  <2>2. part.next = Len(out)
    BY <1>2, <1>5 DEF Ranges
  <2>3. FirTypes'
    BY <1>3, <2>1 DEF FirInv, FirTypes, flags
  <2>4. HandOver'
    BY <1>1, <1>3, <2>1 DEF FirInv, HandOver, Owed, Split, flags
  <2>5. InStream' /\ BlockRight'
    BY <1>3, <2>1, DataKept DEF buffers
  <2>6. FirstHalf'
    BY <1>3, <2>1 DEF FirInv, FirstHalf, Right
  <2>7. SecondHalf'
    BY <1>1, <1>2, <1>3, <2>1, <2>2 DEF SecondHalf, Right, flags
  <2> QED
    BY <2>3, <2>4, <2>5, <2>6, <2>7 DEF FirInv
<1> QED
  BY <1>4, <1>5

\* The worker reports the end of its half.
LEMMA SetDoneStep ==
  ASSUME FirInv, SetDone
  PROVE  FirInv'
<1>1. /\ worker = "finishing" /\ worker' = "notifying" /\ done' = TRUE
      /\ UNCHANGED <<buffers, main, range, job, ready, stop, part>>
  BY DEF SetDone
<1>2. main \in Halves /\ Split /\ ~ready
  BY <1>1 DEF FirInv, HandOver, Owed
<1>3. Right(out, range.end, Len(out))
  BY <1>1, <1>2 DEF FirInv, SecondHalf
<1>4. FirTypes'
  BY <1>1 DEF FirInv, FirTypes, buffers
<1>5. HandOver'
  BY <1>1, <1>2 DEF FirInv, HandOver, Owed, Split, buffers
<1>6. InStream' /\ BlockRight'
  BY <1>1, DataKept
<1>7. FirstHalf'
  BY <1>1 DEF FirInv, FirstHalf, Right, buffers
<1>8. SecondHalf'
  BY <1>1, <1>2, <1>3 DEF FirInv, SecondHalf, Split, Right, buffers
<1> QED
  BY <1>4, <1>5, <1>6, <1>7, <1>8 DEF FirInv

\* The invariant is inductive.
LEMMA FirInvStep == FirInv /\ [FirNext]_firVars => FirInv'
<1> SUFFICES ASSUME FirInv, [FirNext]_firVars PROVE FirInv'
  OBVIOUS
<1>1. CASE \E n \in 1 .. MaxSamples : Begin(n)
  BY <1>1, BeginStep
<1>2. CASE PostJob
  BY <1>2, PostJobStep
<1>3. CASE Compute
  BY <1>3, ComputeStep
<1>4. CASE End
  BY <1>4, EndStep
<1>5. CASE Test
  BY <1>5, TestStep
<1>6. CASE WorkerComputes
  BY <1>6, WorkerComputesStep
<1>7. CASE SetDone
  BY <1>7, SetDoneStep
<1>8. CASE NotifyJob \/ CheckDone \/ RequestStop \/ NotifyStop \/ Join
             \/ NotifyDone \/ SpuriousWakeup \/ UNCHANGED firVars
  BY <1>8, ControlStep
<1> QED
  BY <1>1, <1>2, <1>3, <1>4, <1>5, <1>6, <1>7, <1>8
     DEF FirNext, InBlock, Destructor, Worker

\* The invariant holds in every behaviour of the filter.
THEOREM FirInvariant == FirSpec => []FirInv
  BY FirInvInit, FirInvStep, PTL DEF FirSpec

-----------------------------------------------------------------------------
\* The worker writes to the caller's vector only while the caller waits for it
\* in the same block, and never an output of the caller's half.
THEOREM Confined == FirSpec => []WorkerConfined
<1>1. FirInv => WorkerConfined
  BY DEF FirInv, HandOver, Owed, SecondHalf, WorkerConfined, Halves, FirTypes,
     Ranges
<1> QED
  BY <1>1, FirInvariant, PTL

\* Whatever the taps, the decimation and the cutting of the stream into blocks,
\* a block ends with exactly the outputs that are due in it.
THEOREM Exact == FirSpec => []OutputsExact
<1>1. FirInv => OutputsExact
  <2> SUFFICES ASSUME FirInv, main = "ending" PROVE
        /\ nextOutput + Len(out) * Decimation >= Len(block) - Taps + 1 + inputIndex
        /\ \A j \in 1 .. Len(out) : out[j] = nextOutput \div Decimation + j - 1
    BY DEF OutputsExact
  <2>1. /\ Taps \in Nat \ {0} /\ Decimation \in Nat \ {0}
        /\ Len(out) \in Nat /\ Len(block) \in Nat
        /\ inputIndex \in Nat /\ nextOutput \in Nat
    BY FirAssumption DEF FirInv, FirTypes
  <2>2. Len(out) * Decimation \in Nat /\ nextOutput \div Decimation \in Int
    BY <2>1, ProductNat, Quotient
  <2>3. nextOutput - inputIndex + Len(out) * Decimation
          >= Len(block) - (Taps - 1)
    BY DEF FirInv, BlockRight, Fresh, InBlockNow
  <2>4. Right(out, 0, Len(out))
    BY DEF FirInv, FirstHalf, InBlockNow
  <2>5. ASSUME NEW j \in 1 .. Len(out)
        PROVE  out[j] = nextOutput \div Decimation + j - 1
    <3>1. j - 1 \in 0 .. Len(out) - 1 /\ (j - 1) + 1 = j
      BY <2>1
    <3>2. out[(j - 1) + 1] = nextOutput \div Decimation + (j - 1)
      BY <2>4, <3>1 DEF Right
    <3> QED
      BY <2>1, <2>2, <3>1, <3>2
  <2> QED
    BY <2>1, <2>2, <2>3, <2>5
<1> QED
  BY <1>1, FirInvariant, PTL

-----------------------------------------------------------------------------
(***************************************************************************)
(* The whole chain: theorems about Spec of DspChain.                       *)
(***************************************************************************)

(***************************************************************************)
(* The inductive invariant.                                                *)
(***************************************************************************)
ChainTypes ==
  /\ loop \in {"reading", "filtering", "mixing", "leaving"}
  /\ stage \in Nat
  /\ delay \in Seq(Int) /\ Len(delay) = 2 * Taps2
  /\ write2 \in 0 .. Taps2 - 1
  /\ countdown \in 0 .. Decimation2 - 1
  /\ ring \in Seq(Int) /\ Len(ring) = 2 * Nfft
  /\ write \in 0 .. Nfft - 1
  /\ samples \in Nat
  /\ frames \in Nat
  /\ untilFrame \in Nat
  /\ slots \in [1 .. RingCapacity -> Objects]
  /\ frameWrite \in 0 .. RingCapacity - 1
  /\ object \in [Objects -> [frame : Nat, first : Int, center : Int]]
  /\ pending \in Seq(Objects)

\* Where the loop is and where the filter is.
Located ==
  /\ loop \in {"reading", "mixing"} => main = "idle"
  /\ loop = "filtering" => main \in InBlockNow
  /\ loop = "leaving" => main \in {"stopping", "joining", "destroyed"}

\* The number of outputs of the first filter before those of its vector, when
\* the block has ended.
Before == nextOutput \div Decimation - Len(out)

\* The outputs that have gone on to the second filter.
Passed == IF loop = "mixing" THEN Before + stage ELSE nextOutput \div Decimation

\* In the second half of a block the vector holds the next outputs.
OutputsWait ==
  loop = "mixing" =>
    /\ stage <= Len(out)
    /\ \A j \in 1 .. Len(out) : out[j] = Before + j - 1

\* A double ring d of K places: the numbers up to n - 1 have entered it, the
\* last one before place w, and, when it is full, it holds the last K of them.
DoubleRing(d, w, n, full, K) ==
  \A i \in 1 .. K :
    /\ i <= w => d[i] = n - w + i - 1
    /\ i > w /\ full => d[i] = n - K - w + i - 1
    /\ d[K + i] = d[i]

\* The second filter: its delay line, and when its next output is due.
SecondFilter ==
  /\ DoubleRing(delay, write2, Passed, TRUE, Taps2)
  /\ Passed + countdown = samples * Decimation2

\* The Welch ring, and when its next frame is due.
Framing ==
  /\ DoubleRing(ring, write, samples, samples >= Nfft, Nfft)
  /\ samples < Nfft => write = samples /\ frames = 0 /\ untilFrame = 0
  /\ samples >= Nfft => samples + untilFrame + 1 = Nfft + frames * Hop

\* What consumers hold are objects of the pool.
HeldKnown ==
  \A h \in held : /\ h.object \in Objects
                  /\ \E o \in Objects, b \in {"recorder", "network"} :
                       h = [by |-> b, object |-> o, got |-> h.got]

ChainInv ==
  /\ ChainTypes
  /\ Located
  /\ OutputsWait
  /\ SecondFilter
  /\ Framing
  /\ WindowsExact
  /\ HeldKnown
  /\ FramesIntact

-----------------------------------------------------------------------------
(***************************************************************************)
(* Double rings.                                                           *)
(***************************************************************************)
\* The place after w.
LEMMA NextPlace ==
  ASSUME NEW K \in Nat \ {0}, NEW w \in 0 .. K - 1
  PROVE  /\ (w + 1) % K \in 0 .. K - 1
         /\ (w + 1) % K = IF w + 1 = K THEN 0 ELSE w + 1
<1>1. CASE w + 1 = K
  <2>1. w + 1 = 1 * K + 0 /\ 0 \in 0 .. K - 1
    BY <1>1
  <2>2. (w + 1) % K = 0
    BY <2>1, QuotientUnique
  <2> QED
    BY <1>1, <2>2
<1>2. CASE w + 1 # K
  <2>1. w + 1 = 0 * K + (w + 1) /\ w + 1 \in 0 .. K - 1
    BY <1>2
  <2>2. (w + 1) % K = w + 1
    BY <2>1, QuotientUnique
  <2> QED
    BY <1>2, <2>1, <2>2
<1> QED
  BY <1>1, <1>2

\* A value is put into a sequence.
LEMMA PutRight ==
  ASSUME NEW s \in Seq(Int), NEW p \in 1 .. Len(s), NEW x \in Int
  PROVE  LET t == [s EXCEPT ![p] = x] IN
         /\ t \in Seq(Int)
         /\ Len(t) = Len(s)
         /\ \A i \in 1 .. Len(s) : t[i] = IF i = p THEN x ELSE s[i]
  OBVIOUS

\* The next number enters a double ring.
LEMMA Enter ==
  ASSUME NEW K \in Nat \ {0}, NEW w \in 0 .. K - 1, NEW n \in Int,
         NEW d \in Seq(Int), Len(d) = 2 * K,
         NEW full \in BOOLEAN, NEW filled \in BOOLEAN,
         DoubleRing(d, w, n, full, K),
         filled => full \/ w + 1 = K,
         NEW e, e = [d EXCEPT ![w + 1] = n, ![w + K + 1] = n]
  PROVE  /\ e \in Seq(Int)
         /\ Len(e) = 2 * K
         /\ DoubleRing(e, (w + 1) % K, n + 1, filled, K)
<1> DEFINE v == (w + 1) % K
<1>1. v \in 0 .. K - 1 /\ v = IF w + 1 = K THEN 0 ELSE w + 1
  BY NextPlace
<1>2. /\ e \in Seq(Int) /\ Len(e) = 2 * K
      /\ \A i \in 1 .. 2 * K :
           e[i] = IF i = w + K + 1 THEN n ELSE IF i = w + 1 THEN n ELSE d[i]
  <2> DEFINE p == w + 1
             q == w + K + 1
  <2>1. p \in 1 .. 2 * K /\ q \in 1 .. 2 * K /\ DOMAIN d = 1 .. 2 * K
    OBVIOUS
  <2>2. e = [d EXCEPT ![p] = n, ![q] = n]
    OBVIOUS
  <2> HIDE DEF p, q
  <2> DEFINE c == [d EXCEPT ![p] = n]
  <2>4. /\ c \in Seq(Int) /\ Len(c) = 2 * K
        /\ \A i \in 1 .. 2 * K : c[i] = IF i = p THEN n ELSE d[i]
    <3>1. /\ c \in Seq(Int) /\ Len(c) = Len(d)
          /\ \A i \in 1 .. Len(d) : c[i] = IF i = p THEN n ELSE d[i]
      BY <2>1, PutRight
    <3> QED
      BY <3>1
  <2>5. e = [c EXCEPT ![q] = n]
    BY <2>1, <2>2
  <2> HIDE DEF c
  <2>6. /\ e \in Seq(Int) /\ Len(e) = Len(c)
        /\ \A i \in 1 .. Len(c) : e[i] = IF i = q THEN n ELSE c[i]
    <3>1. q \in 1 .. Len(c)
      BY <2>1, <2>4
    <3>2. /\ [c EXCEPT ![q] = n] \in Seq(Int) /\ Len([c EXCEPT ![q] = n]) = Len(c)
          /\ \A i \in 1 .. Len(c) :
               [c EXCEPT ![q] = n][i] = IF i = q THEN n ELSE c[i]
      BY <2>4, <3>1, PutRight
    <3> QED
      BY <2>5, <3>2
  <2>3. /\ e \in Seq(Int) /\ Len(e) = 2 * K
        /\ \A i \in 1 .. 2 * K :
             e[i] = IF i = q THEN n ELSE IF i = p THEN n ELSE d[i]
    BY <2>4, <2>6
  <2> QED
    BY <2>3 DEF p, q
<1> HIDE DEF v
<1>3. ASSUME NEW i \in 1 .. K
      PROVE  /\ i <= v => e[i] = (n + 1) - v + i - 1
             /\ i > v /\ filled => e[i] = (n + 1) - K - v + i - 1
             /\ e[K + i] = e[i]
  <2>1. i \in 1 .. 2 * K /\ K + i \in 1 .. 2 * K /\ i # w + K + 1 /\ K + i # w + 1
    OBVIOUS
  <2>2. /\ e[i] = IF i = w + 1 THEN n ELSE d[i]
        /\ e[K + i] = IF K + i = w + K + 1 THEN n ELSE d[K + i]
    BY <1>2, <2>1
  <2>3. /\ i <= w => d[i] = n - w + i - 1
        /\ i > w /\ full => d[i] = n - K - w + i - 1
        /\ d[K + i] = d[i]
    BY DEF DoubleRing
  <2>4. e[K + i] = e[i]
    BY <2>2, <2>3
  <2>5. ASSUME i <= v PROVE e[i] = (n + 1) - v + i - 1
    <3>1. w + 1 # K /\ v = w + 1
      BY <1>1, <2>5
    <3>2. CASE i = w + 1
      BY <2>2, <3>1, <3>2
    <3>3. CASE i # w + 1
      <4>1. e[i] = d[i]
        BY <2>2, <3>3
      <4>2. i <= w
        BY <2>5, <3>1, <3>3
      <4> QED
        BY <2>3, <3>1, <4>1, <4>2
    <3> QED
      BY <3>2, <3>3
  <2>6. ASSUME i > v, filled PROVE e[i] = (n + 1) - K - v + i - 1
    <3>1. full \/ w + 1 = K
      BY <2>6, Zenon
    <3>2. CASE w + 1 = K
      BY <1>1, <2>2, <2>3, <2>6, <3>2
    <3>3. CASE full /\ w + 1 # K
      <4>1. i > w /\ i # w + 1 /\ v = w + 1
        BY <1>1, <2>6, <3>3
      <4>2. d[i] = n - K - w + i - 1
        BY <2>3, <3>3, <4>1, Zenon
      <4> QED
        BY <2>2, <4>1, <4>2
    <3> QED
      BY <3>1, <3>2, <3>3, Zenon
  <2> QED
    BY <2>4, <2>5, <2>6, Zenon
<1>4. DoubleRing(e, v, n + 1, filled, K)
  BY <1>3, Zenon DEF DoubleRing
<1> QED
  BY <1>2, <1>4 DEF v

\* The next number enters a full double ring.
LEMMA EnterFull ==
  ASSUME NEW K \in Nat \ {0}, NEW w \in 0 .. K - 1, NEW n \in Int,
         NEW d \in Seq(Int), Len(d) = 2 * K, DoubleRing(d, w, n, TRUE, K),
         NEW e, e = [d EXCEPT ![w + 1] = n, ![w + K + 1] = n]
  PROVE  /\ e \in Seq(Int)
         /\ Len(e) = 2 * K
         /\ DoubleRing(e, (w + 1) % K, n + 1, TRUE, K)
<1> DEFINE full == TRUE
<1>1. full \in BOOLEAN /\ (full => full \/ w + 1 = K)
  OBVIOUS
<1>2. DoubleRing(d, w, n, full, K)
  OBVIOUS
<1> HIDE DEF full
<1>3. /\ e \in Seq(Int) /\ Len(e) = 2 * K
      /\ DoubleRing(e, (w + 1) % K, n + 1, full, K)
  BY <1>1, <1>2, Enter
<1> QED
  BY <1>3 DEF full

\* The window of a full double ring.
LEMMA Window ==
  ASSUME NEW K \in Nat \ {0}, NEW w \in 0 .. K - 1, NEW n \in Int,
         NEW d \in Seq(Int), Len(d) = 2 * K, DoubleRing(d, w, n, TRUE, K)
  PROVE  /\ SubSeq(d, w + 1, w + K) \in Seq(Int)
         /\ Len(SubSeq(d, w + 1, w + K)) = K
         /\ \A j \in 1 .. K : SubSeq(d, w + 1, w + K)[j] = n - K + j - 1
<1> DEFINE s == SubSeq(d, w + 1, w + K)
<1>1. s \in Seq(Int) /\ Len(s) = K /\ \A j \in 1 .. K : s[j] = d[w + j]
  OBVIOUS
<1> HIDE DEF s
<1>2. ASSUME NEW j \in 1 .. K PROVE s[j] = n - K + j - 1
  <2>1. CASE w + j <= K
    <3>1. w + j \in 1 .. K /\ w + j > w
      BY <2>1
    <3>2. d[w + j] = n - K - w + (w + j) - 1
      BY <3>1 DEF DoubleRing
    <3> QED
      BY <1>1, <3>2
  <2>2. CASE w + j > K
    <3> DEFINE i == w + j - K
    <3>1. i \in 1 .. K /\ i <= w /\ K + i = w + j
      BY <2>2
    <3>2. d[i] = n - w + i - 1 /\ d[K + i] = d[i]
      BY <3>1 DEF DoubleRing
    <3> QED
      BY <1>1, <3>1, <3>2
  <2> QED
    BY <2>1, <2>2
<1> QED
  BY <1>1, <1>2 DEF s

-----------------------------------------------------------------------------
(***************************************************************************)
(* A frame is made.                                                        *)
(***************************************************************************)
\* An object that the pool finds reusable has no user.
LEMMA ReusableUnheld ==
  ASSUME HeldKnown, FramesIntact, pending \in Seq(Objects),
         NEW o \in Objects, Reusable(o)
  PROVE  Users(o) = {}
<1> DEFINE p == {i \in DOMAIN pending : pending[i] = o}
           a == [by |-> "recorder", object |-> o, got |-> object[o]]
           b == [by |-> "network", object |-> o, got |-> object[o]]
<1>1. IsFiniteSet(p) /\ Cardinality(p) \in Nat
  <2>1. IsFiniteSet(1 .. Len(pending))
    BY FS_Interval
  <2>2. p \in SUBSET (1 .. Len(pending))
    OBVIOUS
  <2>3. IsFiniteSet(p)
    BY <2>1, <2>2, FS_Subset
  <2> QED
    BY <2>3, FS_CardinalityType
<1>2. Users(o) \subseteq {a, b}
  <2> SUFFICES ASSUME NEW h \in Users(o) PROVE h = a \/ h = b
    OBVIOUS
  <2>1. h \in held /\ h.object = o
    BY DEF Users
  <2>2. h.got = object[o]
    BY <2>1 DEF FramesIntact
  <2>3. PICK q \in Objects, c \in {"recorder", "network"} :
          h = [by |-> c, object |-> q, got |-> h.got]
    BY <2>1 DEF HeldKnown
  <2>4. h.object = q
    BY <2>3
  <2> QED
    BY <2>1, <2>2, <2>3, <2>4
<1>3. IsFiniteSet(Users(o)) /\ Cardinality(Users(o)) \in Nat
  <2>1. IsFiniteSet({a})
    BY FS_Singleton
  <2>2. IsFiniteSet({b})
    BY FS_Singleton
  <2>3. IsFiniteSet({a} \cup {b}) /\ {a} \cup {b} = {a, b}
    BY <2>1, <2>2, FS_Union
  <2>4. IsFiniteSet(Users(o))
    BY <1>2, <2>3, FS_Subset
  <2> QED
    BY <2>4, FS_CardinalityType
<1>4. 1 + Cardinality(p) + Cardinality(Users(o)) = 1
  BY DEF Reusable, UseCount
<1>5. Cardinality(Users(o)) = 0
  <2> HIDE DEF p
  <2> QED
    BY <1>1, <1>3, <1>4
<1> QED
  BY <1>3, <1>5, FS_EmptySet

\* A window of consecutive samples is known by its first.
LEMMA FirstOfWindow ==
  ASSUME NEW r \in Seq(Int), Len(r) = 2 * Nfft, NEW w \in 0 .. Nfft - 1,
         NEW n \in Int, DoubleRing(r, w, n, TRUE, Nfft)
  PROVE  FirstOf(Oldest(r, w)) = n - Nfft
<1> DEFINE s == SubSeq(r, w + 1, w + Nfft)
<1>1. Nfft \in Nat \ {0}
  BY ChainAssumption
<1>2. \A j \in 1 .. Nfft : s[j] = n - Nfft + j - 1
  BY <1>1, Window
<1> HIDE DEF s
<1>3. \A i \in 1 .. Nfft - 1 : s[i + 1] = s[i] + 1
  <2> SUFFICES ASSUME NEW i \in 1 .. Nfft - 1 PROVE s[i + 1] = s[i] + 1
    OBVIOUS
  <2>1. i \in 1 .. Nfft /\ i + 1 \in 1 .. Nfft
    BY <1>1
  <2>2. s[i] = n - Nfft + i - 1 /\ s[i + 1] = n - Nfft + (i + 1) - 1
    BY <1>2, <2>1
  <2> QED
    BY <1>1, <2>2
<1>4. s[1] = n - Nfft
  <2>1. 1 \in 1 .. Nfft
    BY <1>1
  <2>2. s[1] = n - Nfft + 1 - 1
    BY <1>2, <2>1
  <2> QED
    BY <1>1, <2>2
<1>5. FirstOf(s) = s[1]
  BY <1>3 DEF FirstOf
<1> QED
  BY <1>4, <1>5 DEF s, Oldest

\* The frame made of n samples is the next one, of the right samples, in an
\* object that nobody holds.
LEMMA MakeFrameStep ==
  ASSUME ChainTypes, WindowsExact, HeldKnown, FramesIntact, UNCHANGED held,
         NEW r \in Seq(Int), Len(r) = 2 * Nfft, NEW w \in 0 .. Nfft - 1,
         NEW n \in Nat, DoubleRing(r, w, n, TRUE, Nfft),
         n - Nfft = frames * Hop,
         MakeFrame(r, w, n)
  PROVE  /\ slots' \in [1 .. RingCapacity -> Objects]
         /\ frameWrite' \in 0 .. RingCapacity - 1
         /\ object' \in [Objects -> [frame : Nat, first : Int, center : Int]]
         /\ pending' \in Seq(Objects)
         /\ frames' = frames + 1
         /\ WindowsExact'
         /\ FramesIntact'
<1> DEFINE slot == slots[frameWrite + 1]
           o == IF Reusable(slot) THEN slot ELSE CHOOSE u \in Unused : TRUE
           c == [frame |-> frames, first |-> FirstOf(Oldest(r, w)),
                 center |-> n - Nfft + (Nfft - 1) \div 2]
<1>1. /\ Nfft \in Nat \ {0, 1} /\ RingCapacity \in Nat \ {0}
      /\ frames \in Nat
      /\ frameWrite \in 0 .. RingCapacity - 1
      /\ slots \in [1 .. RingCapacity -> Objects]
      /\ object \in [Objects -> [frame : Nat, first : Int, center : Int]]
      /\ pending \in Seq(Objects)
  BY ChainAssumption DEF ChainTypes
<1>2. /\ slots' = [slots EXCEPT ![frameWrite + 1] = o]
      /\ frameWrite' = (frameWrite + 1) % RingCapacity
      /\ object' = [object EXCEPT ![o] = c]
      /\ frames' = frames + 1
      /\ pending' = Append(pending, o)
      /\ Reusable(slot) \/ Unused # {}
  BY DEF MakeFrame
<1>3. o \in Objects /\ Users(o) = {}
  <2>1. CASE Reusable(slot)
    <3>1. slot \in Objects
      BY <1>1
    <3>2. Users(slot) = {}
      BY <1>1, <2>1, <3>1, ReusableUnheld
    <3> QED
      BY <2>1, <3>1, <3>2
  <2>2. CASE ~Reusable(slot)
    <3>1. Unused # {}
      BY <1>2, <2>2
    <3>2. o \in Unused
      BY <2>2, <3>1
    <3> QED
      BY <3>2 DEF Unused
  <2> QED
    BY <2>1, <2>2
<1>4. FirstOf(Oldest(r, w)) = n - Nfft
  <2>1. n \in Int
    OBVIOUS
  <2> QED
    BY <2>1, FirstOfWindow
<1>5. c \in [frame : Nat, first : Int, center : Int] /\ WindowExact(c)
  <2>1. (Nfft - 1) \div 2 \in Int /\ n - Nfft \in Int
    BY <1>1
  <2>2. c \in [frame : Nat, first : Int, center : Int]
    BY <1>1, <1>4, <2>1
  <2>3. /\ c.frame = frames
        /\ c.first = n - Nfft
        /\ c.center = n - Nfft + (Nfft - 1) \div 2
    BY <1>4
  <2> HIDE DEF c
  <2>4. WindowExact(c)
    BY <2>3 DEF WindowExact
  <2> QED
    BY <2>2, <2>4
<1> HIDE DEF o, c, slot
<1>6. /\ slots' \in [1 .. RingCapacity -> Objects]
      /\ object' \in [Objects -> [frame : Nat, first : Int, center : Int]]
      /\ pending' \in Seq(Objects)
  <2>1. slots' \in [1 .. RingCapacity -> Objects]
    BY <1>1, <1>2, <1>3
  <2>2. object' \in [Objects -> [frame : Nat, first : Int, center : Int]]
    BY <1>1, <1>2, <1>3, <1>5
  <2>3. pending' \in Seq(Objects)
    BY <1>1, <1>2, <1>3
  <2> QED
    BY <2>1, <2>2, <2>3
<1>7. frameWrite' \in 0 .. RingCapacity - 1
  BY <1>1, <1>2, NextPlace
<1>8. \A q \in Objects : object'[q] = IF q = o THEN c ELSE object[q]
  BY <1>1, <1>2, <1>3
<1>9. WindowsExact'
  <2> SUFFICES ASSUME NEW i \in DOMAIN pending' PROVE WindowExact(object'[pending'[i]])
    BY DEF WindowsExact, WindowExact, Range
  <2>1. pending'[i] = o \/ (i \in DOMAIN pending /\ pending'[i] = pending[i])
    <3>1. i \in 1 .. Len(pending) + 1
      BY <1>1, <1>2, <1>3
    <3>2. \A j \in 1 .. Len(pending) : pending'[j] = pending[j]
      BY <1>1, <1>2, <1>3
    <3>3. pending'[Len(pending) + 1] = o
      BY <1>1, <1>2, <1>3
    <3>4. Len(pending) \in Nat /\ DOMAIN pending = 1 .. Len(pending)
      BY <1>1
    <3>5. CASE i = Len(pending) + 1
      BY <3>3, <3>5
    <3>6. CASE i # Len(pending) + 1
      <4>1. i \in 1 .. Len(pending)
        BY <3>1, <3>4, <3>6
      <4> QED
        BY <3>2, <3>4, <4>1
    <3> QED
      BY <3>5, <3>6
  <2>2. ASSUME i \in DOMAIN pending PROVE /\ WindowExact(object[pending[i]])
                                          /\ pending[i] \in Objects
    <3>1. pending[i] \in Range(pending)
      BY <2>2 DEF Range
    <3>2. pending[i] \in Objects
      BY <1>1, <2>2
    <3> QED
      BY <3>1, <3>2 DEF WindowsExact
  <2> QED
    BY <1>3, <1>5, <1>8, <2>1, <2>2
<1>10. FramesIntact'
  <2> SUFFICES ASSUME NEW h \in held PROVE object'[h.object] = h.got
    BY DEF FramesIntact
  <2>1. h.object # o
    BY <1>3 DEF Users
  <2>2. h.object \in Objects /\ object[h.object] = h.got
    BY DEF HeldKnown, FramesIntact
  <2> QED
    BY <1>8, <2>1, <2>2
<1> QED
  BY <1>2, <1>6, <1>7, <1>9, <1>10

\* A ring that is full is one whatever else is known of it.
LEMMA FullRing ==
  ASSUME NEW d, NEW w, NEW n, NEW full, NEW K, full, DoubleRing(d, w, n, full, K)
  PROVE  DoubleRing(d, w, n, TRUE, K)
  BY Zenon DEF DoubleRing

\* The next output of the second filter enters the Welch ring.
LEMMA ConsumeStep ==
  ASSUME ChainTypes, Framing, WindowsExact, HeldKnown, FramesIntact,
         UNCHANGED held, Consume(samples)
  PROVE  /\ ring' \in Seq(Int) /\ Len(ring') = 2 * Nfft
         /\ write' \in 0 .. Nfft - 1
         /\ samples' = samples + 1
         /\ frames' \in Nat
         /\ untilFrame' \in Nat
         /\ slots' \in [1 .. RingCapacity -> Objects]
         /\ frameWrite' \in 0 .. RingCapacity - 1
         /\ object' \in [Objects -> [frame : Nat, first : Int, center : Int]]
         /\ pending' \in Seq(Objects)
         /\ Framing'
         /\ WindowsExact'
         /\ FramesIntact'
<1> DEFINE r == [ring EXCEPT ![write + 1] = samples, ![write + Nfft + 1] = samples]
           w == (write + 1) % Nfft
           full == samples >= Nfft
           filled == samples + 1 >= Nfft
<1>1. /\ Nfft \in Nat \ {0, 1} /\ Nfft \in Nat \ {0}
      /\ ring \in Seq(Int) /\ Len(ring) = 2 * Nfft
      /\ write \in 0 .. Nfft - 1 /\ samples \in Nat /\ samples \in Int
      /\ frames \in Nat /\ untilFrame \in Nat
  BY ChainAssumption DEF ChainTypes
<1>2. Hop \in Nat \ {0}
  <2>1. Nfft \div 2 \in Nat \ {0}
    BY <1>1
  <2> QED
    BY <2>1 DEF Hop
<1>3. /\ ring' = r /\ write' = w /\ samples' = samples + 1
      /\ untilFrame' = IF ~filled THEN untilFrame
                       ELSE IF untilFrame = 0 THEN Hop - 1 ELSE untilFrame - 1
      /\ IF filled /\ untilFrame = 0
         THEN MakeFrame(r, w, samples + 1)
         ELSE UNCHANGED <<frames, slots, frameWrite, object, pending>>
  BY DEF Consume
<1>4. full \in BOOLEAN /\ filled \in BOOLEAN
  OBVIOUS
<1>5. DoubleRing(ring, write, samples, full, Nfft)
  BY DEF Framing
<1>6. filled => full \/ write + 1 = Nfft
  <2> SUFFICES ASSUME samples + 1 >= Nfft, ~(samples >= Nfft)
               PROVE  write + 1 = Nfft
    OBVIOUS
  <2>1. write = samples
    BY <1>1 DEF Framing
  <2> QED
    BY <1>1, <2>1
<1>7. /\ samples < Nfft => write = samples /\ frames = 0 /\ untilFrame = 0
      /\ samples >= Nfft => samples + untilFrame + 1 = Nfft + frames * Hop
  BY DEF Framing
<1> HIDE DEF full, filled
<1>8. /\ r \in Seq(Int)
      /\ Len(r) = 2 * Nfft
      /\ DoubleRing(r, w, samples + 1, filled, Nfft)
  BY <1>1, <1>4, <1>5, <1>6, Enter
<1>9. w \in 0 .. Nfft - 1 /\ w = IF write + 1 = Nfft THEN 0 ELSE write + 1
  BY <1>1, NextPlace
<1> HIDE DEF r, w
<1>10. /\ frames * Hop \in Nat
       /\ (frames + 1) * Hop = frames * Hop + Hop
  <2>1. frames * Hop \in Nat
    BY <1>1, <1>2, ProductNat
  <2>2. (frames + 1) * Hop = frames * Hop + 1 * Hop /\ 1 * Hop = Hop
    BY <1>1, <1>2, Multiples
  <2> QED
    BY <2>1, <2>2
<1>11. CASE filled /\ untilFrame = 0
  <2>1. samples + 1 - Nfft = frames * Hop
    <3>1. samples + 1 >= Nfft
      BY <1>11 DEF filled
    <3>2. CASE samples < Nfft
      <4>1. frames = 0 /\ samples + 1 = Nfft
        BY <1>1, <1>7, <3>1, <3>2
      <4>2. 0 * Hop = 0
        BY <1>2
      <4> QED
        BY <1>1, <4>1, <4>2
    <3>3. CASE samples >= Nfft
      <4>1. PICK h \in Nat : h = frames * Hop
        BY <1>10
      <4>2. samples + untilFrame + 1 = Nfft + h /\ untilFrame = 0
        BY <1>7, <1>11, <3>3, <4>1
      <4>3. samples + 1 - Nfft = h
        BY <1>1, <4>2
      <4> QED
        BY <4>1, <4>3
    <3> QED
      BY <1>1, <3>2, <3>3
  <2>2. DoubleRing(r, w, samples + 1, TRUE, Nfft)
    BY <1>8, <1>11, FullRing
  <2>3. samples + 1 \in Nat
    BY <1>1
  <2>4. MakeFrame(r, w, samples + 1)
    BY <1>3, <1>11
  <2>10. PICK n \in Nat : n = samples + 1
    BY <2>3
  <2>13. n - Nfft = frames * Hop
    BY <1>1, <1>10, <2>1, <2>10
  <2>11. DoubleRing(r, w, n, TRUE, Nfft) /\ MakeFrame(r, w, n)
    BY <2>2, <2>4, <2>10
  <2>12. UNCHANGED held
    OBVIOUS
  <2>5. /\ slots' \in [1 .. RingCapacity -> Objects]
        /\ frameWrite' \in 0 .. RingCapacity - 1
        /\ object' \in [Objects -> [frame : Nat, first : Int, center : Int]]
        /\ pending' \in Seq(Objects)
        /\ frames' = frames + 1
        /\ WindowsExact'
        /\ FramesIntact'
    BY <1>8, <1>9, <2>11, <2>12, <2>13, MakeFrameStep
  <2>6. untilFrame' = Hop - 1
    BY <1>3, <1>11
  <2>7. samples' >= Nfft /\ samples' + untilFrame' + 1 = Nfft + frames' * Hop
    <3>1. samples + 1 >= Nfft
      BY <1>11 DEF filled
    <3>2. PICK h \in Nat : h = frames * Hop
      BY <1>10
    <3>3. samples + 1 = Nfft + h
      BY <1>1, <2>1, <3>2
    <3>4. frames' * Hop = h + Hop
      BY <1>10, <2>5, <3>2
    <3>5. samples' = samples + 1 /\ untilFrame' = Hop - 1 /\ Hop \in Nat \ {0}
      BY <1>2, <1>3, <2>6
    <3> QED
      BY <1>1, <3>1, <3>3, <3>4, <3>5
  <2>8. DoubleRing(ring', write', samples', samples' >= Nfft, Nfft)
    BY <1>3, <1>8 DEF filled
  <2>9. Framing'
    <3>1. ~(samples' < Nfft)
      BY <1>1, <1>3, <2>7
    <3> QED
      BY <2>7, <2>8, <3>1 DEF Framing, Hop
  <2>14. frames' \in Nat /\ untilFrame' \in Nat
    BY <1>1, <1>2, <2>5, <2>6
  <2>15. /\ ring' \in Seq(Int) /\ Len(ring') = 2 * Nfft
         /\ write' \in 0 .. Nfft - 1 /\ samples' = samples + 1
    BY <1>3, <1>8, <1>9
  <2> QED
    BY <2>5, <2>9, <2>14, <2>15
<1>12. CASE ~(filled /\ untilFrame = 0)
  <2>1. UNCHANGED <<frames, slots, frameWrite, object, pending>>
    BY <1>3, <1>12
  <2>2. WindowsExact' /\ FramesIntact'
    BY <2>1 DEF WindowsExact, WindowExact, FramesIntact, Range
  <2>3. DoubleRing(ring', write', samples', samples' >= Nfft, Nfft)
    BY <1>3, <1>8 DEF filled
  <2>4. CASE filled
    <3>1. samples + 1 >= Nfft /\ untilFrame # 0 /\ untilFrame' = untilFrame - 1
      BY <1>3, <1>12, <2>4 DEF filled
    <3>2. samples >= Nfft
      BY <1>1, <1>7, <3>1
    <3>3. untilFrame' \in Nat /\ ~(samples' < Nfft)
          /\ samples' + untilFrame' + 1 = Nfft + frames' * Hop
      BY <1>1, <1>3, <1>7, <1>10, <2>1, <3>1, <3>2
    <3>4. Framing'
      BY <2>3, <3>3 DEF Framing, Hop
    <3> QED
      BY <1>1, <1>3, <1>8, <1>9, <2>1, <2>2, <3>3, <3>4 DEF ChainTypes
  <2>5. CASE ~filled
    <3>1. ~(samples + 1 >= Nfft) /\ untilFrame' = untilFrame
      BY <1>3, <2>5 DEF filled
    <3>2. samples < Nfft /\ ~(samples' >= Nfft)
      BY <1>1, <1>3, <3>1
    <3>3. write' = samples' /\ frames' = 0 /\ untilFrame' = 0
      BY <1>1, <1>3, <1>7, <1>9, <2>1, <3>1, <3>2
    <3>4. Framing'
      BY <2>3, <3>2, <3>3 DEF Framing
    <3> QED
      BY <1>1, <1>3, <1>8, <1>9, <2>1, <2>2, <3>1, <3>4 DEF ChainTypes
  <2> QED
    BY <2>4, <2>5
<1> QED
  BY <1>11, <1>12

-----------------------------------------------------------------------------
(***************************************************************************)
(* The steps of the chain.                                                 *)
(***************************************************************************)
\* A window of consecutive numbers up to a multiple is the output it is due.
LEMMA OutputDue ==
  ASSUME NEW k \in Nat \ {0}, NEW s \in Seq(Int), Len(s) = k, NEW n \in Int,
         \A j \in 1 .. k : s[j] = n + 1 - k + j - 1,
         NEW D, NEW q, n % D = 0, n \div D = q
  PROVE  Output(s, D) = q
<1>1. \A i \in 1 .. Len(s) - 1 : s[i + 1] = s[i] + 1
  <2> SUFFICES ASSUME NEW i \in 1 .. k - 1 PROVE s[i + 1] = s[i] + 1
    OBVIOUS
  <2>1. i \in 1 .. k /\ i + 1 \in 1 .. k
    OBVIOUS
  <2>2. s[i] = n + 1 - k + i - 1 /\ s[i + 1] = n + 1 - k + (i + 1) - 1
    BY <2>1
  <2> QED
    BY <2>2
<1>2. s[Len(s)] = n
  <2>1. k \in 1 .. k
    OBVIOUS
  <2>2. s[k] = n + 1 - k + k - 1
    BY <2>1
  <2> QED
    BY <2>2
<1> QED
  BY <1>1, <1>2 DEF Output

\* An output of the first filter goes on to the second.
LEMMA PushStep ==
  ASSUME FirInv, ChainInv, Push
  PROVE  ChainInv'
<1>1. /\ Taps2 \in Nat \ {0} /\ Decimation2 \in Nat \ {0} /\ Decimation \in Nat \ {0}
      /\ nextOutput \in Nat /\ out \in Seq(Int) /\ Len(out) \in Nat
      /\ stage \in Nat /\ delay \in Seq(Int) /\ Len(delay) = 2 * Taps2
      /\ write2 \in 0 .. Taps2 - 1
      /\ countdown \in 0 .. Decimation2 - 1
      /\ samples \in Nat
  BY ChainAssumption, FirAssumption DEF FirInv, FirTypes, ChainInv, ChainTypes
<1>2. /\ loop = "mixing" /\ stage < Len(out)
      /\ UNCHANGED <<firVars, loop, held>>
      /\ stage' = stage + 1
  BY DEF Push
<1>3. nextOutput \div Decimation \in Int /\ Before \in Int
  <2>1. nextOutput \in Int
    BY <1>1
  <2>2. nextOutput \div Decimation \in Int
    BY <1>1, <2>1, Quotient
  <2> QED
    BY <1>1, <2>2 DEF Before
<1>4. Passed = Before + stage
  BY <1>2 DEF Passed
<1>5. PICK n \in Int : n = Passed
  BY <1>1, <1>3, <1>4
<1>6. out[stage + 1] = n
  <2>1. stage + 1 \in 1 .. Len(out)
    BY <1>1, <1>2
  <2>2. out[stage + 1] = Before + (stage + 1) - 1
    BY <1>2, <2>1 DEF ChainInv, OutputsWait
  <2> QED
    BY <1>1, <1>3, <1>4, <1>5, <2>2
<1>7. Before' = Before /\ Passed' = n + 1
  <2>1. Before' = Before
    BY <1>2 DEF Before, firVars, buffers
  <2>2. Passed' = Before' + stage'
    BY <1>2 DEF Passed
  <2> QED
    BY <1>1, <1>2, <1>3, <1>4, <1>5, <2>1, <2>2
<1>8. /\ delay' = [delay EXCEPT ![write2 + 1] = n, ![write2 + Taps2 + 1] = n]
      /\ write2' = (write2 + 1) % Taps2
  BY <1>6 DEF Push
<1>9. /\ delay' \in Seq(Int) /\ Len(delay') = 2 * Taps2
      /\ DoubleRing(delay', write2', n + 1, TRUE, Taps2)
  <2>1. DoubleRing(delay, write2, n, TRUE, Taps2)
    BY <1>5 DEF ChainInv, SecondFilter
  <2> DEFINE e == [delay EXCEPT ![write2 + 1] = n, ![write2 + Taps2 + 1] = n]
  <2>3. /\ Taps2 \in Nat \ {0} /\ write2 \in 0 .. Taps2 - 1
        /\ delay \in Seq(Int) /\ Len(delay) = 2 * Taps2
        /\ e = [delay EXCEPT ![write2 + 1] = n, ![write2 + Taps2 + 1] = n]
    BY <1>1
  <2> HIDE DEF e
  <2>2. e \in Seq(Int) /\ Len(e) = 2 * Taps2
        /\ DoubleRing(e, (write2 + 1) % Taps2, n + 1, TRUE, Taps2)
    BY <2>1, <2>3, EnterFull, Zenon
  <2> QED
    BY <1>8, <2>2 DEF e
<1>10. write2' \in 0 .. Taps2 - 1
  BY <1>1, <1>8, NextPlace
<1>11. n + countdown = samples * Decimation2
  BY <1>5 DEF ChainInv, SecondFilter
<1>12. samples * Decimation2 \in Nat
       /\ (samples + 1) * Decimation2 = samples * Decimation2 + Decimation2
  <2>1. samples * Decimation2 \in Nat
    BY <1>1, ProductNat
  <2>2. (samples + 1) * Decimation2 = samples * Decimation2 + 1 * Decimation2
    BY <1>1, Multiples
  <2> QED
    BY <1>1, <2>2, <2>1
<1>13. Located' /\ OutputsWait' /\ HeldKnown'
  <2>1. Located'
    BY <1>2 DEF ChainInv, Located, firVars, InBlockNow, Halves
  <2>2. stage' <= Len(out')
    BY <1>1, <1>2 DEF firVars, buffers
  <2>3. OutputsWait'
    BY <1>2, <1>7, <2>2 DEF ChainInv, OutputsWait, firVars, buffers
  <2>4. HeldKnown'
    BY <1>2 DEF ChainInv, HeldKnown
  <2> QED
    BY <2>1, <2>3, <2>4
<1>14. CASE countdown # 0
  <2>1. countdown' = countdown - 1 /\ UNCHANGED welchVars
    BY <1>14 DEF Push
  <2>2. SecondFilter'
    <3>1. Passed' + countdown' = samples' * Decimation2
      BY <1>1, <1>7, <1>11, <1>12, <2>1 DEF welchVars
    <3>2. DoubleRing(delay', write2', Passed', TRUE, Taps2)
      BY <1>7, <1>9
    <3> QED
      BY <3>1, <3>2 DEF SecondFilter
  <2>3. countdown' \in 0 .. Decimation2 - 1
    BY <1>1, <1>14, <2>1
  <2>4. Framing'
    BY <2>1 DEF welchVars, ChainInv, Framing, DoubleRing, Hop
  <2>5. WindowsExact' /\ FramesIntact'
    BY <1>2, <2>1 DEF welchVars, ChainInv, WindowsExact, WindowExact, FramesIntact, Range
  <2>6. ChainTypes'
    <3>1. ChainTypes
      BY DEF ChainInv
    <3>2. loop' \in {"reading", "filtering", "mixing", "leaving"} /\ stage' \in Nat
      BY <1>1, <1>2
    <3>3. /\ delay' \in Seq(Int) /\ Len(delay') = 2 * Taps2
          /\ write2' \in 0 .. Taps2 - 1 /\ countdown' \in 0 .. Decimation2 - 1
      BY <1>9, <1>10, <2>3
    <3>4. UNCHANGED <<ring, write, samples, frames, untilFrame, slots, frameWrite, object,
                      pending>>
      BY <2>1 DEF welchVars
    <3> QED
      BY Zenon, <3>1, <3>2, <3>3, <3>4 DEF ChainTypes
  <2> QED
    BY <1>13, <2>2, <2>4, <2>5, <2>6 DEF ChainInv
<1>15. CASE countdown = 0
  <2> DEFINE s == SubSeq(delay', write2' + 1, write2' + Taps2)
  <2>1. countdown' = Decimation2 - 1 /\ Consume(Output(s, Decimation2))
    BY <1>8, <1>15, <1>6 DEF Push
  <2>2. PICK m \in Int : m = n + 1
    BY <1>5
  <2>12. /\ s \in Seq(Int) /\ Len(s) = Taps2
         /\ \A j \in 1 .. Taps2 : s[j] = m - Taps2 + j - 1
    <3>1. DoubleRing(delay', write2', m, TRUE, Taps2)
      BY <1>9, <2>2
    <3>2. /\ Taps2 \in Nat \ {0} /\ write2' \in 0 .. Taps2 - 1
          /\ delay' \in Seq(Int) /\ Len(delay') = 2 * Taps2
      BY <1>1, <1>9, <1>10
    <3> QED
      BY <3>1, <3>2, Window, Zenon
  <2> HIDE DEF s
  <2>3. \A j \in 1 .. Taps2 : s[j] = n + 1 - Taps2 + j - 1
    BY <1>1, <1>5, <2>2, <2>12
  <2>4. n = samples * Decimation2
    BY <1>5, <1>11, <1>15
  <2>5. Output(s, Decimation2) = samples
    <3>1. n = samples * Decimation2 + 0 /\ 0 \in 0 .. Decimation2 - 1
          /\ samples \in Int
      BY <1>1, <1>12, <2>4
    <3>2. n \div Decimation2 = samples /\ n % Decimation2 = 0
      BY <1>1, <3>1, QuotientUnique
    <3>3. s \in Seq(Int) /\ Len(s) = Taps2 /\ Taps2 \in Nat \ {0}
      BY <1>1, <2>12
    <3> QED
      BY <2>3, <3>2, <3>3, OutputDue, Zenon
  <2>6. Consume(samples)
    BY <2>1, <2>5
  <2>7. /\ ring' \in Seq(Int) /\ Len(ring') = 2 * Nfft
        /\ write' \in 0 .. Nfft - 1
        /\ samples' = samples + 1
        /\ frames' \in Nat
        /\ untilFrame' \in Nat
        /\ slots' \in [1 .. RingCapacity -> Objects]
        /\ frameWrite' \in 0 .. RingCapacity - 1
        /\ object' \in [Objects -> [frame : Nat, first : Int, center : Int]]
        /\ pending' \in Seq(Objects)
        /\ Framing'
        /\ WindowsExact'
        /\ FramesIntact'
    <3>1. ChainTypes /\ Framing /\ WindowsExact /\ HeldKnown /\ FramesIntact
      BY DEF ChainInv
    <3>2. UNCHANGED held
      BY <1>2
    <3> QED
      BY <2>6, <3>1, <3>2, ConsumeStep
  <2>8. SecondFilter'
    <3>1. Passed' + countdown' = samples' * Decimation2
      BY <1>1, <1>7, <1>12, <2>1, <2>4, <2>7
    <3>2. DoubleRing(delay', write2', Passed', TRUE, Taps2)
      BY <1>7, <1>9
    <3> QED
      BY <3>1, <3>2 DEF SecondFilter
  <2>9. countdown' \in 0 .. Decimation2 - 1
    BY <1>1, <2>1
  <2>10. stage' \in Nat /\ loop' \in {"reading", "filtering", "mixing", "leaving"}
         /\ samples' \in Nat
    BY <1>1, <1>2, <2>7
  <2>11. ChainTypes'
    BY <1>9, <1>10, <2>7, <2>9, <2>10 DEF ChainTypes
  <2> QED
    BY <1>13, <2>7, <2>8, <2>11 DEF ChainInv
<1> QED
  BY <1>14, <1>15

\* A step that leaves both rings and the frames alone, but may forget the
\* pending ones.
LEMMA ChainKept ==
  ASSUME ChainInv,
         UNCHANGED <<delay, write2, countdown, ring, write, samples, frames,
                     untilFrame, slots, frameWrite, object>>,
         pending' \in {pending, <<>>},
         loop' \in {"reading", "filtering", "mixing", "leaving"}, stage' \in Nat,
         Passed' = Passed, Located', OutputsWait', HeldKnown', FramesIntact'
  PROVE  ChainInv'
<1>1. pending' \in Seq(Objects)
  <2>1. <<>> \in Seq(Objects)
    OBVIOUS
  <2> QED
    BY <2>1 DEF ChainInv, ChainTypes
<1>2. ChainTypes'
  BY <1>1 DEF ChainInv, ChainTypes
<1>3. SecondFilter'
  BY DEF ChainInv, SecondFilter, DoubleRing
<1>4. Framing'
  BY DEF ChainInv, Framing, DoubleRing, Hop
<1>5. WindowsExact'
  <2>1. CASE pending' = pending
    BY <2>1 DEF ChainInv, WindowsExact, WindowExact, Range
  <2>2. CASE pending' = <<>>
    BY <2>2 DEF WindowsExact, Range
  <2> QED
    BY <2>1, <2>2
<1> QED
  BY <1>2, <1>3, <1>4, <1>5 DEF ChainInv

\* The references stay as they are.
LEMMA HeldKept ==
  ASSUME ChainInv, held' \subseteq held, UNCHANGED object
  PROVE  HeldKnown' /\ FramesIntact'
  BY DEF ChainInv, HeldKnown, FramesIntact

\* A block is read.
LEMMA ReadBlockStep ==
  ASSUME ChainInv, ReadBlock
  PROVE  ChainInv'
<1>1. /\ loop = "reading" /\ loop' = "filtering" /\ pending' = <<>>
      /\ UNCHANGED <<delay, write2, countdown, ring, write, samples, frames,
                     untilFrame, slots, frameWrite, object, held, stage>>
  BY DEF ReadBlock, stage2Vars
<1>2. main' \in InBlockNow /\ nextOutput' = nextOutput
  BY DEF ReadBlock, Begin, InBlockNow, Halves
<1>3. Passed' = Passed
  BY <1>1, <1>2 DEF Passed
<1>4. Located' /\ OutputsWait'
  BY <1>1, <1>2 DEF Located, OutputsWait
<1>5. HeldKnown' /\ FramesIntact'
  BY <1>1, HeldKept
<1>6. stage' \in Nat
  BY <1>1 DEF ChainInv, ChainTypes
<1> QED
  BY <1>1, <1>3, <1>4, <1>5, <1>6, ChainKept

\* The first filter goes on; when the block ends, its outputs wait.
LEMMA FilterStep ==
  ASSUME FirInv, ChainInv, Filter
  PROVE  ChainInv'
<1>1. /\ loop = "filtering" /\ InBlock
      /\ IF main' = "idle" THEN loop' = "mixing" /\ stage' = 0
                           ELSE UNCHANGED <<loop, stage>>
      /\ pending' = pending
      /\ UNCHANGED <<delay, write2, countdown, ring, write, samples, frames,
                     untilFrame, slots, frameWrite, object, held>>
  BY DEF Filter, welchVars
<1>2. HeldKnown' /\ FramesIntact'
  BY <1>1, HeldKept
<1>3. CASE End
  <2>1. /\ main = "ending" /\ main' = "idle" /\ out' = out
        /\ nextOutput' = nextOutput + Len(out) * Decimation
    BY <1>3 DEF End
  <2>2. loop' = "mixing" /\ stage' = 0
    BY <1>1, <2>1
  <2>3. /\ nextOutput \in Int /\ nextOutput % Decimation = 0
        /\ Decimation \in Nat \ {0} /\ Len(out) \in Nat /\ Len(out) \in Int
    BY FirAssumption DEF FirInv, FirTypes, InStream
  <2> DEFINE q == nextOutput \div Decimation
  <2>4. q \in Int
    BY <2>3, Quotient
  <2>5. nextOutput' \div Decimation = q + Len(out)
    <3>1. (nextOutput + Len(out) * Decimation) \div Decimation = q + Len(out)
      BY <2>3, MultipleMoved
    <3> QED
      BY <2>1, <3>1
  <2>6. Right(out, 0, Len(out))
    BY <2>1 DEF FirInv, FirstHalf, InBlockNow
  <2>7. \A j \in 1 .. Len(out) : out[j] = q + j - 1
    <3> SUFFICES ASSUME NEW j \in 1 .. Len(out) PROVE out[j] = q + j - 1
      OBVIOUS
    <3>1. j - 1 \in 0 .. Len(out) - 1 /\ (j - 1) + 1 = j
      BY <2>3
    <3>2. out[(j - 1) + 1] = q + (j - 1)
      BY <2>6, <3>1 DEF Right
    <3> QED
      BY <2>4, <3>1, <3>2
  <2> HIDE DEF q
  <2>8. Before' = q
    <3>1. Before' = nextOutput' \div Decimation - Len(out)
      BY <2>1 DEF Before
    <3> QED
      BY <2>3, <2>4, <2>5, <3>1
  <2>9. Passed' = Passed
    <3>1. Passed' = Before' + stage'
      BY <2>2 DEF Passed
    <3>2. Passed = q
      BY <1>1 DEF Passed, q
    <3> QED
      BY <2>2, <2>4, <2>8, <3>1, <3>2
  <2>10. OutputsWait'
    BY <2>1, <2>2, <2>3, <2>7, <2>8 DEF OutputsWait
  <2>11. Located'
    BY <2>1, <2>2 DEF Located
  <2>12. loop' \in {"reading", "filtering", "mixing", "leaving"} /\ stage' \in Nat
    BY <2>2
  <2> QED
    BY <1>1, <1>2, <2>9, <2>10, <2>11, <2>12, ChainKept
<1>4. CASE PostJob \/ NotifyJob \/ Compute \/ CheckDone
  <2>1. main' \in InBlockNow /\ nextOutput' = nextOutput
    BY <1>4 DEF PostJob, NotifyJob, Compute, CheckDone, buffers, InBlockNow, Halves
  <2>2. main' # "idle"
    BY <2>1 DEF InBlockNow, Halves
  <2>3. loop' = "filtering" /\ stage' = stage
    BY <1>1, <2>2
  <2>4. Passed' = Passed
    BY <1>1, <2>1, <2>3 DEF Passed
  <2>5. Located' /\ OutputsWait'
    BY <2>1, <2>3 DEF Located, OutputsWait
  <2>6. loop' \in {"reading", "filtering", "mixing", "leaving"} /\ stage' \in Nat
    BY <2>3 DEF ChainInv, ChainTypes
  <2> QED
    BY <1>1, <1>2, <2>4, <2>5, <2>6, ChainKept
<1> QED
  BY <1>1, <1>3, <1>4 DEF InBlock

\* A step of the worker, and a wakeup, disturb no output that waits.
LEMMA ThreadStep ==
  ASSUME FirInv, ChainInv, OtherThread \/ Spurious
  PROVE  ChainInv'
<1>1. /\ Worker \/ SpuriousWakeup
      /\ pending' = pending
      /\ loop' = loop /\ stage' = stage
      /\ UNCHANGED <<delay, write2, countdown, ring, write, samples, frames,
                     untilFrame, slots, frameWrite, object, held>>
  BY DEF OtherThread, Spurious, stage2Vars, welchVars
<1>2. HeldKnown' /\ FramesIntact'
  BY <1>1, HeldKept
<1>3. nextOutput' = nextOutput
  BY <1>1 DEF Worker, Test, WorkerComputes, SetDone, NotifyDone, SpuriousWakeup, buffers
<1>4. main' = main \/ (main = "waiting" /\ main' = "checking")
  BY <1>1 DEF Worker, Test, WorkerComputes, SetDone, NotifyDone, SpuriousWakeup
<1>5. loop = "mixing" => out' = out
  <2> SUFFICES ASSUME loop = "mixing" PROVE out' = out
    OBVIOUS
  <2>1. main = "idle"
    BY DEF ChainInv, Located
  <2>2. worker # "computing"
    BY <2>1 DEF FirInv, HandOver, Owed, Halves
  <2> QED
    BY <1>1, <2>2
       DEF Worker, Test, WorkerComputes, SetDone, NotifyDone, SpuriousWakeup, buffers
<1>6. Passed' = Passed
  BY <1>1, <1>3, <1>5 DEF Passed, Before
<1>7. Located'
  BY <1>1, <1>4 DEF ChainInv, Located, InBlockNow, Halves
<1>8. OutputsWait'
  <2> SUFFICES ASSUME loop = "mixing" PROVE OutputsWait'
    BY <1>1 DEF OutputsWait
  <2>1. out' = out /\ Before' = Before
    BY <1>3, <1>5 DEF Before
  <2> QED
    BY <1>1, <2>1 DEF ChainInv, OutputsWait
<1>9. loop' \in {"reading", "filtering", "mixing", "leaving"} /\ stage' \in Nat
  BY <1>1 DEF ChainInv, ChainTypes
<1> QED
  BY <1>1, <1>2, <1>6, <1>7, <1>8, <1>9, ChainKept

\* The frames of a block go to their consumers.
LEMMA DeliverStep ==
  ASSUME FirInv, ChainInv, Deliver
  PROVE  ChainInv'
<1>1. /\ loop = "mixing" /\ stage = Len(out) /\ loop' = "reading" /\ stage' = stage
      /\ pending' = pending
      /\ UNCHANGED <<delay, write2, countdown, ring, write, samples, frames,
                     untilFrame, slots, frameWrite, object, main, out, nextOutput>>
  BY DEF Deliver, stage2Vars, welchVars, firVars, buffers
<1>2. PICK sent \in SUBSET Range(pending) :
        held' = held
          \cup {[by |-> "recorder", object |-> o, got |-> object[o]] : o \in Range(pending)}
          \cup {[by |-> "network", object |-> o, got |-> object[o]] : o \in sent}
  BY DEF Deliver
<1>3. Range(pending) \subseteq Objects
  BY DEF ChainInv, ChainTypes, Range
<1>4. ASSUME NEW h \in held', h \notin held
      PROVE  \E o \in Objects, b \in {"recorder", "network"} :
               h = [by |-> b, object |-> o, got |-> object[o]]
  BY <1>2, <1>3, <1>4
<1>5. HeldKnown' /\ FramesIntact'
  <2> SUFFICES ASSUME NEW h \in held'
               PROVE  /\ h.object \in Objects
                      /\ \E o \in Objects, b \in {"recorder", "network"} :
                           h = [by |-> b, object |-> o, got |-> h.got]
                      /\ object[h.object] = h.got
    BY <1>1 DEF HeldKnown, FramesIntact
  <2>1. CASE h \in held
    BY <2>1 DEF ChainInv, HeldKnown, FramesIntact
  <2>2. CASE h \notin held
    <3>1. PICK o \in Objects, b \in {"recorder", "network"} :
            h = [by |-> b, object |-> o, got |-> object[o]]
      BY <1>4, <2>2
    <3>2. h.object = o /\ h.got = object[o]
      BY <3>1
    <3> QED
      BY <3>1, <3>2
  <2> QED
    BY <2>1, <2>2
<1>6. Passed' = Passed
  <2>1. /\ nextOutput \div Decimation \in Int /\ Len(out) \in Int
    BY FirAssumption, Quotient DEF FirInv, FirTypes
  <2>2. Passed = Before + stage
    BY <1>1 DEF Passed
  <2>3. Passed = nextOutput \div Decimation
    BY <1>1, <2>1, <2>2 DEF Before
  <2> QED
    BY <1>1, <2>3 DEF Passed
<1>7. Located' /\ OutputsWait'
  BY <1>1 DEF ChainInv, Located, OutputsWait
<1>8. loop' \in {"reading", "filtering", "mixing", "leaving"} /\ stage' \in Nat
  BY <1>1 DEF ChainInv, ChainTypes
<1> QED
  BY <1>1, <1>5, <1>6, <1>7, <1>8, ChainKept

\* A consumer lets a frame go, the chain is destroyed, or nothing happens.
LEMMA OtherStep ==
  ASSUME ChainInv, Release \/ Destroy \/ UNCHANGED vars
  PROVE  ChainInv'
<1>1. /\ pending' = pending /\ stage' = stage
      /\ UNCHANGED <<delay, write2, countdown, ring, write, samples, frames,
                     untilFrame, slots, frameWrite, object>>
      /\ held' \subseteq held
      /\ nextOutput' = nextOutput /\ out' = out
  BY DEF Release, Destroy, Destructor, RequestStop, NotifyStop, Join, vars,
     stage2Vars, welchVars, firVars, buffers
<1>2. HeldKnown' /\ FramesIntact'
  BY <1>1, HeldKept
<1>3. \/ loop' = loop /\ main' = main
      \/ /\ loop \in {"reading", "leaving"} /\ loop' = "leaving"
         /\ main' \in {"stopping", "joining", "destroyed"}
  BY DEF Release, Destroy, Destructor, RequestStop, NotifyStop, Join, vars, firVars
<1>4. Passed' = Passed
  BY <1>1, <1>3 DEF Passed, Before
<1>5. Located'
  BY <1>3 DEF ChainInv, Located
<1>6. OutputsWait'
  <2>1. Before' = Before
    BY <1>1 DEF Before
  <2> QED
    BY <1>1, <1>3, <2>1 DEF ChainInv, OutputsWait
<1>7. loop' \in {"reading", "filtering", "mixing", "leaving"} /\ stage' \in Nat
  BY <1>1, <1>3 DEF ChainInv, ChainTypes
<1> QED
  BY <1>1, <1>2, <1>4, <1>5, <1>6, <1>7, ChainKept

\* The chain at its start: both rings have been entered by nothing.
LEMMA ChainInit == Init => ChainInv
<1> SUFFICES ASSUME Init PROVE ChainInv
  OBVIOUS
<1>1. /\ Taps2 \in Nat \ {0} /\ Decimation2 \in Nat \ {0} /\ Decimation \in Nat \ {0}
      /\ Nfft \in Nat \ {0, 1} /\ RingCapacity \in Nat \ {0}
      /\ RingCapacity \in 1 .. MaxFrames /\ MaxFrames \in Int
  BY ChainAssumption, FirAssumption
<1>2. /\ loop = "reading" /\ main = "idle" /\ nextOutput = 0
      /\ held = {} /\ pending = <<>>
  BY DEF Init, FirInit
<1>3. DoubleRing(delay, 0, 0, TRUE, Taps2) /\ delay \in Seq(Int) /\ Len(delay) = 2 * Taps2
  <2>1. \A i \in 1 .. 2 * Taps2 : ((i - 1) % Taps2) - Taps2 \in Int
    BY <1>1, Quotient
  <2>2. delay = [i \in 1 .. 2 * Taps2 |-> ((i - 1) % Taps2) - Taps2]
    BY DEF Init
  <2>3. delay \in Seq(Int) /\ Len(delay) = 2 * Taps2
    BY <1>1, <2>1, <2>2
  <2>6. \A j \in 1 .. 2 * Taps2 : delay[j] = ((j - 1) % Taps2) - Taps2
    BY <2>2, Zenon
  <2>4. ASSUME NEW i \in 1 .. Taps2
        PROVE  delay[i] = i - 1 - Taps2 /\ delay[Taps2 + i] = i - 1 - Taps2
    <3>1. PICK m \in 1 .. 2 * Taps2 : m = Taps2 + i
      BY <1>1
    <3>2. /\ i \in 1 .. 2 * Taps2 /\ i - 1 \in 0 .. Taps2 - 1
          /\ i - 1 \in Int /\ m - 1 \in Int
          /\ i - 1 = 0 * Taps2 + (i - 1) /\ m - 1 = 1 * Taps2 + (i - 1)
      BY <1>1, <3>1
    <3>3. (i - 1) % Taps2 = i - 1
      BY <1>1, <3>2, QuotientUnique
    <3>4. (m - 1) % Taps2 = i - 1
      BY <1>1, <3>2, QuotientUnique
    <3>5. delay[i] = ((i - 1) % Taps2) - Taps2
      BY <2>6, <3>2
    <3>6. delay[m] = ((m - 1) % Taps2) - Taps2
      BY <2>6, <3>1, Zenon
    <3> QED
      BY <3>1, <3>3, <3>4, <3>5, <3>6
  <2>5. DoubleRing(delay, 0, 0, TRUE, Taps2)
    BY <1>1, <2>4 DEF DoubleRing
  <2> QED
    BY <2>3, <2>5
<1>4. /\ ring \in Seq(Int) /\ Len(ring) = 2 * Nfft
      /\ \A i \in 1 .. Nfft : ring[Nfft + i] = ring[i]
  <2>1. ring = [i \in 1 .. 2 * Nfft |-> Garbage] /\ Garbage \in Int
    BY DEF Init, Garbage
  <2>2. ring \in Seq(Int) /\ Len(ring) = 2 * Nfft
    BY <1>1, <2>1
  <2>3. ASSUME NEW i \in 1 .. Nfft PROVE ring[Nfft + i] = ring[i]
    <3>1. i \in 1 .. 2 * Nfft /\ Nfft + i \in 1 .. 2 * Nfft
      BY <1>1
    <3> QED
      BY <2>1, <3>1
  <2> QED
    BY <2>2, <2>3
<1>5. ChainTypes
  <2>1. slots \in [1 .. RingCapacity -> Objects]
    <3>1. slots = [i \in 1 .. RingCapacity |-> i]
      BY DEF Init
    <3>2. \A i \in 1 .. RingCapacity : i \in 1 .. MaxFrames
      BY <1>1
    <3> QED
      BY <3>1, <3>2 DEF Objects
  <2>2. object \in [Objects -> [frame : Nat, first : Int, center : Int]]
    BY DEF Init, NoFrame, Garbage
  <2>3. pending \in Seq(Objects)
    BY <1>2
  <2>4. /\ loop \in {"reading", "filtering", "mixing", "leaving"}
        /\ stage \in Nat
        /\ write2 \in 0 .. Taps2 - 1
        /\ countdown \in 0 .. Decimation2 - 1
        /\ write \in 0 .. Nfft - 1
        /\ samples \in Nat
        /\ frames \in Nat
        /\ untilFrame \in Nat
        /\ frameWrite \in 0 .. RingCapacity - 1
    BY <1>1 DEF Init
  <2> QED
    BY <1>3, <1>4, <2>1, <2>2, <2>3, <2>4 DEF ChainTypes
<1>6. Located /\ OutputsWait /\ HeldKnown /\ FramesIntact /\ WindowsExact
  BY <1>2 DEF Located, OutputsWait, HeldKnown, FramesIntact, WindowsExact, Range
<1>7. SecondFilter
  <2>1. 0 = 0 * Decimation + 0 /\ 0 \in 0 .. Decimation - 1
    BY <1>1
  <2>2. 0 \div Decimation = 0
    BY <1>1, <2>1, QuotientUnique
  <2>3. Passed = 0
    BY <1>2, <2>2 DEF Passed
  <2>4. write2 = 0 /\ countdown = 0 /\ samples = 0
    BY DEF Init
  <2>5. Passed + countdown = samples * Decimation2
    BY <1>1, <2>3, <2>4
  <2> QED
    BY <1>3, <2>3, <2>4, <2>5 DEF SecondFilter
<1>8. Framing
  <2>1. write = 0 /\ samples = 0 /\ frames = 0 /\ untilFrame = 0
    BY DEF Init
  <2>2. ~(samples >= Nfft)
    BY <1>1, <2>1
  <2>3. DoubleRing(ring, write, samples, samples >= Nfft, Nfft)
    BY <1>1, <1>4, <2>1, <2>2 DEF DoubleRing
  <2> QED
    BY <2>1, <2>2, <2>3 DEF Framing
<1> QED
  BY <1>3, <1>5, <1>6, <1>7, <1>8 DEF ChainInv

-----------------------------------------------------------------------------
(***************************************************************************)
(* The theorems.                                                           *)
(***************************************************************************)
\* The acquisition loop uses the filter as BlockFir1Decimator says: one call
\* at a time, blocks of its sizes, and the destructor only outside of a call.
THEOREM UsesFilter == Spec => FirSpec
<1>1. Init => FirInit
  BY DEF Init
<1>2. [Next]_vars => [FirNext]_firVars
  <2>1. Next => FirNext \/ UNCHANGED firVars
    <3>1. ReadBlock => FirNext
      BY ChainAssumption DEF ReadBlock, FirNext
    <3>2. Filter \/ OtherThread \/ Spurious \/ Destroy => FirNext
      BY DEF Filter, OtherThread, Spurious, Destroy, FirNext
    <3>3. Push \/ Deliver \/ Release => UNCHANGED firVars
      BY DEF Push, Deliver, Release
    <3> QED
      BY <3>1, <3>2, <3>3 DEF Next, Main
  <2>2. UNCHANGED vars => UNCHANGED firVars
    BY DEF vars
  <2> QED
    BY <2>1, <2>2
<1> QED
  BY <1>1, <1>2, PTL DEF Spec, FirSpec

\* What the chain keeps true: both rings hold the last outputs that entered
\* them, the next output of the second filter and the next frame are due at
\* multiples of Decimation2 and Hop, and no held object is a reusable one.
THEOREM ChainInvariant == Spec => []ChainInv
<1>1. FirInv /\ ChainInv /\ [Next]_vars => ChainInv'
  <2> SUFFICES ASSUME FirInv, ChainInv, [Next]_vars PROVE ChainInv'
    OBVIOUS
  <2>1. CASE ReadBlock
    BY <2>1, ReadBlockStep
  <2>2. CASE Filter
    BY <2>2, FilterStep
  <2>3. CASE Push
    BY <2>3, PushStep
  <2>4. CASE Deliver
    BY <2>4, DeliverStep
  <2>5. CASE OtherThread \/ Spurious
    BY <2>5, ThreadStep
  <2>6. CASE Release \/ Destroy \/ UNCHANGED vars
    BY <2>6, OtherStep
  <2> QED
    BY <2>1, <2>2, <2>3, <2>4, <2>5, <2>6 DEF Next, Main
<1> QED
  BY <1>1, ChainInit, UsesFilter, FirInvariant, PTL DEF Spec

\* Whatever the taps, decimations, Nfft and sizes of the blocks, each pending
\* frame is made of the Nfft consecutive samples that its number and its
\* center sample stand for.
THEOREM RightWindows == Spec => []WindowsExact
<1>1. ChainInv => WindowsExact
  BY DEF ChainInv
<1> QED
  BY <1>1, ChainInvariant, PTL

\* Whatever the size of the pool and whenever its consumers let go, a frame
\* that one of them holds is as it was given to it.
THEOREM SharedFrames == Spec => []FramesIntact
<1>1. ChainInv => FramesIntact
  BY DEF ChainInv
<1> QED
  BY <1>1, ChainInvariant, PTL
=============================================================================
