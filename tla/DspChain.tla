------------------------------ MODULE DspChain ------------------------------
(***************************************************************************)
(* The DSP chain, driven by the acquisition loop: every block that is read *)
(* goes through the first filter (BlockFir1Decimator), its outputs one by  *)
(* one through the second filter and into the Welch estimator, which makes *)
(* a PSD frame of every Nfft samples, Hop apart, in a pool of frame        *)
(* objects.  After the block the frames go to their consumers, who share   *)
(* them.                                                                   *)
(*                                                                         *)
(* Outputs of the filters are known by their numbers, as in                *)
(* BlockFir1Decimator.  A frame object holds the number of the frame, the  *)
(* first of the samples it was made of and the center it claims.  Mixing   *)
(* and spectra are left out, and so is the AGC.                            *)
(***************************************************************************)
EXTENDS BlockFir1Decimator, Functions, FiniteSets

CONSTANTS
  Taps2, Decimation2,  \* of the second filter
  Nfft,                \* _nfft
  RingCapacity,        \* the size of _frameRing
  Blocks,              \* the numbers of samples that a read may give
  MaxFrames            \* bound: frame objects that exist at one time

ASSUME ChainAssumption ==
  /\ Taps2 \in Nat \ {0}
  /\ Decimation2 \in Nat \ {0}
  /\ Nfft \in Nat \ {0, 1}
  /\ RingCapacity \in Nat \ {0}
  /\ Blocks \subseteq 1 .. MaxSamples
  /\ MaxFrames \in Nat
  /\ RingCapacity \in 1 .. MaxFrames

VARIABLES
  loop,       \* where the acquisition loop is
  stage,      \* the number of outputs of the first filter gone through
  delay, write2, countdown,              \* FirDecimator
  ring, write, samples, frames, untilFrame,  \* WelchBandPsd
  slots,      \* _frameRing: the object in each slot
  frameWrite, \* _frameWrite
  object,     \* the content of each frame object
  pending,    \* pendingPsdFrames
  held        \* the consumers' references, and what they got by them

stage2Vars == <<stage, delay, write2, countdown>>
welchVars == <<ring, write, samples, frames, untilFrame, slots, frameWrite,
               object, pending>>
vars == <<firVars, loop, stage2Vars, welchVars, held>>

Hop == Nfft \div 2

Objects == 1 .. MaxFrames

NoFrame == [frame |-> 0, first |-> Garbage, center |-> 0]

Init ==
  /\ FirInit
  /\ loop = "reading"
  /\ stage = 0
  /\ delay = [i \in 1 .. 2 * Taps2 |-> ((i - 1) % Taps2) - Taps2]
  /\ write2 = 0
  /\ countdown = 0
  /\ ring = [i \in 1 .. 2 * Nfft |-> Garbage]
  /\ write = 0
  /\ samples = 0
  /\ frames = 0
  /\ untilFrame = 0
  /\ slots = [i \in 1 .. RingCapacity |-> i]
  /\ frameWrite = 0
  /\ object = [o \in Objects |-> NoFrame]
  /\ pending = <<>>
  /\ held = {}

-----------------------------------------------------------------------------
(***************************************************************************)
(* A read, and the first filter.                                           *)
(***************************************************************************)
ReadBlock ==
  /\ loop = "reading"
  /\ \E n \in Blocks : Begin(n)
  /\ pending' = <<>>
  /\ loop' = "filtering"
  /\ UNCHANGED <<stage2Vars, ring, write, samples, frames, untilFrame, slots,
                 frameWrite, object, held>>

Filter ==
  /\ loop = "filtering"
  /\ InBlock
  /\ IF main' = "idle" THEN loop' = "mixing" /\ stage' = 0
                       ELSE UNCHANGED <<loop, stage>>
  /\ UNCHANGED <<delay, write2, countdown, welchVars, held>>

OtherThread ==
  /\ Worker
  /\ UNCHANGED <<loop, stage2Vars, welchVars, held>>

Spurious ==
  /\ SpuriousWakeup
  /\ UNCHANGED <<loop, stage2Vars, welchVars, held>>

-----------------------------------------------------------------------------
(***************************************************************************)
(* accumulateFrame(): the frame that ends with sample n - 1 of the ring r. *)
(***************************************************************************)
Users(o) == {h \in held : h.object = o}

\* use_count() of a pooled object: the slot, the pending list, consumers.
UseCount(o) == 1 + Cardinality({i \in DOMAIN pending : pending[i] = o})
                 + Cardinality(Users(o))

\* Mutant: the last reader does not count.
ReusableWithReader(o) == UseCount(o) <= 2

Reusable(o) == UseCount(o) = 1

Unused == {o \in Objects : /\ o \notin Range(slots) \cup Range(pending)
                           /\ Users(o) = {}}

\* Mutant: the window starts one position late.
OldestShifted(r, w) == SubSeq(r, w + 2, w + Nfft + 1)

\* The Nfft samples of the double ring, the oldest first.
Oldest(r, w) == SubSeq(r, w + 1, w + Nfft)

\* The number of the first of the samples s, when none is missing.
FirstOf(s) ==
  IF \A i \in 1 .. Nfft - 1 : s[i + 1] = s[i] + 1 THEN s[1] ELSE Garbage

MakeFrame(r, w, n) ==
  LET slot == slots[frameWrite + 1]
      o == IF Reusable(slot) THEN slot ELSE CHOOSE u \in Unused : TRUE
  IN /\ Reusable(slot) \/ Unused # {}  \* bound
     /\ slots' = [slots EXCEPT ![frameWrite + 1] = o]
     /\ frameWrite' = (frameWrite + 1) % RingCapacity
     /\ object' = [object EXCEPT ![o] =
          [frame |-> frames, first |-> FirstOf(Oldest(r, w)),
           center |-> n - Nfft + (Nfft - 1) \div 2]]
     /\ frames' = frames + 1
     /\ pending' = Append(pending, o)

(***************************************************************************)
(* consume(): a sample y enters the double ring.                           *)
(***************************************************************************)
Consume(y) ==
  LET r == [ring EXCEPT ![write + 1] = y, ![write + Nfft + 1] = y]
      w == (write + 1) % Nfft
      full == samples + 1 >= Nfft
  IN /\ ring' = r
     /\ write' = w
     /\ samples' = samples + 1
     /\ untilFrame' = IF ~full THEN untilFrame
                      ELSE IF untilFrame = 0 THEN Hop - 1 ELSE untilFrame - 1
     /\ IF full /\ untilFrame = 0
        THEN MakeFrame(r, w, samples + 1)
        ELSE UNCHANGED <<frames, slots, frameWrite, object, pending>>

(***************************************************************************)
(* FirDecimator::push() of the next output of the first filter.            *)
(***************************************************************************)
Push ==
  LET y == out[stage + 1]
      d == [delay EXCEPT ![write2 + 1] = y, ![write2 + Taps2 + 1] = y]
      w == (write2 + 1) % Taps2
  IN /\ loop = "mixing"
     /\ stage < Len(out)
     /\ stage' = stage + 1
     /\ delay' = d
     /\ write2' = w
     /\ IF countdown # 0
        THEN countdown' = countdown - 1 /\ UNCHANGED welchVars
        ELSE /\ countdown' = Decimation2 - 1
             /\ Consume(Output(SubSeq(d, w + 1, w + Taps2), Decimation2))
     /\ UNCHANGED <<firVars, loop, held>>

\* Every pending frame goes to the recorder, and to the network while it has
\* a client and room.
Deliver ==
  /\ loop = "mixing"
  /\ stage = Len(out)
  /\ \E sent \in SUBSET Range(pending) :
       held' = held \cup
         {[by |-> "recorder", object |-> o, got |-> object[o]] :
            o \in Range(pending)}
         \cup {[by |-> "network", object |-> o, got |-> object[o]] : o \in sent}
  /\ loop' = "reading"
  /\ UNCHANGED <<firVars, stage2Vars, welchVars>>

\* A consumer is done with a frame.
Release ==
  /\ \E h \in held : held' = held \ {h}
  /\ UNCHANGED <<firVars, loop, stage2Vars, welchVars>>

\* main() leaves the block that owns the chain.
Destroy ==
  /\ loop \in {"reading", "leaving"}
  /\ Destructor
  /\ loop' = "leaving"
  /\ UNCHANGED <<stage2Vars, welchVars, held>>

Main == ReadBlock \/ Filter \/ Push \/ Deliver \/ Destroy

Next == Main \/ OtherThread \/ Spurious \/ Release

Spec == Init /\ [][Next]_vars

(***************************************************************************)
(* Fairness: the operating system runs both threads.  A read need not give *)
(* data, and the chain need not be destroyed, but a begun end goes on.     *)
(***************************************************************************)
FairSpec ==
  /\ Spec
  /\ WF_vars(Filter \/ Push \/ Deliver)
  /\ WF_vars(loop = "leaving" /\ Destroy)
  /\ WF_vars(OtherThread)

-----------------------------------------------------------------------------
(***************************************************************************)
(* Properties.                                                             *)
(***************************************************************************)
(***************************************************************************)
(* doc/DSP_PIPELINE.md, 50 percent overlap: frame f is made of the samples *)
(* from f * Hop on, Nfft of them without a gap, and its center sample is   *)
(* theirs, so that its timestamp belongs to what it holds.                 *)
(***************************************************************************)
WindowExact(c) ==
  /\ c.first = c.frame * Hop
  /\ c.center = c.first + (Nfft - 1) \div 2

WindowsExact == \A o \in Range(pending) : WindowExact(object[o])

(***************************************************************************)
(* "Immutable PSD frame": as long as somebody holds a frame, the object is *)
(* not written again, though the pool is used round and round.             *)
(***************************************************************************)
FramesIntact == \A h \in held : object[h.object] = h.got

(***************************************************************************)
(* Every block that is read goes through, and a destroyed chain is rid of  *)
(* its worker.                                                             *)
(***************************************************************************)
BlocksEnd == /\ loop = "filtering" ~> loop = "reading"
             /\ loop = "leaving" ~> main = "destroyed" /\ worker = "ended"
=============================================================================
