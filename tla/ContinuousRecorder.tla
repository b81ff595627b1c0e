------------------------- MODULE ContinuousRecorder -------------------------
(***************************************************************************)
(* Continuous recording: class ContinuousPsdRecorder driving the daily     *)
(* HDF5 writer.  Every frame is recorded.  The stream is cut into segments *)
(* of a fixed number of frames, each with an event id of its own; the file *)
(* may change only between two segments, and a recording may have a last   *)
(* segment, after which the frames still in the queue are ignored.         *)
(*                                                                         *)
(* As in TriggeredRecorder the process may stop between two frames, any    *)
(* append may throw, which ends it, and a later process reopens the files. *)
(***************************************************************************)
EXTENDS DailyHdf5Writer, FiniteSets

CONSTANTS
  SegmentFrames,  \* _segmentFrames
  SegmentCount,   \* segment_count: the number of segments, 0 for no limit
  MaxTime,        \* bound: no frame is later than this
  MaxSessions     \* bound: number of processes run one after the other

ASSUME SegmentAssumption ==
  /\ SegmentFrames \in Nat \ {0}
  /\ SegmentCount \in Nat
  /\ MaxTime \in Nat
  /\ MaxSessions \in Nat

VARIABLES
  store,      \* the daily files and the writer's state
  pc,         \* whether the process runs, or how it ended
  session,    \* the running process: 1, 2, ...
  startTs,    \* acquisitionStartNs of this process
  nextIndex,  \* index of the next frame to arrive
  segment,    \* the counters of the recorder
  finished    \* _finished

vars == <<store, pc, session, startTs, nextIndex, segment, finished>>

\* _segmentId, _framesInSegment, _completedSegments and _savedFrames.
Segment == [id : Nat, frames : Nat, completed : Nat, saved : Nat]

NoSegment == [id |-> 0, frames |-> 0, completed |-> 0, saved |-> 0]

\* The detector state of every row.
Neutral == 0

\* The frame consume() is given: stamped with the centre of its FFT window.
ThisFrame == [session |-> session, index |-> nextIndex,
              ts |-> startTs + 1 + nextIndex]

-----------------------------------------------------------------------------
Init ==
  /\ startTs \in {0, 1}
  /\ store = Open(<<>>, DayOf(startTs))
  /\ pc = "running"
  /\ session = 1
  /\ nextIndex = 0
  /\ segment = NoSegment
  /\ finished = FALSE

\* A frame arrives at consume().
FrameArrives ==
  /\ pc = "running"
  /\ ThisFrame.ts <= MaxTime

\* A frame of the queue that comes after the last segment.
IgnoredFrame ==
  /\ FrameArrives
  /\ finished
  /\ nextIndex' = nextIndex + 1
  /\ UNCHANGED <<store, pc, session, startTs, segment, finished>>

StartsSegment == segment.frames = 0

\* The storage state after the tick() with which a segment begins.
Ticked == IF StartsSegment THEN Tick(store, ThisFrame.ts, FALSE) ELSE store

\* Mutant: a segment numbered before the counter is stepped.
StaleSegmentId == segment.id

SegmentId == segment.id + (IF StartsSegment THEN 1 ELSE 0)

\* This frame completes its segment.
EndsSegment == segment.frames + 1 >= SegmentFrames

\* Mutant: a recording that stops one segment late.
LastSegmentLate == SegmentCount # 0 /\ segment.completed >= SegmentCount

LastSegment == SegmentCount # 0 /\ segment.completed + 1 >= SegmentCount

\* consume() records the frame.
RecordFrame ==
  /\ FrameArrives
  /\ ~finished
  /\ LET s == AppendRow(Ticked, ThisFrame, SegmentId, Neutral)
     IN store' = IF EndsSegment THEN Tick(s, ThisFrame.ts, FALSE) ELSE s
  /\ segment' = [id        |-> SegmentId,
                 frames    |-> IF EndsSegment THEN 0 ELSE segment.frames + 1,
                 completed |-> segment.completed + (IF EndsSegment THEN 1 ELSE 0),
                 saved     |-> segment.saved + 1]
  /\ finished' = (EndsSegment /\ LastSegment)
  /\ nextIndex' = nextIndex + 1
  /\ UNCHANGED <<pc, session, startTs>>

\* append() throws: the exception ends the worker and then the process.
WriteFails ==
  /\ FrameArrives
  /\ ~finished
  /\ store' \in FailedAppends(Ticked, ThisFrame, SegmentId, Neutral)
  /\ pc' = "failed"
  /\ UNCHANGED <<session, startTs, nextIndex, segment, finished>>

\* A clean stop, perhaps in the middle of a segment.
Stop ==
  /\ pc = "running"
  /\ pc' = "stopped"
  /\ UNCHANGED <<store, session, startTs, nextIndex, segment, finished>>

\* A new process, later: fresh counters, the files of the day reopened.
Restart ==
  /\ pc \in {"failed", "stopped"}
  /\ session < MaxSessions
  /\ session' = session + 1
  /\ startTs' \in ThisFrame.ts .. MaxTime
  /\ store' = Open(store.disk, DayOf(startTs'))
  /\ pc' = "running"
  /\ nextIndex' = 0
  /\ segment' = NoSegment
  /\ finished' = FALSE

Next == IgnoredFrame \/ RecordFrame \/ WriteFails \/ Stop \/ Restart

Spec == Init /\ [][Next]_vars

-----------------------------------------------------------------------------
(***************************************************************************)
(* Properties.                                                             *)
(***************************************************************************)
\* Types of the recorder's state.
TypeOK ==
  /\ StorageOK(store)
  /\ pc \in {"running", "failed", "stopped"}
  /\ session \in Nat
  /\ startTs \in Nat
  /\ nextIndex \in Nat
  /\ segment \in Segment
  /\ segment.frames < SegmentFrames
  /\ finished \in BOOLEAN

(***************************************************************************)
(* Every completely written row can be turned back into the FFT window of  *)
(* its frame by the documented rule, over day changes in the middle of the *)
(* stream, failed appends and restarts that append to an old file.         *)
(***************************************************************************)
FilesReadable ==
  \A d \in DOMAIN store.disk : FileReadable(store.disk[d])

\* Where the rows of process s are: a day and a row number.
RowsOf(s) ==
  { dr \in UNION { {d} \X DOMAIN store.disk[d].rows : d \in DOMAIN store.disk } :
      store.disk[dr[1]].rows[dr[2]].frame.session = s }

RowAt(dr) == store.disk[dr[1]].rows[dr[2]]

\* A segment is in one file, the one of the day of its first frame, and its
\* rows follow one another there.
SegmentInOneFile(s) ==
  \A a, b \in RowsOf(s) :
    RowAt(a).event = RowAt(b).event =>
      /\ a[1] = b[1]
      /\ RowAt(b).frame.index - RowAt(a).frame.index = b[2] - a[2]
      /\ RowAt(a).frame.index % SegmentFrames = 0 =>
           DayOf(RowAt(a).frame.ts) = a[1]

(***************************************************************************)
(* The rows of a process are the frames of its stream from the first on,   *)
(* each of them once, and SegmentFrames of them at a time share a segment  *)
(* number and a file: nothing is lost between two segments or at a day     *)
(* change, and no day change cuts a segment.                               *)
(***************************************************************************)
StreamComplete ==
  \A s \in 1 .. session :
    /\ { RowAt(dr).frame.index : dr \in RowsOf(s) }
         = 0 .. Cardinality(RowsOf(s)) - 1
    /\ \A dr \in RowsOf(s) :
         RowAt(dr).event = (RowAt(dr).frame.index \div SegmentFrames) + 1
    /\ SegmentInOneFile(s)

(***************************************************************************)
(* A recording with a last segment is finished exactly when it has its     *)
(* segment_count segments, whole, and records nothing more.                *)
(***************************************************************************)
CountHonoured ==
  /\ SegmentCount # 0 =>
       \A s \in 1 .. session :
         Cardinality(RowsOf(s)) <= SegmentCount * SegmentFrames
  /\ pc # "failed" =>
       /\ segment.saved = Cardinality(RowsOf(session))
       /\ finished <=> /\ SegmentCount # 0
                       /\ segment.saved = SegmentCount * SegmentFrames

(***************************************************************************)
(* No step removes or changes a row: the files only grow, whatever fails   *)
(* and whatever a restart reopens.                                         *)
(***************************************************************************)
RowsAppended ==
  [][\A d \in DOMAIN store.disk :
       /\ d \in DOMAIN store'.disk
       /\ \A r \in DOMAIN store.disk[d].rows :
            /\ r \in DOMAIN store'.disk[d].rows
            /\ store'.disk[d].rows[r] = store.disk[d].rows[r]]_vars
=============================================================================
