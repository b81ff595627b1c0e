-------------------------- MODULE TriggeredRecorder -------------------------
(***************************************************************************)
(* Triggered recording: class PsdDetectorRecorder driving the daily HDF5   *)
(* writer.  Frames arrive one at a time, in stream order.  For each the    *)
(* detector plugin says whether it is active; the recorder keeps a ring of *)
(* idle frames as pre-trigger context, opens an event on the first active  *)
(* frame, records it to its end and PostFrames further frames, merges      *)
(* retriggers, and cuts or discards an event that lasts too long.          *)
(*                                                                         *)
(* The detector is any plugin: its answer to a frame is arbitrary.  The    *)
(* process may stop between two frames (its queue is drained), and any     *)
(* write may throw, which ends it; a later process, with any plugin, then  *)
(* reopens the files it finds.  Writing the pre-trigger context is a loop  *)
(* of appends, one step each, because it can fail half way.                *)
(***************************************************************************)
EXTENDS DailyHdf5Writer, FiniteSets

CONSTANTS
  PreFrames,   \* _preContextFrames
  PostFrames,  \* _postContextFrames
  MaxEvent,    \* max_event_seconds in frame periods, 0 for no limit
  Rearm,       \* rearm_seconds in frame periods
  MaxTime,     \* bound: no frame is later than this
  MaxSessions  \* bound: number of processes run one after the other

ASSUME RecorderAssumption ==
  /\ PreFrames \in Nat
  /\ PostFrames \in Nat
  /\ MaxEvent \in Nat
  /\ Rearm \in Nat
  /\ MaxTime \in Nat
  /\ MaxSessions \in Nat

VARIABLES
  store,      \* the daily files and the writer's state
  pc,         \* where consume() is, or how the process ended
  session,    \* the running process: 1, 2, ...
  startTs,    \* acquisitionStartNs of this process
  nextIndex,  \* index of the next frame to arrive
  discards,   \* the plugin's discardEventOnMaxDuration
  pre,        \* the ring of remembered frames, oldest first
  event,      \* the state of the current event
  stats,      \* the counters of printSummary()
  cuts        \* history: the events cut by max_event, and when

vars == <<store, pc, session, startTs, nextIndex, discards, pre, event,
          stats, cuts>>

(***************************************************************************)
(* event.active, .post, .startTs, .startRow, .saved, .rearmUntil and .id   *)
(* are _active, _postRemaining, _eventStartNs, _eventStartRow,             *)
(* _eventSavedFrames, _rearmUntilNs and _eventId; .backlog is the number   *)
(* of pre-trigger frames that the trigger loop still has to append.        *)
(***************************************************************************)
Event == [active : BOOLEAN, post : Nat, startTs : Nat, startRow : Nat,
          saved : Nat, rearmUntil : Nat, id : Nat, backlog : Nat]

NoEvent == [active |-> FALSE, post |-> 0, startTs |-> 0, startRow |-> 0,
            saved |-> 0, rearmUntil |-> 0, id |-> 0, backlog |-> 0]

Stats == [triggerOns : Nat, triggerOffs : Nat, forcedCutoffs : Nat,
          recordedEvents : Nat, discardedEvents : Nat, savedFrames : Nat]

NoStats == [triggerOns |-> 0, triggerOffs |-> 0, forcedCutoffs |-> 0,
            recordedEvents |-> 0, discardedEvents |-> 0, savedFrames |-> 0]

Cut == [session : Nat, id : Nat, ts : Nat, discarded : BOOLEAN]

InEvent == event.active \/ event.post > 0

\* The frame consume() is given: stamped with the centre of its FFT window.
ThisFrame == [session |-> session, index |-> nextIndex,
              ts |-> startTs + 1 + nextIndex]

\* The storage state after the tick() with which consume() begins.
Ticked == Tick(store, ThisFrame.ts, InEvent)

-----------------------------------------------------------------------------
(***************************************************************************)
(* Remembering frames: remember() and clearPre() on the circular buffer.   *)
(***************************************************************************)
\* Mutant: a full ring that overwrites its newest frame.
RememberOverNewest(ring, f) ==
  IF PreFrames = 0 THEN <<>>
  ELSE Append(SubSeq(ring, 1, IF Len(ring) < PreFrames THEN Len(ring)
                                                       ELSE PreFrames - 1), f)

Remember(ring, f) ==
  IF PreFrames = 0 THEN <<>>
  ELSE IF Len(ring) < PreFrames THEN Append(ring, f)
  ELSE Append(Tail(ring), f)

(***************************************************************************)
(* Ending an event: resetEventTracking(), and finalizeRecordedEvent(),     *)
(* which does nothing for an event without a start time.  n is the row     *)
(* count of the writer.                                                    *)
(***************************************************************************)
TrackingReset(e, n) == [e EXCEPT !.startTs = 0, !.startRow = n, !.saved = 0]

Finalized(e, n) == IF e.startTs = 0 THEN e ELSE TrackingReset(e, n)

FinalizedCount == IF event.startTs = 0 THEN 0 ELSE 1

\* One more frame appended, in the event's own count and in the total.
EventSaved(e) == [e EXCEPT !.saved = @ + 1]

StatsSaved == [stats EXCEPT !.savedFrames = @ + 1]

-----------------------------------------------------------------------------
Init ==
  /\ startTs \in {0, 1}
  /\ store = Open(<<>>, DayOf(startTs))
  /\ pc = "ready"
  /\ session = 1
  /\ nextIndex = 0
  /\ discards \in BOOLEAN
  /\ pre = <<>>
  /\ event = NoEvent
  /\ stats = NoStats
  /\ cuts = {}

\* A frame arrives at consume().
FrameArrives ==
  /\ pc = "ready"
  /\ ThisFrame.ts <= MaxTime

\* What every completed consume() leaves alone.
FrameDone ==
  /\ pc' = "ready"
  /\ nextIndex' = nextIndex + 1
  /\ UNCHANGED <<session, startTs, discards>>

(***************************************************************************)
(* After a cutoff the recorder is inhibited until rearmUntil: the detector *)
(* only preprocesses and nothing is remembered.                            *)
(***************************************************************************)
Inhibited == event.rearmUntil # 0 /\ ThisFrame.ts < event.rearmUntil

InhibitedFrame ==
  /\ FrameArrives
  /\ Inhibited
  /\ store' = Ticked
  /\ pre' = <<>>
  /\ FrameDone
  /\ UNCHANGED <<event, stats, cuts>>

\* The first frame past rearmUntil re-enables detection with an empty ring.
Rearmed(e) == [e EXCEPT !.rearmUntil = 0]

PreOnRearm == IF event.rearmUntil # 0 THEN <<>> ELSE pre

-----------------------------------------------------------------------------
(***************************************************************************)
(* An event older than MaxEvent ends here, before the detector sees the    *)
(* frame.  A plugin that discards has all its rows truncated; the others   *)
(* keep them.  Either way the frame itself is not recorded.                *)
(***************************************************************************)
TooLong ==
  /\ MaxEvent > 0
  /\ event.startTs # 0
  /\ InEvent
  /\ ThisFrame.ts >= event.startTs + MaxEvent

SavedAfterDiscard(n) == IF n >= event.saved THEN n - event.saved ELSE 0

\* Mutant: the inhibit interval counted from the start of the event.
RearmFromStart == event.startTs + Rearm

RearmTime == ThisFrame.ts + Rearm

CutEvent ==
  /\ FrameArrives
  /\ ~Inhibited
  /\ TooLong
  /\ LET kept == IF discards THEN TruncateRows(Ticked, event.startRow)
                             ELSE Ticked
         over == TrackingReset([event EXCEPT !.active = FALSE, !.post = 0],
                               kept.rows)
     IN /\ store' = Tick(kept, ThisFrame.ts, FALSE)
        /\ event' = [over EXCEPT !.rearmUntil = RearmTime]
        /\ stats' = IF discards
                    THEN [stats EXCEPT
                            !.discardedEvents = @ + 1,
                            !.savedFrames = SavedAfterDiscard(@)]
                    ELSE [stats EXCEPT !.forcedCutoffs = @ + 1,
                                       !.recordedEvents = @ + FinalizedCount]
  /\ pre' = <<>>
  /\ cuts' = cuts \cup {[session |-> session, id |-> event.id,
                         ts |-> ThisFrame.ts, discarded |-> discards]}
  /\ FrameDone

-----------------------------------------------------------------------------
\* The frame reaches the detector in Full mode.
Detects == FrameArrives /\ ~Inhibited /\ ~TooLong

\* Mutant: an event that ends with its trigger, post-trigger context or not.
EndsAtOnce(above) == ~above

EndsAtTriggerOff(above) == ~above /\ PostFrames = 0

(***************************************************************************)
(* A frame that arrives with the trigger on is recorded whatever the       *)
(* detector says of it.  If it says no, the post-trigger context begins or *)
(* (without one) the event ends.                                           *)
(***************************************************************************)
ActiveFrame(above) ==
  /\ Detects
  /\ event.active
  /\ LET s == AppendRow(Ticked, ThisFrame, event.id, Active)
         e == EventSaved(Rearmed(event))
         off == [e EXCEPT !.active = FALSE, !.post = PostFrames]
         ends == EndsAtTriggerOff(above)
     IN /\ store' = IF ends THEN Tick(s, ThisFrame.ts, FALSE) ELSE s
        /\ event' = IF above THEN e
                    ELSE IF ends THEN Finalized(off, s.rows) ELSE off
        /\ stats' = [StatsSaved EXCEPT
                       !.triggerOffs = @ + (IF above THEN 0 ELSE 1),
                       !.recordedEvents = @ + (IF ends THEN FinalizedCount
                                                        ELSE 0)]
  /\ pre' = PreOnRearm
  /\ FrameDone
  /\ UNCHANGED cuts

(***************************************************************************)
(* A frame of the post-trigger context is recorded and also remembered.    *)
(* If the detector says yes the same event is active again.                *)
(***************************************************************************)
PostFrame(above) ==
  /\ Detects
  /\ ~event.active
  /\ event.post > 0
  /\ LET s == AppendRow(Ticked, ThisFrame, event.id, PostTrigger)
         e == EventSaved(Rearmed(event))
         ends == ~above /\ event.post = 1
     IN /\ store' = IF ends THEN Tick(s, ThisFrame.ts, FALSE) ELSE s
        /\ event' = IF above THEN [e EXCEPT !.active = TRUE, !.post = 0]
                    ELSE IF ends
                         THEN Finalized([e EXCEPT !.post = 0], s.rows)
                         ELSE [e EXCEPT !.post = @ - 1]
        /\ stats' = [StatsSaved EXCEPT
                       !.triggerOns = @ + (IF above THEN 1 ELSE 0),
                       !.recordedEvents = @ + (IF ends THEN FinalizedCount
                                                        ELSE 0)]
  /\ pre' = Remember(PreOnRearm, ThisFrame)
  /\ FrameDone
  /\ UNCHANGED cuts

\* An idle frame is only remembered.
IdleFrame ==
  /\ Detects
  /\ ~InEvent
  /\ store' = Ticked
  /\ event' = Rearmed(event)
  /\ pre' = Remember(PreOnRearm, ThisFrame)
  /\ FrameDone
  /\ UNCHANGED <<stats, cuts>>

(***************************************************************************)
(* The trigger: a new event begins in the file that is open now.  Its      *)
(* pre-trigger context is appended frame by frame (Backlog), then the      *)
(* frame itself (Trigger).                                                 *)
(***************************************************************************)
\* Mutant: a row number taken before the tick() that may change the file.
StaleStartRow == store.rows

StartRow == Ticked.rows

TriggerOn ==
  /\ Detects
  /\ ~InEvent
  /\ store' = Ticked
  /\ pre' = PreOnRearm
  /\ event' = [Rearmed(event) EXCEPT !.id = @ + 1,
                                     !.startRow = StartRow,
                                     !.saved = 0,
                                     !.backlog = Len(PreOnRearm)]
  /\ stats' = [stats EXCEPT !.triggerOns = @ + 1]
  /\ pc' = "trigger"
  /\ UNCHANGED <<session, startTs, nextIndex, discards, cuts>>

\* The oldest frame of the ring that has not been appended.
BacklogFrame == pre[Len(pre) - event.backlog + 1]

Backlog ==
  /\ pc = "trigger"
  /\ event.backlog > 0
  /\ store' = AppendRow(store, BacklogFrame, event.id, PreTrigger)
  /\ event' = EventSaved([event EXCEPT !.backlog = @ - 1])
  /\ stats' = StatsSaved
  /\ UNCHANGED <<pc, session, startTs, nextIndex, discards, pre, cuts>>

Trigger ==
  /\ pc = "trigger"
  /\ event.backlog = 0
  /\ store' = AppendRow(store, ThisFrame, event.id, Active)
  /\ event' = EventSaved([event EXCEPT !.active = TRUE,
                                       !.startTs = ThisFrame.ts])
  /\ stats' = StatsSaved
  /\ pre' = <<>>
  /\ FrameDone
  /\ UNCHANGED cuts

-----------------------------------------------------------------------------
(***************************************************************************)
(* An append or the truncation of a discarded event throws: an HDF5 call   *)
(* failed, or a storage limit was reached.  The exception ends the worker  *)
(* and then the process.                                                   *)
(***************************************************************************)
WriteFails ==
  /\ \/ /\ Detects
        /\ InEvent
        /\ store' \in FailedAppends(Ticked, ThisFrame, event.id,
                        IF event.active THEN Active ELSE PostTrigger)
     \/ /\ FrameArrives
        /\ ~Inhibited
        /\ TooLong
        /\ discards
        /\ store' \in {Ticked, TruncateRows(Ticked, event.startRow)}
     \/ /\ pc = "trigger"
        /\ store' \in IF event.backlog > 0
                      THEN FailedAppends(store, BacklogFrame, event.id,
                                         PreTrigger)
                      ELSE FailedAppends(store, ThisFrame, event.id, Active)
  /\ pc' = "failed"
  /\ UNCHANGED <<session, startTs, nextIndex, discards, pre, event, stats,
                 cuts>>

\* A clean stop: the queue is empty, the destructors close the file.  An event
\* in progress is left as it is.
Stop ==
  /\ pc = "ready"
  /\ pc' = "stopped"
  /\ UNCHANGED <<store, session, startTs, nextIndex, discards, pre, event,
                 stats, cuts>>

\* A new process, later: fresh recorder state, the files of the day reopened.
Restart ==
  /\ pc \in {"failed", "stopped"}
  /\ session < MaxSessions
  /\ session' = session + 1
  /\ startTs' \in ThisFrame.ts .. MaxTime
  /\ store' = Open(store.disk, DayOf(startTs'))
  /\ pc' = "ready"
  /\ nextIndex' = 0
  /\ discards' \in BOOLEAN
  /\ pre' = <<>>
  /\ event' = NoEvent
  /\ stats' = NoStats
  /\ UNCHANGED cuts

Consume ==
  \/ InhibitedFrame
  \/ CutEvent
  \/ \E above \in BOOLEAN : ActiveFrame(above) \/ PostFrame(above)
  \/ IdleFrame
  \/ TriggerOn
  \/ Backlog
  \/ Trigger

Next == Consume \/ WriteFails \/ Stop \/ Restart

Spec == Init /\ [][Next]_vars

-----------------------------------------------------------------------------
(***************************************************************************)
(* Properties.                                                             *)
(***************************************************************************)
\* Types of the recorder's state.
TypeOK ==
  /\ StorageOK(store)
  /\ pc \in {"ready", "trigger", "failed", "stopped"}
  /\ session \in Nat
  /\ startTs \in Nat
  /\ nextIndex \in Nat
  /\ discards \in BOOLEAN
  /\ pre \in Seq(Frame)
  /\ event \in Event
  /\ stats \in Stats
  /\ cuts \subseteq Cut

\* The process is running and consume() has not thrown.
Running == pc \in {"ready", "trigger"}

\* An event is open: its first row may still be about to be written.
EventOpen == InEvent \/ pc = "trigger"

RowOf(row, s, id) == row.frame.session = s /\ row.event = id

SameEvent(a, b) == RowOf(a, b.frame.session, b.event)

CurrentRow(row) == RowOf(row, session, event.id)

(***************************************************************************)
(* Every row that was written completely can be turned back into the FFT   *)
(* window of its frame by the documented rule (run prefix for the first    *)
(* row of a run, previous hop for the others): over event gaps, discarded  *)
(* events whose prefixes stay behind, day changes, failed appends and      *)
(* restarts that append to an old file.                                    *)
(***************************************************************************)
FilesReadable ==
  \A d \in DOMAIN store.disk : FileReadable(store.disk[d])

(***************************************************************************)
(* What a discard would remove is exactly the open event: from             *)
(* _eventStartRow on the open file holds the rows of the event, all of     *)
(* them and no others, and there are _eventSavedFrames of them.            *)
(***************************************************************************)
EventRowsKnown ==
  Running =>
    /\ Len(OpenFile(store).rows) = store.rows
    /\ Len(OpenFile(store).prefixes) = store.prefixRows
    /\ EventOpen =>
         /\ store.rows = event.startRow + event.saved
         /\ \A r \in 1 .. store.rows :
              r > event.startRow <=> CurrentRow(OpenFile(store).rows[r])

(***************************************************************************)
(* The rows of an event are together in one daily file, the one of the day *)
(* of its trigger frame, however many rotations fall into the event.       *)
(***************************************************************************)
EventInOneFile ==
  \A d1, d2 \in DOMAIN store.disk :
    \A r1 \in DOMAIN store.disk[d1].rows, r2 \in DOMAIN store.disk[d2].rows :
      LET a == store.disk[d1].rows[r1]
          b == store.disk[d2].rows[r2]
      IN SameEvent(a, b) =>
           /\ d1 = d2
           /\ \A r \in r1 .. r2 : SameEvent(store.disk[d1].rows[r], a)
           /\ (a.state = PreTrigger /\ b.state = Active /\ r2 = r1 + 1)
                => DayOf(b.frame.ts) = d1

(***************************************************************************)
(* The order of an event: pre-trigger rows first, then the trigger, and    *)
(* from the last pre-trigger row on no frame of the stream is missing.     *)
(* Post-trigger rows come only after active ones.                          *)
(***************************************************************************)
EventShape ==
  \A d \in DOMAIN store.disk :
    LET rows == store.disk[d].rows
    IN \A r \in 2 .. Len(rows) :
         IF SameEvent(rows[r - 1], rows[r])
         THEN /\ rows[r].state = PreTrigger => rows[r - 1].state = PreTrigger
              /\ rows[r].state = PostTrigger => rows[r - 1].state # PreTrigger
              /\ rows[r].state # PreTrigger =>
                   FollowsInStream(rows[r - 1].frame, rows[r].frame)
         ELSE rows[r].state # PostTrigger

(***************************************************************************)
(* max_event_seconds bounds every recorded event, merged retriggers and    *)
(* post-trigger context included: no active or post-trigger row is MaxEvent*)
(* or more after the first active row of its event.                        *)
(***************************************************************************)
EventDurationBounded ==
  MaxEvent > 0 =>
    \A d \in DOMAIN store.disk :
      LET rows == store.disk[d].rows
      IN \A a, b \in DOMAIN rows :
           SameEvent(rows[a], rows[b]) /\ rows[a].state = Active
             => rows[b].frame.ts < rows[a].frame.ts + MaxEvent

(***************************************************************************)
(* Between events the open file is the one of the last frame's day: a      *)
(* rotation that an event put off happens when the event ends.             *)
(***************************************************************************)
IdleFileCurrent ==
  pc = "ready" /\ ~InEvent /\ nextIndex > 0
    => store.day = DayOf(startTs + nextIndex)

(***************************************************************************)
(* The counters of the end-of-run summary agree with the files: every row  *)
(* of this process is counted once, and every event that was started is    *)
(* recorded, discarded or still open.                                      *)
(***************************************************************************)
SessionRows ==
  { dr \in UNION { {d} \X DOMAIN store.disk[d].rows :
                     d \in DOMAIN store.disk } :
      store.disk[dr[1]].rows[dr[2]].frame.session = session }

CountersAgree ==
  pc # "failed" =>
    /\ stats.savedFrames = Cardinality(SessionRows)
    /\ event.id = stats.recordedEvents + stats.discardedEvents
                    + (IF EventOpen THEN 1 ELSE 0)

(***************************************************************************)
(* An event is whole: its rows are together in the file of its day, in the *)
(* order of the stream and within max_event_seconds, a rotation that it    *)
(* put off follows it, and the summary of the run counts it and its rows.  *)
(***************************************************************************)
EventsWhole ==
  /\ EventInOneFile
  /\ EventShape
  /\ EventDurationBounded
  /\ IdleFileCurrent
  /\ CountersAgree

(***************************************************************************)
(* After a cutoff nothing is recorded before rearmUntil, and no later      *)
(* event reaches back behind the cutoff with its pre-trigger context.      *)
(***************************************************************************)
QuietAfterCut ==
  \A c \in cuts, d \in DOMAIN store.disk :
    \A r \in DOMAIN store.disk[d].rows :
      LET row == store.disk[d].rows[r]
      IN row.frame.session = c.session /\ row.event > c.id =>
           row.frame.ts > c.ts /\ row.frame.ts >= c.ts + Rearm

(***************************************************************************)
(* A discarded event is absent from the files, its pre-trigger rows        *)
(* included (doc/RECORDING_FORMAT.md, Maximum-event handling).             *)
(***************************************************************************)
DiscardedEventsAbsent ==
  \A c \in cuts, d \in DOMAIN store.disk :
    c.discarded => \A r \in DOMAIN store.disk[d].rows :
                     ~RowOf(store.disk[d].rows[r], c.session, c.id)

(***************************************************************************)
(* No frame near a trigger is lost: each of the PreFrames frames before an *)
(* event's trigger is recorded, in this event or in an earlier one, unless *)
(* a cutoff or its inhibit interval took it.                               *)
(***************************************************************************)
Recorded(s, i) ==
  \E d \in DOMAIN store.disk : \E r \in DOMAIN store.disk[d].rows :
    LET f == store.disk[d].rows[r].frame IN f.session = s /\ f.index = i

LostToCut(f, i) ==
  \E c \in cuts : /\ c.session = f.session
                  /\ f.ts - (f.index - i) <= c.ts
                       \/ f.ts - (f.index - i) < c.ts + Rearm

NoContextLost ==
  \A d \in DOMAIN store.disk :
    \A r \in DOMAIN store.disk[d].rows :
      LET row == store.disk[d].rows[r]
      IN row.state = Active =>
           \A i \in (row.frame.index - PreFrames) .. (row.frame.index - 1) :
             i >= 0 => Recorded(row.frame.session, i) \/ LostToCut(row.frame, i)

(***************************************************************************)
(* No step touches a row that is not of the open event, and the rows of    *)
(* the open event go all together or not at all.                           *)
(***************************************************************************)
RetainedRows(old, new) ==
  /\ \A r \in DOMAIN old : ~CurrentRow(old[r]) =>
                              r \in DOMAIN new /\ new[r] = old[r]
  /\ \/ \A r \in DOMAIN old : r \in DOMAIN new /\ new[r] = old[r]
     \/ \A r \in DOMAIN new : ~CurrentRow(new[r])

RowsRetained ==
  [][\A d \in DOMAIN store.disk :
       /\ d \in DOMAIN store'.disk
       /\ RetainedRows(store.disk[d].rows, store'.disk[d].rows)]_vars

(***************************************************************************)
(* An event that ends by itself ends with its whole post-trigger context:  *)
(* PostFrames rows of it, right after an active row.                       *)
(***************************************************************************)
EndsWithContext(rows) ==
  /\ Len(rows) > PostFrames
  /\ rows[Len(rows) - PostFrames].state = Active
  /\ \A i \in (Len(rows) - PostFrames + 1) .. Len(rows) :
       rows[i].state = PostTrigger

PostContextComplete ==
  [][/\ stats'.recordedEvents > stats.recordedEvents
     /\ stats'.forcedCutoffs = stats.forcedCutoffs
     => EndsWithContext(store'.disk[store.day].rows)]_vars

-----------------------------------------------------------------------------
(***************************************************************************)
(* What the documentation says and the code does not do.                   *)
(***************************************************************************)
\* The pre-trigger context of an event is one stretch of the stream.
PreContextContiguous ==
  \A d \in DOMAIN store.disk :
    LET rows == store.disk[d].rows
    IN \A r \in 2 .. Len(rows) :
         SameEvent(rows[r - 1], rows[r]) /\ rows[r].state = PreTrigger
           => FollowsInStream(rows[r - 1].frame, rows[r].frame)

\* The plotter's rule rebuilds the window of every row of complete rows.
PlotReadsFiles ==
  \A d \in DOMAIN store.disk :
    \A r \in DOMAIN store.disk[d].rows :
      (\A q \in 1 .. r : store.disk[d].rows[q].whole)
        => PlotReadsRow(store.disk[d], r)
=============================================================================
