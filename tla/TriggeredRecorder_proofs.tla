---------------------- MODULE TriggeredRecorder_proofs ----------------------
(***************************************************************************)
(* Proofs about triggered recording, for every choice of the constants:    *)
(* the types, that the files stay readable, that a discard removes exactly *)
(* the open event, that no step touches a row of another event, that       *)
(* nothing is recorded between a cut and its rearm time, that events are   *)
(* whole, in order and counted, and that neither the pre-trigger nor the   *)
(* post-trigger context of an event loses a frame.                         *)
(***************************************************************************)
EXTENDS TriggeredRecorder, DailyHdf5Writer_proofs, SequenceTheorems,
        FiniteSetTheorems

(***************************************************************************)
(* The inductive invariant.  Recording is sound only together: the writer  *)
(* appends at its own counts, so they must be those of the open file, and  *)
(* the rows of an event are recognised by its id, so ids must be new.      *)
(***************************************************************************)
\* The storage state is in order, and while the process runs the previous
\* frame is one of this process.
StorageSound ==
  /\ StorageInv(store)
  /\ Running => PreviousOK(store, session)

\* The ring holds frames of this process, enough for the trigger's backlog.
RingSound ==
  /\ \A i \in 1 .. Len(pre) : pre[i].session = session
  /\ pc = "trigger" => event.backlog <= Len(pre)

\* No row is of a later process or of a later event than the current one.
RowsNamed ==
  \A d \in DOMAIN store.disk :
    \A r \in 1 .. Len(store.disk[d].rows) :
      LET row == store.disk[d].rows[r]
      IN /\ row.frame.session <= session
         /\ row.frame.session = session => row.event <= event.id

\* While an event is open its rows are in the open file only.
EventInOpenFile ==
  Running /\ EventOpen =>
    \A d \in DOMAIN store.disk \ {store.day} :
      \A r \in 1 .. Len(store.disk[d].rows) :
        ~CurrentRow(store.disk[d].rows[r])

\* An event that was cut is over: its id is never that of an open event.
CutsNamed ==
  \A c \in cuts :
    /\ c.session <= session
    /\ c.session = session => c.id <= event.id
    /\ c.session = session /\ Running /\ EventOpen => c.id < event.id

Inv == /\ TypeOK
       /\ StorageSound
       /\ RingSound
       /\ RowsNamed
       /\ EventRowsKnown
       /\ EventInOpenFile
       /\ CutsNamed
       /\ DiscardedEventsAbsent

-----------------------------------------------------------------------------
(***************************************************************************)
(* Types.                                                                  *)
(***************************************************************************)
\* The frame that consume() is given is one of this process.
LEMMA ThisFrameTyped ==
  ASSUME TypeOK
  PROVE  /\ ThisFrame \in Frame
         /\ ThisFrame.ts \in Nat
         /\ ThisFrame.session = session
  BY DEF TypeOK, ThisFrame, Frame

\* One more element at the end of a sequence.
LEMMA Appended ==
  ASSUME NEW S, NEW q \in Seq(S), NEW x \in S
  PROVE  /\ Append(q, x) \in Seq(S)
         /\ Len(Append(q, x)) = Len(q) + 1
         /\ \A i \in 1 .. Len(q) : Append(q, x)[i] = q[i]
         /\ Append(q, x)[Len(q) + 1] = x
  OBVIOUS

\* The ring stays a sequence of frames, and every frame in it was there or is
\* the one that has just been remembered.
LEMMA RememberTyped ==
  ASSUME NEW ring \in Seq(Frame), NEW f \in Frame
  PROVE  /\ Remember(ring, f) \in Seq(Frame)
         /\ \A i \in 1 .. Len(Remember(ring, f)) :
              \/ Remember(ring, f)[i] = f
              \/ \E j \in 1 .. Len(ring) : Remember(ring, f)[i] = ring[j]
<1>1. CASE PreFrames = 0
  BY <1>1 DEF Remember
<1>2. CASE PreFrames # 0 /\ Len(ring) < PreFrames
  <2>1. Remember(ring, f) = Append(ring, f) /\ Len(ring) \in Nat
    BY <1>2 DEF Remember
  <2>2. \A i \in 1 .. Len(ring) + 1 : i \in 1 .. Len(ring) \/ i = Len(ring) + 1
    BY <2>1
  <2> QED
    BY <2>1, <2>2, Appended
<1>3. CASE PreFrames # 0 /\ ~(Len(ring) < PreFrames)
  <2> DEFINE rest == Tail(ring)
  <2>1. Remember(ring, f) = Append(rest, f) /\ Len(ring) \in Nat
    BY <1>3 DEF Remember
  <2>2. Len(ring) > 0
    BY <1>3, <2>1, RecorderAssumption
  <2>3. /\ rest \in Seq(Frame)
        /\ Len(rest) = Len(ring) - 1
        /\ \A i \in 1 .. Len(rest) : rest[i] = ring[i + 1]
    BY <2>2
  <2> HIDE DEF rest
  <2>4. \A i \in 1 .. Len(rest) + 1 : \/ i = Len(rest) + 1
                                      \/ /\ i \in 1 .. Len(rest)
                                         /\ i + 1 \in 1 .. Len(ring)
    BY <2>1, <2>3
  <2> QED
    BY <2>1, <2>3, <2>4, Appended
<1> QED
  BY <1>1, <1>2, <1>3

\* What the updates of an event change, and what they leave alone.
LEMMA EventUpdates ==
  ASSUME NEW e \in Event
  PROVE  /\ EventSaved(e) \in Event
         /\ EventSaved(e).saved = e.saved + 1
         /\ EventSaved(e).id = e.id
         /\ EventSaved(e).startRow = e.startRow
         /\ EventSaved(e).active = e.active
         /\ EventSaved(e).post = e.post
         /\ EventSaved(e).backlog = e.backlog
         /\ Rearmed(e) \in Event
         /\ Rearmed(e).saved = e.saved
         /\ Rearmed(e).id = e.id
         /\ Rearmed(e).startRow = e.startRow
         /\ Rearmed(e).active = e.active
         /\ Rearmed(e).post = e.post
         /\ Rearmed(e).backlog = e.backlog
  BY DEF Event, EventSaved, Rearmed

\* New values of the fields.
LEMMA EventFields ==
  ASSUME NEW e \in Event, NEW n \in Nat
  PROVE  /\ [e EXCEPT !.post = n] \in Event
         /\ [e EXCEPT !.active = TRUE, !.post = n] \in Event
         /\ [e EXCEPT !.active = FALSE, !.post = n] \in Event
         /\ [e EXCEPT !.backlog = n] \in Event
         /\ [e EXCEPT !.backlog = n].backlog = n
  BY DEF Event

\* Ending an event keeps its id and whether it is active.
LEMMA EventEnds ==
  ASSUME NEW e \in Event, NEW n \in Nat
  PROVE  /\ TrackingReset(e, n) \in Event
         /\ TrackingReset(e, n).id = e.id
         /\ TrackingReset(e, n).active = e.active
         /\ TrackingReset(e, n).post = e.post
         /\ TrackingReset(e, n).backlog = e.backlog
         /\ Finalized(e, n) \in Event
         /\ Finalized(e, n).id = e.id
         /\ Finalized(e, n).active = e.active
         /\ Finalized(e, n).post = e.post
         /\ Finalized(e, n).backlog = e.backlog
  BY DEF Event, TrackingReset, Finalized

-----------------------------------------------------------------------------
(***************************************************************************)
(* What a step can do to the rows: keep them all where they are, and add   *)
(* none, or only rows of one event.                                        *)
(***************************************************************************)
Keeps(old, new) ==
  \A d \in DOMAIN old :
    /\ d \in DOMAIN new
    /\ Len(old[d].rows) <= Len(new[d].rows)
    /\ \A r \in 1 .. Len(old[d].rows) : new[d].rows[r] = old[d].rows[r]

OldRow(old, d, r) == d \in DOMAIN old /\ r <= Len(old[d].rows)

AddsNone(old, new) ==
  \A d \in DOMAIN new : \A r \in 1 .. Len(new[d].rows) : OldRow(old, d, r)

AddsOnlyOf(old, new, s, id) ==
  \A d \in DOMAIN new : \A r \in 1 .. Len(new[d].rows) :
    OldRow(old, d, r) \/ RowOf(new[d].rows[r], s, id)

\* Opening files adds no rows and removes none.
LEMMA OpenedRows ==
  ASSUME NEW old, NEW new, DiskOK(old), OpenedOnly(old, new)
  PROVE  Keeps(old, new) /\ AddsNone(old, new)
<1>1. \A d \in DOMAIN old : Len(old[d].rows) \in Nat
  BY DEF DiskOK, File
<1>2. Len(EmptyFile.rows) = 0
  BY DEF EmptyFile
<1> QED
  BY <1>1, <1>2 DEF OpenedOnly, Keeps, AddsNone, OldRow

\* An append, failed or not, keeps all rows and adds at most one.
LEMMA AddedRows ==
  ASSUME NEW s, NEW t, StorageInv(s), StorageInv(t), NEW f, NEW id,
         Adds(s, t, f, id)
  PROVE  Keeps(s.disk, t.disk) /\ AddsOnlyOf(s.disk, t.disk, f.session, id)
<1>1. /\ \A d \in DOMAIN s.disk : Len(s.disk[d].rows) \in Nat
      /\ s.rows \in Nat
      /\ s.rows = Len(s.disk[s.day].rows)
      /\ s.day \in DOMAIN s.disk
  BY DEF StorageInv, StorageOK, CountsOK, DiskOK, File, OpenFile
<1>2. /\ DOMAIN t.disk = DOMAIN s.disk
      /\ \A d \in DOMAIN s.disk \ {s.day} : t.disk[d] = s.disk[d]
      /\ Len(t.disk[s.day].rows) \in s.rows .. s.rows + 1
      /\ \A r \in 1 .. s.rows : t.disk[s.day].rows[r] = s.disk[s.day].rows[r]
      /\ Len(t.disk[s.day].rows) = s.rows + 1 =>
           RowOf(t.disk[s.day].rows[s.rows + 1], f.session, id)
  BY DEF Adds, OpenFile, RowOf
<1>3. Keeps(s.disk, t.disk)
  BY <1>1, <1>2 DEF Keeps
<1>4. ASSUME NEW d \in DOMAIN t.disk, NEW r \in 1 .. Len(t.disk[d].rows),
             ~OldRow(s.disk, d, r)
      PROVE  RowOf(t.disk[d].rows[r], f.session, id)
  <2>1. d = s.day
    BY <1>1, <1>2, <1>4 DEF OldRow
  <2>2. r \in 1 .. Len(t.disk[s.day].rows) /\ ~(r <= s.rows)
    BY <1>1, <1>4, <2>1 DEF OldRow
  <2>3. \A n \in Nat : \A k \in n .. n + 1 : \A q \in 1 .. k :
          ~(q <= n) => q = n + 1 /\ k = n + 1
    OBVIOUS
  <2>4. r = s.rows + 1 /\ Len(t.disk[s.day].rows) = s.rows + 1
    BY <1>1, <1>2, <2>2, <2>3
  <2> QED
    BY <1>2, <2>1, <2>4
<1> QED
  BY <1>3, <1>4 DEF AddsOnlyOf

\* Files opened after an append.
LEMMA AddedThenOpened ==
  ASSUME NEW a, NEW b, NEW c, DiskOK(a), DiskOK(b), NEW s, NEW id,
         Keeps(a, b), AddsOnlyOf(a, b, s, id), OpenedOnly(b, c)
  PROVE  Keeps(a, c) /\ AddsOnlyOf(a, c, s, id)
<1>1. Keeps(b, c) /\ AddsNone(b, c)
  BY OpenedRows
<1>2. /\ \A d \in DOMAIN a : Len(a[d].rows) \in Nat
      /\ \A d \in DOMAIN b : Len(b[d].rows) \in Nat
  BY DEF DiskOK, File
<1>3. Keeps(a, c)
  BY <1>1, <1>2 DEF Keeps, OpenedOnly
<1>4. AddsOnlyOf(a, c, s, id)
  BY <1>1, <1>2 DEF AddsOnlyOf, AddsNone, OldRow, Keeps
<1> QED
  BY <1>3, <1>4

-----------------------------------------------------------------------------
(***************************************************************************)
(* The storage state, action by action.                                    *)
(***************************************************************************)
\* The open event's rows are dropped, and no other row changes.
DropsEvent(old, new) ==
  /\ \A d \in DOMAIN new : \A r \in 1 .. Len(new[d].rows) :
       /\ OldRow(old, d, r)
       /\ new[d].rows[r] = old[d].rows[r]
       /\ ~CurrentRow(new[d].rows[r])
  /\ \A d \in DOMAIN old :
       /\ d \in DOMAIN new
       /\ \A r \in 1 .. Len(old[d].rows) :
            ~CurrentRow(old[d].rows[r]) => r <= Len(new[d].rows)

\* All that a step may do to the rows.
RowsStep(new) ==
  \/ Keeps(store.disk, new) /\ AddsNone(store.disk, new)
  \/ /\ Running /\ EventOpen
     /\ Keeps(store.disk, new)
     /\ AddsOnlyOf(store.disk, new, session, event.id)
  \/ DropsEvent(store.disk, new)

StorageStep == StorageSound' /\ RowsStep(store'.disk)

\* The tick() at the beginning of consume().
LEMMA TickedSound ==
  ASSUME Inv, Running
  PROVE  /\ StorageInv(Ticked)
         /\ PreviousOK(Ticked, session)
         /\ OpenedOnly(store.disk, Ticked.disk)
         /\ Keeps(store.disk, Ticked.disk)
         /\ AddsNone(store.disk, Ticked.disk)
         /\ InEvent => Ticked = store
<1>1. /\ StorageInv(store)
      /\ DiskOK(store.disk)
      /\ PreviousOK(store, session)
      /\ ThisFrame.ts \in Nat
      /\ InEvent \in BOOLEAN
  BY ThisFrameTyped DEF Inv, StorageSound, StorageInv, InEvent, TypeOK, Event
<1>2. StorageInv(Ticked) /\ PreviousOK(Ticked, session)
  BY <1>1, TickStorage DEF Ticked
<1>3. OpenedOnly(store.disk, Ticked.disk) /\ (InEvent => Ticked = store)
  BY <1>1, TickOpens DEF Ticked
<1> QED
  BY <1>1, <1>2, <1>3, OpenedRows

\* An append for the open event, and the tick() after the end of the event.
LEMMA AppendSound ==
  ASSUME NEW s, StorageInv(s), NEW f \in Frame, PreviousOK(s, f.session),
         NEW id \in Nat, NEW state \in {0, 1, 2}, NEW ts \in Nat,
         NEW t \in {AppendRow(s, f, id, state),
                    Tick(AppendRow(s, f, id, state), ts, FALSE)}
  PROVE  /\ StorageInv(t)
         /\ PreviousOK(t, f.session)
         /\ Keeps(s.disk, t.disk)
         /\ AddsOnlyOf(s.disk, t.disk, f.session, id)
<1> DEFINE a == AppendRow(s, f, id, state)
<1>1. StorageInv(a) /\ PreviousOK(a, f.session) /\ Adds(s, a, f, id)
  BY AppendStorage, AppendAdds
<1>2. DiskOK(s.disk) /\ DiskOK(a.disk)
  BY <1>1 DEF StorageInv
<1>3. Keeps(s.disk, a.disk) /\ AddsOnlyOf(s.disk, a.disk, f.session, id)
  BY <1>1, AddedRows
<1> HIDE DEF a
<1>4. /\ StorageInv(Tick(a, ts, FALSE))
      /\ PreviousOK(Tick(a, ts, FALSE), f.session)
      /\ OpenedOnly(a.disk, Tick(a, ts, FALSE).disk)
  BY <1>1, TickStorage, TickOpens
<1>5. /\ Keeps(s.disk, Tick(a, ts, FALSE).disk)
      /\ AddsOnlyOf(s.disk, Tick(a, ts, FALSE).disk, f.session, id)
  BY <1>2, <1>3, <1>4, AddedThenOpened
<1> QED
  BY <1>1, <1>3, <1>4, <1>5 DEF a

\* The truncation of the open event leaves its file with the rows before it.
LEMMA TruncateSound ==
  ASSUME Inv, Running, InEvent
  PROVE  LET t == TruncateRows(store, event.startRow)
         IN /\ StorageInv(t)
            /\ PreviousOK(t, session)
            /\ t.rows = event.startRow
            /\ DropsEvent(store.disk, t.disk)
<1> DEFINE n == event.startRow
           t == TruncateRows(store, n)
<1>1. /\ StorageInv(store)
      /\ DiskOK(store.disk)
      /\ PreviousOK(store, session)
      /\ store.day \in DOMAIN store.disk
      /\ store.rows \in Nat
      /\ store.rows = Len(store.disk[store.day].rows)
      /\ \A d \in DOMAIN store.disk : Len(store.disk[d].rows) \in Nat
  BY DEF Inv, StorageSound, StorageInv, StorageOK, CountsOK, DiskOK, OpenFile,
         File
<1>2. n \in Nat /\ event.saved \in Nat
  BY DEF Inv, TypeOK, Event
<1>3. /\ store.rows = n + event.saved
      /\ \A r \in 1 .. store.rows :
           r > n <=> CurrentRow(store.disk[store.day].rows[r])
      /\ \A d \in DOMAIN store.disk \ {store.day} :
           \A r \in 1 .. Len(store.disk[d].rows) :
             ~CurrentRow(store.disk[d].rows[r])
  BY DEF Inv, EventRowsKnown, EventInOpenFile, EventOpen, OpenFile
<1>4. n \in 0 .. store.rows
  BY <1>2, <1>3
<1>5. /\ StorageInv(t)
      /\ PreviousOK(t, session)
      /\ t.rows = n
      /\ \A r \in 1 .. n : OpenFile(t).rows[r] = OpenFile(store).rows[r]
      /\ DOMAIN t.disk = DOMAIN store.disk
      /\ t.day = store.day
      /\ \A d \in DOMAIN store.disk \ {store.day} : t.disk[d] = store.disk[d]
  BY <1>1, <1>4, TruncateStorage, TruncateDrops
<1> HIDE DEF n, t
<1>6. Len(t.disk[store.day].rows) = n
  BY <1>5 DEF StorageInv, CountsOK, OpenFile
<1>7. \A d \in DOMAIN t.disk : \A r \in 1 .. Len(t.disk[d].rows) :
        /\ OldRow(store.disk, d, r)
        /\ t.disk[d].rows[r] = store.disk[d].rows[r]
        /\ ~CurrentRow(t.disk[d].rows[r])
  <2> SUFFICES ASSUME NEW d \in DOMAIN t.disk,
                      NEW r \in 1 .. Len(t.disk[d].rows)
               PROVE  /\ OldRow(store.disk, d, r)
                      /\ t.disk[d].rows[r] = store.disk[d].rows[r]
                      /\ ~CurrentRow(t.disk[d].rows[r])
    OBVIOUS
  <2>1. CASE d = store.day
    <3>1. r \in 1 .. n
      BY <1>6, <2>1
    <3>2. r \in 1 .. store.rows /\ ~(r > n)
      BY <1>1, <1>2, <1>4, <3>1
    <3>3. t.disk[d].rows[r] = store.disk[d].rows[r]
      BY <1>5, <2>1, <3>1 DEF OpenFile
    <3>4. ~CurrentRow(store.disk[d].rows[r])
      BY <1>3, <2>1, <3>2
    <3>5. d \in DOMAIN store.disk /\ r <= Len(store.disk[d].rows)
      BY <1>1, <2>1, <3>2
    <3> QED
      BY <3>3, <3>4, <3>5 DEF OldRow
  <2>2. CASE d # store.day
    BY <1>1, <1>3, <1>5, <2>2 DEF OldRow
  <2> QED
    BY <2>1, <2>2
<1>8. \A d \in DOMAIN store.disk :
        /\ d \in DOMAIN t.disk
        /\ \A r \in 1 .. Len(store.disk[d].rows) :
             ~CurrentRow(store.disk[d].rows[r]) => r <= Len(t.disk[d].rows)
  <2> SUFFICES ASSUME NEW d \in DOMAIN store.disk,
                      NEW r \in 1 .. Len(store.disk[d].rows),
                      ~CurrentRow(store.disk[d].rows[r])
               PROVE  r <= Len(t.disk[d].rows)
    BY <1>5
  <2>1. CASE d = store.day
    <3>1. r \in 1 .. store.rows
      BY <1>1, <2>1
    <3>2. ~(r > n)
      BY <1>3, <2>1, <3>1
    <3>3. r <= n
      BY <1>2, <3>1, <3>2
    <3> QED
      BY <1>6, <2>1, <3>3
  <2>2. CASE d # store.day
    BY <1>1, <1>5, <2>2
  <2> QED
    BY <2>1, <2>2
<1> QED
  BY <1>5, <1>7, <1>8 DEF DropsEvent, n, t

\* The backlog's next frame is in the ring.
LEMMA BacklogFrameTyped ==
  ASSUME Inv, pc = "trigger", event.backlog > 0
  PROVE  BacklogFrame \in Frame /\ BacklogFrame.session = session
<1> DEFINE i == Len(pre) - event.backlog + 1
<1>1. /\ pre \in Seq(Frame)
      /\ event.backlog \in Nat
      /\ event.backlog <= Len(pre)
      /\ \A j \in 1 .. Len(pre) : pre[j].session = session
  BY DEF Inv, RingSound, TypeOK, Event
<1>2. i \in 1 .. Len(pre)
  BY <1>1
<1> HIDE DEF i
<1>3. pre[i] \in Frame /\ pre[i].session = session
  BY <1>1, <1>2
<1> QED
  BY <1>3 DEF BacklogFrame, i

\* The steps that write no row: the frame is not recorded.
LEMMA QuietStorage ==
  ASSUME Inv, Running, store' = Ticked, session' = session
  PROVE  StorageStep
  BY TickedSound DEF StorageStep, StorageSound, RowsStep

\* The steps that append a row for the open event.
LEMMA RecordStorage ==
  ASSUME Inv, Running, EventOpen, session' = session,
         NEW f \in Frame, f.session = session, NEW state \in {0, 1, 2},
         store' \in {AppendRow(store, f, event.id, state),
                     Tick(AppendRow(store, f, event.id, state), ThisFrame.ts,
                          FALSE)}
  PROVE  StorageStep
<1>1. /\ StorageInv(store)
      /\ PreviousOK(store, f.session)
      /\ event.id \in Nat
      /\ ThisFrame.ts \in Nat
  BY ThisFrameTyped DEF Inv, StorageSound, TypeOK, Event
<1>2. /\ StorageInv(store')
      /\ PreviousOK(store', f.session)
      /\ Keeps(store.disk, store'.disk)
      /\ AddsOnlyOf(store.disk, store'.disk, f.session, event.id)
  BY <1>1, AppendSound
<1> QED
  BY <1>2 DEF StorageStep, StorageSound, RowsStep

\* A cut event is kept as it is, or truncated.
LEMMA CutStorage ==
  ASSUME Inv, CutEvent
  PROVE  StorageStep /\ (discards => DropsEvent(store.disk, store'.disk))
<1>1. /\ Running
      /\ InEvent
      /\ session' = session
      /\ store' = Tick(IF discards THEN TruncateRows(Ticked, event.startRow)
                                   ELSE Ticked, ThisFrame.ts, FALSE)
  BY DEF CutEvent, FrameArrives, TooLong, FrameDone, Running
<1>2. Ticked = store /\ StorageInv(store) /\ PreviousOK(store, session)
  BY <1>1, TickedSound DEF Inv, StorageSound
<1>3. ThisFrame.ts \in Nat
  BY ThisFrameTyped DEF Inv
<1>4. CASE ~discards
  <2>1. store' = Tick(store, ThisFrame.ts, FALSE)
    BY <1>1, <1>2, <1>4
  <2>2. /\ StorageInv(store')
        /\ PreviousOK(store', session)
        /\ OpenedOnly(store.disk, store'.disk)
    BY <1>2, <1>3, <2>1, TickStorage, TickOpens
  <2>3. Keeps(store.disk, store'.disk) /\ AddsNone(store.disk, store'.disk)
    BY <1>2, <2>2, OpenedRows DEF StorageInv
  <2> QED
    BY <1>1, <1>4, <2>2, <2>3 DEF StorageStep, StorageSound, RowsStep
<1>5. CASE discards
  <2> DEFINE t == TruncateRows(store, event.startRow)
  <2>1. StorageInv(t) /\ PreviousOK(t, session) /\ DropsEvent(store.disk, t.disk)
    BY <1>1, TruncateSound
  <2>2. store' = Tick(t, ThisFrame.ts, FALSE)
    BY <1>1, <1>2, <1>5
  <2> HIDE DEF t
  <2>3. /\ StorageInv(store')
        /\ PreviousOK(store', session)
        /\ OpenedOnly(t.disk, store'.disk)
    BY <1>3, <2>1, <2>2, TickStorage, TickOpens
  <2>4. Keeps(t.disk, store'.disk) /\ AddsNone(t.disk, store'.disk)
    BY <2>1, <2>3, OpenedRows DEF StorageInv
  <2>5. /\ \A d \in DOMAIN t.disk : Len(t.disk[d].rows) \in Nat
        /\ \A d \in DOMAIN store'.disk : Len(store'.disk[d].rows) \in Nat
        /\ \A d \in DOMAIN store.disk : Len(store.disk[d].rows) \in Nat
    BY <1>2, <2>1, <2>3 DEF StorageInv, DiskOK, File
  <2>6. DropsEvent(store.disk, store'.disk)
    BY <2>1, <2>4, <2>5 DEF DropsEvent, Keeps, AddsNone, OldRow
  <2> QED
    BY <1>1, <2>3, <2>6 DEF StorageStep, StorageSound, RowsStep
<1> QED
  BY <1>4, <1>5

\* A write that throws leaves the files in order all the same.
LEMMA FailStorage ==
  ASSUME Inv, WriteFails
  PROVE  StorageStep
<1>1. /\ pc' = "failed"
      /\ session' = session
      /\ Running
      /\ event.id \in Nat
      /\ StorageInv(store)
      /\ PreviousOK(store, session)
      /\ ThisFrame \in Frame
      /\ ThisFrame.session = session
  BY ThisFrameTyped DEF WriteFails, Inv, TypeOK, Event, StorageSound, Running,
     Detects, FrameArrives
<1>2. ASSUME EventOpen, NEW f \in Frame, f.session = session,
             NEW state \in {0, 1, 2},
             store' \in FailedAppends(store, f, event.id, state)
      PROVE  StorageStep
  <2>1. StorageInv(store') /\ Adds(store, store', f, event.id)
    BY <1>1, <1>2, FailedAppendStorage, FailedAppendAdds
  <2>2. /\ Keeps(store.disk, store'.disk)
        /\ AddsOnlyOf(store.disk, store'.disk, session, event.id)
    BY <1>1, <1>2, <2>1, AddedRows
  <2> QED
    BY <1>1, <1>2, <2>1, <2>2 DEF StorageStep, StorageSound, RowsStep, Running
<1>3. CASE /\ Detects
           /\ InEvent
           /\ store' \in FailedAppends(Ticked, ThisFrame, event.id,
                           IF event.active THEN Active ELSE PostTrigger)
  <2>1. Ticked = store /\ EventOpen
    BY <1>1, <1>3, TickedSound DEF EventOpen
  <2>2. (IF event.active THEN Active ELSE PostTrigger) \in {0, 1, 2}
    BY DEF Active, PostTrigger
  <2> QED
    BY <1>1, <1>2, <1>3, <2>1, <2>2
<1>4. CASE /\ FrameArrives /\ ~Inhibited /\ TooLong /\ discards
           /\ store' \in {Ticked, TruncateRows(Ticked, event.startRow)}
  <2>1. InEvent
    BY <1>4 DEF TooLong
  <2>2. Ticked = store
    BY <1>1, <2>1, TickedSound
  <2>3. CASE store' = Ticked
    BY <1>1, <2>3, QuietStorage
  <2>4. CASE store' = TruncateRows(Ticked, event.startRow)
    <3>1. StorageInv(store') /\ DropsEvent(store.disk, store'.disk)
      BY <1>1, <2>1, <2>2, <2>4, TruncateSound
    <3> QED
      BY <1>1, <3>1 DEF StorageStep, StorageSound, RowsStep, Running
  <2> QED
    BY <1>4, <2>3, <2>4
<1>5. CASE /\ pc = "trigger"
           /\ store' \in IF event.backlog > 0
                         THEN FailedAppends(store, BacklogFrame, event.id,
                                            PreTrigger)
                         ELSE FailedAppends(store, ThisFrame, event.id, Active)
  <2>1. EventOpen
    BY <1>5 DEF EventOpen
  <2>2. PreTrigger \in {0, 1, 2} /\ Active \in {0, 1, 2}
    BY DEF PreTrigger, Active
  <2>3. CASE event.backlog > 0
    BY <1>2, <1>5, <2>1, <2>2, <2>3, BacklogFrameTyped
  <2>4. CASE ~(event.backlog > 0)
    BY <1>1, <1>2, <1>5, <2>1, <2>2, <2>4
  <2> QED
    BY <2>3, <2>4
<1> QED
  BY <1>3, <1>4, <1>5 DEF WriteFails

\* A new process opens the file of its day and has no previous frame.
LEMMA RestartStorage ==
  ASSUME Inv, Restart
  PROVE  /\ StorageStep
         /\ Keeps(store.disk, store'.disk) /\ AddsNone(store.disk, store'.disk)
         /\ CountsOK(store')
<1>1. startTs' \in Nat /\ store' = Open(store.disk, DayOf(startTs'))
  <2>1. startTs' \in ThisFrame.ts .. MaxTime
    BY DEF Restart
  <2> QED
    BY <2>1, ThisFrameTyped, RecorderAssumption DEF Inv, Restart
<1>2. DiskOK(store.disk)
  BY DEF Inv, StorageSound, StorageInv
<1>3. /\ StorageInv(store')
      /\ store'.prev = NoPrevious
      /\ OpenedOnly(store.disk, store'.disk)
  BY <1>1, <1>2, DayOfInt, OpenStorage, OpenOpens
<1>4. Keeps(store.disk, store'.disk) /\ AddsNone(store.disk, store'.disk)
  BY <1>2, <1>3, OpenedRows
<1> QED
  BY <1>3, <1>4 DEF StorageStep, StorageSound, RowsStep, PreviousOK, StorageInv

\* Every step leaves the storage state in order, and touches no row that is not
\* of the open event.
LEMMA EveryStorageStep ==
  ASSUME Inv, Next
  PROVE  StorageStep
<1>1. /\ ThisFrame \in Frame
      /\ ThisFrame.session = session
      /\ {PreTrigger, Active, PostTrigger} \subseteq {0, 1, 2}
  BY ThisFrameTyped DEF Inv, PreTrigger, Active, PostTrigger
<1>2. ASSUME InhibitedFrame \/ IdleFrame \/ TriggerOn
      PROVE  StorageStep
  <2>1. store' = Ticked /\ session' = session /\ Running
    BY <1>2 DEF InhibitedFrame, IdleFrame, TriggerOn, FrameDone, Detects,
       FrameArrives, Running
  <2> QED
    BY <2>1, QuietStorage
<1>3. ASSUME NEW above \in BOOLEAN, ActiveFrame(above) \/ PostFrame(above)
      PROVE  StorageStep
  <2>1. Running /\ InEvent /\ EventOpen /\ session' = session
    BY <1>3 DEF ActiveFrame, PostFrame, FrameDone, Detects, FrameArrives,
       Running, InEvent, EventOpen
  <2>2. Ticked = store
    BY <2>1, TickedSound
  <2>3. CASE ActiveFrame(above)
    <3>1. store' \in {AppendRow(store, ThisFrame, event.id, Active),
                      Tick(AppendRow(store, ThisFrame, event.id, Active),
                           ThisFrame.ts, FALSE)}
      BY <2>2, <2>3 DEF ActiveFrame
    <3> QED
      BY <1>1, <2>1, <3>1, RecordStorage
  <2>4. CASE PostFrame(above)
    <3>1. store' \in {AppendRow(store, ThisFrame, event.id, PostTrigger),
                      Tick(AppendRow(store, ThisFrame, event.id, PostTrigger),
                           ThisFrame.ts, FALSE)}
      BY <2>2, <2>4 DEF PostFrame
    <3> QED
      BY <1>1, <2>1, <3>1, RecordStorage
  <2> QED
    BY <1>3, <2>3, <2>4
<1>4. CASE Backlog
  <2>1. Running /\ EventOpen /\ session' = session
    BY <1>4 DEF Backlog, Running, EventOpen
  <2>2. BacklogFrame \in Frame /\ BacklogFrame.session = session
    BY <1>4, BacklogFrameTyped DEF Backlog
  <2>3. store' = AppendRow(store, BacklogFrame, event.id, PreTrigger)
    BY <1>4 DEF Backlog
  <2> QED
    BY <1>1, <2>1, <2>2, <2>3, RecordStorage
<1>5. CASE Trigger
  <2>1. Running /\ EventOpen /\ session' = session
    BY <1>5 DEF Trigger, FrameDone, Running, EventOpen
  <2>2. store' = AppendRow(store, ThisFrame, event.id, Active)
    BY <1>5 DEF Trigger
  <2> QED
    BY <1>1, <2>1, <2>2, RecordStorage
<1>6. CASE Stop
  <2>1. store' = store /\ session' = session /\ pc' = "stopped" /\ Running
    BY <1>6 DEF Stop, Running
  <2>2. Keeps(store.disk, store.disk) /\ AddsNone(store.disk, store.disk)
    <3>1. \A d \in DOMAIN store.disk : Len(store.disk[d].rows) \in Nat
      BY DEF Inv, StorageSound, StorageInv, DiskOK, File
    <3> QED
      BY <3>1 DEF Keeps, AddsNone, OldRow
  <2> QED
    BY <2>1, <2>2 DEF Inv, StorageStep, StorageSound, RowsStep
<1> QED
  BY <1>2, <1>3, <1>4, <1>5, <1>6, CutStorage, FailStorage, RestartStorage
     DEF Next, Consume

-----------------------------------------------------------------------------
(***************************************************************************)
(* Types and the ring.                                                     *)
(***************************************************************************)
\* consume() at rearm keeps the ring or empties it.
LEMMA RearmedRing ==
  ASSUME Inv
  PROVE  /\ PreOnRearm \in Seq(Frame)
         /\ \A i \in 1 .. Len(PreOnRearm) : PreOnRearm[i].session = session
  BY DEF Inv, TypeOK, RingSound, PreOnRearm

\* Remembering this frame keeps the ring one of frames of this process.
LEMMA RememberedRing ==
  ASSUME Inv
  PROVE  LET ring == Remember(PreOnRearm, ThisFrame)
         IN /\ ring \in Seq(Frame)
            /\ \A i \in 1 .. Len(ring) : ring[i].session = session
<1> DEFINE ring == Remember(PreOnRearm, ThisFrame)
<1>1. /\ PreOnRearm \in Seq(Frame)
      /\ \A i \in 1 .. Len(PreOnRearm) : PreOnRearm[i].session = session
      /\ ThisFrame \in Frame
      /\ ThisFrame.session = session
  BY RearmedRing, ThisFrameTyped DEF Inv
<1>2. /\ ring \in Seq(Frame)
      /\ \A i \in 1 .. Len(ring) :
           \/ ring[i] = ThisFrame
           \/ \E j \in 1 .. Len(PreOnRearm) : ring[i] = PreOnRearm[j]
  BY <1>1, RememberTyped
<1> HIDE DEF ring
<1>3. \A i \in 1 .. Len(ring) : ring[i].session = session
  BY <1>1, <1>2
<1> QED
  BY <1>2, <1>3 DEF ring

\* The counters stay counters.
LEMMA StatsUpdates ==
  ASSUME NEW st \in Stats, NEW a \in Nat, NEW b \in Nat
  PROVE  /\ [st EXCEPT !.triggerOns = @ + a] \in Stats
         /\ [st EXCEPT !.triggerOns = @ + a, !.recordedEvents = @ + b] \in Stats
         /\ [st EXCEPT !.triggerOffs = @ + a, !.recordedEvents = @ + b] \in Stats
         /\ [st EXCEPT !.forcedCutoffs = @ + a, !.recordedEvents = @ + b]
              \in Stats
         /\ [st EXCEPT !.discardedEvents = @ + a, !.savedFrames = b] \in Stats
         /\ [st EXCEPT !.savedFrames = @ + a] \in Stats
<1>1. /\ {st.triggerOns + a, st.triggerOffs + a, st.forcedCutoffs + a,
          st.discardedEvents + a, st.savedFrames + a} \subseteq Nat
      /\ st.recordedEvents + b \in Nat
  BY DEF Stats
<1>2. \A x, y \in Nat :
        /\ [st EXCEPT !.triggerOns = x] \in Stats
        /\ [st EXCEPT !.triggerOns = x, !.recordedEvents = y] \in Stats
        /\ [st EXCEPT !.triggerOffs = x, !.recordedEvents = y] \in Stats
        /\ [st EXCEPT !.forcedCutoffs = x, !.recordedEvents = y] \in Stats
        /\ [st EXCEPT !.discardedEvents = x, !.savedFrames = y] \in Stats
        /\ [st EXCEPT !.savedFrames = x] \in Stats
  BY DEF Stats
<1> QED
  BY <1>1, <1>2

\* The parts of the invariant that say which values the variables take, apart
\* from the storage state.
RecorderTyped ==
  /\ pc \in {"ready", "trigger", "failed", "stopped"}
  /\ session \in Nat /\ startTs \in Nat /\ nextIndex \in Nat
  /\ discards \in BOOLEAN
  /\ pre \in Seq(Frame)
  /\ event \in Event
  /\ stats \in Stats
  /\ cuts \subseteq Cut
  /\ RingSound

\* Every step keeps the types of the recorder's own state.
LEMMA RecorderStep ==
  ASSUME Inv, Next
  PROVE  RecorderTyped'
<1>1. /\ RecorderTyped
      /\ StorageOK(store)
      /\ ThisFrame.ts \in Nat
  BY ThisFrameTyped DEF Inv, TypeOK, RecorderTyped
<1>2. /\ event.saved \in Nat
      /\ stats.savedFrames \in Nat
      /\ event.id \in Nat
      /\ event.post \in Nat
      /\ event.backlog \in Nat
      /\ event.startRow \in Nat
      /\ FinalizedCount \in Nat
      /\ EventSaved(Rearmed(event)) \in Event
  BY <1>1, EventUpdates DEF RecorderTyped, Event, Stats, FinalizedCount
<1>3. StatsSaved \in Stats
  BY <1>1, StatsUpdates DEF RecorderTyped, StatsSaved
<1>4. ASSUME FrameDone
      PROVE  /\ pc' = "ready"
             /\ session' = session
             /\ {session', startTs', nextIndex'} \subseteq Nat
             /\ discards' \in BOOLEAN
  BY <1>1, <1>4 DEF FrameDone, RecorderTyped
<1>5. <<>> \in Seq(Frame) /\ Len(<<>>) = 0
  OBVIOUS
<1>6. CASE InhibitedFrame
  BY <1>1, <1>4, <1>5, <1>6 DEF InhibitedFrame, RecorderTyped, RingSound
<1>7. CASE CutEvent
  <2>1. /\ StorageInv(Ticked)
        /\ Ticked = store
        /\ store.rows \in Nat
    <3>1. Running /\ InEvent
      BY <1>7 DEF CutEvent, FrameArrives, TooLong, Running
    <3> QED
      BY <1>1, <3>1, TickedSound DEF StorageOK
  <2>2. TruncateRows(store, event.startRow).rows \in Nat
    <3>1. Running /\ InEvent
      BY <1>7 DEF CutEvent, FrameArrives, TooLong, Running
    <3> QED
      BY <1>2, <3>1, TruncateSound
  <2>3. event' \in Event
    <3> DEFINE e == [event EXCEPT !.active = FALSE, !.post = 0]
               n == (IF discards THEN TruncateRows(Ticked, event.startRow)
                                 ELSE Ticked).rows
    <3>1. e \in Event
      BY <1>1 DEF RecorderTyped, Event
    <3>2. n \in Nat
      BY <2>1, <2>2
    <3>3. event' = [TrackingReset(e, n) EXCEPT !.rearmUntil = RearmTime]
      BY <1>7 DEF CutEvent
    <3>4. RearmTime \in Nat
      BY <1>1, RecorderAssumption DEF RearmTime
    <3> HIDE DEF e, n
    <3>5. TrackingReset(e, n) \in Event
      BY <3>1, <3>2, EventEnds
    <3> QED
      BY <3>3, <3>4, <3>5 DEF Event
  <2>4. stats' \in Stats
    <3>1. SavedAfterDiscard(stats.savedFrames) \in Nat
      BY <1>2 DEF SavedAfterDiscard
    <3>2. stats \in Stats
      BY <1>1 DEF RecorderTyped
    <3>3. CASE discards
      BY <1>7, <3>1, <3>2, <3>3, StatsUpdates DEF CutEvent
    <3>4. CASE ~discards
      BY <1>2, <1>7, <3>2, <3>4, StatsUpdates DEF CutEvent
    <3> QED
      BY <3>3, <3>4
  <2>5. cuts' \subseteq Cut
    BY <1>1, <1>2, <1>7 DEF CutEvent, RecorderTyped, Cut
  <2> QED
    BY <1>4, <1>5, <1>7, <2>3, <2>4, <2>5 DEF CutEvent, RecorderTyped, RingSound
<1>8. ASSUME NEW above \in BOOLEAN, ActiveFrame(above)
      PROVE  RecorderTyped'
  <2>1. event' \in Event
    <3> DEFINE e == EventSaved(Rearmed(event))
               off == [e EXCEPT !.active = FALSE, !.post = PostFrames]
    <3>1. e \in Event /\ off \in Event
      BY <1>2, RecorderAssumption DEF Event
    <3>2. AppendRow(Ticked, ThisFrame, event.id, Active).rows \in Nat
      <4>1. Running /\ InEvent
        BY <1>8 DEF ActiveFrame, Detects, FrameArrives, Running, InEvent
      <4>2. Ticked = store
        BY <4>1, TickedSound
      <4> QED
        BY <1>1, <4>2 DEF AppendRow, WithRow, StorageOK
    <3>3. event' \in {e, off, Finalized(off,
                         AppendRow(Ticked, ThisFrame, event.id, Active).rows)}
      BY <1>8 DEF ActiveFrame
    <3> QED
      BY <3>1, <3>2, <3>3, EventEnds
  <2>2. stats' \in Stats
    BY <1>2, <1>3, <1>8, StatsUpdates DEF ActiveFrame
  <2> QED
    BY <1>1, <1>4, <1>8, <2>1, <2>2, RearmedRing
       DEF ActiveFrame, RecorderTyped, RingSound
<1>9. ASSUME NEW above \in BOOLEAN, PostFrame(above)
      PROVE  RecorderTyped'
  <2>1. event' \in Event
    <3> DEFINE e == EventSaved(Rearmed(event))
               over == [e EXCEPT !.post = 0]
               next == [e EXCEPT !.post = @ - 1]
               again == [e EXCEPT !.active = TRUE, !.post = 0]
    <3>1. e \in Event /\ e.post > 0
      BY <1>1, <1>2, <1>9, EventUpdates DEF PostFrame, RecorderTyped
    <3>2. over \in Event /\ next \in Event /\ again \in Event
      <4>1. e.post - 1 \in Nat
        BY <3>1 DEF Event
      <4> QED
        BY <3>1, <4>1, EventFields
    <3>3. AppendRow(Ticked, ThisFrame, event.id, PostTrigger).rows \in Nat
      <4>1. Running /\ InEvent
        BY <1>9 DEF PostFrame, Detects, FrameArrives, Running, InEvent
      <4>2. Ticked = store
        BY <4>1, TickedSound
      <4> QED
        BY <1>1, <4>2 DEF AppendRow, WithRow, StorageOK
    <3>4. event' \in {again, next, Finalized(over,
                        AppendRow(Ticked, ThisFrame, event.id, PostTrigger).rows)}
      BY <1>9 DEF PostFrame
    <3> QED
      BY <3>2, <3>3, <3>4, EventEnds
  <2>2. stats' \in Stats
    BY <1>2, <1>3, <1>9, StatsUpdates DEF PostFrame
  <2> QED
    BY <1>1, <1>4, <1>9, <2>1, <2>2, RememberedRing
       DEF PostFrame, RecorderTyped, RingSound
<1>10. CASE IdleFrame
  <2>1. event' \in Event
    BY <1>1, <1>10, EventUpdates DEF IdleFrame, RecorderTyped
  <2> QED
    BY <1>1, <1>4, <1>10, <2>1, RememberedRing
       DEF IdleFrame, RecorderTyped, RingSound
<1>11. CASE TriggerOn
  <2>1. Ticked.rows \in Nat /\ Len(PreOnRearm) \in Nat
    <3>1. Running
      BY <1>11 DEF TriggerOn, Detects, FrameArrives, Running
    <3> QED
      BY <3>1, TickedSound, RearmedRing DEF StorageInv, StorageOK
  <2>2. Rearmed(event) \in Event
    BY <1>1, EventUpdates DEF RecorderTyped
  <2>3. /\ event' \in Event
        /\ event'.backlog = Len(PreOnRearm)
    <3> DEFINE e == Rearmed(event)
               i == e.id + 1
               m == Ticked.rows
               n == Len(PreOnRearm)
    <3>1. i \in Nat
      BY <2>2 DEF Event
    <3>2. event' = [e EXCEPT !.id = i, !.startRow = m, !.saved = 0,
                             !.backlog = n]
      BY <1>11 DEF TriggerOn, StartRow
    <3>3. e \in Event /\ m \in Nat /\ n \in Nat
      BY <2>1, <2>2
    <3> HIDE DEF e, i, m, n
    <3>4. event' \in Event /\ event'.backlog = n
      BY <3>1, <3>2, <3>3 DEF Event
    <3> QED
      BY <3>4 DEF n
  <2>4. stats' \in Stats
    BY <1>1, <1>11, StatsUpdates DEF TriggerOn, RecorderTyped
  <2> QED
    BY <1>1, <1>11, <2>1, <2>3, <2>4, RearmedRing
       DEF TriggerOn, RecorderTyped, RingSound
<1>12. CASE Backlog
  <2>1. [event EXCEPT !.backlog = @ - 1] \in Event
    <3>1. event.backlog - 1 \in Nat
      BY <1>2, <1>12 DEF Backlog
    <3> QED
      BY <1>1, <3>1, EventFields DEF RecorderTyped
  <2>2. [event EXCEPT !.backlog = @ - 1].backlog = event.backlog - 1
    BY <1>1 DEF RecorderTyped, Event
  <2>3. event' \in Event /\ event'.backlog = event.backlog - 1
    BY <1>12, <2>1, <2>2, EventUpdates DEF Backlog
  <2>4. /\ event.backlog <= Len(pre)
        /\ Len(pre) \in Nat
        /\ pre' = pre /\ pc' = pc /\ session' = session
    BY <1>1, <1>12 DEF Backlog, RecorderTyped, RingSound
  <2>5. RingSound'
    BY <1>1, <1>2, <2>3, <2>4 DEF RecorderTyped, RingSound
  <2> QED
    BY <1>1, <1>3, <1>12, <2>3, <2>5 DEF Backlog, RecorderTyped
<1>13. CASE Trigger
  <2>1. [event EXCEPT !.active = TRUE, !.startTs = ThisFrame.ts] \in Event
    BY <1>1 DEF RecorderTyped, Event
  <2>2. event' \in Event
    BY <1>13, <2>1, EventUpdates DEF Trigger
  <2> QED
    BY <1>1, <1>3, <1>4, <1>5, <1>13, <2>2
       DEF Trigger, RecorderTyped, RingSound
<1>14. CASE WriteFails
  BY <1>1, <1>14 DEF WriteFails, RecorderTyped, RingSound
<1>15. CASE Stop
  BY <1>1, <1>15 DEF Stop, RecorderTyped, RingSound
<1>16. CASE Restart
  <2>1. startTs' \in Nat
    BY <1>1, <1>16, RecorderAssumption DEF Restart
  <2>2. NoEvent \in Event /\ NoStats \in Stats
    BY DEF NoEvent, Event, NoStats, Stats
  <2> QED
    BY <1>1, <1>5, <1>16, <2>1, <2>2 DEF Restart, RecorderTyped, RingSound
<1> QED
  BY <1>6, <1>7, <1>8, <1>9, <1>10, <1>11, <1>12, <1>13, <1>14, <1>15, <1>16
     DEF Next, Consume

-----------------------------------------------------------------------------
(***************************************************************************)
(* Whose rows are where.                                                   *)
(***************************************************************************)
\* An open event's rows are the last event.saved rows of the open file.
EventAtEnd ==
  /\ store.rows = event.startRow + event.saved
  /\ \A r \in 1 .. store.rows :
       r > event.startRow <=> CurrentRow(OpenFile(store).rows[r])
  /\ \A d \in DOMAIN store.disk \ {store.day} :
       \A r \in 1 .. Len(store.disk[d].rows) :
         ~CurrentRow(store.disk[d].rows[r])

\* A row recorded for the open event puts the event at the end again.
LEMMA RecordedAtEnd ==
  ASSUME Inv, Running, EventOpen, session' = session,
         NEW f \in Frame, f.session = session, NEW state \in {0, 1, 2},
         store' = AppendRow(store, f, event.id, state),
         event'.id = event.id, event'.startRow = event.startRow,
         event'.saved = event.saved + 1
  PROVE  EventAtEnd'
<1>1. /\ StorageInv(store)
      /\ PreviousOK(store, f.session)
      /\ event.id \in Nat
      /\ event.startRow \in Nat
      /\ event.saved \in Nat
      /\ store.rows \in Nat
      /\ store.rows = event.startRow + event.saved
      /\ \A r \in 1 .. store.rows :
           r > event.startRow <=> CurrentRow(OpenFile(store).rows[r])
      /\ \A d \in DOMAIN store.disk \ {store.day} :
           \A r \in 1 .. Len(store.disk[d].rows) :
             ~CurrentRow(store.disk[d].rows[r])
  BY DEF Inv, StorageSound, StorageInv, StorageOK, TypeOK, Event,
     EventRowsKnown, EventInOpenFile
<1>2. /\ Adds(store, store', f, event.id)
      /\ store'.rows = store.rows + 1
      /\ StorageInv(store')
  BY <1>1, AppendAdds, AppendStorage
<1>3. Len(OpenFile(store').rows) = store.rows + 1
  BY <1>2 DEF StorageInv, CountsOK
<1>4. store'.rows = event'.startRow + event'.saved
  BY <1>1, <1>2
<1>5. ASSUME NEW r \in 1 .. store'.rows
      PROVE  r > event.startRow
               <=> RowOf(OpenFile(store').rows[r], session', event'.id)
  <2>1. CASE r = store.rows + 1
    <3>1. RowOf(OpenFile(store').rows[r], session, event.id)
      BY <1>2, <1>3, <2>1 DEF Adds, RowOf
    <3>2. r > event.startRow
      BY <1>1, <2>1
    <3> QED
      BY <3>1, <3>2 DEF CurrentRow, RowOf
  <2>2. CASE r # store.rows + 1
    <3>1. r \in 1 .. store.rows
      BY <1>1, <1>2, <2>2
    <3>2. OpenFile(store').rows[r] = OpenFile(store).rows[r]
      BY <1>2, <3>1 DEF Adds
    <3> QED
      BY <1>1, <3>1, <3>2 DEF CurrentRow, RowOf
  <2> QED
    BY <2>1, <2>2
<1>6. \A d \in DOMAIN store'.disk \ {store'.day} :
        \A r \in 1 .. Len(store'.disk[d].rows) :
          ~RowOf(store'.disk[d].rows[r], session', event'.id)
  BY <1>1, <1>2 DEF Adds, CurrentRow, RowOf
<1> QED
  BY <1>4, <1>5, <1>6 DEF EventAtEnd, CurrentRow

\* While it stays open an event is at the end of the open file.
LEMMA EventStaysAtEnd ==
  ASSUME Inv, Next, (Running /\ EventOpen)'
  PROVE  EventAtEnd'
<1>1. /\ event \in Event
      /\ ThisFrame \in Frame
      /\ ThisFrame.session = session
      /\ {PreTrigger, Active, PostTrigger} \subseteq {0, 1, 2}
      /\ event.id \in Nat
      /\ event.startRow \in Nat
      /\ event.saved \in Nat
      /\ event.post \in Nat
      /\ event.active \in BOOLEAN
  BY ThisFrameTyped DEF Inv, TypeOK, PreTrigger, Active, PostTrigger, Event
<1>2. CASE InhibitedFrame
  <2>1. /\ pc' = "ready" /\ event' = event /\ session' = session /\ Running
        /\ store' = Ticked
    BY <1>2 DEF InhibitedFrame, FrameDone, FrameArrives, Running
  <2>2. InEvent
    BY <2>1 DEF EventOpen, InEvent
  <2>3. store' = store
    BY <2>1, <2>2, TickedSound
  <2> QED
    BY <2>1, <2>2, <2>3 DEF Inv, EventRowsKnown, EventInOpenFile, EventAtEnd,
       EventOpen, CurrentRow, OpenFile
<1>3. CASE CutEvent
  <2>1. pc' = "ready" /\ ~event'.active /\ event'.post = 0
    <3> DEFINE e == [event EXCEPT !.active = FALSE, !.post = 0]
               n == (IF discards THEN TruncateRows(Ticked, event.startRow)
                                 ELSE Ticked).rows
    <3>1. event' = [TrackingReset(e, n) EXCEPT !.rearmUntil = RearmTime]
      BY <1>3 DEF CutEvent
    <3>2. ~e.active /\ e.post = 0 /\ e \in Event
      BY <1>1 DEF Event
    <3> HIDE DEF e, n
    <3>3. ~event'.active /\ event'.post = 0
      BY <3>1, <3>2 DEF TrackingReset, Event
    <3> QED
      BY <1>3, <3>3 DEF CutEvent, FrameDone
  <2> QED
    BY <2>1 DEF EventOpen, InEvent
<1>4. ASSUME NEW above \in BOOLEAN, ActiveFrame(above)
      PROVE  EventAtEnd'
  <2>1. Running /\ InEvent /\ EventOpen /\ session' = session /\ pc' = "ready"
    BY <1>4 DEF ActiveFrame, FrameDone, Detects, FrameArrives, Running,
       InEvent, EventOpen
  <2>2. Ticked = store
    BY <2>1, TickedSound
  <2> DEFINE e == EventSaved(Rearmed(event))
             off == [e EXCEPT !.active = FALSE, !.post = PostFrames]
  <2>3. /\ e \in Event
        /\ e.id = event.id
        /\ e.startRow = event.startRow
        /\ e.saved = event.saved + 1
    BY <1>1, EventUpdates
  <2>4. /\ off.id = e.id
        /\ off.startRow = e.startRow
        /\ off.saved = e.saved
        /\ ~off.active
        /\ off.post = PostFrames
        /\ off \in Event
    BY <2>3, RecorderAssumption DEF Event
  <2>5. CASE EndsAtTriggerOff(above)
    <3>1. PICK n \in Nat : event' = Finalized(off, n)
      <4>1. AppendRow(store, ThisFrame, event.id, Active).rows \in Nat
        BY DEF Inv, TypeOK, StorageOK, AppendRow, WithRow
      <4> QED
        BY <1>4, <2>2, <2>5, <4>1 DEF ActiveFrame, EndsAtTriggerOff
    <3> HIDE DEF off
    <3>2. event'.active = off.active /\ event'.post = off.post
      BY <2>4, <3>1, EventEnds
    <3>3. PostFrames = 0
      BY <2>5 DEF EndsAtTriggerOff
    <3> QED
      BY <2>1, <2>4, <3>2, <3>3 DEF EventOpen, InEvent
  <2>6. CASE ~EndsAtTriggerOff(above)
    <3>1. event' \in {e, off}
      BY <1>4, <2>6 DEF ActiveFrame
    <3>2. store' = AppendRow(store, ThisFrame, event.id, Active)
      BY <1>4, <2>2, <2>6 DEF ActiveFrame
    <3> HIDE DEF e, off
    <3> QED
      BY <1>1, <2>1, <2>3, <2>4, <3>1, <3>2, RecordedAtEnd
  <2> QED
    BY <2>5, <2>6
<1>5. ASSUME NEW above \in BOOLEAN, PostFrame(above)
      PROVE  EventAtEnd'
  <2>1. Running /\ InEvent /\ EventOpen /\ session' = session /\ pc' = "ready"
        /\ ~event.active
    BY <1>5 DEF PostFrame, FrameDone, Detects, FrameArrives, Running,
       InEvent, EventOpen
  <2>2. Ticked = store
    BY <2>1, TickedSound
  <2> DEFINE e == EventSaved(Rearmed(event))
             ends == ~above /\ event.post = 1
             over == [e EXCEPT !.post = 0]
             next == [e EXCEPT !.post = @ - 1]
             again == [e EXCEPT !.active = TRUE, !.post = 0]
  <2>3. /\ e \in Event
        /\ e.id = event.id
        /\ e.startRow = event.startRow
        /\ e.saved = event.saved + 1
        /\ ~e.active
    BY <1>1, <2>1, EventUpdates
  <2>4. /\ over \in Event /\ ~over.active /\ over.post = 0
        /\ again.id = e.id /\ again.startRow = e.startRow
        /\ again.saved = e.saved
        /\ next.id = e.id /\ next.startRow = e.startRow
        /\ next.saved = e.saved
    BY <2>3 DEF Event
  <2>5. CASE ends
    <3>1. PICK n \in Nat : event' = Finalized(over, n)
      <4>1. AppendRow(store, ThisFrame, event.id, PostTrigger).rows \in Nat
        BY DEF Inv, TypeOK, StorageOK, AppendRow, WithRow
      <4> QED
        BY <1>5, <2>2, <2>5, <4>1 DEF PostFrame
    <3> HIDE DEF over
    <3>2. event'.active = over.active /\ event'.post = over.post
      BY <2>4, <3>1, EventEnds
    <3> QED
      BY <2>1, <2>4, <3>2 DEF EventOpen, InEvent
  <2>6. CASE ~ends
    <3>1. event' \in {again, next}
      BY <1>5, <2>6 DEF PostFrame
    <3>2. store' = AppendRow(store, ThisFrame, event.id, PostTrigger)
      BY <1>5, <2>2, <2>6 DEF PostFrame
    <3> HIDE DEF e, again, next
    <3> QED
      BY <1>1, <2>1, <2>3, <2>4, <3>1, <3>2, RecordedAtEnd
  <2> QED
    BY <2>5, <2>6
<1>6. CASE IdleFrame
  <2>1. pc' = "ready" /\ event' = Rearmed(event) /\ ~InEvent
    BY <1>6 DEF IdleFrame, FrameDone
  <2> QED
    BY <1>1, <2>1, EventUpdates DEF EventOpen, InEvent
<1>7. CASE TriggerOn
  <2>1. /\ Running /\ session' = session
        /\ store' = Ticked
        /\ event' = [Rearmed(event) EXCEPT !.id = @ + 1,
                                           !.startRow = Ticked.rows,
                                           !.saved = 0,
                                           !.backlog = Len(PreOnRearm)]
    BY <1>7 DEF TriggerOn, Detects, FrameArrives, Running, StartRow
  <2>2. /\ event'.id = event.id + 1
        /\ event'.startRow = store'.rows
        /\ event'.saved = 0
    BY <1>1, <2>1 DEF Rearmed, Event
  <2>3. /\ StorageInv(store')
        /\ Keeps(store.disk, store'.disk)
        /\ AddsNone(store.disk, store'.disk)
    BY <2>1, TickedSound
  <2>4. /\ store'.rows \in Nat
        /\ store'.day \in DOMAIN store'.disk
        /\ store'.rows = Len(store'.disk[store'.day].rows)
        /\ \A d \in DOMAIN store.disk : Len(store.disk[d].rows) \in Nat
        /\ \A d \in DOMAIN store'.disk : Len(store'.disk[d].rows) \in Nat
    BY <2>3 DEF StorageInv, StorageOK, CountsOK, OpenFile, DiskOK, File, Inv,
       StorageSound
  <2>5. ASSUME NEW d \in DOMAIN store'.disk,
               NEW r \in 1 .. Len(store'.disk[d].rows)
        PROVE  ~RowOf(store'.disk[d].rows[r], session', event'.id)
    <3>1. d \in DOMAIN store.disk /\ r \in 1 .. Len(store.disk[d].rows)
      BY <2>3, <2>4, <2>5 DEF AddsNone, OldRow
    <3>2. store'.disk[d].rows[r] = store.disk[d].rows[r]
      BY <2>3, <3>1 DEF Keeps
    <3>3. store.disk[d].rows[r].frame.session = session
            => store.disk[d].rows[r].event <= event.id
      BY <3>1 DEF Inv, RowsNamed
    <3>4. store.disk[d].rows[r].event \in Nat
      <4>1. store.disk[d].rows[r] \in Row
        BY <3>1 DEF Inv, StorageSound, StorageInv, DiskOK, File
      <4> QED
        BY <4>1 DEF Row
    <3>5. store.disk[d].rows[r].frame.session = session
            => store.disk[d].rows[r].event # event.id + 1
      BY <1>1, <3>3, <3>4
    <3> QED
      BY <2>1, <2>2, <3>2, <3>5 DEF RowOf
  <2>6. \A r \in 1 .. store'.rows :
          r > event'.startRow
            <=> RowOf(OpenFile(store').rows[r], session', event'.id)
    BY <2>2, <2>4, <2>5 DEF OpenFile
  <2>7. store'.rows = event'.startRow + event'.saved
    BY <2>2, <2>4
  <2> QED
    BY <2>5, <2>6, <2>7 DEF EventAtEnd, CurrentRow
<1>8. CASE Backlog
  <2>1. Running /\ EventOpen /\ session' = session
    BY <1>8 DEF Backlog, Running, EventOpen
  <2>2. BacklogFrame \in Frame /\ BacklogFrame.session = session
    BY <1>8, BacklogFrameTyped DEF Backlog
  <2>3. store' = AppendRow(store, BacklogFrame, event.id, PreTrigger)
    BY <1>8 DEF Backlog
  <2>4. /\ event'.id = event.id
        /\ event'.startRow = event.startRow
        /\ event'.saved = event.saved + 1
    BY <1>1, <1>8 DEF Backlog, EventSaved, Event
  <2> QED
    BY <1>1, <2>1, <2>2, <2>3, <2>4, RecordedAtEnd
<1>9. CASE Trigger
  <2>1. Running /\ EventOpen /\ session' = session
    BY <1>9 DEF Trigger, FrameDone, Running, EventOpen
  <2>2. store' = AppendRow(store, ThisFrame, event.id, Active)
    BY <1>9 DEF Trigger
  <2>3. /\ event'.id = event.id
        /\ event'.startRow = event.startRow
        /\ event'.saved = event.saved + 1
    BY <1>1, <1>9 DEF Trigger, EventSaved, Event
  <2> QED
    BY <1>1, <2>1, <2>2, <2>3, RecordedAtEnd
<1>10. CASE WriteFails \/ Stop
  BY <1>10 DEF WriteFails, Stop, Running
<1>11. CASE Restart
  BY <1>11 DEF Restart, EventOpen, InEvent, NoEvent
<1> QED
  BY <1>2, <1>3, <1>4, <1>5, <1>6, <1>7, <1>8, <1>9, <1>10, <1>11
     DEF Next, Consume

\* Within a process ids only grow, an open event has been open or is new, and
\* cuts are only added by CutEvent, for the event that it ends.
LEMMA EventIds ==
  ASSUME Inv, Next, ~Restart
  PROVE  /\ session' = session
         /\ event'.id \in {event.id, event.id + 1}
         /\ CutEvent \/ cuts' = cuts
         /\ (Running /\ EventOpen)' /\ event'.id = event.id
              => Running /\ EventOpen
         /\ CutEvent => event'.id = event.id /\ ~(EventOpen')
<1>1. /\ event \in Event
      /\ event.id \in Nat
      /\ Rearmed(event) \in Event
      /\ Rearmed(event).id = event.id
      /\ EventSaved(Rearmed(event)) \in Event
      /\ EventSaved(Rearmed(event)).id = event.id
  BY EventUpdates DEF Inv, TypeOK, Event
<1>2. CASE InhibitedFrame
  BY <1>2 DEF InhibitedFrame, FrameDone, FrameArrives, Running, EventOpen,
     InEvent, CutEvent
<1>3. CASE CutEvent
  <2> DEFINE e == [event EXCEPT !.active = FALSE, !.post = 0]
             n == (IF discards THEN TruncateRows(Ticked, event.startRow)
                               ELSE Ticked).rows
  <2>1. event' = [TrackingReset(e, n) EXCEPT !.rearmUntil = RearmTime]
    BY <1>3 DEF CutEvent
  <2>2. ~e.active /\ e.post = 0 /\ e.id = event.id /\ e \in Event
    BY <1>1 DEF Event
  <2> HIDE DEF e, n
  <2>3. ~event'.active /\ event'.post = 0 /\ event'.id = event.id
    BY <2>1, <2>2 DEF TrackingReset, Event
  <2> QED
    BY <1>3, <2>3 DEF CutEvent, FrameDone, EventOpen, InEvent
<1>4. ASSUME NEW above \in BOOLEAN, ActiveFrame(above) \/ PostFrame(above)
      PROVE  /\ session' = session
             /\ event'.id = event.id
             /\ cuts' = cuts
             /\ Running /\ EventOpen
  <2>1. /\ session' = session
        /\ cuts' = cuts
        /\ Running /\ EventOpen
    BY <1>4 DEF ActiveFrame, PostFrame, FrameDone, Detects, FrameArrives,
       Running, EventOpen, InEvent
  <2>2. CASE ActiveFrame(above)
    <3> DEFINE e == EventSaved(Rearmed(event))
               off == [e EXCEPT !.active = FALSE, !.post = PostFrames]
               s == AppendRow(Ticked, ThisFrame, event.id, Active)
    <3>1. event' \in {e, off, Finalized(off, s.rows)}
      BY <2>2 DEF ActiveFrame
    <3>2. off.id = event.id /\ off \in Event
      BY <1>1, RecorderAssumption DEF Event
    <3> HIDE DEF e, off, s
    <3>3. Finalized(off, s.rows).id = event.id
      BY <3>2 DEF Finalized, TrackingReset, Event
    <3> QED
      BY <1>1, <2>1, <3>1, <3>2, <3>3 DEF e
  <2>3. CASE PostFrame(above)
    <3> DEFINE e == EventSaved(Rearmed(event))
               over == [e EXCEPT !.post = 0]
               next == [e EXCEPT !.post = @ - 1]
               again == [e EXCEPT !.active = TRUE, !.post = 0]
               s == AppendRow(Ticked, ThisFrame, event.id, PostTrigger)
    <3>1. event' \in {again, next, Finalized(over, s.rows)}
      BY <2>3 DEF PostFrame
    <3>2. /\ over.id = event.id
          /\ next.id = event.id
          /\ again.id = event.id
          /\ over \in Event
      BY <1>1 DEF Event
    <3> HIDE DEF e, over, next, again, s
    <3>3. Finalized(over, s.rows).id = event.id
      BY <3>2 DEF Finalized, TrackingReset, Event
    <3> QED
      BY <2>1, <3>1, <3>2, <3>3
  <2> QED
    BY <1>4, <2>2, <2>3
<1>5. CASE IdleFrame
  BY <1>1, <1>5, EventUpdates
     DEF IdleFrame, FrameDone, EventOpen, InEvent, CutEvent
<1>6. CASE TriggerOn
  <2>1. event'.id = event.id + 1
    BY <1>1, <1>6 DEF TriggerOn, Event, StartRow
  <2>2. event'.id # event.id
    BY <1>1, <2>1
  <2>3. ~CutEvent
    BY <1>6 DEF TriggerOn, Detects, CutEvent
  <2> QED
    BY <1>6, <2>1, <2>2, <2>3 DEF TriggerOn
<1>7. CASE Backlog \/ Trigger
  <2>1. event'.id = event.id
    BY <1>1, <1>7 DEF Backlog, Trigger, EventSaved, Event
  <2> QED
    BY <1>7, <2>1 DEF Backlog, Trigger, FrameDone, Running, EventOpen, CutEvent,
       FrameArrives
<1>8. CASE WriteFails \/ Stop
  BY <1>8 DEF WriteFails, Stop, Running, CutEvent, FrameDone
<1>9. ASSUME NEW above \in BOOLEAN, ActiveFrame(above) \/ PostFrame(above)
      PROVE  ~CutEvent
  BY <1>9 DEF ActiveFrame, PostFrame, Detects, CutEvent
<1> QED
  BY <1>2, <1>3, <1>4, <1>5, <1>6, <1>7, <1>8, <1>9 DEF Next, Consume

\* Every row after a step was there before it, or is one of the open event.
LEMMA NewRows ==
  ASSUME Inv, Next, NEW d \in DOMAIN store'.disk,
         NEW r \in 1 .. Len(store'.disk[d].rows)
  PROVE  LET row == store'.disk[d].rows[r]
         IN \/ /\ OldRow(store.disk, d, r)
               /\ r \in 1 .. Len(store.disk[d].rows)
               /\ row = store.disk[d].rows[r]
            \/ /\ Running /\ EventOpen
               /\ CurrentRow(row)
<1>1. RowsStep(store'.disk)
  BY EveryStorageStep DEF StorageStep
<1>2. \A c \in DOMAIN store.disk : Len(store.disk[c].rows) \in Nat
  BY DEF Inv, StorageSound, StorageInv, DiskOK, File
<1>3. \A n \in Nat : \A k \in 1 .. Len(store'.disk[d].rows) :
        k <= n => k \in 1 .. n
  OBVIOUS
<1>4. OldRow(store.disk, d, r) => r \in 1 .. Len(store.disk[d].rows)
  BY <1>2, <1>3 DEF OldRow
<1> QED
  BY <1>1, <1>4 DEF RowsStep, Keeps, AddsNone, AddsOnlyOf, DropsEvent, CurrentRow,
     OldRow

\* No step leaves a row of a later event than the current one.
LEMMA RowsNamedStep ==
  ASSUME Inv, Next
  PROVE  RowsNamed'
<1> SUFFICES ASSUME NEW d \in DOMAIN store'.disk,
                    NEW r \in 1 .. Len(store'.disk[d].rows)
             PROVE  LET row == store'.disk[d].rows[r]
                    IN /\ row.frame.session <= session'
                       /\ row.frame.session = session' => row.event <= event'.id
  BY DEF RowsNamed
<1> DEFINE row == store'.disk[d].rows[r]
<1>1. /\ row.frame.session \in Nat
      /\ row.event \in Nat
  <2>1. row \in Row
    BY EveryStorageStep
       DEF StorageStep, StorageSound, StorageInv, DiskOK, File
  <2> HIDE DEF row
  <2> QED
    BY <2>1 DEF Row, Frame
<1>2. session \in Nat /\ event.id \in Nat
  BY DEF Inv, TypeOK, Event
<1>3. /\ row.frame.session <= session
      /\ row.frame.session = session => row.event <= event.id
  <2>1. \/ /\ d \in DOMAIN store.disk
           /\ r \in 1 .. Len(store.disk[d].rows)
           /\ row = store.disk[d].rows[r]
        \/ RowOf(row, session, event.id)
    BY NewRows DEF OldRow, CurrentRow
  <2> HIDE DEF row
  <2> QED
    BY <1>1, <1>2, <2>1 DEF Inv, RowsNamed, RowOf
<1> HIDE DEF row
<1>4. CASE Restart
  <2>1. session' = session + 1
    BY <1>4 DEF Restart
  <2> QED
    BY <1>1, <1>2, <1>3, <2>1 DEF row
<1>5. CASE ~Restart
  <2>1. session' = session /\ event'.id \in {event.id, event.id + 1}
    BY <1>5, EventIds
  <2> QED
    BY <1>1, <1>2, <1>3, <2>1 DEF row
<1> QED
  BY <1>4, <1>5

\* No step reopens an event that was cut.
LEMMA CutsNamedStep ==
  ASSUME Inv, Next
  PROVE  CutsNamed'
<1>1. session \in Nat /\ event.id \in Nat /\ cuts \subseteq Cut
  BY DEF Inv, TypeOK, Event
<1>2. ASSUME NEW c \in cuts
      PROVE  /\ c.session \in Nat /\ c.id \in Nat
             /\ c.session <= session
             /\ c.session = session => c.id <= event.id
             /\ c.session = session /\ Running /\ EventOpen => c.id < event.id
  BY <1>1 DEF Inv, CutsNamed, Cut
<1>3. CASE Restart
  <2>1. session' = session + 1 /\ cuts' = cuts
    BY <1>3 DEF Restart
  <2> QED
    BY <1>1, <1>2, <2>1 DEF CutsNamed
<1>4. CASE ~Restart
  <2>1. /\ session' = session
        /\ event'.id \in {event.id, event.id + 1}
        /\ CutEvent \/ cuts' = cuts
        /\ (Running /\ EventOpen)' /\ event'.id = event.id
             => Running /\ EventOpen
        /\ CutEvent => event'.id = event.id /\ ~(EventOpen')
    BY <1>4, EventIds
  <2>2. CASE CutEvent
    <3>1. cuts' = cuts \cup {[session |-> session, id |-> event.id,
                              ts |-> ThisFrame.ts, discarded |-> discards]}
      BY <2>2 DEF CutEvent
    <3> QED
      BY <1>1, <1>2, <2>1, <2>2, <3>1 DEF CutsNamed
  <2>3. CASE cuts' = cuts
    <3>1. CASE event'.id = event.id
      BY <1>2, <2>1, <2>3, <3>1 DEF CutsNamed
    <3>2. CASE event'.id = event.id + 1
      <4>1. \A c \in cuts : /\ c.session <= session
                            /\ c.session = session => c.id < event.id + 1
                            /\ c.session = session => c.id <= event.id + 1
        BY <1>1, <1>2
      <4> QED
        BY <2>1, <2>3, <3>2, <4>1 DEF CutsNamed
    <3> QED
      BY <2>1, <3>1, <3>2
  <2> QED
    BY <2>1, <2>2, <2>3
<1> QED
  BY <1>3, <1>4

\* No step brings back a row of a discarded event, and a discard leaves none.
LEMMA DiscardStep ==
  ASSUME Inv, Next
  PROVE  DiscardedEventsAbsent'
<1> SUFFICES ASSUME NEW c \in cuts', c.discarded,
                    NEW d \in DOMAIN store'.disk,
                    NEW r \in 1 .. Len(store'.disk[d].rows),
                    RowOf(store'.disk[d].rows[r], c.session, c.id)
             PROVE  FALSE
  <2>1. \A d \in DOMAIN store'.disk :
          DOMAIN store'.disk[d].rows = 1 .. Len(store'.disk[d].rows)
    BY EveryStorageStep
       DEF StorageStep, StorageSound, StorageInv, DiskOK, File
  <2> QED
    BY <2>1 DEF DiscardedEventsAbsent
<1>1. \A k \in DOMAIN store.disk :
        DOMAIN store.disk[k].rows = 1 .. Len(store.disk[k].rows)
  BY DEF Inv, StorageSound, StorageInv, DiskOK, File
<1>2. session \in Nat /\ event.id \in Nat /\ cuts \subseteq Cut
  BY DEF Inv, TypeOK, Event
<1>3. CASE c \in cuts
  <2>1. c.id \in Nat
    BY <1>2, <1>3 DEF Cut
  <2>2. ~(Running /\ EventOpen /\ c.session = session /\ c.id = event.id)
    BY <1>2, <1>3, <2>1 DEF Inv, CutsNamed
  <2>3. \A k \in DOMAIN store.disk : \A q \in 1 .. Len(store.disk[k].rows) :
          ~RowOf(store.disk[k].rows[q], c.session, c.id)
    BY <1>1, <1>3 DEF Inv, DiscardedEventsAbsent
  <2> QED
    BY <2>2, <2>3, NewRows DEF OldRow, CurrentRow, RowOf
<1>4. CASE c \notin cuts
  <2>1. CutEvent
    <3>1. CASE Restart
      BY <1>4, <3>1 DEF Restart
    <3>2. CASE ~Restart
      BY <1>4, <3>2, EventIds
    <3> QED
      BY <3>1, <3>2
  <2>2. c = [session |-> session, id |-> event.id, ts |-> ThisFrame.ts,
             discarded |-> discards]
    BY <1>4, <2>1 DEF CutEvent
  <2>3. DropsEvent(store.disk, store'.disk)
    BY <2>1, <2>2, CutStorage
  <2> QED
    BY <2>2, <2>3 DEF DropsEvent, CurrentRow, RowOf
<1> QED
  BY <1>3, <1>4

-----------------------------------------------------------------------------
(***************************************************************************)
(* The invariant holds, and what follows from it.                          *)
(***************************************************************************)
\* The invariant holds when the first process has opened its first file.
LEMMA InvInit == Init => Inv
<1> SUFFICES ASSUME Init PROVE Inv
  OBVIOUS
<1>1. startTs \in Nat /\ store = Open(<<>>, DayOf(startTs))
  BY DEF Init
<1>2. DiskOK(<<>>)
  BY DEF DiskOK
<1>3. /\ StorageInv(store)
      /\ store.prev = NoPrevious
      /\ OpenedOnly(<<>>, store.disk)
  BY <1>1, <1>2, DayOfInt, OpenStorage, OpenOpens
<1>4. \A d \in DOMAIN store.disk : Len(store.disk[d].rows) = 0
                                   /\ store.disk[d].rows = <<>>
  BY <1>3 DEF OpenedOnly, EmptyFile
<1>5. /\ NoEvent \in Event /\ NoStats \in Stats
      /\ ~NoEvent.active /\ NoEvent.post = 0
      /\ <<>> \in Seq(Frame) /\ Len(<<>>) = 0
  BY DEF NoEvent, Event, NoStats, Stats
<1>6. TypeOK
  BY <1>1, <1>3, <1>5 DEF Init, TypeOK, StorageInv
<1>7. RingSound /\ CutsNamed /\ DiscardedEventsAbsent
  BY <1>5 DEF Init, RingSound, CutsNamed, DiscardedEventsAbsent
<1>8. ~EventOpen
  BY <1>5 DEF Init, EventOpen, InEvent
<1>9. StorageSound
  BY <1>3 DEF StorageSound, PreviousOK
<1>10. RowsNamed
  BY <1>4 DEF RowsNamed
<1>11. EventRowsKnown /\ EventInOpenFile
  BY <1>3, <1>8 DEF EventRowsKnown, EventInOpenFile, StorageInv, CountsOK
<1> QED
  BY <1>6, <1>7, <1>9, <1>10, <1>11 DEF Inv

\* Every step keeps the invariant.
LEMMA InvStep == Inv /\ [Next]_vars => Inv'
<1> SUFFICES ASSUME Inv, [Next]_vars PROVE Inv'
  OBVIOUS
<1>1. CASE Next
  <2>1. StorageSound'
    BY <1>1, EveryStorageStep DEF StorageStep
  <2>2. TypeOK' /\ RingSound'
    BY <1>1, <2>1, RecorderStep
       DEF TypeOK, RecorderTyped, StorageSound, StorageInv
  <2>3. EventRowsKnown' /\ EventInOpenFile'
    <3>1. CountsOK(store')
      BY <2>1 DEF StorageSound, StorageInv
    <3>2. (Running /\ EventOpen)' => EventAtEnd'
      BY <1>1, EventStaysAtEnd
    <3> QED
      BY <3>1, <3>2 DEF EventRowsKnown, EventInOpenFile, EventAtEnd, CountsOK
  <2> QED
    BY <1>1, <2>1, <2>2, <2>3, RowsNamedStep, CutsNamedStep, DiscardStep DEF Inv
<1>2. CASE UNCHANGED vars
  BY <1>2 DEF vars, Inv, TypeOK, StorageSound, RingSound, RowsNamed,
     EventRowsKnown, EventInOpenFile, CutsNamed, DiscardedEventsAbsent, Running,
     EventOpen, InEvent, CurrentRow, RowOf, OpenFile
<1> QED
  BY <1>1, <1>2

\* The inductive invariant holds in every reachable state.
THEOREM Invariant == Spec => []Inv
  BY InvInit, InvStep, PTL DEF Spec

\* The variables keep their types: no count, row number or ring index of
\* PsdDetectorRecorder ever goes below zero.
THEOREM TypeCorrect == Spec => []TypeOK
<1>1. Inv => TypeOK
  BY DEF Inv
<1> QED
  BY Invariant, <1>1, PTL

\* Every row that append() wrote completely can be read back by the documented
\* rule, over gaps, discards, rotations, failed writes and restarts.
THEOREM AlwaysReadable == Spec => []FilesReadable
<1>1. Inv => FilesReadable
  BY DEF Inv, StorageSound, StorageInv, DiskOK, FilesReadable
<1> QED
  BY Invariant, <1>1, PTL

\* truncateRows(_eventStartRow) would remove the rows of the open event, all of
\* them and nothing else, whenever consume() might call it.
THEOREM DiscardIsExact == Spec => []EventRowsKnown
<1>1. Inv => EventRowsKnown
  BY DEF Inv
<1> QED
  BY Invariant, <1>1, PTL

\* No row of a discarded event is in a file, then or later.
THEOREM DiscardIsFinal == Spec => []DiscardedEventsAbsent
<1>1. Inv => DiscardedEventsAbsent
  BY DEF Inv
<1> QED
  BY Invariant, <1>1, PTL

\* No step of consume(), of a failing write or of a restart changes or removes a
\* row of another event, and the open event is removed whole or not at all.
THEOREM OtherRowsKept == Spec => RowsRetained
<1> DEFINE Retains == \A d \in DOMAIN store.disk :
             /\ d \in DOMAIN store'.disk
             /\ RetainedRows(store.disk[d].rows, store'.disk[d].rows)
<1>1. ASSUME Inv, Next
      PROVE  Retains
  <2>1. RowsStep(store'.disk) /\ StorageInv(store')
    BY <1>1, EveryStorageStep DEF StorageStep, StorageSound
  <2>2. /\ \A d \in DOMAIN store.disk :
             /\ DOMAIN store.disk[d].rows = 1 .. Len(store.disk[d].rows)
             /\ Len(store.disk[d].rows) \in Nat
        /\ \A d \in DOMAIN store'.disk :
             /\ DOMAIN store'.disk[d].rows = 1 .. Len(store'.disk[d].rows)
             /\ Len(store'.disk[d].rows) \in Nat
    BY <1>1, <2>1 DEF Inv, StorageSound, StorageInv, DiskOK, File
  <2>3. CASE Keeps(store.disk, store'.disk)
    <3> SUFFICES ASSUME NEW d \in DOMAIN store.disk
                 PROVE  /\ d \in DOMAIN store'.disk
                        /\ RetainedRows(store.disk[d].rows, store'.disk[d].rows)
      OBVIOUS
    <3>1. /\ d \in DOMAIN store'.disk
          /\ Len(store.disk[d].rows) <= Len(store'.disk[d].rows)
          /\ \A r \in 1 .. Len(store.disk[d].rows) :
               store'.disk[d].rows[r] = store.disk[d].rows[r]
      BY <2>3 DEF Keeps
    <3>2. \A r \in 1 .. Len(store.disk[d].rows) :
            r \in 1 .. Len(store'.disk[d].rows)
      BY <2>2, <3>1
    <3>3. \A r \in DOMAIN store.disk[d].rows :
            /\ r \in DOMAIN store'.disk[d].rows
            /\ store'.disk[d].rows[r] = store.disk[d].rows[r]
      <4>1. /\ DOMAIN store.disk[d].rows = 1 .. Len(store.disk[d].rows)
            /\ DOMAIN store'.disk[d].rows = 1 .. Len(store'.disk[d].rows)
        BY <2>2, <3>1
      <4> QED
        BY Zenon, <3>1, <3>2, <4>1
    <3> QED
      BY <3>1, <3>3 DEF RetainedRows
  <2>4. CASE DropsEvent(store.disk, store'.disk)
    <3> SUFFICES ASSUME NEW d \in DOMAIN store.disk
                 PROVE  /\ d \in DOMAIN store'.disk
                        /\ RetainedRows(store.disk[d].rows, store'.disk[d].rows)
      OBVIOUS
    <3>1. d \in DOMAIN store'.disk
      BY <2>4 DEF DropsEvent
    <3>2. \A r \in DOMAIN store'.disk[d].rows :
            /\ store'.disk[d].rows[r] = store.disk[d].rows[r]
            /\ ~CurrentRow(store'.disk[d].rows[r])
      BY <2>2, <2>4, <3>1 DEF DropsEvent
    <3>3. \A r \in DOMAIN store.disk[d].rows :
            ~CurrentRow(store.disk[d].rows[r]) => r \in DOMAIN store'.disk[d].rows
      <4>1. /\ DOMAIN store.disk[d].rows = 1 .. Len(store.disk[d].rows)
            /\ DOMAIN store'.disk[d].rows = 1 .. Len(store'.disk[d].rows)
            /\ Len(store'.disk[d].rows) \in Nat
        BY <2>2, <3>1
      <4>2. \A r \in 1 .. Len(store.disk[d].rows) :
              ~CurrentRow(store.disk[d].rows[r]) => r <= Len(store'.disk[d].rows)
        BY <2>4 DEF DropsEvent
      <4> QED
        BY <4>1, <4>2
    <3> QED
      BY <3>1, <3>2, <3>3 DEF RetainedRows
  <2>5. Keeps(store.disk, store'.disk) \/ DropsEvent(store.disk, store'.disk)
    BY <2>1 DEF RowsStep
  <2> QED
    BY <2>3, <2>4, <2>5
<1>2. Inv /\ [Next]_vars => [Retains]_vars
  BY <1>1
<1> QED
  BY Invariant, <1>2, PTL DEF Spec, RowsRetained
-----------------------------------------------------------------------------
(***************************************************************************)
(* What each handler does to the recorder's own state, while the event it  *)
(* is about stays open or when it ends.                                    *)
(***************************************************************************)
\* What every completed consume() leaves alone, and its frame.
LEMMA DoneEffect ==
  ASSUME FrameDone
  PROVE  /\ pc' = "ready" /\ Running'
         /\ session' = session /\ startTs' = startTs
         /\ nextIndex' = nextIndex + 1
  BY DEF FrameDone, Running

\* The event is over: no context is owed and it has no start time.
EventEnded == ~event'.active /\ event'.post = 0 /\ event'.startTs = 0

\* The event goes on with one more row.
EventGoesOn ==
  /\ event'.startTs = event.startTs
  /\ event'.startRow = event.startRow
  /\ event'.saved = event.saved + 1
  /\ event'.backlog = event.backlog

\* An appended frame that re-enables detection changes only saved and rearmUntil.
LEMMA SavedRearmed ==
  ASSUME event \in Event
  PROVE  LET e == EventSaved(Rearmed(event))
         IN /\ e \in Event /\ e.id = event.id /\ e.rearmUntil = 0
            /\ e.active = event.active /\ e.post = event.post
            /\ e.startTs = event.startTs /\ e.startRow = event.startRow
            /\ e.saved = event.saved + 1 /\ e.backlog = event.backlog
<1> DEFINE q == Rearmed(event)
<1>1. /\ q \in Event /\ q.id = event.id /\ q.rearmUntil = 0
      /\ q.active = event.active /\ q.post = event.post
      /\ q.startTs = event.startTs /\ q.startRow = event.startRow
      /\ q.saved = event.saved /\ q.backlog = event.backlog
  BY DEF Rearmed, Event
<1> HIDE DEF q
<1>2. q.saved + 1 \in Nat
  BY <1>1 DEF Event
<1>3. /\ EventSaved(q) \in Event /\ EventSaved(q).id = q.id
      /\ EventSaved(q).rearmUntil = q.rearmUntil
      /\ EventSaved(q).active = q.active /\ EventSaved(q).post = q.post
      /\ EventSaved(q).startTs = q.startTs /\ EventSaved(q).startRow = q.startRow
      /\ EventSaved(q).saved = q.saved + 1 /\ EventSaved(q).backlog = q.backlog
  BY <1>1, <1>2 DEF EventSaved, Event
<1> QED
  BY <1>1, <1>3 DEF q

\* ActiveFrame: the frame is appended as active, and the event goes on or ends.
LEMMA ActiveEffect ==
  ASSUME Inv, NEW above \in BOOLEAN, ActiveFrame(above)
  PROVE  /\ pc = "ready" /\ event.active /\ ~Inhibited /\ ~TooLong
         /\ FrameDone /\ cuts' = cuts /\ pre' = PreOnRearm
         /\ event'.id = event.id /\ event'.rearmUntil = 0
         /\ IF EndsAtTriggerOff(above)
            THEN /\ EventEnded
                 /\ store' = Tick(AppendRow(store, ThisFrame, event.id, Active),
                                  ThisFrame.ts, FALSE)
            ELSE /\ EventGoesOn
                 /\ event'.active = above
                 /\ event'.post = IF above THEN event.post ELSE PostFrames
                 /\ store' = AppendRow(store, ThisFrame, event.id, Active)
<1> DEFINE e == EventSaved(Rearmed(event))
           off == [e EXCEPT !.active = FALSE, !.post = PostFrames]
           s == AppendRow(Ticked, ThisFrame, event.id, Active)
<1>1. /\ pc = "ready" /\ event.active /\ ~Inhibited /\ ~TooLong
      /\ FrameDone /\ cuts' = cuts /\ pre' = PreOnRearm
  BY DEF ActiveFrame, Detects, FrameArrives
<1>2. Ticked = store
  BY <1>1, TickedSound DEF InEvent, Running
<1>3. /\ store' = IF EndsAtTriggerOff(above) THEN Tick(s, ThisFrame.ts, FALSE) ELSE s
      /\ event' = IF above THEN e
                  ELSE IF EndsAtTriggerOff(above) THEN Finalized(off, s.rows) ELSE off
  BY DEF ActiveFrame
<1>4. event \in Event /\ PostFrames \in Nat
  BY RecorderAssumption DEF Inv, TypeOK
<1>5. /\ e \in Event /\ e.id = event.id /\ e.rearmUntil = 0
      /\ e.active = event.active /\ e.post = event.post
      /\ e.startTs = event.startTs /\ e.startRow = event.startRow
      /\ e.saved = event.saved + 1 /\ e.backlog = event.backlog
  BY <1>4, SavedRearmed
<1>6. /\ off \in Event /\ off.id = event.id /\ off.rearmUntil = 0
      /\ off.active = FALSE /\ off.post = PostFrames
      /\ off.startTs = event.startTs /\ off.startRow = event.startRow
      /\ off.saved = event.saved + 1 /\ off.backlog = event.backlog
  <2> HIDE DEF e
  <2> QED
    BY <1>4, <1>5 DEF Event
<1> HIDE DEF e, off, s
<1>7. /\ Finalized(off, s.rows).id = event.id
      /\ Finalized(off, s.rows).rearmUntil = 0
      /\ Finalized(off, s.rows).active = FALSE
      /\ Finalized(off, s.rows).post = PostFrames
      /\ Finalized(off, s.rows).startTs = 0
  BY <1>6 DEF Finalized, TrackingReset, Event
<1>8. CASE above
  BY <1>1, <1>2, <1>3, <1>5, <1>8 DEF EndsAtTriggerOff, EventGoesOn, s
<1>9. CASE ~above /\ PostFrames = 0
  BY <1>1, <1>2, <1>3, <1>7, <1>9 DEF EndsAtTriggerOff, EventEnded, s
<1>10. CASE ~above /\ PostFrames # 0
  BY <1>1, <1>2, <1>3, <1>6, <1>10 DEF EndsAtTriggerOff, EventGoesOn, s
<1> QED
  BY <1>8, <1>9, <1>10

\* PostFrame: the frame is appended as post-trigger, and the event goes on, is
\* active again, or ends with its last owed frame.
LEMMA PostEffect ==
  ASSUME Inv, NEW above \in BOOLEAN, PostFrame(above)
  PROVE  /\ pc = "ready" /\ ~event.active /\ event.post > 0 /\ ~Inhibited /\ ~TooLong
         /\ FrameDone /\ cuts' = cuts /\ pre' = Remember(PreOnRearm, ThisFrame)
         /\ event'.id = event.id /\ event'.rearmUntil = 0
         /\ IF ~above /\ event.post = 1
            THEN /\ EventEnded
                 /\ store' = Tick(AppendRow(store, ThisFrame, event.id, PostTrigger),
                                  ThisFrame.ts, FALSE)
            ELSE /\ EventGoesOn
                 /\ event'.active = above
                 /\ event'.post = IF above THEN 0 ELSE event.post - 1
                 /\ store' = AppendRow(store, ThisFrame, event.id, PostTrigger)
<1> DEFINE e == EventSaved(Rearmed(event))
           over == [e EXCEPT !.post = 0]
           next == [e EXCEPT !.post = @ - 1]
           again == [e EXCEPT !.active = TRUE, !.post = 0]
           s == AppendRow(Ticked, ThisFrame, event.id, PostTrigger)
           ends == ~above /\ event.post = 1
<1>1. /\ pc = "ready" /\ ~event.active /\ event.post > 0 /\ ~Inhibited /\ ~TooLong
      /\ FrameDone /\ cuts' = cuts /\ pre' = Remember(PreOnRearm, ThisFrame)
  BY DEF PostFrame, Detects, FrameArrives
<1>2. Ticked = store
  BY <1>1, TickedSound DEF InEvent, Running
<1>3. /\ store' = IF ends THEN Tick(s, ThisFrame.ts, FALSE) ELSE s
      /\ event' = IF above THEN again
                  ELSE IF ends THEN Finalized(over, s.rows) ELSE next
  BY DEF PostFrame
<1>4. event \in Event
  BY DEF Inv, TypeOK
<1>5. /\ e \in Event /\ e.id = event.id /\ e.rearmUntil = 0
      /\ e.active = event.active /\ e.post = event.post
      /\ e.startTs = event.startTs /\ e.startRow = event.startRow
      /\ e.saved = event.saved + 1 /\ e.backlog = event.backlog
  BY <1>4, SavedRearmed
<1>6. event.post - 1 \in Nat
  BY <1>1, <1>4 DEF Event
<1> HIDE DEF e
<1>7. /\ over \in Event /\ over.id = event.id /\ over.rearmUntil = 0
      /\ over.active = event.active /\ over.post = 0
  BY <1>5 DEF Event
<1>8. /\ next.id = event.id /\ next.rearmUntil = 0
      /\ next.active = event.active /\ next.post = event.post - 1
      /\ next.startTs = event.startTs /\ next.startRow = event.startRow
      /\ next.saved = event.saved + 1 /\ next.backlog = event.backlog
  BY <1>5 DEF Event
<1>9. /\ again.id = event.id /\ again.rearmUntil = 0
      /\ again.active = TRUE /\ again.post = 0
      /\ again.startTs = event.startTs /\ again.startRow = event.startRow
      /\ again.saved = event.saved + 1 /\ again.backlog = event.backlog
  BY <1>5 DEF Event
<1> HIDE DEF over, next, again, s
<1>10. /\ Finalized(over, s.rows).id = event.id
       /\ Finalized(over, s.rows).rearmUntil = 0
       /\ Finalized(over, s.rows).active = event.active
       /\ Finalized(over, s.rows).post = 0
       /\ Finalized(over, s.rows).startTs = 0
  BY <1>7 DEF Finalized, TrackingReset, Event
<1>11. CASE above
  BY <1>1, <1>2, <1>3, <1>9, <1>11 DEF EventGoesOn, s
<1>12. CASE ends
  BY <1>1, <1>2, <1>3, <1>10, <1>12 DEF EventEnded, s
<1>13. CASE ~above /\ ~ends
  <2>1. event.active = FALSE
    BY <1>1, <1>4 DEF Event
  <2> QED
    BY <1>1, <1>2, <1>3, <1>8, <1>13, <2>1 DEF EventGoesOn, s
<1> QED
  BY <1>11, <1>12, <1>13

\* CutEvent: the event is over, nothing is remembered, and the cut is known.
LEMMA CutEffect ==
  ASSUME Inv, CutEvent
  PROVE  /\ pc = "ready" /\ InEvent /\ TooLong /\ ~Inhibited
         /\ FrameDone /\ pre' = <<>>
         /\ event'.id = event.id /\ event'.rearmUntil = RearmTime
         /\ EventEnded
         /\ cuts' = cuts \cup {[session |-> session, id |-> event.id,
                                ts |-> ThisFrame.ts, discarded |-> discards]}
<1> DEFINE e == [event EXCEPT !.active = FALSE, !.post = 0]
           n == (IF discards THEN TruncateRows(Ticked, event.startRow)
                             ELSE Ticked).rows
<1>1. event' = [TrackingReset(e, n) EXCEPT !.rearmUntil = RearmTime]
  BY DEF CutEvent
<1>2. event \in Event
  BY DEF Inv, TypeOK
<1>3. e \in Event /\ e.active = FALSE /\ e.post = 0 /\ e.id = event.id
  BY <1>2 DEF Event
<1> HIDE DEF e, n
<1>4. /\ event'.active = FALSE /\ event'.post = 0 /\ event'.startTs = 0
      /\ event'.id = event.id /\ event'.rearmUntil = RearmTime
  BY <1>1, <1>3 DEF TrackingReset, Event
<1> QED
  BY <1>4 DEF CutEvent, FrameArrives, TooLong, EventEnded

\* IdleFrame: the frame is only remembered.
LEMMA IdleEffect ==
  ASSUME Inv, IdleFrame
  PROVE  /\ pc = "ready" /\ ~InEvent /\ ~Inhibited /\ ~TooLong
         /\ FrameDone /\ cuts' = cuts /\ pre' = Remember(PreOnRearm, ThisFrame)
         /\ event'.id = event.id /\ event'.rearmUntil = 0
         /\ event'.active = event.active /\ event'.post = event.post
         /\ event'.startTs = event.startTs
         /\ store' = Ticked
<1>1. event \in Event /\ event' = Rearmed(event)
  BY DEF Inv, TypeOK, IdleFrame
<1>2. /\ event'.id = event.id /\ event'.rearmUntil = 0
      /\ event'.active = event.active /\ event'.post = event.post
      /\ event'.startTs = event.startTs
  BY <1>1 DEF Event, Rearmed
<1> QED
  BY <1>2 DEF IdleFrame, Detects, FrameArrives

\* TriggerOn: a new event number, with the whole ring as its backlog.
LEMMA TriggerOnEffect ==
  ASSUME Inv, TriggerOn
  PROVE  /\ pc = "ready" /\ ~InEvent /\ ~Inhibited /\ ~TooLong
         /\ pc' = "trigger" /\ pre' = PreOnRearm
         /\ UNCHANGED <<session, startTs, nextIndex, cuts>>
         /\ event'.id = event.id + 1 /\ event'.rearmUntil = 0
         /\ event'.active = event.active /\ event'.post = event.post
         /\ event'.startTs = event.startTs
         /\ event'.startRow = Ticked.rows /\ event'.saved = 0
         /\ event'.backlog = Len(PreOnRearm)
         /\ store' = Ticked
<1>1. event \in Event
  BY DEF Inv, TypeOK
<1>2. event' = [Rearmed(event) EXCEPT !.id = @ + 1, !.startRow = Ticked.rows,
                                      !.saved = 0, !.backlog = Len(PreOnRearm)]
  BY DEF TriggerOn, StartRow
<1>3. /\ event'.id = event.id + 1 /\ event'.rearmUntil = 0
      /\ event'.active = event.active /\ event'.post = event.post
      /\ event'.startTs = event.startTs
      /\ event'.startRow = Ticked.rows /\ event'.saved = 0
      /\ event'.backlog = Len(PreOnRearm)
  BY <1>1, <1>2 DEF Event, Rearmed
<1> QED
  BY <1>3 DEF TriggerOn, Detects, FrameArrives

\* Backlog: one more frame of the ring appended.
LEMMA BacklogEffect ==
  ASSUME Inv, Backlog
  PROVE  /\ pc = "trigger" /\ event.backlog > 0
         /\ UNCHANGED <<pc, session, startTs, nextIndex, pre, cuts>>
         /\ event'.id = event.id /\ event'.rearmUntil = event.rearmUntil
         /\ event'.active = event.active /\ event'.post = event.post
         /\ event'.startTs = event.startTs
         /\ event'.startRow = event.startRow
         /\ event'.saved = event.saved + 1
         /\ event'.backlog = event.backlog - 1
         /\ store' = AppendRow(store, BacklogFrame, event.id, PreTrigger)
<1>1. event \in Event
  BY DEF Inv, TypeOK
<1>2. event' = EventSaved([event EXCEPT !.backlog = @ - 1])
  BY DEF Backlog
<1>3. /\ event'.id = event.id /\ event'.rearmUntil = event.rearmUntil
      /\ event'.active = event.active /\ event'.post = event.post
      /\ event'.startTs = event.startTs
      /\ event'.startRow = event.startRow
      /\ event'.saved = event.saved + 1
      /\ event'.backlog = event.backlog - 1
  BY <1>1, <1>2 DEF Event, EventSaved
<1> QED
  BY <1>3 DEF Backlog

\* Trigger: the frame appended as active starts the event, and the ring is empty.
LEMMA TriggerEffect ==
  ASSUME Inv, Trigger
  PROVE  /\ pc = "trigger" /\ event.backlog = 0
         /\ FrameDone /\ cuts' = cuts /\ pre' = <<>>
         /\ event'.id = event.id /\ event'.rearmUntil = event.rearmUntil
         /\ event'.active = TRUE /\ event'.post = event.post
         /\ event'.startTs = ThisFrame.ts
         /\ event'.startRow = event.startRow
         /\ event'.saved = event.saved + 1
         /\ store' = AppendRow(store, ThisFrame, event.id, Active)
<1>1. event \in Event
  BY DEF Inv, TypeOK
<1>2. event' = EventSaved([event EXCEPT !.active = TRUE, !.startTs = ThisFrame.ts])
  BY DEF Trigger
<1>3. /\ event'.id = event.id /\ event'.rearmUntil = event.rearmUntil
      /\ event'.active = TRUE /\ event'.post = event.post
      /\ event'.startTs = ThisFrame.ts
      /\ event'.startRow = event.startRow
      /\ event'.saved = event.saved + 1
  BY <1>1, <1>2 DEF Event, EventSaved
<1> QED
  BY <1>3 DEF Trigger

\* InhibitedFrame: nothing is remembered.
LEMMA InhibitedEffect ==
  ASSUME InhibitedFrame
  PROVE  /\ pc = "ready" /\ Inhibited
         /\ FrameDone /\ cuts' = cuts /\ pre' = <<>>
         /\ event' = event
         /\ store' = Ticked
  BY DEF InhibitedFrame, FrameArrives

\* The steps that end the process, and the one that starts the next.
LEMMA NotRunning ==
  ASSUME WriteFails \/ Stop
  PROVE  ~(Running') /\ session' = session /\ startTs' = startTs /\ cuts' = cuts
         /\ event' = event
  BY DEF WriteFails, Stop, Running

\* Restart: a new session without an event, a ring or a rearm time.
LEMMA RestartEffect ==
  ASSUME Restart
  PROVE  /\ pc' = "ready" /\ session' = session + 1 /\ nextIndex' = 0
         /\ pre' = <<>> /\ cuts' = cuts
         /\ event'.id = 0 /\ event'.rearmUntil = 0
         /\ event'.active = FALSE /\ event'.post = 0 /\ event'.startTs = 0
  BY DEF Restart, NoEvent

-----------------------------------------------------------------------------
(***************************************************************************)
(* The recorder's state between two frames.                                *)
(***************************************************************************)
\* An event has a start time exactly while it is open, and it lies behind.
EventTracked ==
  Running =>
    /\ event.startTs # 0 <=> InEvent
    /\ InEvent => pc = "ready" /\ event.startTs < ThisFrame.ts
    /\ event.post <= PostFrames
    /\ event.active => event.post = 0

\* The rearm time is that of the last cut of this process; what is remembered
\* and what is recorded next come after every cut and its inhibit interval.
RearmKnown ==
  Running =>
    /\ event.rearmUntil # 0 =>
         /\ pre = <<>>
         /\ \E c \in cuts : c.session = session /\ event.rearmUntil = c.ts + Rearm
    /\ EventOpen => event.rearmUntil = 0
    /\ \A c \in cuts : c.session = session =>
         /\ c.ts < ThisFrame.ts
         /\ c.ts + Rearm <= IF event.rearmUntil = 0 THEN ThisFrame.ts
                                                    ELSE event.rearmUntil
         /\ \A i \in 1 .. Len(pre) : pre[i].ts > c.ts /\ pre[i].ts >= c.ts + Rearm

\* The ring holds the last frames, stamped as the stream goes, and ends with the
\* last one whenever an event may begin.
RingRecent ==
  Running =>
    /\ Len(pre) <= PreFrames
    /\ \A i \in 1 .. Len(pre) :
         /\ pre[i].ts = startTs + 1 + pre[i].index
         /\ pre[i].index + Len(pre) - i < nextIndex
    /\ ~InEvent /\ pre # <<>> => pre[Len(pre)].index = nextIndex - 1
    /\ PostFrames = 0 /\ InEvent => pre = <<>>

\* The clock of the frames.
LEMMA Clock ==
  ASSUME TypeOK
  PROVE  /\ ThisFrame.ts = startTs + 1 + nextIndex
         /\ ThisFrame.ts \in Nat /\ ThisFrame.ts > 0
         /\ ThisFrame.index = nextIndex
         /\ FrameDone => ThisFrame'.ts = ThisFrame.ts + 1
         /\ UNCHANGED <<session, startTs, nextIndex>> => ThisFrame' = ThisFrame
  BY DEF TypeOK, ThisFrame, FrameDone

\* The numbers of the event record.
LEMMA EventNumbers ==
  ASSUME TypeOK
  PROVE  /\ event.post \in Nat /\ event.startTs \in Nat /\ event.startRow \in Nat
         /\ event.saved \in Nat /\ event.rearmUntil \in Nat /\ event.id \in Nat
         /\ event.backlog \in Nat /\ event.active \in BOOLEAN
  BY DEF TypeOK, Event

\* Every step preserves EventTracked.
LEMMA EventTrackedStep ==
  ASSUME Inv, EventTracked, Next
  PROVE  EventTracked'
<1>1. /\ TypeOK
      /\ ThisFrame.ts \in Nat /\ ThisFrame.ts > 0
      /\ FrameDone => ThisFrame'.ts = ThisFrame.ts + 1
      /\ UNCHANGED <<session, startTs, nextIndex>> => ThisFrame' = ThisFrame
      /\ event.post \in Nat /\ event.startTs \in Nat /\ event.active \in BOOLEAN
      /\ PostFrames \in Nat
  BY Clock, EventNumbers, RecorderAssumption DEF Inv
<1>2. CASE InhibitedFrame
  BY <1>1, <1>2, InhibitedEffect, DoneEffect DEF EventTracked, Running, InEvent
<1>3. CASE CutEvent
  BY <1>1, <1>3, CutEffect, DoneEffect DEF EventTracked, InEvent, EventEnded
<1>4. ASSUME NEW above \in BOOLEAN, ActiveFrame(above)
      PROVE  EventTracked'
  <2>1. /\ pc = "ready" /\ event.active /\ FrameDone /\ Running /\ InEvent
        /\ IF EndsAtTriggerOff(above)
           THEN EventEnded
           ELSE /\ event'.startTs = event.startTs
                /\ event'.active = above
                /\ event'.post = IF above THEN event.post ELSE PostFrames
    BY <1>4, ActiveEffect DEF EventGoesOn, Running, InEvent
  <2>2. CASE EndsAtTriggerOff(above)
    BY <1>1, <2>1, <2>2, DoneEffect DEF EventTracked, InEvent, EventEnded
  <2>3. CASE ~EndsAtTriggerOff(above)
    <3>1. above \/ PostFrames > 0
      BY <1>1, <2>3 DEF EndsAtTriggerOff
    <3> QED
      BY <1>1, <2>1, <2>3, <3>1, DoneEffect DEF EventTracked, InEvent
  <2> QED
    BY <2>2, <2>3
<1>5. ASSUME NEW above \in BOOLEAN, PostFrame(above)
      PROVE  EventTracked'
  <2>1. /\ pc = "ready" /\ event.post > 0 /\ FrameDone /\ Running /\ InEvent
        /\ IF ~above /\ event.post = 1
           THEN EventEnded
           ELSE /\ event'.startTs = event.startTs
                /\ event'.active = above
                /\ event'.post = IF above THEN 0 ELSE event.post - 1
    BY <1>5, PostEffect DEF EventGoesOn, Running, InEvent
  <2>2. CASE ~above /\ event.post = 1
    BY <1>1, <2>1, <2>2, DoneEffect DEF EventTracked, InEvent, EventEnded
  <2>3. CASE above
    <3>1. event'.active /\ event'.post = 0 /\ event'.startTs = event.startTs
      BY <2>1, <2>3, Zenon
    <3>2. event.startTs # 0 /\ event.startTs < ThisFrame.ts
      BY <2>1 DEF EventTracked
    <3>3. pc' = "ready" /\ ThisFrame'.ts = ThisFrame.ts + 1
      BY <1>1, <2>1, DoneEffect
    <3> QED
      BY <1>1, <3>1, <3>2, <3>3 DEF EventTracked, InEvent
  <2>4. CASE ~above /\ event.post # 1
    <3>1. event'.post > 0 /\ event'.post <= PostFrames /\ event'.active = FALSE
      BY <1>1, <2>1, <2>4 DEF EventTracked
    <3> QED
      BY <1>1, <2>1, <2>4, <3>1, DoneEffect DEF EventTracked, InEvent
  <2> QED
    BY <2>2, <2>3, <2>4
<1>6. CASE IdleFrame
  BY <1>1, <1>6, IdleEffect, DoneEffect DEF EventTracked, InEvent, Running
<1>7. CASE TriggerOn
  BY <1>1, <1>7, TriggerOnEffect DEF EventTracked, InEvent, Running
<1>8. CASE Backlog
  BY <1>1, <1>8, BacklogEffect DEF EventTracked, InEvent, Running
<1>9. CASE Trigger
  <2>1. ~InEvent
    BY <1>9, TriggerEffect DEF EventTracked, Running
  <2>2. event.post = 0
    BY <1>1, <2>1 DEF InEvent
  <2> QED
    <3>1. /\ event'.active /\ event'.post = 0 /\ event'.startTs = ThisFrame.ts
          /\ pc' = "ready" /\ ThisFrame'.ts = ThisFrame.ts + 1
      BY <1>1, <1>9, <2>2, TriggerEffect, DoneEffect
    <3> QED
      BY <1>1, <3>1 DEF EventTracked, InEvent
<1>10. CASE WriteFails \/ Stop
  BY <1>10, NotRunning DEF EventTracked
<1>11. CASE Restart
  <2>1. ~event'.active /\ event'.post = 0 /\ event'.startTs = 0
    BY <1>11, RestartEffect
  <2> QED
    BY <1>1, <2>1 DEF EventTracked, InEvent
<1> QED
  BY <1>2, <1>3, <1>4, <1>5, <1>6, <1>7, <1>8, <1>9, <1>10, <1>11 DEF Next, Consume

\* A frame that is not inhibited comes after every cut and its inhibit interval.
LEMMA PastCuts ==
  ASSUME Inv, RearmKnown, Running, ~Inhibited
  PROVE  /\ PreOnRearm = pre
         /\ \A c \in cuts : c.session = session =>
              c.ts < ThisFrame.ts /\ c.ts + Rearm <= ThisFrame.ts
<1>1. PreOnRearm = pre
  BY DEF RearmKnown, PreOnRearm
<1>2. /\ cuts \subseteq Cut /\ ThisFrame.ts \in Nat /\ event.rearmUntil \in Nat
      /\ Rearm \in Nat
  BY Clock, EventNumbers, RecorderAssumption DEF Inv, TypeOK
<1>3. event.rearmUntil = 0 \/ event.rearmUntil <= ThisFrame.ts
  BY <1>2 DEF Inhibited
<1>4. ASSUME NEW c \in cuts, c.session = session
      PROVE  c.ts < ThisFrame.ts /\ c.ts + Rearm <= ThisFrame.ts
  <2>1. c.ts \in Nat
    BY <1>2 DEF Cut
  <2>2. /\ c.ts < ThisFrame.ts
        /\ c.ts + Rearm <= IF event.rearmUntil = 0 THEN ThisFrame.ts
                                                   ELSE event.rearmUntil
    BY <1>4 DEF RearmKnown
  <2> QED
    BY <1>2, <1>3, <2>1, <2>2
<1> QED
  BY <1>1, <1>4

\* What follows when no cut is added, the clock goes on and the ring holds only
\* frames that came after every cut.
LEMMA StillPastCuts ==
  ASSUME Inv, RearmKnown, Running, ~Inhibited, session' = session, cuts' = cuts,
         event'.rearmUntil = 0,
         ThisFrame'.ts \in Nat, ThisFrame'.ts >= ThisFrame.ts,
         \A i \in 1 .. Len(pre') : pre'[i] = ThisFrame \/ \E j \in 1 .. Len(pre) : pre'[i] = pre[j]
  PROVE  RearmKnown'
<1>1. cuts \subseteq Cut /\ ThisFrame.ts \in Nat /\ Rearm \in Nat
  BY Clock, RecorderAssumption DEF Inv, TypeOK
<1>2. ASSUME NEW c \in cuts, c.session = session
      PROVE  /\ c.ts < ThisFrame'.ts /\ c.ts + Rearm <= ThisFrame'.ts
             /\ \A i \in 1 .. Len(pre') : pre'[i].ts > c.ts /\ pre'[i].ts >= c.ts + Rearm
  <2>1. c.ts \in Nat
    BY <1>1 DEF Cut
  <2>2. c.ts < ThisFrame.ts /\ c.ts + Rearm <= ThisFrame.ts
    BY <1>2, PastCuts
  <2>3. \A j \in 1 .. Len(pre) : pre[j].ts > c.ts /\ pre[j].ts >= c.ts + Rearm
    BY <1>2 DEF RearmKnown
  <2>4. ThisFrame.ts > c.ts /\ ThisFrame.ts >= c.ts + Rearm
    BY <1>1, <2>1, <2>2
  <2>5. \A i \in 1 .. Len(pre') : pre'[i].ts > c.ts /\ pre'[i].ts >= c.ts + Rearm
    BY <2>3, <2>4
  <2>6. c.ts < ThisFrame'.ts /\ c.ts + Rearm <= ThisFrame'.ts
    BY <1>1, <2>1, <2>2
  <2> QED
    BY <2>5, <2>6
<1> QED
  BY <1>2 DEF RearmKnown

\* Every step preserves RearmKnown.
LEMMA RearmKnownStep ==
  ASSUME Inv, EventTracked, RearmKnown, Next
  PROVE  RearmKnown'
<1>1. /\ TypeOK
      /\ ThisFrame.ts \in Nat /\ ThisFrame.ts > 0
      /\ FrameDone => ThisFrame'.ts = ThisFrame.ts + 1
      /\ UNCHANGED <<session, startTs, nextIndex>> => ThisFrame' = ThisFrame
      /\ Rearm \in Nat /\ cuts \subseteq Cut /\ session \in Nat
      /\ ThisFrame \in Frame /\ pre \in Seq(Frame)
  BY Clock, ThisFrameTyped, RecorderAssumption DEF Inv, TypeOK
<1>2. CASE InhibitedFrame
  <2>1. /\ event' = event /\ pre' = <<>> /\ cuts' = cuts /\ session' = session
        /\ pc' = "ready" /\ Running /\ event.rearmUntil # 0
        /\ ThisFrame'.ts = ThisFrame.ts + 1
    BY <1>1, <1>2, InhibitedEffect, DoneEffect DEF Running, Inhibited
  <2>2. ~(EventOpen')
    BY <2>1 DEF RearmKnown, EventOpen, InEvent
  <2>3. ASSUME NEW c \in cuts, c.session = session
        PROVE  c.ts < ThisFrame'.ts /\ c.ts + Rearm <= event.rearmUntil
    <3>1. c.ts \in Nat /\ c.ts < ThisFrame.ts /\ c.ts + Rearm <= event.rearmUntil
      BY <1>1, <2>1, <2>3 DEF RearmKnown, Cut
    <3> QED
      BY <1>1, <2>1, <3>1
  <2> QED
    BY <2>1, <2>2, <2>3 DEF RearmKnown
<1>3. CASE CutEvent
  <2>1. /\ event'.rearmUntil = ThisFrame.ts + Rearm /\ pre' = <<>>
        /\ session' = session /\ Running /\ ~Inhibited
        /\ ThisFrame'.ts = ThisFrame.ts + 1
        /\ cuts' = cuts \cup {[session |-> session, id |-> event.id,
                               ts |-> ThisFrame.ts, discarded |-> discards]}
    BY <1>1, <1>3, CutEffect, DoneEffect DEF Running, RearmTime
  <2>2. ~(EventOpen') /\ event'.rearmUntil # 0
    <3>1. ~event'.active /\ event'.post = 0 /\ pc' = "ready"
      BY <1>3, CutEffect, DoneEffect DEF EventEnded
    <3> QED
      BY <1>1, <2>1, <3>1 DEF EventOpen, InEvent
  <2>3. ASSUME NEW c \in cuts', c.session = session
        PROVE  c.ts < ThisFrame'.ts /\ c.ts + Rearm <= event'.rearmUntil
    <3>1. CASE c \in cuts
      <4>1. c.ts \in Nat /\ c.ts < ThisFrame.ts /\ c.ts + Rearm <= ThisFrame.ts
        BY <1>1, <2>1, <2>3, <3>1, PastCuts DEF Cut
      <4> QED
        BY <1>1, <2>1, <4>1
    <3>2. CASE c.ts = ThisFrame.ts
      BY <1>1, <2>1, <3>2
    <3> QED
      BY <2>1, <3>1, <3>2
  <2>4. \E c \in cuts' : c.session = session' /\ event'.rearmUntil = c.ts + Rearm
    <3> DEFINE new == [session |-> session, id |-> event.id,
                       ts |-> ThisFrame.ts, discarded |-> discards]
    <3>1. new \in cuts' /\ new.session = session /\ new.ts = ThisFrame.ts
      BY <2>1
    <3> HIDE DEF new
    <3> QED
      BY <2>1, <3>1
  <2> QED
    BY <2>1, <2>2, <2>3, <2>4 DEF RearmKnown
<1>4. ASSUME NEW above \in BOOLEAN, ActiveFrame(above) \/ PostFrame(above) \/ IdleFrame
      PROVE  RearmKnown'
  <2>1. /\ pc = "ready" /\ Running /\ ~Inhibited /\ FrameDone /\ cuts' = cuts
        /\ event'.rearmUntil = 0
        /\ pre' \in {PreOnRearm, Remember(PreOnRearm, ThisFrame)}
    BY <1>4, ActiveEffect, PostEffect, IdleEffect DEF Running
  <2>2. session' = session /\ ThisFrame'.ts \in Nat /\ ThisFrame'.ts >= ThisFrame.ts
    BY <1>1, <2>1, DoneEffect
  <2>3. PreOnRearm = pre
    BY <2>1, PastCuts
  <2>4. \A i \in 1 .. Len(pre') :
          pre'[i] = ThisFrame \/ \E j \in 1 .. Len(pre) : pre'[i] = pre[j]
    <3>1. \A i \in 1 .. Len(Remember(pre, ThisFrame)) :
            \/ Remember(pre, ThisFrame)[i] = ThisFrame
            \/ \E j \in 1 .. Len(pre) : Remember(pre, ThisFrame)[i] = pre[j]
      BY <1>1, RememberTyped, Zenon
    <3>2. CASE pre' = pre
      BY <3>2
    <3>3. CASE pre' = Remember(pre, ThisFrame)
      BY <3>1, <3>3, Zenon
    <3> QED
      BY <2>1, <2>3, <3>2, <3>3
  <2> QED
    BY <2>1, <2>2, <2>4, StillPastCuts
<1>5. CASE TriggerOn
  <2>1. /\ pc = "ready" /\ Running /\ ~Inhibited /\ cuts' = cuts /\ session' = session
        /\ event'.rearmUntil = 0 /\ pre' = PreOnRearm /\ ThisFrame' = ThisFrame
    BY <1>1, <1>5, TriggerOnEffect DEF Running
  <2>2. PreOnRearm = pre
    BY <2>1, PastCuts
  <2>3. ThisFrame'.ts \in Nat /\ ThisFrame'.ts >= ThisFrame.ts
    BY <1>1, <2>1
  <2> QED
    BY <2>1, <2>2, <2>3, StillPastCuts
<1>6. CASE Backlog \/ Trigger
  <2>1. /\ pc = "trigger" /\ Running /\ EventOpen /\ cuts' = cuts /\ session' = session
        /\ event'.rearmUntil = event.rearmUntil /\ pre' \in {pre, <<>>}
        /\ FrameDone \/ UNCHANGED <<session, startTs, nextIndex>>
    BY <1>6, BacklogEffect, TriggerEffect, DoneEffect DEF Running, EventOpen
  <2>2. event.rearmUntil = 0 /\ ~Inhibited
    BY <2>1 DEF RearmKnown, Inhibited
  <2>3. ThisFrame'.ts \in Nat /\ ThisFrame'.ts >= ThisFrame.ts
    BY <1>1, <2>1
  <2>4. \A i \in 1 .. Len(pre') : \E j \in 1 .. Len(pre) : pre'[i] = pre[j]
    BY <2>1
  <2> QED
    BY <2>1, <2>2, <2>3, <2>4, StillPastCuts
<1>7. CASE WriteFails \/ Stop
  BY <1>7, NotRunning DEF RearmKnown
<1>8. CASE Restart
  <2>1. /\ session' = session + 1 /\ cuts' = cuts /\ event'.rearmUntil = 0 /\ pre' = <<>>
    BY <1>8, RestartEffect
  <2>2. \A c \in cuts : c.session # session'
    BY <1>1, <2>1 DEF Inv, CutsNamed, Cut
  <2> QED
    BY <2>1, <2>2 DEF RearmKnown
<1> QED
  BY <1>2, <1>3, <1>4, <1>5, <1>6, <1>7, <1>8 DEF Next, Consume

-----------------------------------------------------------------------------
(***************************************************************************)
(* The row that a step adds.                                               *)
(***************************************************************************)
\* The frame that is to be recorded next, and in which state.
RecFrame == IF pc = "trigger" /\ event.backlog > 0 THEN BacklogFrame ELSE ThisFrame

RecState ==
  IF pc = "trigger" THEN (IF event.backlog > 0 THEN PreTrigger ELSE Active)
                    ELSE (IF event.active THEN Active ELSE PostTrigger)

\* The recorder is about to append a row: in an event, or at its trigger.
Recording == Running /\ EventOpen /\ (pc = "ready" => Detects)

\* A new row, if there is one, has the given state.
HasState(s, t, state) ==
  Len(OpenFile(t).rows) = s.rows + 1 => OpenFile(t).rows[s.rows + 1].state = state

\* append(), whether it throws or returns, writes the state it is given.
LEMMA AppendsState ==
  ASSUME NEW s, StorageInv(s), NEW f \in Frame, PreviousOK(s, f.session),
         NEW id \in Nat, NEW state \in {0, 1, 2},
         NEW t \in FailedAppends(s, f, id, state)
  PROVE  HasState(s, t, state)
<1>1. /\ s.rows \in Nat /\ s.rows = Len(OpenFile(s).rows) /\ OpenFile(s).rows \in Seq(Row)
      /\ s.day \in DOMAIN s.disk
  BY DEF StorageInv, StorageOK, CountsOK, OpenFile, File
<1>2. CASE t = s \/ t = PrefixOnly(s, f)
  <2>1. OpenFile(PrefixOnly(s, f)).rows = OpenFile(s).rows
    BY DEF PrefixOnly, OpenFile, StorageInv, StorageOK, File
  <2> QED
    BY <1>1, <1>2, <2>1 DEF HasState
<1>3. ASSUME NEW row, row.state = state, t = WithRow(s, f, row)
      PROVE  HasState(s, t, state)
  <2>1. OpenFile(t).rows = Append(SubSeq(OpenFile(s).rows, 1, s.rows), row)
    BY <1>1, <1>3 DEF WithRow, OpenFile, StorageInv, StorageOK
  <2>2. SubSeq(OpenFile(s).rows, 1, s.rows) = OpenFile(s).rows
    BY <1>1
  <2>3. OpenFile(t).rows[s.rows + 1] = row
    BY <1>1, <2>1, <2>2
  <2> QED
    BY <1>3, <2>3 DEF HasState
<1>4. CASE t = AppendRow(s, f, id, state)
  BY <1>3, <1>4 DEF AppendRow, RowFor
<1>5. CASE t \in { WithRow(s, f, row) : row \in TornRows(s, f, id, state) }
  <2>1. PICK row \in TornRows(s, f, id, state) : t = WithRow(s, f, row)
    BY <1>5
  <2>2. row.state = state
    BY <2>1 DEF TornRows, RowFor
  <2> QED
    BY <1>3, <2>1, <2>2
<1> QED
  BY <1>2, <1>4, <1>5 DEF FailedAppends

\* The files have a row more, in the open file, of the frame to be recorded.
RowAdded(disk) ==
  /\ Recording
  /\ DOMAIN store.disk \subseteq DOMAIN disk
  /\ \A d \in DOMAIN disk :
       IF d \in DOMAIN store.disk \ {store.day} THEN disk[d] = store.disk[d]
       ELSE d = store.day \/ disk[d] = EmptyFile
  /\ \A r \in 1 .. store.rows : disk[store.day].rows[r] = store.disk[store.day].rows[r]
  /\ Len(disk[store.day].rows) \in store.rows .. store.rows + 1
  /\ Len(disk[store.day].rows) = store.rows + 1 =>
       LET row == disk[store.day].rows[store.rows + 1]
       IN row.frame = RecFrame /\ row.event = event.id /\ row.state = RecState

\* The open event is dropped: by a cut, or by a truncation that then throws.
EventDropped(disk) == Running /\ InEvent /\ DropsEvent(store.disk, disk)

\* What append() leaves behind, files opened after it included, is RowAdded.
LEMMA AppendAddsRow ==
  ASSUME Inv, Recording, NEW t \in FailedAppends(store, RecFrame, event.id, RecState),
         NEW disk, OpenedOnly(t.disk, disk)
  PROVE  RowAdded(disk)
<1>1. /\ RecFrame \in Frame /\ RecFrame.session = session
      /\ StorageInv(store) /\ PreviousOK(store, session)
      /\ event.id \in Nat /\ RecState \in {0, 1, 2}
      /\ store.day \in DOMAIN store.disk
  BY BacklogFrameTyped, ThisFrameTyped, EventNumbers DEF Inv, StorageSound, Recording, RecFrame,
     RecState, PreTrigger, Active, PostTrigger, StorageInv, StorageOK
<1>2. Adds(store, t, RecFrame, event.id) /\ HasState(store, t, RecState)
  BY <1>1, FailedAppendAdds, AppendsState
<1>3. \A d \in DOMAIN t.disk : disk[d] = t.disk[d]
  BY DEF OpenedOnly
<1>4. disk[store.day] = OpenFile(t)
  BY <1>1, <1>2, <1>3 DEF Adds, OpenFile
<1>5. OpenFile(store) = store.disk[store.day]
  BY DEF OpenFile
<1> QED
  BY <1>2, <1>3, <1>4, <1>5 DEF RowAdded, Adds, HasState, OpenedOnly

\* A completed append().
LEMMA AppendedRow ==
  ASSUME NEW s, StorageInv(s), NEW f, NEW id, NEW state
  PROVE  LET t == AppendRow(s, f, id, state)
         IN /\ t.day = s.day /\ t.rows = s.rows + 1
            /\ DOMAIN t.disk = DOMAIN s.disk
            /\ \A d \in DOMAIN s.disk \ {s.day} : t.disk[d] = s.disk[d]
            /\ Len(OpenFile(t).rows) = s.rows + 1
            /\ \A r \in 1 .. s.rows : OpenFile(t).rows[r] = OpenFile(s).rows[r]
            /\ OpenFile(t).rows[s.rows + 1].frame = f
            /\ OpenFile(t).rows[s.rows + 1].event = id
            /\ OpenFile(t).rows[s.rows + 1].state = state
<1> DEFINE t == AppendRow(s, f, id, state)
           row == RowFor(s, f, id, state)
           old == OpenFile(s).rows
<1>1. /\ s.rows \in Nat /\ s.rows = Len(old) /\ old \in Seq(Row)
      /\ s.day \in DOMAIN s.disk
  BY DEF StorageInv, StorageOK, CountsOK, OpenFile, File
<1>2. row.frame = f /\ row.event = id /\ row.state = state
  BY DEF RowFor
<1>3. SubSeq(old, 1, s.rows) = old
  BY <1>1
<1>4. /\ t.day = s.day /\ t.rows = s.rows + 1
      /\ DOMAIN t.disk = DOMAIN s.disk
      /\ \A d \in DOMAIN s.disk \ {s.day} : t.disk[d] = s.disk[d]
      /\ OpenFile(t).rows = Append(SubSeq(old, 1, s.rows), row)
  BY <1>1 DEF AppendRow, WithRow, OpenFile, StorageInv, StorageOK
<1> HIDE DEF t, row, old
<1>5. /\ Len(Append(old, row)) = s.rows + 1
      /\ \A r \in 1 .. s.rows : Append(old, row)[r] = old[r]
      /\ Append(old, row)[s.rows + 1] = row
  BY <1>1
<1> QED
  BY <1>2, <1>3, <1>4, <1>5 DEF t, old

\* A step that leaves the files alone opens none.
LEMMA SelfOpened == \A disk : OpenedOnly(disk, disk)
  BY DEF OpenedOnly

\* The steps that record a frame.
Records == \/ \E above \in BOOLEAN : ActiveFrame(above) \/ PostFrame(above)
           \/ Backlog
           \/ Trigger

RecordedStore == {AppendRow(store, RecFrame, event.id, RecState),
                  Tick(AppendRow(store, RecFrame, event.id, RecState), ThisFrame.ts, FALSE)}

\* A step that records appends the frame and state of RecFrame and RecState.
LEMMA RecordingSteps ==
  ASSUME Inv, Records
  PROVE  Recording /\ store' \in RecordedStore
<1>1. ASSUME NEW above \in BOOLEAN, ActiveFrame(above) \/ PostFrame(above)
      PROVE  Recording /\ store' \in RecordedStore
  <2>1. /\ pc = "ready" /\ Recording /\ RecFrame = ThisFrame
    BY <1>1 DEF ActiveFrame, PostFrame, Detects, FrameArrives, Recording, Running,
       EventOpen, InEvent, RecFrame
  <2>2. CASE ActiveFrame(above)
    <3>1. RecState = Active
      BY <2>1, <2>2 DEF ActiveFrame, RecState
    <3> QED
      BY <2>1, <2>2, <3>1, ActiveEffect DEF RecordedStore
  <2>3. CASE PostFrame(above)
    <3>1. RecState = PostTrigger
      BY <2>1, <2>3 DEF PostFrame, RecState
    <3> QED
      BY <2>1, <2>3, <3>1, PostEffect DEF RecordedStore
  <2> QED
    BY <1>1, <2>2, <2>3
<1>2. CASE Backlog \/ Trigger
  <2>1. pc = "trigger" /\ Recording
    BY <1>2 DEF Backlog, Trigger, Recording, Running, EventOpen
  <2>2. store' = AppendRow(store, RecFrame, event.id, RecState)
    BY <1>2 DEF Backlog, Trigger, RecFrame, RecState
  <2> QED
    BY <2>1, <2>2 DEF RecordedStore
<1> QED
  BY <1>1, <1>2 DEF Records

\* Such a step adds exactly one row, to the file that was open.
LEMMA RecordedDisk ==
  ASSUME Inv, Recording, store' \in RecordedStore
  PROVE  /\ RowAdded(store'.disk)
         /\ Len(store'.disk[store.day].rows) = store.rows + 1
<1> DEFINE s == AppendRow(store, RecFrame, event.id, RecState)
<1>1. s \in FailedAppends(store, RecFrame, event.id, RecState)
  BY DEF FailedAppends
<1>2. /\ RecFrame \in Frame /\ RecFrame.session = session
      /\ StorageInv(store) /\ PreviousOK(store, session)
      /\ event.id \in Nat /\ RecState \in {0, 1, 2}
  BY BacklogFrameTyped, ThisFrameTyped, EventNumbers DEF Inv, StorageSound,
     Recording, RecFrame, RecState, PreTrigger, Active, PostTrigger
<1>3. StorageInv(s) /\ ThisFrame.ts \in Nat
  BY <1>2, AppendStorage, Clock DEF Inv
<1>4. OpenedOnly(s.disk, store'.disk)
  <2> HIDE DEF s
  <2>1. store' = s \/ store' = Tick(s, ThisFrame.ts, FALSE)
    BY DEF RecordedStore, s
  <2> QED
    BY <1>3, <2>1, TickOpens, SelfOpened
<1>5. /\ DOMAIN s.disk = DOMAIN store.disk /\ s.day = store.day
      /\ Len(OpenFile(s).rows) = store.rows + 1
  BY <1>2, AppendedRow
<1> HIDE DEF s
<1>6. store'.disk[store.day] = OpenFile(s)
  <2>1. store.day \in DOMAIN s.disk
    BY <1>2, <1>5 DEF StorageInv, StorageOK
  <2> QED
    BY <1>4, <1>5, <2>1 DEF OpenedOnly, OpenFile
<1> QED
  BY <1>1, <1>4, <1>5, <1>6, AppendAddsRow DEF s

\* Every step opens files, adds a row, or drops the open event.
LEMMA StepKinds ==
  ASSUME Inv, Next
  PROVE  \/ OpenedOnly(store.disk, store'.disk)
         \/ RowAdded(store'.disk)
         \/ EventDropped(store'.disk)
<1>1. CASE InhibitedFrame \/ IdleFrame \/ TriggerOn
  <2>1. store' = Ticked /\ Running
    BY <1>1 DEF InhibitedFrame, IdleFrame, TriggerOn, Detects, FrameArrives, Running
  <2> QED
    BY <2>1, TickedSound
<1>2. CASE CutEvent
  <2>1. /\ Running /\ InEvent
        /\ store' = Tick(IF discards THEN TruncateRows(Ticked, event.startRow)
                                     ELSE Ticked, ThisFrame.ts, FALSE)
    BY <1>2 DEF CutEvent, FrameArrives, TooLong, Running
  <2>2. CASE discards
    BY <1>2, <2>1, <2>2, CutStorage DEF EventDropped
  <2>3. CASE ~discards
    <3>1. Ticked = store /\ StorageInv(store) /\ ThisFrame.ts \in Nat
      BY <2>1, TickedSound, Clock DEF Inv, StorageSound
    <3> QED
      BY <2>1, <2>3, <3>1, TickOpens
  <2> QED
    BY <2>2, <2>3
<1>3. CASE Records
  BY <1>3, RecordingSteps, RecordedDisk
<1>6. CASE WriteFails
  <2>1. CASE /\ Detects
             /\ InEvent
             /\ store' \in FailedAppends(Ticked, ThisFrame, event.id,
                             IF event.active THEN Active ELSE PostTrigger)
    <3>1. pc = "ready" /\ Recording /\ RecFrame = ThisFrame /\ Running
      BY <2>1 DEF Detects, FrameArrives, Recording, Running, EventOpen, RecFrame
    <3>2. Ticked = store /\ RecState = IF event.active THEN Active ELSE PostTrigger
      BY <2>1, <3>1, TickedSound DEF RecState
    <3> QED
      BY <2>1, <3>1, <3>2, AppendAddsRow, SelfOpened
  <2>2. CASE /\ FrameArrives /\ ~Inhibited /\ TooLong /\ discards
             /\ store' \in {Ticked, TruncateRows(Ticked, event.startRow)}
    <3>1. Running /\ InEvent
      BY <2>2 DEF FrameArrives, TooLong, Running
    <3>2. Ticked = store
      BY <3>1, TickedSound
    <3> QED
      BY <2>2, <3>1, <3>2, TruncateSound, SelfOpened DEF EventDropped
  <2>3. CASE /\ pc = "trigger"
             /\ store' \in IF event.backlog > 0
                           THEN FailedAppends(store, BacklogFrame, event.id, PreTrigger)
                           ELSE FailedAppends(store, ThisFrame, event.id, Active)
    <3>1. Recording
      BY <2>3 DEF Recording, Running, EventOpen
    <3>2. store' \in FailedAppends(store, RecFrame, event.id, RecState)
      BY <2>3 DEF RecFrame, RecState
    <3> QED
      BY <3>1, <3>2, AppendAddsRow, SelfOpened
  <2> QED
    BY <1>6, <2>1, <2>2, <2>3 DEF WriteFails
<1>7. CASE Stop
  BY <1>7, SelfOpened DEF Stop
<1>8. CASE Restart
  BY <1>8, RestartStorage, OpenOpens, DayOfInt, Clock DEF Restart, Inv, StorageSound, StorageInv
<1> QED
  BY <1>1, <1>2, <1>3, <1>6, <1>7, <1>8 DEF Next, Consume, Records

\* The rows of the files are rows, with numbers in them.
LEMMA DiskRows ==
  ASSUME NEW disk, DiskOK(disk), NEW d \in DOMAIN disk
  PROVE  /\ DOMAIN disk[d].rows = 1 .. Len(disk[d].rows)
         /\ Len(disk[d].rows) \in Nat
         /\ \A r \in 1 .. Len(disk[d].rows) :
              /\ disk[d].rows[r] \in Row
              /\ disk[d].rows[r].frame \in Frame
              /\ disk[d].rows[r].frame.session \in Nat
              /\ disk[d].rows[r].frame.index \in Nat
              /\ disk[d].rows[r].frame.ts \in Nat
              /\ disk[d].rows[r].event \in Nat
              /\ disk[d].rows[r].state \in {0, 1, 2}
<1>1. disk[d].rows \in Seq(Row)
  BY DEF DiskOK, File
<1>2. Len(disk[d].rows) \in Nat /\ DOMAIN disk[d].rows = 1 .. Len(disk[d].rows)
  BY <1>1
<1>3. \A r \in 1 .. Len(disk[d].rows) : disk[d].rows[r] \in Row
  BY <1>1, ElementOfSeq
<1>4. \A row \in Row : /\ row.frame \in Frame
                       /\ row.event \in Nat /\ row.state \in {0, 1, 2}
  BY DEF Row
<1>5. \A f \in Frame : f.session \in Nat /\ f.index \in Nat /\ f.ts \in Nat
  BY DEF Frame
<1> QED
  BY <1>2, <1>3, <1>4, <1>5

\* The files are in order, and the open one has store.rows rows.
LEMMA Disks ==
  ASSUME Inv
  PROVE  /\ DiskOK(store.disk)
         /\ store.day \in DOMAIN store.disk /\ store.rows \in Nat
         /\ store.rows = Len(store.disk[store.day].rows)
         /\ OpenFile(store) = store.disk[store.day]
         /\ Next => DiskOK(store'.disk)
  BY EveryStorageStep DEF Inv, StorageSound, StorageInv, StorageStep, CountsOK, StorageOK,
     OpenFile

\* A row after a step is an old one, or the last of the file that was open, and
\* then it is the one that was to be recorded.
LEMMA RowAfter ==
  ASSUME Inv, Next, NEW d \in DOMAIN store'.disk,
         NEW r \in 1 .. Len(store'.disk[d].rows)
  PROVE  LET row == store'.disk[d].rows[r]
         IN \/ /\ d \in DOMAIN store.disk
               /\ r \in 1 .. Len(store.disk[d].rows)
               /\ row = store.disk[d].rows[r]
            \/ /\ RowAdded(store'.disk)
               /\ d = store.day /\ r = store.rows + 1 /\ r = Len(store'.disk[d].rows)
               /\ row.frame = RecFrame /\ row.event = event.id /\ row.state = RecState
<1> DEFINE row == store'.disk[d].rows[r]
<1>1. /\ store.day \in DOMAIN store.disk /\ store.rows \in Nat
      /\ store.rows = Len(store.disk[store.day].rows)
      /\ \A k \in DOMAIN store.disk : Len(store.disk[k].rows) \in Nat
  BY Disks, DiskRows
<1>2. CASE OpenedOnly(store.disk, store'.disk)
  BY <1>2, <1>1 DEF OpenedOnly, EmptyFile
<1>3. CASE RowAdded(store'.disk)
  <2>1. CASE d = store.day
    <3>1. CASE r \in 1 .. store.rows
      BY <1>1, <1>3, <2>1, <3>1 DEF RowAdded
    <3>2. CASE r \notin 1 .. store.rows
      <4>1. \A n \in Nat : \A k \in n .. n + 1 : \A q \in 1 .. k :
              q \notin 1 .. n => q = n + 1 /\ k = n + 1
        OBVIOUS
      <4>2. Len(store'.disk[d].rows) \in store.rows .. store.rows + 1
        BY <1>3, <2>1 DEF RowAdded
      <4>3. r = store.rows + 1 /\ Len(store'.disk[d].rows) = store.rows + 1
        BY <1>1, <3>2, <4>1, <4>2
      <4> QED
        BY <1>3, <2>1, <4>3 DEF RowAdded
    <3> QED
      BY <3>1, <3>2
  <2>2. CASE d # store.day
    <3>1. store'.disk[d] # EmptyFile
      BY DEF EmptyFile
    <3>2. d \in DOMAIN store.disk /\ store'.disk[d] = store.disk[d]
      BY <1>3, <2>2, <3>1 DEF RowAdded
    <3> QED
      BY <3>2
  <2> QED
    BY <2>1, <2>2
<1>4. CASE EventDropped(store'.disk)
  <2>1. d \in DOMAIN store.disk /\ r <= Len(store.disk[d].rows) /\ row = store.disk[d].rows[r]
    BY <1>4 DEF EventDropped, DropsEvent, OldRow
  <2>2. \A n \in Nat : \A k \in 1 .. Len(store'.disk[d].rows) : k <= n => k \in 1 .. n
    OBVIOUS
  <2>3. r \in 1 .. Len(store.disk[d].rows)
    BY <1>1, <2>1, <2>2
  <2> QED
    BY <2>1, <2>3
<1> QED
  BY <1>2, <1>3, <1>4, StepKinds

\* What is recorded next comes after every cut and its inhibit interval.
LEMMA RecordedAfterCuts ==
  ASSUME Inv, RearmKnown, Recording, NEW c \in cuts, c.session = session
  PROVE  RecFrame.ts > c.ts /\ RecFrame.ts >= c.ts + Rearm
<1>1. Running /\ ~Inhibited
  BY DEF Recording, RearmKnown, Inhibited, Detects, Running
<1>2. c.ts < ThisFrame.ts /\ c.ts + Rearm <= ThisFrame.ts
  BY <1>1, PastCuts
<1>3. c.ts \in Nat /\ ThisFrame.ts \in Nat /\ Rearm \in Nat
  BY Clock, RecorderAssumption DEF Inv, TypeOK, Cut
<1>4. CASE RecFrame = ThisFrame
  BY <1>2, <1>3, <1>4
<1>5. CASE pc = "trigger" /\ event.backlog > 0
  <2> DEFINE i == Len(pre) - event.backlog + 1
  <2>1. Len(pre) \in Nat /\ event.backlog \in Nat /\ event.backlog <= Len(pre)
    BY <1>5, EventNumbers DEF Inv, TypeOK, RingSound
  <2>2. i \in 1 .. Len(pre)
    BY <1>5, <2>1
  <2>3. RecFrame = pre[i]
    BY <1>5 DEF RecFrame, BacklogFrame
  <2> HIDE DEF i
  <2> QED
    BY <1>1, <2>2, <2>3 DEF RearmKnown
<1> QED
  BY <1>4, <1>5 DEF RecFrame

\* Every step preserves QuietAfterCut.
LEMMA QuietStep ==
  ASSUME Inv, RearmKnown, QuietAfterCut, Next
  PROVE  QuietAfterCut'
<1> SUFFICES ASSUME NEW c \in cuts', NEW d \in DOMAIN store'.disk,
                    NEW r \in DOMAIN store'.disk[d].rows,
                    store'.disk[d].rows[r].frame.session = c.session,
                    store'.disk[d].rows[r].event > c.id
             PROVE  /\ store'.disk[d].rows[r].frame.ts > c.ts
                    /\ store'.disk[d].rows[r].frame.ts >= c.ts + Rearm
  BY DEF QuietAfterCut
<1> DEFINE row == store'.disk[d].rows[r]
<1>1. /\ r \in 1 .. Len(store'.disk[d].rows)
      /\ row.event \in Nat /\ event.id \in Nat
  BY Disks, DiskRows, EventNumbers DEF Inv
<1>2. CASE c \in cuts
  <2>1. CASE /\ d \in DOMAIN store.disk /\ r \in 1 .. Len(store.disk[d].rows)
             /\ row = store.disk[d].rows[r]
    <3>1. r \in DOMAIN store.disk[d].rows
      BY <2>1, Disks, DiskRows
    <3> QED
      BY <1>2, <2>1, <3>1 DEF QuietAfterCut
  <2>2. CASE Recording /\ row.frame = RecFrame
    <3>1. RecFrame.session = session
      BY <2>2, BacklogFrameTyped, ThisFrameTyped DEF Inv, RecFrame
    <3> QED
      BY <1>2, <2>2, <3>1, RecordedAfterCuts
  <2> QED
    BY <1>1, <2>1, <2>2, RowAfter DEF RowAdded
<1>3. CASE c \notin cuts
  <2>1. CutEvent
    BY <1>3, EventIds DEF Restart
  <2>2. c.session = session /\ c.id = event.id /\ session' = session /\ event'.id = event.id
    <3>1. c = [session |-> session, id |-> event.id, ts |-> ThisFrame.ts,
               discarded |-> discards]
      BY <1>3, <2>1, CutEffect
    <3>2. c.session = session /\ c.id = event.id
      BY <3>1
    <3> QED
      BY <2>1, <3>2, CutEffect, DoneEffect
  <2>3. row.event <= event.id
    BY <1>1, <2>2, RowsNamedStep DEF RowsNamed
  <2> QED
    BY <1>1, <2>2, <2>3
<1> QED
  BY <1>2, <1>3

\* The steps keep QuietAfterCut together with what is known of cuts.
Quiet == Inv /\ EventTracked /\ RearmKnown /\ QuietAfterCut

\* The invariants behind QuietAfterCut hold at the start.
LEMMA QuietInit == Init => Quiet
<1> SUFFICES ASSUME Init PROVE Quiet
  OBVIOUS
<1>1. Inv
  BY InvInit
<1>2. /\ event.startTs = 0 /\ event.rearmUntil = 0 /\ event.post = 0
      /\ event.active = FALSE /\ cuts = {} /\ pc = "ready"
  BY DEF Init, NoEvent
<1>3. EventTracked /\ RearmKnown /\ QuietAfterCut
  BY <1>2, RecorderAssumption DEF EventTracked, RearmKnown, QuietAfterCut, InEvent, EventOpen
<1> QED
  BY <1>1, <1>3 DEF Quiet

\* Every step, and every stutter, preserves them.
LEMMA QuietNext == Quiet /\ [Next]_vars => Quiet'
<1>1. CASE Next
  BY <1>1, InvStep, EventTrackedStep, RearmKnownStep, QuietStep DEF Quiet
<1>2. CASE UNCHANGED vars
  <2>1. Inv => Inv'
    BY <1>2, InvStep
  <2> QED
    BY <1>2, <2>1 DEF vars, Quiet, EventTracked, RearmKnown, QuietAfterCut, Running,
       EventOpen, InEvent, ThisFrame
<1> QED
  BY <1>1, <1>2

\* They hold of every behaviour.
LEMMA AlwaysQuiet == Spec => []Quiet
  BY QuietInit, QuietNext, PTL DEF Spec

\* Nothing that is recorded for a later event than one that was cut lies before
\* the cut or in its inhibit interval, pre-trigger context included.
THEOREM QuietAfterCuts == Spec => []QuietAfterCut
<1>1. Quiet => QuietAfterCut
  BY DEF Quiet
<1> QED
  BY AlwaysQuiet, <1>1, PTL

-----------------------------------------------------------------------------
(***************************************************************************)
(* The ring of remembered frames.                                          *)
(***************************************************************************)
\* remember() puts the frame last; the frames before it keep their distance to
\* one another, and only the oldest of a full ring is lost.
LEMMA RememberPlaces ==
  ASSUME NEW ring \in Seq(Frame), NEW f \in Frame, Len(ring) <= PreFrames
  PROVE  LET r == Remember(ring, f)
         IN /\ r \in Seq(Frame) /\ Len(r) <= PreFrames
            /\ PreFrames = 0 => r = <<>>
            /\ PreFrames # 0 => Len(r) > 0 /\ r[Len(r)] = f
            /\ \A i \in 1 .. Len(r) :
                 \/ i = Len(r) /\ r[i] = f
                 \/ \E j \in 1 .. Len(ring) : r[i] = ring[j] /\ Len(ring) - j + 1 = Len(r) - i
            /\ \A j \in 1 .. Len(ring) :
                 j # 1 \/ Len(ring) < PreFrames => \E i \in 1 .. Len(r) : r[i] = ring[j]
<1>1. Len(ring) \in Nat /\ PreFrames \in Nat
  BY RecorderAssumption
<1>2. CASE PreFrames = 0
  BY <1>1, <1>2 DEF Remember
<1>3. CASE PreFrames # 0 /\ Len(ring) < PreFrames
  <2> DEFINE r == Append(ring, f)
  <2>1. Remember(ring, f) = r
    BY <1>3 DEF Remember
  <2>2. /\ r \in Seq(Frame) /\ Len(r) = Len(ring) + 1 /\ r[Len(ring) + 1] = f
        /\ \A i \in 1 .. Len(ring) : r[i] = ring[i]
    BY Appended
  <2> HIDE DEF r
  <2>3. \A i \in 1 .. Len(r) : i = Len(r) \/ i \in 1 .. Len(ring)
    BY <1>1, <2>2
  <2>4. \A i \in 1 .. Len(ring) : i \in 1 .. Len(r) /\ Len(ring) - i + 1 = Len(r) - i
    BY <1>1, <2>2
  <2> QED
    BY <1>1, <1>3, <2>1, <2>2, <2>3, <2>4
<1>4. CASE PreFrames # 0 /\ ~(Len(ring) < PreFrames)
  <2> DEFINE rest == Tail(ring)
             r == Append(rest, f)
  <2>1. Remember(ring, f) = r
    BY <1>4 DEF Remember
  <2>2. /\ rest \in Seq(Frame) /\ Len(rest) = Len(ring) - 1
        /\ \A i \in 1 .. Len(rest) : rest[i] = ring[i + 1]
    BY <1>1, <1>4
  <2> HIDE DEF rest
  <2>3. /\ r \in Seq(Frame) /\ Len(r) = Len(ring) /\ r[Len(ring)] = f
        /\ \A i \in 1 .. Len(rest) : r[i] = rest[i]
    BY <1>1, <2>2, Appended
  <2> HIDE DEF r
  <2>4. \A i \in 1 .. Len(r) :
          \/ i = Len(r)
          \/ /\ i \in 1 .. Len(rest) /\ i + 1 \in 1 .. Len(ring)
             /\ Len(ring) - (i + 1) + 1 = Len(r) - i
    BY <1>1, <2>2, <2>3
  <2>5. ASSUME NEW i \in 1 .. Len(r)
        PROVE  \/ i = Len(r) /\ r[i] = f
               \/ \E j \in 1 .. Len(ring) : r[i] = ring[j] /\ Len(ring) - j + 1 = Len(r) - i
    BY <2>2, <2>3, <2>4
  <2>6. ASSUME NEW j \in 1 .. Len(ring), j # 1
        PROVE  \E i \in 1 .. Len(r) : r[i] = ring[j]
    <3>1. j - 1 \in 1 .. Len(rest) /\ j - 1 \in 1 .. Len(r) /\ (j - 1) + 1 = j
      BY <1>1, <2>2, <2>3, <2>6
    <3>2. r[j - 1] = ring[j]
      BY <2>2, <2>3, <3>1
    <3> QED
      BY <3>1, <3>2
  <2> QED
    BY <1>1, <1>4, <2>1, <2>3, <2>5, <2>6
<1> QED
  BY <1>2, <1>3, <1>4

\* Remembering this frame.
LEMMA RingGrows ==
  ASSUME Inv, RingRecent, Running, PreOnRearm = pre, pre' = Remember(PreOnRearm, ThisFrame),
         FrameDone, ~InEvent' \/ PostFrames # 0
  PROVE  RingRecent'
<1>1. /\ pre \in Seq(Frame) /\ ThisFrame \in Frame /\ Len(pre) <= PreFrames
      /\ startTs \in Nat /\ nextIndex \in Nat /\ PreFrames \in Nat
      /\ startTs' = startTs /\ nextIndex' = nextIndex + 1
      /\ ThisFrame.index = nextIndex /\ ThisFrame.ts = startTs + 1 + nextIndex
  BY ThisFrameTyped, Clock, DoneEffect, RecorderAssumption DEF Inv, TypeOK, RingRecent
<1>2. /\ pre' \in Seq(Frame) /\ Len(pre') <= PreFrames
      /\ PreFrames = 0 => pre' = <<>>
      /\ PreFrames # 0 => Len(pre') > 0 /\ pre'[Len(pre')] = ThisFrame
      /\ \A i \in 1 .. Len(pre') :
           \/ i = Len(pre') /\ pre'[i] = ThisFrame
           \/ \E j \in 1 .. Len(pre) : pre'[i] = pre[j] /\ Len(pre) - j + 1 = Len(pre') - i
  BY <1>1, RememberPlaces
<1>3. Len(pre) \in Nat /\ Len(pre') \in Nat
  BY <1>1, <1>2
<1>4. \A j \in 1 .. Len(pre) : pre[j].index \in Nat /\ pre[j].ts \in Nat
  <2>1. \A j \in 1 .. Len(pre) : pre[j] \in Frame
    BY <1>1, ElementOfSeq
  <2> QED
    BY <2>1 DEF Frame
<1>5. ASSUME NEW i \in 1 .. Len(pre')
      PROVE  /\ pre'[i].ts = startTs + 1 + pre'[i].index
             /\ pre'[i].index + Len(pre') - i < nextIndex + 1
  <2>1. CASE i = Len(pre') /\ pre'[i] = ThisFrame
    BY <1>1, <1>3, <2>1
  <2>2. ASSUME NEW j \in 1 .. Len(pre), pre'[i] = pre[j], Len(pre) - j + 1 = Len(pre') - i
        PROVE  /\ pre'[i].ts = startTs + 1 + pre'[i].index
               /\ pre'[i].index + Len(pre') - i < nextIndex + 1
    <3>1. pre[j].ts = startTs + 1 + pre[j].index /\ pre[j].index + Len(pre) - j < nextIndex
      BY DEF RingRecent
    <3>2. \A x, n, k, m, a, b \in Int :
            x + n - a < k /\ n - a + 1 = m - b => x + m - b < k + 1
      OBVIOUS
    <3>3. pre[j].index \in Int /\ Len(pre) \in Int /\ Len(pre') \in Int /\ j \in Int /\ i \in Int
          /\ nextIndex \in Int
      BY <1>1, <1>3, <1>4
    <3>4. pre[j].index + Len(pre') - i < nextIndex + 1
      BY <2>2, <3>1, <3>2, <3>3
    <3> QED
      BY <2>2, <3>1, <3>4
  <2> QED
    BY <1>2, <2>1, <2>2
<1>6. pre' # <<>> => pre'[Len(pre')].index = (nextIndex + 1) - 1
  BY <1>1, <1>2
<1> QED
  BY <1>1, <1>2, <1>5, <1>6 DEF RingRecent

\* Every step keeps the ring recent.
LEMMA RingRecentStep ==
  ASSUME Inv, EventTracked, RearmKnown, RingRecent, Next
  PROVE  RingRecent'
<1>1. /\ TypeOK /\ startTs \in Nat /\ nextIndex \in Nat /\ PreFrames \in Nat
      /\ event.post \in Nat /\ PostFrames \in Nat
      /\ \A i \in 1 .. Len(pre) : pre[i].index \in Nat
      /\ Len(pre) \in Nat
  <2>1. pre \in Seq(Frame) /\ TypeOK /\ startTs \in Nat /\ nextIndex \in Nat
    BY DEF Inv, TypeOK
  <2>2. \A i \in 1 .. Len(pre) : pre[i] \in Frame
    BY <2>1, ElementOfSeq
  <2>3. \A i \in 1 .. Len(pre) : pre[i].index \in Nat
    BY <2>2 DEF Frame
  <2> QED
    BY <2>1, <2>3, EventNumbers, RecorderAssumption
<1>2. ASSUME pre' = <<>>
      PROVE  RingRecent'
  BY <1>1, <1>2 DEF RingRecent
<1>3. CASE InhibitedFrame \/ CutEvent \/ Trigger \/ Restart
  BY <1>2, <1>3, InhibitedEffect, CutEffect, TriggerEffect, RestartEffect
<1>4. ASSUME NEW above \in BOOLEAN, ActiveFrame(above)
      PROVE  RingRecent'
  <2>1. Running /\ PreOnRearm = pre
    BY <1>4, ActiveEffect, PastCuts DEF Running
  <2>2. pre' = pre /\ nextIndex' = nextIndex + 1 /\ startTs' = startTs /\ InEvent
    BY <1>4, <2>1, ActiveEffect, DoneEffect DEF InEvent
  <2>3. PostFrames = 0 \/ InEvent'
    <3>1. CASE above
      BY <1>4, <3>1, ActiveEffect DEF EndsAtTriggerOff, InEvent
    <3>2. CASE ~above /\ PostFrames # 0
      <4>1. event'.post = PostFrames
        BY <1>4, <3>2, ActiveEffect DEF EndsAtTriggerOff
      <4> QED
        BY <1>1, <3>2, <4>1 DEF InEvent
    <3> QED
      BY <3>1, <3>2
  <2>4. PostFrames = 0 => pre = <<>>
    BY <2>1, <2>2 DEF RingRecent
  <2>5. \A i \in 1 .. Len(pre) : /\ pre[i].ts = startTs + 1 + pre[i].index
                                 /\ pre[i].index + Len(pre) - i < nextIndex + 1
    BY <1>1, <2>1 DEF RingRecent
  <2>6. Len(pre) <= PreFrames
    BY <2>1 DEF RingRecent
  <2> QED
    BY <2>2, <2>3, <2>4, <2>5, <2>6 DEF RingRecent
<1>5. ASSUME NEW above \in BOOLEAN, PostFrame(above)
      PROVE  RingRecent'
  <2>1. Running /\ FrameDone /\ pre' = Remember(PreOnRearm, ThisFrame) /\ ~Inhibited
    BY <1>5, PostEffect DEF Running
  <2>2. PreOnRearm = pre
    BY <2>1, PastCuts
  <2>3. PostFrames # 0
    <3>1. event.post > 0
      BY <1>5, PostEffect
    <3>2. event.post <= PostFrames
      BY <2>1 DEF EventTracked
    <3> QED
      BY <1>1, <3>1, <3>2
  <2> QED
    BY <2>1, <2>2, <2>3, RingGrows
<1>6. CASE IdleFrame
  <2>1. Running /\ FrameDone /\ pre' = Remember(PreOnRearm, ThisFrame) /\ ~Inhibited
    BY <1>6, IdleEffect DEF Running
  <2>2. PreOnRearm = pre
    BY <2>1, PastCuts
  <2>3. ~InEvent'
    BY <1>6, IdleEffect DEF InEvent
  <2> QED
    BY <2>1, <2>2, <2>3, RingGrows
<1>7. CASE TriggerOn
  <2>1. /\ Running /\ pre' = PreOnRearm /\ ~Inhibited /\ ~InEvent /\ InEvent' = InEvent
        /\ startTs' = startTs /\ nextIndex' = nextIndex
    BY <1>7, TriggerOnEffect DEF Running, InEvent
  <2>2. PreOnRearm = pre
    BY <2>1, PastCuts
  <2> QED
    BY <2>1, <2>2 DEF RingRecent
<1>8. CASE Backlog
  <2>1. /\ Running /\ pre' = pre /\ InEvent' = InEvent
        /\ startTs' = startTs /\ nextIndex' = nextIndex
    BY <1>8, BacklogEffect DEF Running, InEvent
  <2> QED
    BY <2>1 DEF RingRecent
<1>9. CASE WriteFails \/ Stop
  BY <1>9, NotRunning DEF RingRecent
<1> QED
  BY <1>3, <1>4, <1>5, <1>6, <1>7, <1>8, <1>9 DEF Next, Consume

-----------------------------------------------------------------------------
(***************************************************************************)
(* The rows of the open event.                                             *)
(***************************************************************************)
OpenRows == OpenFile(store).rows

\* At the trigger the rows of the event are the oldest frames of the ring, and
\* the backlog is the rest of it.
TriggerRows ==
  /\ event.saved + event.backlog = Len(pre)
  /\ \A k \in 1 .. event.saved :
       /\ OpenRows[event.startRow + k].state = PreTrigger
       /\ OpenRows[event.startRow + k].frame = pre[k]
  /\ store.day = DayOf(ThisFrame.ts)

\* In the event its last row is of the last frame, and its active rows lie
\* between its start time and max_event_seconds after.
EventRows ==
  /\ event.saved > 0
  /\ OpenRows[store.rows].state # PreTrigger
  /\ OpenRows[store.rows].frame.index = nextIndex - 1
  /\ \A r \in 1 .. store.rows : r > event.startRow =>
       /\ MaxEvent > 0 => OpenRows[r].frame.ts < event.startTs + MaxEvent
       /\ OpenRows[r].state = Active => OpenRows[r].frame.ts >= event.startTs

OpenEvent == Running => /\ pc = "trigger" => TriggerRows
                        /\ InEvent => EventRows

\* An append of this step's frame, with the event still open or just begun.
LEMMA RecordedRow ==
  ASSUME Inv, Running, NEW f, NEW state, store' = AppendRow(store, f, event.id, state)
  PROVE  /\ store'.day = store.day
         /\ store.rows \in Nat /\ store'.rows = store.rows + 1
         /\ \A r \in 1 .. store.rows : OpenRows'[r] = OpenRows[r]
         /\ OpenRows'[store.rows + 1].frame = f
         /\ OpenRows'[store.rows + 1].state = state
<1> DEFINE t == AppendRow(store, f, event.id, state)
<1>1. StorageInv(store) /\ store.rows \in Nat
  BY DEF Inv, StorageSound, StorageInv, StorageOK
<1>2. /\ t.day = store.day /\ t.rows = store.rows + 1
      /\ \A r \in 1 .. store.rows : OpenFile(t).rows[r] = OpenFile(store).rows[r]
      /\ OpenFile(t).rows[store.rows + 1].frame = f
      /\ OpenFile(t).rows[store.rows + 1].state = state
  BY <1>1, AppendedRow
<1> HIDE DEF t
<1>3. store' = t /\ OpenRows' = OpenFile(t).rows
  BY DEF t, OpenRows, OpenFile
<1> QED
  BY <1>1, <1>2, <1>3 DEF OpenRows

\* Between its trigger and its end an event keeps its rows known.
LEMMA EventRowsStep ==
  ASSUME Inv, EventTracked, OpenEvent, InEvent, Running, ~TooLong,
         NEW state \in {Active, PostTrigger}, FrameDone,
         store' = AppendRow(store, ThisFrame, event.id, state), EventGoesOn
  PROVE  OpenEvent'
<1>1. /\ nextIndex \in Nat /\ nextIndex' = nextIndex + 1 /\ ThisFrame.index = nextIndex
      /\ ThisFrame.ts \in Nat /\ MaxEvent \in Nat /\ event.saved \in Nat
      /\ event.startTs \in Nat /\ pc' = "ready"
      /\ event'.saved = event.saved + 1 /\ event'.startRow = event.startRow
      /\ event'.startTs = event.startTs
  BY Clock, DoneEffect, EventNumbers, RecorderAssumption DEF Inv, TypeOK, EventGoesOn
<1>2. /\ store.rows \in Nat /\ store'.rows = store.rows + 1
      /\ \A r \in 1 .. store.rows : OpenRows'[r] = OpenRows[r]
      /\ OpenRows'[store.rows + 1].frame = ThisFrame
      /\ OpenRows'[store.rows + 1].state = state
  BY RecordedRow
<1>3. state # PreTrigger
  BY DEF Active, PostTrigger, PreTrigger
<1>4. /\ MaxEvent > 0 => ThisFrame.ts < event.startTs + MaxEvent
      /\ ThisFrame.ts >= event.startTs
  BY <1>1 DEF TooLong, EventTracked
<1>5. \A r \in 1 .. store.rows + 1 : r = store.rows + 1 \/ r \in 1 .. store.rows
  BY <1>2
<1>6. ASSUME NEW r \in 1 .. store'.rows, r > event'.startRow
      PROVE  /\ MaxEvent > 0 => OpenRows'[r].frame.ts < event'.startTs + MaxEvent
             /\ OpenRows'[r].state = Active => OpenRows'[r].frame.ts >= event'.startTs
  <2>1. CASE r = store.rows + 1
    BY <1>1, <1>2, <1>4, <2>1
  <2>2. CASE r \in 1 .. store.rows
    BY <1>1, <1>2, <1>6, <2>2 DEF OpenEvent, EventRows
  <2> QED
    BY <1>2, <1>5, <2>1, <2>2
<1>7. event'.saved > 0 /\ nextIndex = nextIndex' - 1
  BY <1>1
<1>8. EventRows'
  BY <1>1, <1>2, <1>3, <1>6, <1>7 DEF EventRows
<1> QED
  BY <1>1, <1>8 DEF OpenEvent

\* Every step keeps the rows of the open event known.
LEMMA OpenEventStep ==
  ASSUME Inv, EventTracked, RearmKnown, RingRecent, OpenEvent, Next
  PROVE  OpenEvent'
<1>1. ASSUME pc' # "trigger", ~InEvent'
      PROVE  OpenEvent'
  BY <1>1 DEF OpenEvent
<1>2. CASE InhibitedFrame
  <2>1. event.rearmUntil # 0 /\ Running /\ event' = event /\ pc' = "ready"
    BY <1>2, InhibitedEffect, DoneEffect DEF Inhibited, Running
  <2>2. ~InEvent'
    BY <2>1 DEF RearmKnown, EventOpen, InEvent
  <2> QED
    BY <1>1, <2>1, <2>2
<1>3. CASE CutEvent
  <2>1. ~InEvent' /\ pc' = "ready"
    BY <1>3, CutEffect, DoneEffect DEF EventEnded, InEvent
  <2> QED
    BY <1>1, <2>1
<1>4. ASSUME NEW above \in BOOLEAN, ActiveFrame(above)
      PROVE  OpenEvent'
  <2>1. InEvent /\ Running /\ ~TooLong /\ FrameDone /\ pc' = "ready"
    BY <1>4, ActiveEffect, DoneEffect DEF InEvent, Running
  <2>2. CASE EndsAtTriggerOff(above)
    <3>1. EventEnded
      BY <1>4, <2>2, ActiveEffect
    <3>2. ~InEvent'
      BY <3>1 DEF EventEnded, InEvent
    <3> QED
      BY <1>1, <2>1, <3>2
  <2>3. CASE ~EndsAtTriggerOff(above)
    BY <1>4, <2>1, <2>3, ActiveEffect, EventRowsStep
  <2> QED
    BY <2>2, <2>3
<1>5. ASSUME NEW above \in BOOLEAN, PostFrame(above)
      PROVE  OpenEvent'
  <2>1. InEvent /\ Running /\ ~TooLong /\ FrameDone /\ pc' = "ready"
    BY <1>5, PostEffect, DoneEffect DEF InEvent, Running
  <2>2. CASE ~above /\ event.post = 1
    <3>1. EventEnded
      BY <1>5, <2>2, PostEffect
    <3>2. ~InEvent'
      BY <3>1 DEF EventEnded, InEvent
    <3> QED
      BY <1>1, <2>1, <3>2
  <2>3. CASE ~(~above /\ event.post = 1)
    BY <1>5, <2>1, <2>3, PostEffect, EventRowsStep
  <2> QED
    BY <2>2, <2>3
<1>6. CASE IdleFrame
  <2>1. ~InEvent' /\ pc' = "ready"
    BY <1>6, IdleEffect, DoneEffect DEF InEvent
  <2> QED
    BY <1>1, <2>1
<1>7. CASE TriggerOn
  <2>1. /\ ~InEvent' /\ pc' = "trigger" /\ pre' = PreOnRearm /\ ~InEvent
        /\ event'.saved = 0 /\ event'.backlog = Len(PreOnRearm) /\ store' = Ticked
        /\ UNCHANGED <<session, startTs, nextIndex>>
    BY <1>7, TriggerOnEffect DEF InEvent
  <2>2. ThisFrame' = ThisFrame
    BY <2>1, Clock DEF Inv
  <2>3. Len(PreOnRearm) \in Nat
    BY RearmedRing
  <2>4. store'.day = DayOf(ThisFrame.ts)
    BY <2>1 DEF Ticked, Tick, Rotate, Open
  <2>5. TriggerRows'
    BY <2>1, <2>2, <2>3, <2>4 DEF TriggerRows
  <2> QED
    BY <2>1, <2>5 DEF OpenEvent
<1>8. CASE Backlog
  <2>1. /\ pc = "trigger" /\ pc' = "trigger" /\ Running /\ event.backlog > 0
        /\ UNCHANGED <<session, startTs, nextIndex, pre>>
        /\ event'.active = event.active /\ event'.post = event.post
        /\ event'.startRow = event.startRow
        /\ event'.saved = event.saved + 1 /\ event'.backlog = event.backlog - 1
        /\ store' = AppendRow(store, BacklogFrame, event.id, PreTrigger)
    BY <1>8, BacklogEffect DEF Running
  <2>2. ~InEvent /\ ~InEvent'
    <3>1. ~InEvent
      BY <2>1 DEF EventTracked
    <3> QED
      BY <2>1, <3>1 DEF InEvent
  <2>3. ThisFrame' = ThisFrame
    BY <2>1, Clock DEF Inv
  <2>4. /\ store'.day = store.day
        /\ \A r \in 1 .. store.rows : OpenRows'[r] = OpenRows[r]
        /\ OpenRows'[store.rows + 1].frame = BacklogFrame
        /\ OpenRows'[store.rows + 1].state = PreTrigger
    BY <2>1, RecordedRow
  <2>5. /\ store.rows = event.startRow + event.saved /\ event.saved \in Nat
        /\ event.startRow \in Nat /\ event.backlog \in Nat /\ Len(pre) \in Nat
    BY <2>1, EventNumbers DEF Inv, TypeOK, EventRowsKnown, EventOpen
  <2>6. TriggerRows
    BY <2>1 DEF OpenEvent
  <2>7. BacklogFrame = pre[event.saved + 1]
    <3>1. Len(pre) - event.backlog + 1 = event.saved + 1
      BY <2>5, <2>6 DEF TriggerRows
    <3> QED
      BY <3>1 DEF BacklogFrame
  <2>8. ASSUME NEW k \in 1 .. event.saved + 1
        PROVE  /\ OpenRows'[event.startRow + k].state = PreTrigger
               /\ OpenRows'[event.startRow + k].frame = pre[k]
    <3>1. CASE k = event.saved + 1
      <4>1. event.startRow + k = store.rows + 1
        BY <2>5, <3>1
      <4> QED
        BY <2>4, <2>7, <3>1, <4>1
    <3>2. CASE k \in 1 .. event.saved
      <4>1. event.startRow + k \in 1 .. store.rows
        BY <2>5, <3>2
      <4> QED
        BY <2>4, <2>6, <3>2, <4>1 DEF TriggerRows
    <3> QED
      BY <2>5, <3>1, <3>2
  <2>9. event'.saved + event'.backlog = Len(pre)
    BY <2>1, <2>5, <2>6 DEF TriggerRows
  <2>10. TriggerRows'
    BY <2>1, <2>3, <2>4, <2>6, <2>8, <2>9 DEF TriggerRows
  <2> QED
    BY <2>2, <2>10 DEF OpenEvent
<1>9. CASE Trigger
  <2>1. /\ pc = "trigger" /\ pc' = "ready" /\ Running /\ event.backlog = 0
        /\ event'.startRow = event.startRow /\ event'.startTs = ThisFrame.ts
        /\ event'.saved = event.saved + 1 /\ nextIndex' = nextIndex + 1
        /\ store' = AppendRow(store, ThisFrame, event.id, Active)
    BY <1>9, TriggerEffect, DoneEffect DEF Running
  <2>2. /\ store.rows \in Nat /\ store'.rows = store.rows + 1
        /\ \A r \in 1 .. store.rows : OpenRows'[r] = OpenRows[r]
        /\ OpenRows'[store.rows + 1].frame = ThisFrame
        /\ OpenRows'[store.rows + 1].state = Active
    BY <2>1, RecordedRow
  <2>3. /\ store.rows = event.startRow + event.saved /\ event.saved \in Nat
        /\ event.startRow \in Nat /\ Len(pre) \in Nat /\ nextIndex \in Nat
        /\ startTs \in Nat /\ MaxEvent \in Nat
        /\ ThisFrame.index = nextIndex /\ ThisFrame.ts = startTs + 1 + nextIndex
    BY <2>1, EventNumbers, Clock, RecorderAssumption DEF Inv, TypeOK, EventRowsKnown, EventOpen
  <2>4. TriggerRows
    BY <2>1 DEF OpenEvent
  <2>5. event.saved = Len(pre)
    BY <2>1, <2>3, <2>4 DEF TriggerRows
  <2>6. ASSUME NEW k \in 1 .. Len(pre)
        PROVE  pre[k].ts < ThisFrame.ts /\ pre[k].ts \in Nat
    <3>1. pre[k] \in Frame
      BY ElementOfSeq DEF Inv, TypeOK
    <3>2. pre[k].index \in Nat /\ pre[k].ts \in Nat
      BY <3>1 DEF Frame
    <3>3. pre[k].ts = startTs + 1 + pre[k].index /\ pre[k].index + Len(pre) - k < nextIndex
      BY <2>1 DEF RingRecent
    <3> QED
      BY <2>3, <3>2, <3>3
  <2>7. ASSUME NEW r \in 1 .. store'.rows, r > event'.startRow
        PROVE  /\ MaxEvent > 0 => OpenRows'[r].frame.ts < event'.startTs + MaxEvent
               /\ OpenRows'[r].state = Active => OpenRows'[r].frame.ts >= event'.startTs
    <3>1. CASE r = store.rows + 1
      BY <2>1, <2>2, <2>3, <3>1
    <3>2. CASE r # store.rows + 1
      <4> DEFINE k == r - event.startRow
      <4>1. r \in 1 .. store.rows /\ k \in 1 .. event.saved /\ event.startRow + k = r
        BY <2>1, <2>2, <2>3, <2>7, <3>2
      <4> HIDE DEF k
      <4>2. OpenRows'[r].state = PreTrigger /\ OpenRows'[r].frame = pre[k]
        BY <2>2, <2>4, <4>1 DEF TriggerRows
      <4>3. pre[k].ts < ThisFrame.ts /\ pre[k].ts \in Nat
        BY <2>5, <2>6, <4>1
      <4>4. PreTrigger # Active
        BY DEF PreTrigger, Active
      <4> QED
        BY <2>1, <2>3, <4>2, <4>3, <4>4
    <3> QED
      BY <3>1, <3>2
  <2>8. EventRows'
    <3>1. event'.saved > 0 /\ nextIndex = nextIndex' - 1 /\ Active # PreTrigger
      BY <2>1, <2>3 DEF Active, PreTrigger
    <3> QED
      BY <2>2, <2>3, <2>7, <3>1 DEF EventRows
  <2> QED
    BY <2>1, <2>8 DEF OpenEvent
<1>10. CASE WriteFails \/ Stop
  BY <1>10, NotRunning DEF OpenEvent
<1>11. CASE Restart
  <2>1. pc' = "ready" /\ event'.active = FALSE /\ event'.post = 0
    BY <1>11, RestartEffect
  <2>2. ~InEvent'
    BY <2>1 DEF InEvent
  <2> QED
    BY <1>1, <2>1, <2>2
<1> QED
  BY <1>2, <1>3, <1>4, <1>5, <1>6, <1>7, <1>8, <1>9, <1>10, <1>11 DEF Next, Consume

-----------------------------------------------------------------------------
(***************************************************************************)
(* The order of an event: what the row that is written next is, beside the *)
(* rows of its event.                                                      *)
(***************************************************************************)
NewRowFits ==
  /\ event.saved = 0 => RecState # PostTrigger
  /\ event.saved > 0 =>
       LET last == OpenRows[store.rows]
       IN /\ RecState = PreTrigger => last.state = PreTrigger
          /\ RecState = PostTrigger => last.state # PreTrigger
          /\ RecState # PreTrigger => FollowsInStream(last.frame, RecFrame)
          /\ last.state = PreTrigger /\ RecState = Active => DayOf(RecFrame.ts) = store.day
  /\ MaxEvent > 0 =>
       \A r \in 1 .. store.rows : r > event.startRow =>
         /\ OpenRows[r].state = Active => RecFrame.ts < OpenRows[r].frame.ts + MaxEvent
         /\ RecState = Active => OpenRows[r].frame.ts < RecFrame.ts + MaxEvent

\* The frame that consume() is about to record fits the rows of its event.
LEMMA RecordedFits ==
  ASSUME Inv, EventTracked, RingRecent, OpenEvent, Recording
  PROVE  NewRowFits
<1>1. /\ store.rows = event.startRow + event.saved /\ event.saved \in Nat
      /\ event.startRow \in Nat /\ event.backlog \in Nat /\ Len(pre) \in Nat
      /\ nextIndex \in Nat /\ startTs \in Nat /\ MaxEvent \in Nat /\ event.startTs \in Nat
      /\ ThisFrame.index = nextIndex /\ ThisFrame.ts = startTs + 1 + nextIndex
      /\ ThisFrame.session = session /\ ThisFrame.ts \in Nat
      /\ \A r \in 1 .. store.rows : r > event.startRow <=> CurrentRow(OpenRows[r])
  BY EventNumbers, Clock, ThisFrameTyped, RecorderAssumption
     DEF Inv, TypeOK, EventRowsKnown, Recording, OpenRows
<1>2. PreTrigger # Active /\ PreTrigger # PostTrigger /\ Active # PostTrigger
  BY DEF PreTrigger, Active, PostTrigger
<1>3. \A r \in 1 .. store.rows : OpenRows[r].frame.ts \in Nat /\ OpenRows[r].frame.index \in Nat
  BY Disks, DiskRows DEF OpenRows
<1>4. \A k \in 1 .. Len(pre) : pre[k].ts \in Nat /\ pre[k].index \in Nat /\ pre[k].ts < ThisFrame.ts
                               /\ pre[k].session = session
  <2>1. pre \in Seq(Frame) /\ Running
    BY DEF Inv, TypeOK, Recording
  <2>2. ASSUME NEW k \in 1 .. Len(pre)
        PROVE  /\ pre[k].ts \in Nat /\ pre[k].index \in Nat
               /\ pre[k].ts < ThisFrame.ts /\ pre[k].session = session
    <3>1. pre[k] \in Frame
      BY <2>1, ElementOfSeq
    <3>2. pre[k].ts \in Nat /\ pre[k].index \in Nat
      BY <3>1 DEF Frame
    <3>3. pre[k].ts = startTs + 1 + pre[k].index /\ pre[k].index + Len(pre) - k < nextIndex
      BY <2>1 DEF RingRecent
    <3>4. pre[k].session = session
      BY DEF Inv, RingSound
    <3> QED
      BY <1>1, <3>2, <3>3, <3>4
  <2> QED
    BY <2>2
<1>5. CASE pc = "ready"
  <2>1. /\ InEvent /\ ~TooLong /\ RecFrame = ThisFrame /\ RecState \in {Active, PostTrigger}
        /\ Running /\ event.startTs # 0
    BY <1>5 DEF Recording, EventOpen, Detects, RecFrame, RecState, EventTracked
  <2>2. EventRows
    BY <2>1 DEF OpenEvent
  <2>3. MaxEvent > 0 => ThisFrame.ts < event.startTs + MaxEvent
    BY <1>1, <2>1 DEF TooLong
  <2>4. ASSUME MaxEvent > 0, NEW r \in 1 .. store.rows, r > event.startRow
        PROVE  /\ OpenRows[r].state = Active => RecFrame.ts < OpenRows[r].frame.ts + MaxEvent
               /\ RecState = Active => OpenRows[r].frame.ts < RecFrame.ts + MaxEvent
    <3>1. /\ OpenRows[r].frame.ts < event.startTs + MaxEvent
          /\ OpenRows[r].state = Active => OpenRows[r].frame.ts >= event.startTs
      BY <2>2, <2>4 DEF EventRows
    <3>2. event.startTs < ThisFrame.ts
      BY <2>1 DEF EventTracked
    <3>3. OpenRows[r].frame.ts \in Nat
      BY <1>3
    <3>4. ASSUME OpenRows[r].state = Active
          PROVE  ThisFrame.ts < OpenRows[r].frame.ts + MaxEvent
      BY <1>1, <2>3, <2>4, <3>1, <3>3, <3>4
    <3>5. OpenRows[r].frame.ts < ThisFrame.ts + MaxEvent
      BY <1>1, <3>1, <3>2, <3>3
    <3> QED
      BY <2>1, <3>4, <3>5
  <2>5. /\ event.saved > 0 /\ OpenRows[store.rows].state # PreTrigger
        /\ OpenRows[store.rows].frame.index = nextIndex - 1
    BY <2>2 DEF EventRows
  <2>6. FollowsInStream(OpenRows[store.rows].frame, RecFrame)
    <3>1. store.rows \in 1 .. store.rows /\ store.rows > event.startRow
      BY <1>1, <2>5
    <3>2. OpenRows[store.rows].frame.session = session
      BY <1>1, <3>1 DEF CurrentRow, RowOf
    <3>3. nextIndex = (nextIndex - 1) + 1
      BY <1>1
    <3> QED
      BY <1>1, <2>1, <2>5, <3>2, <3>3 DEF FollowsInStream
  <2>7. event.saved # 0
    BY <1>1, <2>5
  <2> QED
    BY <1>2, <2>1, <2>4, <2>5, <2>6, <2>7 DEF NewRowFits
<1>6. CASE pc = "trigger"
  <2>1. TriggerRows /\ ~InEvent
    BY <1>6 DEF OpenEvent, Recording, EventTracked
  <2>2. ASSUME NEW r \in 1 .. store.rows, r > event.startRow
        PROVE  /\ OpenRows[r].state = PreTrigger
               /\ OpenRows[r].frame.ts < ThisFrame.ts
               /\ \E k \in 1 .. event.saved : r = event.startRow + k /\ OpenRows[r].frame = pre[k]
    <3> DEFINE k == r - event.startRow
    <3>1. k \in 1 .. event.saved /\ event.startRow + k = r
      BY <1>1, <2>2
    <3> HIDE DEF k
    <3>2. OpenRows[r].state = PreTrigger /\ OpenRows[r].frame = pre[k]
      BY <2>1, <3>1 DEF TriggerRows
    <3>3. k \in 1 .. Len(pre)
      BY <1>1, <2>1, <3>1 DEF TriggerRows
    <3> QED
      BY <1>4, <3>1, <3>2, <3>3
  <2>3. RecState = IF event.backlog > 0 THEN PreTrigger ELSE Active
    BY <1>6 DEF RecState
  <2>4. event.saved > 0 => OpenRows[store.rows].state = PreTrigger
    <3>1. event.saved > 0 => store.rows \in 1 .. store.rows /\ store.rows > event.startRow
      BY <1>1
    <3> QED
      BY <2>2, <3>1
  <2>5. ASSUME event.saved > 0, event.backlog = 0
        PROVE  FollowsInStream(OpenRows[store.rows].frame, ThisFrame)
    <3>1. store.rows \in 1 .. store.rows /\ store.rows > event.startRow
      BY <1>1, <2>5
    <3>2. event.saved = Len(pre) /\ pre # <<>>
      BY <1>1, <2>1, <2>5 DEF TriggerRows
    <3>3. PICK k \in 1 .. event.saved : store.rows = event.startRow + k
                                        /\ OpenRows[store.rows].frame = pre[k]
      BY <2>2, <3>1
    <3>4. k = Len(pre)
      BY <1>1, <3>2, <3>3
    <3>5. pre[Len(pre)].index = nextIndex - 1
      BY <2>1, <3>2 DEF RingRecent, Recording
    <3>6. nextIndex = (nextIndex - 1) + 1
      BY <1>1
    <3> QED
      BY <1>1, <1>4, <3>2, <3>3, <3>4, <3>5, <3>6 DEF FollowsInStream
  <2>6. event.backlog = 0 => RecFrame = ThisFrame
    BY <1>1 DEF RecFrame
  <2>7. RecState = Active => event.backlog = 0
    BY <1>1, <1>2, <2>3
  <2>8. store.day = DayOf(ThisFrame.ts)
    BY <2>1 DEF TriggerRows
  <2>9. ASSUME MaxEvent > 0, NEW r \in 1 .. store.rows, r > event.startRow
        PROVE  /\ OpenRows[r].state # Active
               /\ RecState = Active => OpenRows[r].frame.ts < RecFrame.ts + MaxEvent
    <3>1. OpenRows[r].state = PreTrigger /\ OpenRows[r].frame.ts < ThisFrame.ts
      BY <2>2, <2>9
    <3>2. OpenRows[r].frame.ts < ThisFrame.ts + MaxEvent
      BY <1>1, <1>3, <2>9, <3>1
    <3> QED
      BY <1>2, <2>6, <2>7, <3>1, <3>2
  <2>10. RecState # PreTrigger => event.backlog = 0
    BY <1>1, <2>3
  <2> QED
    BY <1>2, <2>3, <2>4, <2>5, <2>6, <2>7, <2>8, <2>9, <2>10 DEF NewRowFits
<1> QED
  BY <1>5, <1>6 DEF Recording, Running

\* Whether a row of the open file is of the same event as the row that is
\* written next.
LEMMA NewRowsEvent ==
  ASSUME Inv, Recording, NEW new, new.frame = RecFrame, new.event = event.id
  PROVE  /\ CurrentRow(new)
         /\ \A row : SameEvent(row, new) <=> CurrentRow(row)
         /\ \A row : SameEvent(new, row) <=> CurrentRow(row)
<1>1. RecFrame.session = session
  BY BacklogFrameTyped, ThisFrameTyped DEF Inv, RecFrame
<1> QED
  BY <1>1 DEF SameEvent, CurrentRow, RowOf

\* A row of the files after a step is an old one in its old place, or the new
\* one at the end of the open file.
OldPlace(d, r) ==
  /\ d \in DOMAIN store.disk
  /\ r \in 1 .. Len(store.disk[d].rows)
  /\ store'.disk[d].rows[r] = store.disk[d].rows[r]

NewPlace(d, r) ==
  /\ Recording /\ RowAdded(store'.disk)
  /\ d = store.day /\ r = store.rows + 1
  /\ store'.disk[d].rows[r].frame = RecFrame
  /\ store'.disk[d].rows[r].event = event.id
  /\ store'.disk[d].rows[r].state = RecState

\* Every row after a step is in an old place or in the new one.
LEMMA Places ==
  ASSUME Inv, Next, NEW d \in DOMAIN store'.disk
  PROVE  /\ \A r \in 1 .. Len(store'.disk[d].rows) : OldPlace(d, r) \/ NewPlace(d, r)
         /\ \A r \in 1 .. Len(store'.disk[d].rows) : \A q \in 1 .. r :
              /\ OldPlace(d, r) => OldPlace(d, q)
              /\ NewPlace(d, r) => q = r \/ OldPlace(d, q)
<1>1. \A r \in 1 .. Len(store'.disk[d].rows) : OldPlace(d, r) \/ NewPlace(d, r)
  <2> SUFFICES ASSUME NEW r \in 1 .. Len(store'.disk[d].rows)
               PROVE  OldPlace(d, r) \/ NewPlace(d, r)
    OBVIOUS
  <2>1. RowAdded(store'.disk) => Recording
    BY DEF RowAdded
  <2> QED
    BY <2>1, RowAfter, Zenon DEF OldPlace, NewPlace
<1>2. /\ store.rows \in Nat /\ store.rows = Len(store.disk[store.day].rows)
      /\ Len(store'.disk[d].rows) \in Nat
      /\ d \in DOMAIN store.disk => Len(store.disk[d].rows) \in Nat
  BY Disks, DiskRows
<1>3. ASSUME NEW r \in 1 .. Len(store'.disk[d].rows), NEW q \in 1 .. r, OldPlace(d, r)
      PROVE  OldPlace(d, q)
  <2>1. q \in 1 .. Len(store'.disk[d].rows)
    BY <1>2
  <2>2. ~NewPlace(d, q)
    <3>1. d \in DOMAIN store.disk /\ r \in 1 .. Len(store.disk[d].rows)
      BY <1>3 DEF OldPlace
    <3>2. q <= Len(store.disk[d].rows)
      BY <1>2, <3>1
    <3>3. d = store.day => q <= store.rows /\ q # store.rows + 1
      BY <1>2, <3>2
    <3> QED
      BY <3>3 DEF NewPlace
  <2> QED
    BY <1>1, <2>1, <2>2
<1>4. ASSUME NEW r \in 1 .. Len(store'.disk[d].rows), NEW q \in 1 .. r, NewPlace(d, r),
             q # r
      PROVE  OldPlace(d, q)
  <2>1. q \in 1 .. Len(store'.disk[d].rows)
    BY <1>2
  <2>2. ~NewPlace(d, q)
    BY <1>4 DEF NewPlace
  <2> QED
    BY <1>1, <2>1, <2>2
<1> QED
  BY <1>1, <1>3, <1>4

\* The rows of the open event, and where they are.
LEMMA OpenRowsPlace ==
  ASSUME Inv, Recording
  PROVE  /\ store.day \in DOMAIN store.disk /\ store.rows \in Nat
         /\ store.rows = Len(store.disk[store.day].rows)
         /\ OpenRows = store.disk[store.day].rows
         /\ store.rows = event.startRow + event.saved
         /\ event.startRow \in Nat /\ event.saved \in Nat
         /\ \A r \in 1 .. store.rows : r > event.startRow <=> CurrentRow(OpenRows[r])
         /\ \A d \in DOMAIN store.disk : \A r \in 1 .. Len(store.disk[d].rows) :
              CurrentRow(store.disk[d].rows[r]) => d = store.day
<1>1. /\ store.day \in DOMAIN store.disk /\ store.rows \in Nat
      /\ store.rows = Len(store.disk[store.day].rows)
      /\ OpenRows = store.disk[store.day].rows
  BY Disks DEF OpenRows
<1>2. Running /\ EventOpen
  BY DEF Recording
<1>3. /\ store.rows = event.startRow + event.saved
      /\ \A r \in 1 .. store.rows : r > event.startRow <=> CurrentRow(OpenRows[r])
  BY <1>2 DEF Inv, EventRowsKnown, OpenRows
<1>4. \A d \in DOMAIN store.disk : \A r \in 1 .. Len(store.disk[d].rows) :
        CurrentRow(store.disk[d].rows[r]) => d = store.day
  BY <1>2 DEF Inv, EventInOpenFile
<1> QED
  BY <1>1, <1>3, <1>4, EventNumbers DEF Inv

\* Two rows, if they are of one event, are in one file, all between them too.
Together(disk, d1, d2, r1, r2) ==
  LET a == disk[d1].rows[r1]
      b == disk[d2].rows[r2]
  IN SameEvent(a, b) =>
       /\ d1 = d2
       /\ \A r \in r1 .. r2 : SameEvent(disk[d1].rows[r], a)
       /\ (a.state = PreTrigger /\ b.state = Active /\ r2 = r1 + 1)
            => DayOf(b.frame.ts) = d1

\* No step parts an event.
LEMMA InOneFileStep ==
  ASSUME Inv, Next, Recording => NewRowFits, EventInOneFile
  PROVE  EventInOneFile'
<1> SUFFICES ASSUME NEW d1 \in DOMAIN store'.disk, NEW d2 \in DOMAIN store'.disk,
                    NEW r1 \in DOMAIN store'.disk[d1].rows,
                    NEW r2 \in DOMAIN store'.disk[d2].rows
             PROVE  Together(store'.disk, d1, d2, r1, r2)
  BY Zenon DEF EventInOneFile, Together
<1> DEFINE a == store'.disk[d1].rows[r1]
           b == store'.disk[d2].rows[r2]
<1> SUFFICES ASSUME SameEvent(a, b)
             PROVE  /\ d1 = d2
                    /\ \A r \in r1 .. r2 : SameEvent(store'.disk[d1].rows[r], a)
                    /\ (a.state = PreTrigger /\ b.state = Active /\ r2 = r1 + 1)
                         => DayOf(b.frame.ts) = d1
  BY Zenon DEF Together
<1>1. /\ r1 \in 1 .. Len(store'.disk[d1].rows)
      /\ r2 \in 1 .. Len(store'.disk[d2].rows)
      /\ Len(store'.disk[d1].rows) \in Nat /\ Len(store'.disk[d2].rows) \in Nat
  BY Disks, DiskRows
<1>2. CASE OldPlace(d1, r1) /\ OldPlace(d2, r2)
  <2>1. /\ d1 \in DOMAIN store.disk /\ r1 \in DOMAIN store.disk[d1].rows
        /\ d2 \in DOMAIN store.disk /\ r2 \in DOMAIN store.disk[d2].rows
        /\ a = store.disk[d1].rows[r1] /\ b = store.disk[d2].rows[r2]
    BY <1>2, Disks, DiskRows DEF OldPlace
  <2>2. /\ d1 = d2
        /\ \A r \in r1 .. r2 : SameEvent(store.disk[d1].rows[r], a)
        /\ a.state = PreTrigger /\ b.state = Active /\ r2 = r1 + 1 => DayOf(b.frame.ts) = d1
    BY <2>1 DEF EventInOneFile
  <2>3. ASSUME NEW r \in r1 .. r2
        PROVE  SameEvent(store'.disk[d1].rows[r], a)
    <3>1. r \in 1 .. r2
      BY <1>1
    <3>2. OldPlace(d2, r)
      BY <1>1, <1>2, <3>1, Places
    <3> QED
      BY <2>2, <3>2 DEF OldPlace
  <2> QED
    BY <2>2, <2>3
<1>3. CASE OldPlace(d1, r1) /\ NewPlace(d2, r2)
  <2>1. /\ Recording /\ d2 = store.day /\ r2 = store.rows + 1
        /\ b.frame = RecFrame /\ b.event = event.id /\ b.state = RecState
        /\ d1 \in DOMAIN store.disk /\ r1 \in 1 .. Len(store.disk[d1].rows)
        /\ a = store.disk[d1].rows[r1]
    BY <1>3 DEF OldPlace, NewPlace
  <2>2. CurrentRow(a) /\ CurrentRow(b)
    BY <2>1, NewRowsEvent
  <2>3. /\ d1 = store.day /\ r1 \in 1 .. store.rows /\ r1 > event.startRow
        /\ store.rows \in Nat /\ event.startRow \in Nat
        /\ store.rows = event.startRow + event.saved /\ event.saved \in Nat
        /\ a = OpenRows[r1]
    <3>1. d1 = store.day
      BY <2>1, <2>2, OpenRowsPlace
    <3>2. r1 \in 1 .. store.rows /\ a = OpenRows[r1]
      BY <2>1, <3>1, OpenRowsPlace
    <3> QED
      BY <2>1, <2>2, <3>1, <3>2, OpenRowsPlace
  <2>4. ASSUME NEW r \in r1 .. r2
        PROVE  SameEvent(store'.disk[d1].rows[r], a)
    <3>1. CASE r = r2
      BY <2>1, <2>2, <2>3, <3>1 DEF SameEvent, CurrentRow, RowOf
    <3>2. CASE r # r2
      <4>1. r \in 1 .. r2 /\ r \in 1 .. store.rows /\ r > event.startRow
        <5>1. r \in Int /\ r1 <= r /\ r <= r2 /\ r2 = store.rows + 1 /\ 1 <= r1
          BY <1>1, <2>1
        <5> QED
          BY <2>3, <3>2, <5>1
      <4>2. store'.disk[d1].rows[r] = OpenRows[r]
        <5>1. OldPlace(d2, r)
          BY <1>1, <1>3, <3>2, <4>1, Places
        <5> QED
          BY <2>1, <2>3, <5>1, OpenRowsPlace DEF OldPlace
      <4>3. CurrentRow(OpenRows[r])
        BY <2>1, <4>1, OpenRowsPlace
      <4> QED
        BY <2>2, <4>2, <4>3 DEF SameEvent, CurrentRow, RowOf
    <3> QED
      BY <3>1, <3>2
  <2>5. ASSUME a.state = PreTrigger, b.state = Active, r2 = r1 + 1
        PROVE  DayOf(b.frame.ts) = d1
    <3>1. r1 = store.rows /\ event.saved > 0
      <4>1. r1 \in Nat /\ store.rows \in Nat
        BY <2>3
      <4>4. r1 + 1 = store.rows + 1
        BY <2>1, <2>5
      <4>2. r1 = store.rows
        BY <4>1, <4>4
      <4>3. /\ store.rows = event.startRow + event.saved /\ r1 > event.startRow
            /\ event.startRow \in Nat /\ event.saved \in Nat
        BY <2>1, <2>3, OpenRowsPlace
      <4> QED
        BY <4>2, <4>3
    <3> QED
      BY <2>1, <2>3, <2>5, <3>1 DEF NewRowFits
  <2> QED
    BY <2>1, <2>3, <2>4, <2>5
<1>4. CASE NewPlace(d1, r1) /\ OldPlace(d2, r2)
  <2>1. /\ Recording /\ d1 = store.day /\ r1 = store.rows + 1
        /\ a.frame = RecFrame /\ a.event = event.id
        /\ d2 \in DOMAIN store.disk /\ r2 \in 1 .. Len(store.disk[d2].rows)
        /\ b = store.disk[d2].rows[r2]
    BY <1>4 DEF OldPlace, NewPlace
  <2>2. CurrentRow(b)
    BY <2>1, NewRowsEvent
  <2>3. d2 = store.day /\ r2 <= store.rows /\ store.rows \in Nat
    <3>1. d2 = store.day
      BY <2>1, <2>2, OpenRowsPlace
    <3>2. Len(store.disk[d2].rows) = store.rows /\ store.rows \in Nat
      BY <2>1, <3>1, OpenRowsPlace
    <3> QED
      BY <2>1, <3>1, <3>2
  <2>4. r1 .. r2 = {} /\ r2 # r1 + 1
    BY <1>1, <2>1, <2>3
  <2> QED
    BY <2>1, <2>3, <2>4
<1>5. CASE NewPlace(d1, r1) /\ NewPlace(d2, r2)
  <2>1. d1 = d2 /\ r1 = r2
    BY <1>5 DEF NewPlace
  <2>2. r2 # r1 + 1 /\ \A r \in r1 .. r2 : r = r1
    BY <1>1, <2>1
  <2>3. SameEvent(a, a)
    BY DEF SameEvent, RowOf
  <2> QED
    BY <2>1, <2>2, <2>3
<1> QED
  BY <1>1, <1>2, <1>3, <1>4, <1>5, Places

\* No step puts the rows of an event out of order.
LEMMA ShapeStep ==
  ASSUME Inv, Next, Recording => NewRowFits, EventShape
  PROVE  EventShape'
<1> SUFFICES ASSUME NEW d \in DOMAIN store'.disk,
                    NEW r \in 2 .. Len(store'.disk[d].rows)
             PROVE  LET rows == store'.disk[d].rows
                    IN IF SameEvent(rows[r - 1], rows[r])
                       THEN /\ rows[r].state = PreTrigger => rows[r - 1].state = PreTrigger
                            /\ rows[r].state = PostTrigger => rows[r - 1].state # PreTrigger
                            /\ rows[r].state # PreTrigger =>
                                 FollowsInStream(rows[r - 1].frame, rows[r].frame)
                       ELSE rows[r].state # PostTrigger
  BY DEF EventShape
<1> DEFINE a == store'.disk[d].rows[r - 1]
           b == store'.disk[d].rows[r]
<1>1. Len(store'.disk[d].rows) \in Nat
  BY Disks, DiskRows
<1>2. /\ r \in 1 .. Len(store'.disk[d].rows) /\ r - 1 \in 1 .. r /\ r - 1 # r
  BY <1>1
<1>3. CASE OldPlace(d, r)
  <2>1. OldPlace(d, r - 1)
    BY <1>2, <1>3, Places
  <2>2. /\ d \in DOMAIN store.disk /\ r \in 2 .. Len(store.disk[d].rows)
        /\ a = store.disk[d].rows[r - 1] /\ b = store.disk[d].rows[r]
    BY <1>2, <1>3, <2>1 DEF OldPlace
  <2> HIDE DEF a, b
  <2>3. IF SameEvent(a, b)
        THEN /\ b.state = PreTrigger => a.state = PreTrigger
             /\ b.state = PostTrigger => a.state # PreTrigger
             /\ b.state # PreTrigger => FollowsInStream(a.frame, b.frame)
        ELSE b.state # PostTrigger
    BY <2>2 DEF EventShape
  <2> QED
    BY <2>3 DEF a, b
<1>4. CASE NewPlace(d, r)
  <2>1. OldPlace(d, r - 1)
    BY <1>2, <1>4, Places
  <2>2. /\ Recording /\ d = store.day /\ r = store.rows + 1
        /\ b.frame = RecFrame /\ b.event = event.id /\ b.state = RecState
    BY <1>4 DEF NewPlace
  <2>3. a = OpenRows[store.rows] /\ r - 1 = store.rows /\ store.rows \in 1 .. store.rows
    <3>1. r - 1 = store.rows /\ store.rows \in 1 .. store.rows
      BY <1>2, <2>2, OpenRowsPlace
    <3> QED
      BY <2>1, <2>2, <3>1, OpenRowsPlace DEF OldPlace
  <2> HIDE DEF a, b
  <2>4. SameEvent(a, b) <=> CurrentRow(a)
    BY <2>2, NewRowsEvent
  <2>5. CurrentRow(a) <=> event.saved > 0
    <3>1. CurrentRow(a) <=> store.rows > event.startRow
      BY <2>2, <2>3, OpenRowsPlace
    <3>2. store.rows > event.startRow <=> event.saved > 0
      BY <2>2, OpenRowsPlace
    <3> QED
      BY <3>1, <3>2
  <2>6. CASE event.saved > 0
    <3>1. /\ b.state = PreTrigger => a.state = PreTrigger
          /\ b.state = PostTrigger => a.state # PreTrigger
          /\ b.state # PreTrigger => FollowsInStream(a.frame, b.frame)
      BY <2>2, <2>3, <2>6 DEF NewRowFits
    <3> QED
      BY <2>4, <2>5, <2>6, <3>1 DEF a, b
  <2>7. CASE ~(event.saved > 0)
    <3>1. event.saved = 0
      BY <2>2, <2>7, OpenRowsPlace
    <3>2. b.state # PostTrigger
      BY <2>2, <3>1 DEF NewRowFits
    <3> QED
      BY <2>4, <2>5, <2>7, <3>2 DEF a, b
  <2> QED
    BY <2>6, <2>7
<1> QED
  BY <1>2, <1>3, <1>4, Places

\* No step makes an event longer than max_event_seconds.
LEMMA DurationStep ==
  ASSUME Inv, Next, Recording => NewRowFits, EventDurationBounded
  PROVE  EventDurationBounded'
<1> SUFFICES ASSUME MaxEvent > 0, NEW d \in DOMAIN store'.disk,
                    NEW p \in DOMAIN store'.disk[d].rows,
                    NEW q \in DOMAIN store'.disk[d].rows,
                    SameEvent(store'.disk[d].rows[p], store'.disk[d].rows[q]),
                    store'.disk[d].rows[p].state = Active
             PROVE  store'.disk[d].rows[q].frame.ts
                      < store'.disk[d].rows[p].frame.ts + MaxEvent
  BY Zenon DEF EventDurationBounded
<1> DEFINE a == store'.disk[d].rows[p]
           b == store'.disk[d].rows[q]
<1>1. /\ p \in 1 .. Len(store'.disk[d].rows) /\ q \in 1 .. Len(store'.disk[d].rows)
      /\ a.frame.ts \in Nat
  BY Disks, DiskRows
<1>2. SameEvent(a, b) /\ a.state = Active /\ MaxEvent \in Nat
  BY RecorderAssumption
<1>3. CASE OldPlace(d, p) /\ OldPlace(d, q)
  <2>1. /\ d \in DOMAIN store.disk
        /\ p \in DOMAIN store.disk[d].rows /\ q \in DOMAIN store.disk[d].rows
        /\ a = store.disk[d].rows[p] /\ b = store.disk[d].rows[q]
    BY <1>3, Disks, DiskRows DEF OldPlace
  <2> HIDE DEF a, b
  <2>2. b.frame.ts < a.frame.ts + MaxEvent
    BY <1>2, <2>1 DEF EventDurationBounded
  <2> QED
    BY <2>2 DEF a, b
<1>4. ASSUME NEW r \in 1 .. Len(store'.disk[d].rows), OldPlace(d, r),
             Recording, d = store.day, CurrentRow(store'.disk[d].rows[r])
      PROVE  /\ r \in 1 .. store.rows /\ r > event.startRow
             /\ store'.disk[d].rows[r] = OpenRows[r]
  BY <1>4, OpenRowsPlace DEF OldPlace
<1>5. CASE OldPlace(d, p) /\ NewPlace(d, q)
  <2>1. /\ Recording /\ d = store.day
        /\ b.frame = RecFrame /\ b.event = event.id
    BY <1>5 DEF NewPlace
  <2>2. CurrentRow(a)
    <3> HIDE DEF a, b
    <3> QED
      BY <1>2, <2>1, NewRowsEvent
  <2>3. p \in 1 .. store.rows /\ p > event.startRow /\ a = OpenRows[p]
    BY <1>1, <1>4, <1>5, <2>1, <2>2
  <2> HIDE DEF a, b
  <2>4. b.frame.ts < a.frame.ts + MaxEvent
    BY <1>2, <2>1, <2>3 DEF NewRowFits
  <2> QED
    BY <2>4 DEF a, b
<1>6. CASE NewPlace(d, p) /\ OldPlace(d, q)
  <2>1. /\ Recording /\ d = store.day
        /\ a.frame = RecFrame /\ a.event = event.id /\ a.state = RecState
    BY <1>6 DEF NewPlace
  <2>2. CurrentRow(b)
    <3> HIDE DEF a, b
    <3> QED
      BY <1>2, <2>1, NewRowsEvent
  <2>3. q \in 1 .. store.rows /\ q > event.startRow /\ b = OpenRows[q]
    BY <1>1, <1>4, <1>6, <2>1, <2>2
  <2> HIDE DEF a, b
  <2>4. b.frame.ts < a.frame.ts + MaxEvent
    BY <1>2, <2>1, <2>3 DEF NewRowFits
  <2> QED
    BY <2>4 DEF a, b
<1>7. CASE NewPlace(d, p) /\ NewPlace(d, q)
  <2>1. p = q
    BY <1>7 DEF NewPlace
  <2>2. a.frame.ts < a.frame.ts + MaxEvent
    <3> HIDE DEF a
    <3> QED
      BY <1>1, <1>2
  <2> QED
    BY <2>1, <2>2
<1> QED
  BY <1>1, <1>3, <1>5, <1>6, <1>7, Places

\* Between events the open file is the one of the last frame's day.
LEMMA IdleFileStep ==
  ASSUME Inv, EventTracked, RearmKnown, IdleFileCurrent, Next
  PROVE  IdleFileCurrent'
<1>1. /\ TypeOK /\ startTs \in Nat /\ nextIndex \in Nat
      /\ ThisFrame.ts = startTs + 1 + nextIndex
      /\ ThisFrame.ts = startTs + (nextIndex + 1)
  BY Clock DEF Inv, TypeOK
<1>2. \A s : Tick(s, ThisFrame.ts, FALSE).day = DayOf(ThisFrame.ts)
  BY DEF Tick, Rotate, Open
<1>3. ASSUME FrameDone, store'.day = DayOf(ThisFrame.ts)
      PROVE  IdleFileCurrent'
  <2>1. startTs' = startTs /\ nextIndex' = nextIndex + 1
    BY <1>3, DoneEffect
  <2> QED
    BY <1>1, <1>3, <2>1 DEF IdleFileCurrent
<1>4. ASSUME pc' # "ready" \/ InEvent' \/ nextIndex' = 0
      PROVE  IdleFileCurrent'
  BY <1>4 DEF IdleFileCurrent
<1>5. CASE InhibitedFrame \/ IdleFrame
  <2>1. /\ store' = Ticked /\ FrameDone /\ ~InEvent
    <3>1. CASE InhibitedFrame
      <4>1. event.rearmUntil # 0 /\ Running
        BY <3>1, InhibitedEffect DEF Inhibited, Running
      <4> QED
        BY <3>1, <4>1, InhibitedEffect DEF RearmKnown, EventOpen
    <3> QED
      BY <1>5, <3>1, IdleEffect
  <2>2. store'.day = DayOf(ThisFrame.ts)
    BY <2>1 DEF Ticked, Tick, Rotate, Open
  <2> QED
    BY <1>3, <2>1, <2>2
<1>6. CASE CutEvent
  <2>1. FrameDone /\ store'.day = DayOf(ThisFrame.ts)
    <3>1. FrameDone /\ \E s : store' = Tick(s, ThisFrame.ts, FALSE)
      BY <1>6 DEF CutEvent
    <3> QED
      BY <1>2, <3>1
  <2> QED
    BY <1>3, <2>1
<1>7. ASSUME NEW above \in BOOLEAN, ActiveFrame(above)
      PROVE  IdleFileCurrent'
  <2>1. CASE EndsAtTriggerOff(above)
    <3>1. FrameDone /\ \E s : store' = Tick(s, ThisFrame.ts, FALSE)
      BY <1>7, <2>1, ActiveEffect
    <3> QED
      BY <1>2, <1>3, <3>1
  <2>2. CASE ~EndsAtTriggerOff(above)
    <3>1. event'.active = above /\ event'.post = IF above THEN event.post ELSE PostFrames
      BY <1>7, <2>2, ActiveEffect
    <3>2. InEvent'
      BY <2>2, <3>1, RecorderAssumption DEF EndsAtTriggerOff, InEvent
    <3> QED
      BY <1>4, <3>2
  <2> QED
    BY <2>1, <2>2
<1>8. ASSUME NEW above \in BOOLEAN, PostFrame(above)
      PROVE  IdleFileCurrent'
  <2>1. CASE ~above /\ event.post = 1
    <3>1. FrameDone /\ \E s : store' = Tick(s, ThisFrame.ts, FALSE)
      BY <1>8, <2>1, PostEffect
    <3> QED
      BY <1>2, <1>3, <3>1
  <2>2. CASE ~(~above /\ event.post = 1)
    <3>1. /\ event'.active = above /\ event'.post = IF above THEN 0 ELSE event.post - 1
          /\ event.post > 0
      BY <1>8, <2>2, PostEffect
    <3>2. InEvent'
      <4>1. CASE above
        BY <3>1, <4>1 DEF InEvent
      <4>2. CASE ~above
        <5>1. event.post \in Nat /\ event.post > 0 /\ event.post # 1
          BY <2>2, <3>1, <4>2, EventNumbers DEF Inv
        <5>2. event.post - 1 > 0
          BY <5>1
        <5> QED
          BY <3>1, <4>2, <5>2 DEF InEvent
      <4> QED
        BY <4>1, <4>2
    <3> QED
      BY <1>4, <3>2
  <2> QED
    BY <2>1, <2>2
<1>9. CASE TriggerOn \/ Backlog \/ WriteFails \/ Stop
  BY <1>4, <1>9 DEF TriggerOn, Backlog, WriteFails, Stop
<1>10. CASE Trigger
  BY <1>4, <1>10, TriggerEffect DEF InEvent
<1>11. CASE Restart
  BY <1>4, <1>11, RestartEffect
<1> QED
  BY <1>5, <1>6, <1>7, <1>8, <1>9, <1>10, <1>11 DEF Next, Consume

-----------------------------------------------------------------------------
(***************************************************************************)
(* The counters: the rows of this process in the files, and its events.    *)
(***************************************************************************)
\* The places of the rows of a process.
SessionRowsOf(disk, s) ==
  { dr \in UNION { {d} \X DOMAIN disk[d].rows : d \in DOMAIN disk } :
      disk[dr[1]].rows[dr[2]].frame.session = s }

\* Which places SessionRowsOf holds.
LEMMA SessionRow ==
  ASSUME NEW disk, DiskOK(disk), NEW s
  PROVE  /\ \A x \in SessionRowsOf(disk, s) :
              \E d \in DOMAIN disk : \E r \in 1 .. Len(disk[d].rows) :
                x = <<d, r>> /\ disk[d].rows[r].frame.session = s
         /\ \A d \in DOMAIN disk : \A r \in 1 .. Len(disk[d].rows) :
              <<d, r>> \in SessionRowsOf(disk, s) <=> disk[d].rows[r].frame.session = s
<1>1. \A d \in DOMAIN disk : DOMAIN disk[d].rows = 1 .. Len(disk[d].rows)
  BY DiskRows
<1>2. ASSUME NEW x \in SessionRowsOf(disk, s)
      PROVE  \E d \in DOMAIN disk : \E r \in 1 .. Len(disk[d].rows) :
               x = <<d, r>> /\ disk[d].rows[r].frame.session = s
  <2>1. PICK d \in DOMAIN disk : x \in {d} \X DOMAIN disk[d].rows
    BY DEF SessionRowsOf
  <2>2. PICK r \in DOMAIN disk[d].rows : x = <<d, r>>
    BY <2>1
  <2>3. disk[x[1]].rows[x[2]].frame.session = s
    BY DEF SessionRowsOf
  <2> QED
    BY <1>1, <2>2, <2>3
<1>3. ASSUME NEW d \in DOMAIN disk, NEW r \in 1 .. Len(disk[d].rows)
      PROVE  <<d, r>> \in SessionRowsOf(disk, s) <=> disk[d].rows[r].frame.session = s
  <2>1. <<d, r>> \in {d} \X DOMAIN disk[d].rows
    BY <1>1
  <2>2. <<d, r>> \in UNION { {k} \X DOMAIN disk[k].rows : k \in DOMAIN disk }
    BY <2>1
  <2>3. <<d, r>>[1] = d /\ <<d, r>>[2] = r
    OBVIOUS
  <2> QED
    BY <2>2, <2>3 DEF SessionRowsOf
<1> QED
  BY <1>2, <1>3

\* SessionRows and its next value, by the files and the session they are of.
LEMMA SessionRowsAre ==
  /\ SessionRows = SessionRowsOf(store.disk, session)
  /\ SessionRows' = SessionRowsOf(store'.disk, session')
  BY DEF SessionRows, SessionRowsOf

\* Opening files leaves the rows.
LEMMA CountKept ==
  ASSUME Inv, DiskOK(store'.disk), OpenedOnly(store.disk, store'.disk), session' = session
  PROVE  SessionRows' = SessionRows
<1> DEFINE old == SessionRowsOf(store.disk, session)
           new == SessionRowsOf(store'.disk, session)
<1>1. DiskOK(store.disk) /\ Len(EmptyFile.rows) = 0
  BY Disks DEF EmptyFile
<1>2. /\ \A d \in DOMAIN store.disk : d \in DOMAIN store'.disk /\ store'.disk[d] = store.disk[d]
      /\ \A d \in DOMAIN store'.disk : d \notin DOMAIN store.disk => Len(store'.disk[d].rows) = 0
  BY <1>1 DEF OpenedOnly
<1>3. ASSUME NEW x \in old PROVE x \in new
  <2>1. PICK d \in DOMAIN store.disk : \E r \in 1 .. Len(store.disk[d].rows) :
          x = <<d, r>> /\ store.disk[d].rows[r].frame.session = session
    BY <1>1, <1>3, SessionRow
  <2>2. PICK r \in 1 .. Len(store.disk[d].rows) :
          x = <<d, r>> /\ store.disk[d].rows[r].frame.session = session
    BY <2>1
  <2> QED
    BY <1>2, <2>2, SessionRow
<1>4. ASSUME NEW x \in new PROVE x \in old
  <2>1. PICK d \in DOMAIN store'.disk : \E r \in 1 .. Len(store'.disk[d].rows) :
          x = <<d, r>> /\ store'.disk[d].rows[r].frame.session = session
    BY <1>4, SessionRow
  <2>2. PICK r \in 1 .. Len(store'.disk[d].rows) :
          x = <<d, r>> /\ store'.disk[d].rows[r].frame.session = session
    BY <2>1
  <2>3. d \in DOMAIN store.disk
    BY <1>2
  <2> QED
    BY <1>1, <1>2, <2>2, <2>3, SessionRow
<1>5. new = old
  BY <1>3, <1>4
<1> QED
  BY <1>5, SessionRowsAre

\* A row that is recorded is one more.
LEMMA CountAdded ==
  ASSUME Inv, DiskOK(store'.disk), RowAdded(store'.disk), session' = session,
         Len(store'.disk[store.day].rows) = store.rows + 1, IsFiniteSet(SessionRows)
  PROVE  /\ IsFiniteSet(SessionRows')
         /\ Cardinality(SessionRows') = Cardinality(SessionRows) + 1
<1> DEFINE old == SessionRowsOf(store.disk, session)
           new == SessionRowsOf(store'.disk, session)
           x0 == <<store.day, store.rows + 1>>
<1>1. /\ DiskOK(store.disk) /\ Len(EmptyFile.rows) = 0
      /\ store.day \in DOMAIN store.disk /\ store.rows \in Nat
      /\ store.rows = Len(store.disk[store.day].rows)
      /\ RecFrame.session = session
  BY Disks, BacklogFrameTyped, ThisFrameTyped DEF EmptyFile, Inv, RecFrame
<1>2. /\ \A d \in DOMAIN store.disk : d \in DOMAIN store'.disk
      /\ \A d \in DOMAIN store.disk \ {store.day} : store'.disk[d] = store.disk[d]
      /\ \A d \in DOMAIN store'.disk : d \notin DOMAIN store.disk => Len(store'.disk[d].rows) = 0
      /\ \A r \in 1 .. store.rows : store'.disk[store.day].rows[r] = store.disk[store.day].rows[r]
      /\ store'.disk[store.day].rows[store.rows + 1].frame = RecFrame
  BY <1>1 DEF RowAdded
<1>3. \A r : r \in 1 .. store.rows + 1 <=> r \in 1 .. store.rows \/ r = store.rows + 1
  BY <1>1
<1>4. ASSUME NEW x \in old PROVE x \in new /\ x # x0
  <2>1. PICK d \in DOMAIN store.disk : \E r \in 1 .. Len(store.disk[d].rows) :
          x = <<d, r>> /\ store.disk[d].rows[r].frame.session = session
    BY <1>1, <1>4, SessionRow
  <2>2. PICK r \in 1 .. Len(store.disk[d].rows) :
          x = <<d, r>> /\ store.disk[d].rows[r].frame.session = session
    BY <2>1
  <2>3. CASE d = store.day
    <3>1. /\ r \in 1 .. store.rows /\ r # store.rows + 1
          /\ r \in 1 .. Len(store'.disk[d].rows)
      BY <1>1, <1>3, <2>2, <2>3
    <3> QED
      BY <1>2, <2>2, <2>3, <3>1, SessionRow
  <2>4. CASE d # store.day
    BY <1>2, <2>2, <2>4, SessionRow
  <2> QED
    BY <2>3, <2>4
<1>5. x0 \in new
  <2>1. store.rows + 1 \in 1 .. Len(store'.disk[store.day].rows)
    BY <1>1
  <2> QED
    BY <1>1, <1>2, <2>1, SessionRow
<1>6. ASSUME NEW x \in new PROVE x \in old \/ x = x0
  <2>1. PICK d \in DOMAIN store'.disk : \E r \in 1 .. Len(store'.disk[d].rows) :
          x = <<d, r>> /\ store'.disk[d].rows[r].frame.session = session
    BY <1>6, SessionRow
  <2>2. PICK r \in 1 .. Len(store'.disk[d].rows) :
          x = <<d, r>> /\ store'.disk[d].rows[r].frame.session = session
    BY <2>1
  <2>3. d \in DOMAIN store.disk
    BY <1>2
  <2>4. CASE d = store.day
    <3>1. r \in 1 .. store.rows \/ r = store.rows + 1
      BY <1>3, <2>4
    <3> QED
      BY <1>1, <1>2, <2>2, <2>4, <3>1, SessionRow
  <2>5. CASE d # store.day
    <3>1. store'.disk[d] = store.disk[d]
      BY <1>2, <2>3, <2>5
    <3>2. /\ r \in 1 .. Len(store.disk[d].rows)
          /\ x = <<d, r>> /\ store.disk[d].rows[r].frame.session = session
      BY <2>2, <3>1
    <3> QED
      BY <1>1, <2>3, <3>2, SessionRow
  <2> QED
    BY <2>4, <2>5
<1> HIDE DEF old, new, x0
<1>7. new = old \cup {x0} /\ x0 \notin old
  BY <1>4, <1>5, <1>6
<1>8. old = SessionRows /\ new = SessionRows'
  BY SessionRowsAre DEF old, new
<1> QED
  BY <1>7, <1>8, FS_AddElement

\* A discard takes the rows of the event, and no others.
LEMMA CountDropped ==
  ASSUME Inv, DiskOK(store'.disk), EventDropped(store'.disk), session' = session,
         IsFiniteSet(SessionRows)
  PROVE  /\ IsFiniteSet(SessionRows')
         /\ Cardinality(SessionRows') = Cardinality(SessionRows) - event.saved
         /\ event.saved <= Cardinality(SessionRows)
         /\ Cardinality(SessionRows) \in Nat
<1> DEFINE old == SessionRowsOf(store.disk, session)
           new == SessionRowsOf(store'.disk, session)
           range == event.startRow + 1 .. store.rows
           gone == {store.day} \X range
<1>1. /\ DiskOK(store.disk) /\ store.day \in DOMAIN store.disk /\ store.rows \in Nat
      /\ store.rows = Len(store.disk[store.day].rows)
      /\ store.rows = event.startRow + event.saved
      /\ event.startRow \in Nat /\ event.saved \in Nat
      /\ \A r \in 1 .. store.rows :
           r > event.startRow <=> CurrentRow(store.disk[store.day].rows[r])
      /\ \A d \in DOMAIN store.disk : \A r \in 1 .. Len(store.disk[d].rows) :
           CurrentRow(store.disk[d].rows[r]) => d = store.day
      /\ \A d \in DOMAIN store.disk : Len(store.disk[d].rows) \in Nat
  <2>1. Running /\ EventOpen
    BY DEF EventDropped, EventOpen
  <2>2. /\ store.rows = event.startRow + event.saved
        /\ \A r \in 1 .. store.rows :
             r > event.startRow <=> CurrentRow(store.disk[store.day].rows[r])
    BY <2>1, Disks DEF Inv, EventRowsKnown
  <2>3. \A d \in DOMAIN store.disk : \A r \in 1 .. Len(store.disk[d].rows) :
           CurrentRow(store.disk[d].rows[r]) => d = store.day
    BY <2>1 DEF Inv, EventInOpenFile
  <2> QED
    BY <2>2, <2>3, Disks, DiskRows, EventNumbers DEF Inv
<1>2. /\ \A d \in DOMAIN store'.disk : \A r \in 1 .. Len(store'.disk[d].rows) :
           /\ d \in DOMAIN store.disk /\ r <= Len(store.disk[d].rows)
           /\ store'.disk[d].rows[r] = store.disk[d].rows[r]
           /\ ~CurrentRow(store'.disk[d].rows[r])
      /\ \A d \in DOMAIN store.disk :
           /\ d \in DOMAIN store'.disk
           /\ \A r \in 1 .. Len(store.disk[d].rows) :
                ~CurrentRow(store.disk[d].rows[r]) => r <= Len(store'.disk[d].rows)
  BY DEF EventDropped, DropsEvent, OldRow
<1>3. \A d \in DOMAIN store'.disk : Len(store'.disk[d].rows) \in Nat
  BY DiskRows
<1>4. \A n \in Nat : \A m \in Nat : \A r \in 1 .. n : r <= m => r \in 1 .. m
  OBVIOUS
<1>5. /\ \A d : \A r : <<d, r>> \in gone <=> d = store.day /\ r \in range
      /\ \A x \in gone : \E r \in range : x = <<store.day, r>>
  OBVIOUS
<1>6. ASSUME NEW x \in new PROVE x \in old /\ x \notin gone
  <2>1. PICK d \in DOMAIN store'.disk : \E r \in 1 .. Len(store'.disk[d].rows) :
          x = <<d, r>> /\ store'.disk[d].rows[r].frame.session = session
    BY <1>6, SessionRow
  <2>2. PICK r \in 1 .. Len(store'.disk[d].rows) :
          x = <<d, r>> /\ store'.disk[d].rows[r].frame.session = session
    BY <2>1
  <2>3. /\ d \in DOMAIN store.disk /\ r <= Len(store.disk[d].rows)
        /\ store'.disk[d].rows[r] = store.disk[d].rows[r]
        /\ ~CurrentRow(store.disk[d].rows[r])
    BY <1>2
  <2>4. r \in 1 .. Len(store.disk[d].rows)
    BY <1>1, <1>3, <1>4, <2>3
  <2>5. x \in old
    BY <1>1, <2>2, <2>3, <2>4, SessionRow
  <2>6. ASSUME d = store.day PROVE ~(r \in range)
    <3>1. r \in 1 .. store.rows
      BY <1>1, <2>4, <2>6
    <3>2. ~(r > event.startRow)
      BY <1>1, <2>3, <2>6, <3>1
    <3> QED
      BY <1>1, <3>2
  <2> HIDE DEF range, gone
  <2> QED
    BY <1>5, <2>2, <2>5, <2>6
<1>7. ASSUME NEW x \in old, x \notin gone PROVE x \in new
  <2>1. PICK d \in DOMAIN store.disk : \E r \in 1 .. Len(store.disk[d].rows) :
          x = <<d, r>> /\ store.disk[d].rows[r].frame.session = session
    BY <1>1, <1>7, SessionRow
  <2>2. PICK r \in 1 .. Len(store.disk[d].rows) :
          x = <<d, r>> /\ store.disk[d].rows[r].frame.session = session
    BY <2>1
  <2>3. ~CurrentRow(store.disk[d].rows[r])
    <3> SUFFICES ASSUME CurrentRow(store.disk[d].rows[r]) PROVE FALSE
      OBVIOUS
    <3>1. d = store.day
      BY <1>1
    <3>2. r \in 1 .. store.rows /\ r > event.startRow
      BY <1>1, <3>1
    <3>3. r \in range
      BY <1>1, <3>2
    <3> HIDE DEF range, gone
    <3> QED
      BY <1>5, <1>7, <2>2, <3>1, <3>3
  <2>4. d \in DOMAIN store'.disk /\ r <= Len(store'.disk[d].rows)
    BY <1>2, <2>3
  <2>5. r \in 1 .. Len(store'.disk[d].rows)
    BY <1>1, <1>3, <1>4, <2>4
  <2>6. store'.disk[d].rows[r].frame.session = session
    BY <1>2, <2>2, <2>4, <2>5
  <2> QED
    BY <2>2, <2>4, <2>5, <2>6, SessionRow
<1>8. ASSUME NEW x \in gone PROVE x \in old
  <2>1. PICK r \in range : x = <<store.day, r>>
    BY <1>5
  <2>2. r \in 1 .. store.rows /\ r > event.startRow
    BY <1>1
  <2>3. store.disk[store.day].rows[r].frame.session = session
    BY <1>1, <2>2 DEF CurrentRow, RowOf
  <2> QED
    BY <1>1, <2>1, <2>2, <2>3, SessionRow
<1>9. IsFiniteSet(gone) /\ Cardinality(gone) = event.saved
  <2>1. IsFiniteSet(range) /\ Cardinality(range) = event.saved
    <3>1. event.startRow + 1 \in Int /\ store.rows \in Int
      BY <1>1
    <3>2. /\ IsFiniteSet(range)
          /\ Cardinality(range) = IF event.startRow + 1 > store.rows THEN 0
                                  ELSE store.rows - (event.startRow + 1) + 1
      BY <3>1, FS_Interval
    <3> HIDE DEF range
    <3> QED
      BY <1>1, <3>2
  <2> HIDE DEF range
  <2>2. IsFiniteSet({store.day}) /\ Cardinality({store.day}) = 1
    BY FS_Singleton
  <2>3. IsFiniteSet(gone) /\ Cardinality(gone) = Cardinality({store.day}) * Cardinality(range)
    BY <2>1, <2>2, FS_Product
  <2> HIDE DEF gone
  <2> QED
    BY <1>1, <2>1, <2>2, <2>3
<1> HIDE DEF old, new, gone
<1>10. new = old \ gone /\ old \cap gone = gone /\ gone \in SUBSET old
  BY <1>6, <1>7, <1>8
<1>11. old = SessionRows /\ new = SessionRows'
  BY SessionRowsAre DEF old, new
<1>12. /\ IsFiniteSet(old \ gone)
       /\ Cardinality(old \ gone) = Cardinality(old) - Cardinality(old \cap gone)
       /\ Cardinality(gone) <= Cardinality(old)
       /\ Cardinality(old) \in Nat
  BY <1>10, <1>11, FS_Difference, FS_Subset, FS_CardinalityType
<1> QED
  BY <1>9, <1>10, <1>11, <1>12

\* What the counters count.
StatsNumbers ==
  /\ stats.savedFrames \in Nat /\ stats.recordedEvents \in Nat
  /\ stats.discardedEvents \in Nat /\ stats.forcedCutoffs \in Nat

\* The counters are numbers.
LEMMA StatsAreNumbers == ASSUME Inv PROVE StatsNumbers /\ stats \in Stats
  BY DEF Inv, TypeOK, Stats, StatsNumbers

\* Incrementing some counters leaves the others.
LEMMA StatsChanges ==
  ASSUME NEW st \in Stats, NEW a \in Nat, NEW b \in Nat
  PROVE  LET s1 == [st EXCEPT !.triggerOns = @ + a, !.recordedEvents = @ + b]
             s2 == [st EXCEPT !.triggerOffs = @ + a, !.recordedEvents = @ + b]
             s3 == [st EXCEPT !.savedFrames = @ + 1]
         IN /\ \A s \in {s1, s2} : /\ s.savedFrames = st.savedFrames
                                   /\ s.discardedEvents = st.discardedEvents
                                   /\ s.forcedCutoffs = st.forcedCutoffs
                                   /\ s.recordedEvents = st.recordedEvents + b
            /\ s3 \in Stats
            /\ s3.savedFrames = st.savedFrames + 1
            /\ s3.discardedEvents = st.discardedEvents
            /\ s3.forcedCutoffs = st.forcedCutoffs
            /\ s3.recordedEvents = st.recordedEvents
<1>1. st.savedFrames + 1 \in Nat
  BY DEF Stats
<1> QED
  BY <1>1 DEF Stats

\* A step that records a frame counts it, and counts the event when it ends it.
LEMMA RecordedStats ==
  ASSUME Inv, EventTracked, Records
  PROVE  /\ stats'.savedFrames = stats.savedFrames + 1
         /\ stats'.discardedEvents = stats.discardedEvents
         /\ stats'.forcedCutoffs = stats.forcedCutoffs
         /\ stats'.recordedEvents = stats.recordedEvents + (IF EventOpen' THEN 0 ELSE 1)
         /\ event'.id = event.id /\ session' = session
<1>1. /\ stats \in Stats /\ StatsSaved \in Stats
      /\ StatsSaved.savedFrames = stats.savedFrames + 1
      /\ StatsSaved.discardedEvents = stats.discardedEvents
      /\ StatsSaved.forcedCutoffs = stats.forcedCutoffs
      /\ StatsSaved.recordedEvents = stats.recordedEvents
      /\ stats.recordedEvents \in Nat
  BY StatsAreNumbers, StatsChanges DEF StatsSaved, StatsNumbers
<1>2. ASSUME NEW above \in BOOLEAN, ActiveFrame(above)
      PROVE  /\ stats'.savedFrames = stats.savedFrames + 1
             /\ stats'.discardedEvents = stats.discardedEvents
             /\ stats'.forcedCutoffs = stats.forcedCutoffs
             /\ stats'.recordedEvents = stats.recordedEvents + (IF EventOpen' THEN 0 ELSE 1)
             /\ event'.id = event.id /\ session' = session
  <2> DEFINE b == IF EndsAtTriggerOff(above) THEN FinalizedCount ELSE 0
             a == IF above THEN 0 ELSE 1
  <2>1. stats' = [StatsSaved EXCEPT !.triggerOffs = @ + a, !.recordedEvents = @ + b]
    BY <1>2 DEF ActiveFrame
  <2>2. FinalizedCount = 1
    BY <1>2, ActiveEffect DEF FinalizedCount, EventTracked, InEvent, Running
  <2>3. a \in Nat /\ b \in Nat /\ b = (IF EndsAtTriggerOff(above) THEN 1 ELSE 0)
    BY <2>2
  <2> HIDE DEF a, b
  <2>4. /\ stats'.savedFrames = stats.savedFrames + 1
        /\ stats'.discardedEvents = stats.discardedEvents
        /\ stats'.forcedCutoffs = stats.forcedCutoffs
        /\ stats'.recordedEvents = stats.recordedEvents + b
    BY <1>1, <2>1, <2>3, StatsChanges
  <2>5. EventOpen' <=> ~EndsAtTriggerOff(above)
    <3>1. CASE EndsAtTriggerOff(above)
      <4>1. EventEnded /\ pc' = "ready"
        BY <1>2, <3>1, ActiveEffect, DoneEffect
      <4> QED
        BY <3>1, <4>1 DEF EventEnded, EventOpen, InEvent
    <3>2. CASE ~EndsAtTriggerOff(above)
      <4>1. event'.active = above /\ event'.post = IF above THEN event.post ELSE PostFrames
        BY <1>2, <3>2, ActiveEffect
      <4> QED
        BY <3>2, <4>1, RecorderAssumption DEF EndsAtTriggerOff, EventOpen, InEvent
    <3> QED
      BY <3>1, <3>2
  <2>6. event'.id = event.id /\ session' = session
    BY <1>2, ActiveEffect, DoneEffect
  <2> QED
    BY <2>3, <2>4, <2>5, <2>6
<1>3. ASSUME NEW above \in BOOLEAN, PostFrame(above)
      PROVE  /\ stats'.savedFrames = stats.savedFrames + 1
             /\ stats'.discardedEvents = stats.discardedEvents
             /\ stats'.forcedCutoffs = stats.forcedCutoffs
             /\ stats'.recordedEvents = stats.recordedEvents + (IF EventOpen' THEN 0 ELSE 1)
             /\ event'.id = event.id /\ session' = session
  <2> DEFINE ends == ~above /\ event.post = 1
             b == IF ends THEN FinalizedCount ELSE 0
             a == IF above THEN 1 ELSE 0
  <2>1. stats' = [StatsSaved EXCEPT !.triggerOns = @ + a, !.recordedEvents = @ + b]
    BY <1>3 DEF PostFrame
  <2>2. FinalizedCount = 1
    BY <1>3, PostEffect DEF FinalizedCount, EventTracked, InEvent, Running
  <2>3. a \in Nat /\ b \in Nat /\ b = (IF ends THEN 1 ELSE 0)
    BY <2>2
  <2> HIDE DEF a, b
  <2>4. /\ stats'.savedFrames = stats.savedFrames + 1
        /\ stats'.discardedEvents = stats.discardedEvents
        /\ stats'.forcedCutoffs = stats.forcedCutoffs
        /\ stats'.recordedEvents = stats.recordedEvents + b
    BY <1>1, <2>1, <2>3, StatsChanges
  <2>5. EventOpen' <=> ~ends
    <3>1. CASE ends
      <4>1. EventEnded /\ pc' = "ready"
        BY <1>3, <3>1, PostEffect, DoneEffect
      <4> QED
        BY <3>1, <4>1 DEF EventEnded, EventOpen, InEvent
    <3>2. CASE ~ends
      <4>1. /\ event'.active = above /\ event'.post = IF above THEN 0 ELSE event.post - 1
            /\ event.post > 0 /\ event.post \in Nat
        BY <1>3, <3>2, PostEffect, EventNumbers DEF Inv
      <4>2. CASE above
        BY <3>2, <4>1, <4>2 DEF EventOpen, InEvent
      <4>3. CASE ~above
        <5>1. event'.post > 0
          BY <3>2, <4>1, <4>3
        <5> QED
          BY <3>2, <5>1 DEF EventOpen, InEvent
      <4> QED
        BY <4>2, <4>3
    <3> QED
      BY <3>1, <3>2
  <2>6. event'.id = event.id /\ session' = session
    BY <1>3, PostEffect, DoneEffect
  <2> QED
    BY <2>3, <2>4, <2>5, <2>6
<1>4. CASE Backlog \/ Trigger
  <2>1. stats' = StatsSaved
    BY <1>4 DEF Backlog, Trigger
  <2>2. event'.id = event.id /\ session' = session
    BY <1>4, BacklogEffect, TriggerEffect, DoneEffect
  <2>3. EventOpen'
    BY <1>4, BacklogEffect, TriggerEffect DEF EventOpen, InEvent
  <2> QED
    BY <1>1, <2>1, <2>2, <2>3
<1> QED
  BY <1>2, <1>3, <1>4 DEF Records

\* A cut counts its event as recorded or as discarded.
LEMMA CutStats ==
  ASSUME Inv, EventTracked, CutEvent
  PROVE  IF discards
         THEN /\ stats'.savedFrames = SavedAfterDiscard(stats.savedFrames)
              /\ stats'.discardedEvents = stats.discardedEvents + 1
              /\ stats'.recordedEvents = stats.recordedEvents
         ELSE /\ stats'.savedFrames = stats.savedFrames
              /\ stats'.discardedEvents = stats.discardedEvents
              /\ stats'.recordedEvents = stats.recordedEvents + 1
              /\ stats'.forcedCutoffs = stats.forcedCutoffs + 1
<1>1. stats \in Stats /\ StatsNumbers
  BY StatsAreNumbers
<1>2. FinalizedCount = 1
  BY CutEffect DEF FinalizedCount, EventTracked, Running
<1>3. CASE discards
  <2>1. stats' = [stats EXCEPT !.discardedEvents = @ + 1,
                               !.savedFrames = SavedAfterDiscard(@)]
    BY <1>3 DEF CutEvent
  <2> QED
    BY <1>1, <1>3, <2>1 DEF Stats
<1>4. CASE ~discards
  <2>1. stats' = [stats EXCEPT !.forcedCutoffs = @ + 1, !.recordedEvents = @ + 1]
    BY <1>2, <1>4 DEF CutEvent
  <2> QED
    BY <1>1, <1>4, <2>1 DEF Stats
<1> QED
  BY <1>3, <1>4

\* While consume() has not thrown, every row and every event of this process is
\* counted once.
Counted ==
  pc # "failed" =>
    /\ IsFiniteSet(SessionRows)
    /\ stats.savedFrames = Cardinality(SessionRows)
    /\ event.id = stats.recordedEvents + stats.discardedEvents
                    + (IF EventOpen THEN 1 ELSE 0)

\* Every step preserves Counted.
LEMMA CountedStep ==
  ASSUME Inv, EventTracked, RearmKnown, Counted, Next
  PROVE  Counted'
<1>1. DiskOK(store'.disk) /\ StatsNumbers /\ event.id \in Nat /\ event.saved \in Nat
  BY Disks, StatsAreNumbers, EventNumbers DEF Inv
<1>2. CASE Records
  <2>1. Recording /\ RowAdded(store'.disk) /\ Len(store'.disk[store.day].rows) = store.rows + 1
    BY <1>2, RecordingSteps, RecordedDisk
  <2>2. pc # "failed" /\ EventOpen
    BY <2>1 DEF Recording, Running
  <2>3. /\ stats'.savedFrames = stats.savedFrames + 1
        /\ stats'.discardedEvents = stats.discardedEvents
        /\ stats'.recordedEvents = stats.recordedEvents + (IF EventOpen' THEN 0 ELSE 1)
        /\ event'.id = event.id /\ session' = session
    BY <1>2, RecordedStats
  <2>4. /\ IsFiniteSet(SessionRows) /\ stats.savedFrames = Cardinality(SessionRows)
        /\ event.id = stats.recordedEvents + stats.discardedEvents + 1
    BY <2>2 DEF Counted
  <2>5. IsFiniteSet(SessionRows') /\ Cardinality(SessionRows') = Cardinality(SessionRows) + 1
    BY <1>1, <2>1, <2>3, <2>4, CountAdded
  <2>6. event'.id = stats'.recordedEvents + stats'.discardedEvents
                      + (IF EventOpen' THEN 1 ELSE 0)
    <3>1. CASE EventOpen'
      BY <1>1, <2>3, <2>4, <3>1 DEF StatsNumbers
    <3>2. CASE ~EventOpen'
      BY <1>1, <2>3, <2>4, <3>2 DEF StatsNumbers
    <3> QED
      BY <3>1, <3>2
  <2> QED
    BY <2>3, <2>4, <2>5, <2>6 DEF Counted
<1>3. ASSUME OpenedOnly(store.disk, store'.disk), session' = session, pc # "failed",
             stats' = stats, event'.id = event.id, EventOpen' <=> EventOpen
      PROVE  Counted'
  <2>1. SessionRows' = SessionRows
    BY <1>1, <1>3, CountKept
  <2> QED
    BY <1>3, <2>1 DEF Counted
<1>4. CASE InhibitedFrame \/ IdleFrame
  <2>1. Running /\ store' = Ticked /\ pc = "ready" /\ pc' = "ready" /\ session' = session
    BY <1>4, InhibitedEffect, IdleEffect, DoneEffect DEF Running
  <2>2. stats' = stats
    BY <1>4 DEF InhibitedFrame, IdleFrame
  <2>3. /\ event'.id = event.id /\ event'.active = event.active /\ event'.post = event.post
    BY <1>4, InhibitedEffect, IdleEffect
  <2>4. EventOpen' <=> EventOpen
    BY <2>1, <2>3 DEF EventOpen, InEvent
  <2> QED
    BY <1>3, <2>1, <2>2, <2>3, <2>4, TickedSound
<1>5. CASE TriggerOn
  <2>1. /\ Running /\ store' = Ticked /\ pc = "ready" /\ pc' = "trigger" /\ session' = session
        /\ event'.id = event.id + 1 /\ ~InEvent
    BY <1>5, TriggerOnEffect DEF Running
  <2>2. /\ stats'.savedFrames = stats.savedFrames
        /\ stats'.recordedEvents = stats.recordedEvents
        /\ stats'.discardedEvents = stats.discardedEvents
    <3>1. stats' = [stats EXCEPT !.triggerOns = @ + 1]
      BY <1>5 DEF TriggerOn
    <3> QED
      BY <3>1, StatsAreNumbers DEF Stats
  <2>3. SessionRows' = SessionRows
    BY <1>1, <2>1, TickedSound, CountKept
  <2>4. EventOpen' /\ ~EventOpen
    BY <2>1 DEF EventOpen
  <2>5. /\ IsFiniteSet(SessionRows) /\ stats.savedFrames = Cardinality(SessionRows)
        /\ event.id = stats.recordedEvents + stats.discardedEvents
    BY <1>1, <2>1, <2>4 DEF Counted, StatsNumbers
  <2> QED
    BY <2>1, <2>2, <2>3, <2>4, <2>5 DEF Counted
<1>6. CASE CutEvent
  <2>1. /\ Running /\ InEvent /\ EventOpen /\ pc = "ready" /\ pc' = "ready" /\ session' = session
        /\ event'.id = event.id /\ EventEnded
    BY <1>6, CutEffect, DoneEffect DEF Running, EventOpen
  <2>2. ~EventOpen'
    BY <2>1 DEF EventEnded, EventOpen, InEvent
  <2>3. /\ IsFiniteSet(SessionRows) /\ stats.savedFrames = Cardinality(SessionRows)
        /\ event.id = stats.recordedEvents + stats.discardedEvents + 1
    BY <2>1 DEF Counted
  <2>4. event'.id = stats'.recordedEvents + stats'.discardedEvents
    <3>1. CASE discards
      BY <1>1, <1>6, <2>1, <2>3, <3>1, CutStats DEF StatsNumbers
    <3>2. CASE ~discards
      BY <1>1, <1>6, <2>1, <2>3, <3>2, CutStats DEF StatsNumbers
    <3> QED
      BY <3>1, <3>2
  <2>5. IsFiniteSet(SessionRows') /\ stats'.savedFrames = Cardinality(SessionRows')
    <3>1. CASE discards
      <4>1. EventDropped(store'.disk)
        BY <1>6, <2>1, <3>1, CutStorage DEF EventDropped
      <4>2. /\ IsFiniteSet(SessionRows')
            /\ Cardinality(SessionRows') = Cardinality(SessionRows) - event.saved
            /\ event.saved <= Cardinality(SessionRows)
            /\ Cardinality(SessionRows) \in Nat
        BY <1>1, <2>1, <2>3, <4>1, CountDropped
      <4>3. stats'.savedFrames = SavedAfterDiscard(stats.savedFrames)
        BY <1>6, <3>1, CutStats
      <4> QED
        BY <1>1, <2>3, <4>2, <4>3 DEF SavedAfterDiscard
    <3>2. CASE ~discards
      <4>1. Ticked = store /\ StorageInv(store) /\ ThisFrame.ts \in Nat
        BY <2>1, TickedSound, Clock DEF Inv, StorageSound
      <4>2. store' = Tick(store, ThisFrame.ts, FALSE)
        BY <1>6, <3>2, <4>1 DEF CutEvent
      <4>3. SessionRows' = SessionRows
        BY <1>1, <2>1, <4>1, <4>2, TickOpens, CountKept
      <4>4. stats'.savedFrames = stats.savedFrames
        BY <1>6, <3>2, CutStats
      <4> QED
        BY <2>3, <4>3, <4>4
    <3> QED
      BY <3>1, <3>2
  <2> QED
    BY <1>1, <2>1, <2>2, <2>4, <2>5 DEF Counted
<1>7. CASE WriteFails
  BY <1>7 DEF WriteFails, Counted
<1>8. CASE Stop
  <2>1. /\ store' = store /\ session' = session /\ stats' = stats /\ event' = event
        /\ pc = "ready" /\ pc' = "stopped"
    BY <1>8 DEF Stop
  <2>2. EventOpen' <=> EventOpen
    BY <2>1 DEF EventOpen, InEvent
  <2> QED
    BY <1>3, <2>1, <2>2, SelfOpened
<1>9. CASE Restart
  <2>1. /\ pc' = "ready" /\ session' = session + 1 /\ event'.id = 0
        /\ event'.active = FALSE /\ event'.post = 0 /\ stats' = NoStats
    BY <1>9, RestartEffect DEF Restart
  <2>2. ~EventOpen'
    BY <2>1 DEF EventOpen, InEvent
  <2>3. \A d \in DOMAIN store'.disk : \A r \in 1 .. Len(store'.disk[d].rows) :
          store'.disk[d].rows[r].frame.session # session'
    <3> SUFFICES ASSUME NEW d \in DOMAIN store'.disk,
                        NEW r \in 1 .. Len(store'.disk[d].rows)
                 PROVE  store'.disk[d].rows[r].frame.session # session + 1
      BY <2>1
    <3>1. OldPlace(d, r)
      <4>1. ~Recording
        BY <1>9 DEF Restart, Recording, Running
      <4> QED
        BY <4>1, Places DEF NewPlace
    <3>2. /\ d \in DOMAIN store.disk /\ r \in 1 .. Len(store.disk[d].rows)
          /\ store'.disk[d].rows[r] = store.disk[d].rows[r]
      BY <3>1 DEF OldPlace
    <3>3. store.disk[d].rows[r].frame.session <= session
      BY <3>2 DEF Inv, RowsNamed
    <3>4. store.disk[d].rows[r].frame.session \in Nat /\ session \in Nat
      BY <3>2, Disks, DiskRows DEF Inv, TypeOK
    <3> QED
      BY <3>2, <3>3, <3>4
  <2>4. SessionRows' = {}
    <3> DEFINE rows == SessionRowsOf(store'.disk, session')
    <3>1. ASSUME NEW x \in rows PROVE FALSE
      <4>1. PICK d \in DOMAIN store'.disk : \E r \in 1 .. Len(store'.disk[d].rows) :
              x = <<d, r>> /\ store'.disk[d].rows[r].frame.session = session'
        BY <1>1, <3>1, SessionRow
      <4> QED
        BY <2>3, <4>1
    <3> HIDE DEF rows
    <3>2. rows = {}
      BY <3>1
    <3> QED
      BY <3>2, SessionRowsAre DEF rows
  <2>5. IsFiniteSet({}) /\ Cardinality({}) = 0
    BY FS_EmptySet
  <2>6. stats'.savedFrames = 0 /\ stats'.recordedEvents = 0 /\ stats'.discardedEvents = 0
    BY <2>1 DEF NoStats
  <2> QED
    BY <2>1, <2>2, <2>4, <2>5, <2>6 DEF Counted
<1> QED
  BY <1>2, <1>4, <1>5, <1>6, <1>7, <1>8, <1>9 DEF Next, Consume, Records

-----------------------------------------------------------------------------
(***************************************************************************)
(* The whole event.                                                        *)
(***************************************************************************)
Whole ==
  /\ Quiet /\ RingRecent /\ OpenEvent
  /\ EventInOneFile /\ EventShape /\ EventDurationBounded
  /\ IdleFileCurrent /\ Counted

\* The invariants behind EventsWhole hold at the start.
LEMMA WholeInit == Init => Whole
<1> SUFFICES ASSUME Init PROVE Whole
  OBVIOUS
<1>1. Quiet /\ Inv
  BY QuietInit, InvInit
<1>2. /\ event.startTs = 0 /\ event.id = 0 /\ event.post = 0 /\ event.active = FALSE
      /\ pre = <<>> /\ pc = "ready" /\ nextIndex = 0
      /\ stats.savedFrames = 0 /\ stats.recordedEvents = 0 /\ stats.discardedEvents = 0
  BY DEF Init, NoEvent, NoStats
<1>3. ~InEvent /\ ~EventOpen
  BY <1>2 DEF InEvent, EventOpen
<1>4. \A d \in DOMAIN store.disk : Len(store.disk[d].rows) = 0
  <2>1. startTs \in Nat /\ store = Open(<<>>, DayOf(startTs)) /\ DiskOK(<<>>)
    BY DEF Init, DiskOK
  <2>2. OpenedOnly(<<>>, store.disk)
    BY <2>1, DayOfInt, OpenOpens
  <2> QED
    BY <2>2 DEF OpenedOnly, EmptyFile
<1>5. \A d \in DOMAIN store.disk : DOMAIN store.disk[d].rows = 1 .. Len(store.disk[d].rows)
  BY <1>1, Disks, DiskRows
<1>6. EventInOneFile /\ EventShape /\ EventDurationBounded
  <2>1. EventInOneFile
    BY <1>4, <1>5 DEF EventInOneFile
  <2>2. EventShape
    BY <1>4 DEF EventShape
  <2>3. EventDurationBounded
    BY <1>4, <1>5 DEF EventDurationBounded
  <2> QED
    BY <2>1, <2>2, <2>3
<1>7. RingRecent /\ OpenEvent /\ IdleFileCurrent
  BY <1>2, <1>3, RecorderAssumption DEF RingRecent, OpenEvent, IdleFileCurrent
<1>8. SessionRows = {}
  <2>1. ASSUME NEW x \in SessionRowsOf(store.disk, session) PROVE FALSE
    <3>1. DiskOK(store.disk)
      BY <1>1, Disks
    <3>2. PICK d \in DOMAIN store.disk : \E r \in 1 .. Len(store.disk[d].rows) :
            x = <<d, r>> /\ store.disk[d].rows[r].frame.session = session
      BY <2>1, <3>1, SessionRow
    <3> QED
      BY <1>4, <3>2
  <2>2. SessionRowsOf(store.disk, session) = {}
    BY <2>1
  <2> QED
    BY <2>2, SessionRowsAre
<1>9. Counted
  BY <1>2, <1>3, <1>8, FS_EmptySet DEF Counted
<1> QED
  BY <1>1, <1>6, <1>7, <1>9 DEF Whole

\* Every step, and every stutter, preserves them.
LEMMA WholeNext == Whole /\ [Next]_vars => Whole'
<1> SUFFICES ASSUME Whole, [Next]_vars PROVE Whole'
  OBVIOUS
<1>1. Quiet'
  BY QuietNext DEF Whole
<1>2. CASE Next
  <2>1. /\ Inv /\ EventTracked /\ RearmKnown
        /\ RingRecent /\ OpenEvent /\ EventInOneFile /\ EventShape
        /\ EventDurationBounded /\ IdleFileCurrent /\ Counted
    BY DEF Whole, Quiet
  <2>2. RingRecent'
    BY <1>2, <2>1, RingRecentStep
  <2>3. OpenEvent'
    BY <1>2, <2>1, OpenEventStep
  <2>4. Recording => NewRowFits
    BY <2>1, RecordedFits
  <2>5. EventInOneFile'
    BY <1>2, <2>1, <2>4, InOneFileStep
  <2>6. EventShape'
    BY <1>2, <2>1, <2>4, ShapeStep
  <2>7. EventDurationBounded'
    BY <1>2, <2>1, <2>4, DurationStep
  <2>8. IdleFileCurrent'
    BY <1>2, <2>1, IdleFileStep
  <2>9. Counted'
    BY <1>2, <2>1, CountedStep
  <2> QED
    BY <1>1, <2>2, <2>3, <2>5, <2>6, <2>7, <2>8, <2>9 DEF Whole
<1>3. CASE UNCHANGED vars
  <2>1. RingRecent' /\ OpenEvent' /\ IdleFileCurrent'
    BY <1>3 DEF vars, Whole, RingRecent, OpenEvent, IdleFileCurrent, Running, InEvent,
       TriggerRows, EventRows, OpenRows, OpenFile, ThisFrame
  <2>2. EventInOneFile'
    BY <1>3 DEF vars, Whole, EventInOneFile
  <2>3. EventShape' /\ EventDurationBounded'
    BY <1>3 DEF vars, Whole, EventShape, EventDurationBounded
  <2>4. Counted'
    BY <1>3 DEF vars, Whole, Counted, SessionRows, EventOpen, InEvent
  <2> QED
    BY <1>1, <2>1, <2>2, <2>3, <2>4 DEF Whole
<1> QED
  BY <1>2, <1>3

\* They hold of every behaviour.
LEMMA AlwaysWhole == Spec => []Whole
  BY WholeInit, WholeNext, PTL DEF Spec

\* An event is whole in every reachable state, after a failed write and a
\* restart too: its rows together in one file, in the order of the stream, within
\* max_event_seconds, followed by the rotation it put off, and counted once.
THEOREM EventsStayWhole == Spec => []EventsWhole
<1>1. Whole => EventsWhole
  BY DEF Whole, EventsWhole, Counted, CountersAgree
<1> QED
  BY AlwaysWhole, <1>1, PTL

-----------------------------------------------------------------------------
(***************************************************************************)
(* The context of a trigger.                                               *)
(***************************************************************************)
\* The rows that were in the files still are.
RowsKept ==
  \A d \in DOMAIN store.disk :
    /\ d \in DOMAIN store'.disk
    /\ \A r \in 1 .. Len(store.disk[d].rows) :
         /\ r \in 1 .. Len(store'.disk[d].rows)
         /\ store'.disk[d].rows[r] = store.disk[d].rows[r]

\* Opening files keeps every row.
LEMMA OpenedKeeps ==
  ASSUME OpenedOnly(store.disk, store'.disk)
  PROVE  RowsKept
  BY DEF OpenedOnly, RowsKept

\* Appending a row keeps every other.
LEMMA AddedKeeps ==
  ASSUME Inv, RowAdded(store'.disk)
  PROVE  RowsKept
<1>1. /\ store.day \in DOMAIN store.disk /\ store.rows \in Nat
      /\ store.rows = Len(store.disk[store.day].rows)
  BY Disks
<1>2. ASSUME NEW d \in DOMAIN store.disk
      PROVE  /\ d \in DOMAIN store'.disk
             /\ \A r \in 1 .. Len(store.disk[d].rows) :
                  /\ r \in 1 .. Len(store'.disk[d].rows)
                  /\ store'.disk[d].rows[r] = store.disk[d].rows[r]
  <2>1. d \in DOMAIN store'.disk
    BY DEF RowAdded
  <2>2. CASE d = store.day
    <3>1. Len(store'.disk[d].rows) \in store.rows .. store.rows + 1
      BY <2>2 DEF RowAdded
    <3>2. \A r \in 1 .. store.rows : r \in 1 .. Len(store'.disk[d].rows)
      BY <1>1, <3>1
    <3> QED
      BY <1>1, <2>1, <2>2, <3>2 DEF RowAdded
  <2>3. CASE d # store.day
    BY <2>1, <2>3 DEF RowAdded
  <2> QED
    BY <2>2, <2>3
<1> QED
  BY <1>2 DEF RowsKept

\* A frame is in a file, in a row of an event up to the given one.
RecordedIn(disk, s, i) ==
  \E d \in DOMAIN disk : \E r \in 1 .. Len(disk[d].rows) :
    disk[d].rows[r].frame.session = s /\ disk[d].rows[r].frame.index = i

RecordedBy(disk, s, i, id) ==
  \E d \in DOMAIN disk : \E r \in 1 .. Len(disk[d].rows) :
    /\ disk[d].rows[r].frame.session = s /\ disk[d].rows[r].frame.index = i
    /\ disk[d].rows[r].event <= id

\* What is recorded stays recorded while the rows are kept.
LEMMA StillRecorded ==
  ASSUME RowsKept, NEW s, NEW i
  PROVE  /\ RecordedIn(store.disk, s, i) => RecordedIn(store'.disk, s, i)
         /\ \A id : RecordedBy(store.disk, s, i, id) => RecordedBy(store'.disk, s, i, id)
<1>1. ASSUME RecordedIn(store.disk, s, i)
      PROVE  RecordedIn(store'.disk, s, i)
  <2>1. PICK d \in DOMAIN store.disk : \E r \in 1 .. Len(store.disk[d].rows) :
          /\ store.disk[d].rows[r].frame.session = s
          /\ store.disk[d].rows[r].frame.index = i
    BY <1>1 DEF RecordedIn
  <2>2. PICK r \in 1 .. Len(store.disk[d].rows) :
          /\ store.disk[d].rows[r].frame.session = s
          /\ store.disk[d].rows[r].frame.index = i
    BY <2>1
  <2>3. /\ d \in DOMAIN store'.disk /\ r \in 1 .. Len(store'.disk[d].rows)
        /\ store'.disk[d].rows[r] = store.disk[d].rows[r]
    BY DEF RowsKept
  <2> QED
    BY <2>2, <2>3 DEF RecordedIn
<1>2. ASSUME NEW id, RecordedBy(store.disk, s, i, id)
      PROVE  RecordedBy(store'.disk, s, i, id)
  <2>1. PICK d \in DOMAIN store.disk : \E r \in 1 .. Len(store.disk[d].rows) :
          /\ store.disk[d].rows[r].frame.session = s
          /\ store.disk[d].rows[r].frame.index = i
          /\ store.disk[d].rows[r].event <= id
    BY <1>2 DEF RecordedBy
  <2>2. PICK r \in 1 .. Len(store.disk[d].rows) :
          /\ store.disk[d].rows[r].frame.session = s
          /\ store.disk[d].rows[r].frame.index = i
          /\ store.disk[d].rows[r].event <= id
    BY <2>1
  <2>3. /\ d \in DOMAIN store'.disk /\ r \in 1 .. Len(store'.disk[d].rows)
        /\ store'.disk[d].rows[r] = store.disk[d].rows[r]
    BY DEF RowsKept
  <2> QED
    BY <2>2, <2>3 DEF RecordedBy
<1> QED
  BY <1>1, <1>2

\* What LostToCut says, of any set of cuts.
LostIn(cs, f, i) ==
  \E c \in cs : /\ c.session = f.session
                /\ f.ts - (f.index - i) <= c.ts
                     \/ f.ts - (f.index - i) < c.ts + Rearm

\* The cuts of this process that took the frame of the given index.
Lost(i) ==
  \E c \in cuts : /\ c.session = session
                  /\ startTs + 1 + i <= c.ts \/ startTs + 1 + i < c.ts + Rearm

\* Each of the last PreFrames frames is recorded, lost to a cut, or in the ring;
\* in an event those of the ring are recorded too.
ContextKnown ==
  Running =>
    /\ \A i \in (nextIndex - PreFrames) .. (nextIndex - 1) : i >= 0 =>
         \/ RecordedIn(store.disk, session, i)
         \/ Lost(i)
         \/ \E j \in 1 .. Len(pre) : pre[j].index = i
    /\ InEvent => \A j \in 1 .. Len(pre) : RecordedIn(store.disk, session, pre[j].index)

\* The context of an active row is recorded, in its event or in an earlier one,
\* so that no later discard can take it.
ContextHeld(disk, cs, row) ==
  row.state = Active =>
    \A i \in (row.frame.index - PreFrames) .. (row.frame.index - 1) :
      i >= 0 => \/ RecordedBy(disk, row.frame.session, i, row.event)
                \/ LostIn(cs, row.frame, i)

RowContext ==
  \A d \in DOMAIN store.disk : \A r \in 1 .. Len(store.disk[d].rows) :
    ContextHeld(store.disk, cuts, store.disk[d].rows[r])

\* The frame that a step records is recorded.
LEMMA NowRecorded ==
  ASSUME Inv, Recording, RowAdded(store'.disk),
         Len(store'.disk[store.day].rows) = store.rows + 1
  PROVE  RecordedIn(store'.disk, session, RecFrame.index)
<1>1. store.day \in DOMAIN store'.disk /\ store.rows + 1 \in 1 .. Len(store'.disk[store.day].rows)
  BY Disks DEF RowAdded
<1>2. store'.disk[store.day].rows[store.rows + 1].frame = RecFrame
  BY DEF RowAdded
<1>3. RecFrame.session = session
  BY BacklogFrameTyped, ThisFrameTyped DEF Inv, RecFrame
<1> QED
  BY <1>1, <1>2, <1>3 DEF RecordedIn

\* With no backlog left the whole ring is recorded.
LEMMA BacklogRecorded ==
  ASSUME Inv, OpenEvent, pc = "trigger", event.backlog = 0, NEW j \in 1 .. Len(pre)
  PROVE  RecordedIn(store.disk, session, pre[j].index)
<1>1. TriggerRows /\ Recording
  BY DEF OpenEvent, Running, Recording, EventOpen
<1>2. event.saved \in Nat /\ event.startRow \in Nat /\ Len(pre) \in Nat /\ event.saved = Len(pre)
  <2>1. event.saved \in Nat /\ event.startRow \in Nat /\ Len(pre) \in Nat
    BY EventNumbers DEF Inv, TypeOK
  <2> QED
    BY <1>1, <2>1 DEF TriggerRows
<1>3. j \in 1 .. event.saved
  BY <1>2
<1>4. /\ event.startRow + j \in 1 .. store.rows /\ event.startRow + j > event.startRow
      /\ store.day \in DOMAIN store.disk /\ store.rows = Len(store.disk[store.day].rows)
      /\ OpenRows = store.disk[store.day].rows
  BY <1>1, <1>2, <1>3, OpenRowsPlace
<1>5. OpenRows[event.startRow + j].frame = pre[j]
  BY <1>1, <1>3 DEF TriggerRows
<1>6. pre[j].session = session
  BY DEF Inv, RingSound
<1> DEFINE r == event.startRow + j
<1>7. r \in 1 .. Len(store.disk[store.day].rows) /\ store.disk[store.day].rows[r].frame = pre[j]
  BY <1>4, <1>5
<1> HIDE DEF r
<1> QED
  BY <1>4, <1>6, <1>7 DEF RecordedIn

\* Frames that a step leaves known: i is below the frame that it processed.
LEMMA StillKnown ==
  ASSUME Inv, ContextKnown, Running, RowsKept, session' = session, startTs' = startTs,
         cuts \subseteq cuts', NEW i \in Int, i >= 0,
         i >= nextIndex - PreFrames, i < nextIndex
  PROVE  \/ RecordedIn(store'.disk, session, i)
         \/ Lost(i)'
         \/ \E j \in 1 .. Len(pre) : pre[j].index = i
<1>1. i \in (nextIndex - PreFrames) .. (nextIndex - 1)
  BY RecorderAssumption DEF Inv, TypeOK
<1>2. \/ RecordedIn(store.disk, session, i)
      \/ Lost(i)
      \/ \E j \in 1 .. Len(pre) : pre[j].index = i
  BY <1>1 DEF ContextKnown
<1>3. Lost(i) => Lost(i)'
  BY DEF Lost
<1> QED
  BY <1>2, <1>3, StillRecorded

\* A cut takes every frame up to its own, an inhibit interval those in it.
LEMMA LostNow ==
  ASSUME Inv, NEW c \in cuts', c.session = session, session' = session, startTs' = startTs,
         c.ts \in Nat, ThisFrame.ts <= c.ts \/ ThisFrame.ts < c.ts + Rearm,
         NEW i \in Int, i <= nextIndex
  PROVE  Lost(i)'
<1>1. startTs + 1 + i <= ThisFrame.ts /\ startTs + 1 + i \in Int /\ ThisFrame.ts \in Nat
      /\ Rearm \in Nat
  BY Clock, RecorderAssumption DEF Inv, TypeOK
<1>2. startTs + 1 + i <= c.ts \/ startTs + 1 + i < c.ts + Rearm
  BY <1>1
<1> QED
  BY <1>2 DEF Lost

\* A recorded frame, of an event that goes on or ends.
LEMMA KnownAfterRecord ==
  ASSUME Inv, ContextKnown, Recording, InEvent, RowsKept, RecFrame = ThisFrame,
         RecordedIn(store'.disk, session, RecFrame.index),
         FrameDone, cuts' = cuts,
         \A i \in 1 .. Len(pre') : pre'[i] = ThisFrame \/ \E j \in 1 .. Len(pre) : pre'[i] = pre[j]
  PROVE  ContextKnown'
<1>1. /\ session' = session /\ startTs' = startTs /\ nextIndex' = nextIndex + 1
      /\ nextIndex \in Nat /\ PreFrames \in Nat /\ Running /\ ThisFrame.index = nextIndex
  BY DoneEffect, Clock, RecorderAssumption DEF Inv, TypeOK, Recording
<1>2. \A j \in 1 .. Len(pre) : RecordedIn(store'.disk, session, pre[j].index)
  BY <1>1, StillRecorded DEF ContextKnown
<1>3. ASSUME NEW i \in (nextIndex' - PreFrames) .. (nextIndex' - 1), i >= 0
      PROVE  RecordedIn(store'.disk, session, i) \/ Lost(i)'
  <2>1. CASE i = nextIndex
    BY <1>1, <2>1
  <2>2. CASE i # nextIndex
    <3>1. i \in Int /\ i >= nextIndex - PreFrames /\ i < nextIndex
      BY <1>1, <2>2
    <3> QED
      BY <1>1, <1>2, <1>3, <3>1, StillKnown
  <2> QED
    BY <2>1, <2>2
<1>4. \A j \in 1 .. Len(pre') : RecordedIn(store'.disk, session, pre'[j].index)
  BY <1>2
<1> QED
  BY <1>1, <1>3, <1>4 DEF ContextKnown

\* Every step preserves ContextKnown.
LEMMA ContextStep ==
  ASSUME Inv, EventTracked, RearmKnown, RingRecent, OpenEvent, ContextKnown, Next
  PROVE  ContextKnown'
<1>1. /\ nextIndex \in Nat /\ PreFrames \in Nat /\ pre \in Seq(Frame) /\ Len(pre) \in Nat
      /\ ThisFrame \in Frame /\ ThisFrame.index = nextIndex /\ ThisFrame.ts \in Nat
      /\ cuts \subseteq Cut /\ Rearm \in Nat
  BY Clock, ThisFrameTyped, RecorderAssumption DEF Inv, TypeOK
<1>2. ASSUME Running, FrameDone, ~InEvent',
             \A i \in Int : i <= nextIndex => Lost(i)'
      PROVE  ContextKnown'
  <2>1. nextIndex' = nextIndex + 1
    BY <1>2, DoneEffect
  <2>2. \A i \in (nextIndex' - PreFrames) .. (nextIndex' - 1) : i \in Int /\ i <= nextIndex
    BY <1>1, <2>1
  <2> QED
    BY <1>2, <2>2 DEF ContextKnown
<1>3. CASE InhibitedFrame
  <2>1. /\ Running /\ FrameDone /\ event' = event /\ cuts' = cuts
        /\ session' = session /\ startTs' = startTs
        /\ event.rearmUntil # 0 /\ ThisFrame.ts < event.rearmUntil
    BY <1>3, InhibitedEffect, DoneEffect DEF Running, Inhibited
  <2>2. PICK c \in cuts : c.session = session /\ event.rearmUntil = c.ts + Rearm
    BY <2>1 DEF RearmKnown
  <2>3. c.ts \in Nat
    BY <1>1 DEF Cut
  <2>4. ~InEvent'
    BY <2>1 DEF RearmKnown, EventOpen, InEvent
  <2>5. \A i \in Int : i <= nextIndex => Lost(i)'
    BY <2>1, <2>2, <2>3, LostNow
  <2> QED
    BY <1>2, <2>1, <2>4, <2>5
<1>4. CASE CutEvent
  <2> DEFINE c == [session |-> session, id |-> event.id, ts |-> ThisFrame.ts,
                   discarded |-> discards]
  <2>1. /\ Running /\ FrameDone /\ EventEnded /\ cuts' = cuts \cup {c}
        /\ session' = session /\ startTs' = startTs
    BY <1>4, CutEffect, DoneEffect DEF Running
  <2>2. c \in cuts' /\ c.session = session /\ c.ts = ThisFrame.ts
    BY <2>1
  <2> HIDE DEF c
  <2>3. ThisFrame.ts <= c.ts /\ c.ts \in Nat
    BY <1>1, <2>2
  <2>4. \A i \in Int : i <= nextIndex => Lost(i)'
    BY <2>1, <2>2, <2>3, LostNow
  <2>5. ~InEvent'
    BY <2>1 DEF EventEnded, InEvent
  <2> QED
    BY <1>2, <2>1, <2>4, <2>5
<1>5. ASSUME Records
      PROVE  /\ Recording /\ RowsKept /\ RecordedIn(store'.disk, session, RecFrame.index)
  <2>1. Recording /\ RowAdded(store'.disk) /\ Len(store'.disk[store.day].rows) = store.rows + 1
    BY <1>5, RecordingSteps, RecordedDisk
  <2> QED
    BY <2>1, AddedKeeps, NowRecorded
<1>6. ASSUME NEW above \in BOOLEAN, ActiveFrame(above) \/ PostFrame(above)
      PROVE  ContextKnown'
  <2>1. /\ pc = "ready" /\ Running /\ InEvent /\ ~Inhibited /\ FrameDone /\ cuts' = cuts
        /\ pre' \in {PreOnRearm, Remember(PreOnRearm, ThisFrame)}
    BY <1>6, ActiveEffect, PostEffect DEF Running, InEvent
  <2>2. Records /\ RecFrame = ThisFrame /\ PreOnRearm = pre
    BY <1>6, <2>1, PastCuts DEF Records, RecFrame
  <2>3. \A i \in 1 .. Len(pre') :
          pre'[i] = ThisFrame \/ \E j \in 1 .. Len(pre) : pre'[i] = pre[j]
    <3>1. \A i \in 1 .. Len(Remember(pre, ThisFrame)) :
            \/ Remember(pre, ThisFrame)[i] = ThisFrame
            \/ \E j \in 1 .. Len(pre) : Remember(pre, ThisFrame)[i] = pre[j]
      BY <1>1, RememberTyped, Zenon
    <3>2. CASE pre' = pre
      BY <3>2
    <3>3. CASE pre' = Remember(pre, ThisFrame)
      BY <3>1, <3>3, Zenon
    <3> QED
      BY <2>1, <2>2, <3>2, <3>3
  <2> QED
    BY <1>5, <2>1, <2>2, <2>3, KnownAfterRecord
<1>7. CASE IdleFrame
  <2>1. /\ Running /\ ~InEvent' /\ ~Inhibited /\ FrameDone /\ cuts' = cuts /\ store' = Ticked
        /\ pre' = Remember(PreOnRearm, ThisFrame)
        /\ session' = session /\ startTs' = startTs /\ nextIndex' = nextIndex + 1
    BY <1>7, IdleEffect, DoneEffect DEF Running, InEvent
  <2>2. PreOnRearm = pre /\ RowsKept
    BY <2>1, PastCuts, TickedSound, OpenedKeeps
  <2>3. Len(pre) <= PreFrames
    BY <2>1 DEF RingRecent
  <2>4. /\ PreFrames # 0 => Len(pre') \in 1 .. Len(pre') /\ pre'[Len(pre')] = ThisFrame
        /\ \A j \in 1 .. Len(pre) :
             j # 1 \/ Len(pre) < PreFrames => \E k \in 1 .. Len(pre') : pre'[k] = pre[j]
    <3>1. /\ Remember(pre, ThisFrame) \in Seq(Frame)
          /\ PreFrames # 0 => Len(Remember(pre, ThisFrame)) > 0
                              /\ Remember(pre, ThisFrame)[Len(Remember(pre, ThisFrame))] = ThisFrame
          /\ \A j \in 1 .. Len(pre) :
               j # 1 \/ Len(pre) < PreFrames =>
                 \E k \in 1 .. Len(Remember(pre, ThisFrame)) : Remember(pre, ThisFrame)[k] = pre[j]
      BY <1>1, <2>3, RememberPlaces, Zenon
    <3>2. pre' = Remember(pre, ThisFrame)
      BY <2>1, <2>2
    <3>3. Len(pre') \in Nat
      BY <3>1, <3>2
    <3>4. PreFrames # 0 => Len(pre') > 0 /\ pre'[Len(pre')] = ThisFrame
      BY <3>1, <3>2
    <3>5. \A j \in 1 .. Len(pre) :
             j # 1 \/ Len(pre) < PreFrames => \E k \in 1 .. Len(pre') : pre'[k] = pre[j]
      BY <3>1, <3>2, Zenon
    <3> QED
      BY <3>3, <3>4, <3>5
  <2>5. ASSUME NEW i \in (nextIndex' - PreFrames) .. (nextIndex' - 1), i >= 0
        PROVE  \/ RecordedIn(store'.disk, session, i)
               \/ Lost(i)'
               \/ \E j \in 1 .. Len(pre') : pre'[j].index = i
    <3>1. CASE i = nextIndex
      <4>1. PreFrames # 0
        BY <1>1, <2>1, <2>5, <3>1
      <4> QED
        BY <1>1, <2>4, <3>1, <4>1
    <3>2. CASE i # nextIndex
      <4>1. i \in Int /\ i >= nextIndex + 1 - PreFrames /\ i >= nextIndex - PreFrames /\ i < nextIndex
        BY <1>1, <2>1, <3>2
      <4>2. \/ RecordedIn(store'.disk, session, i)
            \/ Lost(i)'
            \/ \E j \in 1 .. Len(pre) : pre[j].index = i
        BY <2>1, <2>2, <2>5, <4>1, StillKnown
      <4>3. ASSUME NEW j \in 1 .. Len(pre), pre[j].index = i
            PROVE  \E k \in 1 .. Len(pre') : pre'[k].index = i
        <5>1. pre[j].index + Len(pre) - j < nextIndex
          BY <2>1 DEF RingRecent
        <5>2. j # 1 \/ Len(pre) < PreFrames
          BY <1>1, <2>3, <4>1, <4>3, <5>1
        <5> QED
          BY <2>4, <4>3, <5>2
      <4> QED
        BY <4>2, <4>3
    <3> QED
      BY <3>1, <3>2
  <2> QED
    BY <2>1, <2>5 DEF ContextKnown
<1>8. ASSUME Running, ~InEvent', RowsKept, pre' = pre,
             UNCHANGED <<session, startTs, nextIndex, cuts>>
      PROVE  ContextKnown'
  <2>1. ASSUME NEW i \in (nextIndex - PreFrames) .. (nextIndex - 1), i >= 0
        PROVE  \/ RecordedIn(store'.disk, session, i)
               \/ Lost(i)'
               \/ \E j \in 1 .. Len(pre) : pre[j].index = i
    <3>1. i \in Int /\ i >= nextIndex - PreFrames /\ i < nextIndex
      BY <1>1
    <3> QED
      BY <1>8, <2>1, <3>1, StillKnown
  <2> QED
    BY <1>8, <2>1 DEF ContextKnown
<1>9. CASE TriggerOn
  <2>1. /\ Running /\ ~InEvent' /\ ~Inhibited /\ pre' = PreOnRearm /\ store' = Ticked
        /\ UNCHANGED <<session, startTs, nextIndex, cuts>>
    BY <1>9, TriggerOnEffect DEF Running, InEvent
  <2>2. PreOnRearm = pre /\ RowsKept
    BY <2>1, PastCuts, TickedSound, OpenedKeeps
  <2> QED
    BY <1>8, <2>1, <2>2
<1>10. CASE Backlog
  <2>1. /\ Running /\ pc = "trigger" /\ pre' = pre
        /\ UNCHANGED <<session, startTs, nextIndex, cuts>>
        /\ event'.active = event.active /\ event'.post = event.post
    BY <1>10, BacklogEffect DEF Running
  <2>2. ~InEvent'
    <3>1. ~InEvent
      BY <2>1 DEF EventTracked
    <3> QED
      BY <2>1, <3>1 DEF InEvent
  <2>3. RowsKept
    BY <1>5, <1>10 DEF Records
  <2> QED
    BY <1>8, <2>1, <2>2, <2>3
<1>11. CASE Trigger
  <2>1. /\ Running /\ pc = "trigger" /\ event.backlog = 0 /\ pre' = <<>> /\ cuts' = cuts
        /\ session' = session /\ startTs' = startTs /\ nextIndex' = nextIndex + 1
    BY <1>11, TriggerEffect, DoneEffect DEF Running
  <2>2. RowsKept /\ RecordedIn(store'.disk, session, nextIndex)
    <3>1. RecFrame = ThisFrame
      BY <2>1 DEF RecFrame
    <3> QED
      BY <1>1, <1>5, <1>11, <3>1 DEF Records
  <2>3. \A j \in 1 .. Len(pre) : RecordedIn(store'.disk, session, pre[j].index)
    BY <2>1, <2>2, BacklogRecorded, StillRecorded
  <2>4. ASSUME NEW i \in (nextIndex' - PreFrames) .. (nextIndex' - 1), i >= 0
        PROVE  RecordedIn(store'.disk, session, i) \/ Lost(i)'
    <3>1. CASE i = nextIndex
      BY <2>2, <3>1
    <3>2. CASE i # nextIndex
      <4>1. i \in Int /\ i >= nextIndex - PreFrames /\ i < nextIndex
        BY <1>1, <2>1, <3>2
      <4> QED
        BY <2>1, <2>2, <2>3, <2>4, <4>1, StillKnown
    <3> QED
      BY <3>1, <3>2
  <2>5. 1 .. Len(pre') = {}
    BY <2>1
  <2> QED
    BY <2>1, <2>4, <2>5 DEF ContextKnown
<1>12. CASE WriteFails \/ Stop
  BY <1>12, NotRunning DEF ContextKnown
<1>13. CASE Restart
  <2>1. nextIndex' = 0 /\ pre' = <<>>
    BY <1>13, RestartEffect
  <2>2. \A i \in (0 - PreFrames) .. (0 - 1) : ~(i >= 0)
    BY <1>1
  <2> QED
    BY <2>1, <2>2 DEF ContextKnown
<1> QED
  BY <1>3, <1>4, <1>6, <1>7, <1>9, <1>10, <1>11, <1>12, <1>13 DEF Next, Consume

\* No step forgets a cut, and a cut frame stays cut.
LEMMA CutsGrow ==
  ASSUME Inv, Next
  PROVE  /\ cuts \subseteq cuts'
         /\ \A f : \A i : LostIn(cuts, f, i) => LostIn(cuts', f, i)
<1>1. cuts \subseteq cuts'
  BY EventIds DEF CutEvent, Restart
<1> QED
  BY <1>1 DEF LostIn

\* A step that drops the open event takes nothing that a row which stays needs.
LEMMA ContextNotDropped ==
  ASSUME Inv, EventDropped(store'.disk), DiskOK(store'.disk),
         NEW row, ~CurrentRow(row), row.event \in Nat,
         row.frame.session = session => row.event <= event.id,
         NEW i, RecordedBy(store.disk, row.frame.session, i, row.event)
  PROVE  RecordedBy(store'.disk, row.frame.session, i, row.event)
<1>1. PICK d \in DOMAIN store.disk : \E r \in 1 .. Len(store.disk[d].rows) :
        /\ store.disk[d].rows[r].frame.session = row.frame.session
        /\ store.disk[d].rows[r].frame.index = i
        /\ store.disk[d].rows[r].event <= row.event
  BY DEF RecordedBy
<1>2. PICK r \in 1 .. Len(store.disk[d].rows) :
        /\ store.disk[d].rows[r].frame.session = row.frame.session
        /\ store.disk[d].rows[r].frame.index = i
        /\ store.disk[d].rows[r].event <= row.event
  BY <1>1
<1>3. /\ Len(store.disk[d].rows) \in Nat /\ store.disk[d].rows[r].event \in Nat
      /\ event.id \in Nat
  BY Disks, DiskRows, EventNumbers DEF Inv
<1>4. ~CurrentRow(store.disk[d].rows[r])
  BY <1>2, <1>3 DEF CurrentRow, RowOf
<1>5. d \in DOMAIN store'.disk /\ r <= Len(store'.disk[d].rows)
  BY <1>4 DEF EventDropped, DropsEvent
<1>6. r \in 1 .. Len(store'.disk[d].rows)
  <2>1. Len(store'.disk[d].rows) \in Nat
    BY <1>5, DiskRows
  <2> QED
    BY <1>3, <1>5, <2>1
<1>7. store'.disk[d].rows[r] = store.disk[d].rows[r]
  BY <1>5, <1>6 DEF EventDropped, DropsEvent
<1> QED
  BY <1>2, <1>5, <1>6, <1>7 DEF RecordedBy

\* The context of the frame that is recorded as active is recorded already.
LEMMA ContextOfNew ==
  ASSUME Inv, EventTracked, OpenEvent, ContextKnown, Recording, RecState = Active,
         NEW i \in (RecFrame.index - PreFrames) .. (RecFrame.index - 1), i >= 0
  PROVE  RecordedBy(store.disk, session, i, event.id) \/ LostIn(cuts, RecFrame, i)
<1>1. PreTrigger # Active
  BY DEF PreTrigger, Active
<1>2. /\ nextIndex \in Nat /\ startTs \in Nat /\ PreFrames \in Nat /\ ThisFrame.index = nextIndex
      /\ ThisFrame.ts = startTs + 1 + nextIndex /\ ThisFrame.session = session
      /\ event.backlog \in Nat /\ event.id \in Nat
  BY Clock, ThisFrameTyped, EventNumbers, RecorderAssumption DEF Inv, TypeOK
<1>3. /\ RecFrame = ThisFrame
      /\ pc = "trigger" => event.backlog = 0
  BY <1>1, <1>2 DEF RecFrame, RecState
<1>4. ASSUME RecordedIn(store.disk, session, i)
      PROVE  RecordedBy(store.disk, session, i, event.id)
  <2>1. PICK d \in DOMAIN store.disk : \E r \in 1 .. Len(store.disk[d].rows) :
          /\ store.disk[d].rows[r].frame.session = session
          /\ store.disk[d].rows[r].frame.index = i
    BY <1>4 DEF RecordedIn
  <2>2. PICK r \in 1 .. Len(store.disk[d].rows) :
          /\ store.disk[d].rows[r].frame.session = session
          /\ store.disk[d].rows[r].frame.index = i
    BY <2>1
  <2>3. store.disk[d].rows[r].event <= event.id
    BY <2>2 DEF Inv, RowsNamed
  <2> QED
    BY <2>2, <2>3 DEF RecordedBy
<1>5. \/ RecordedIn(store.disk, session, i)
      \/ Lost(i)
      \/ \E j \in 1 .. Len(pre) : pre[j].index = i
  BY <1>2, <1>3 DEF ContextKnown, Recording
<1>6. ASSUME NEW j \in 1 .. Len(pre), pre[j].index = i
      PROVE  RecordedIn(store.disk, session, i)
  <2>1. CASE pc = "trigger"
    BY <1>3, <1>6, <2>1, BacklogRecorded
  <2>2. CASE pc # "trigger"
    <3>1. InEvent /\ Running
      BY <2>2 DEF Recording, EventOpen
    <3> QED
      BY <1>6, <3>1 DEF ContextKnown
  <2> QED
    BY <2>1, <2>2
<1>7. ASSUME Lost(i)
      PROVE  LostIn(cuts, RecFrame, i)
  <2>1. RecFrame.ts - (RecFrame.index - i) = startTs + 1 + i
    BY <1>2, <1>3
  <2>2. PICK c \in cuts : /\ c.session = session
                          /\ startTs + 1 + i <= c.ts \/ startTs + 1 + i < c.ts + Rearm
    BY <1>7 DEF Lost
  <2> QED
    BY <1>2, <1>3, <2>1, <2>2 DEF LostIn
<1> QED
  BY <1>4, <1>5, <1>6, <1>7

\* RowContext is preserved: an old row keeps its context, a new one has it.
LEMMA RowContextStep ==
  ASSUME Inv, EventTracked, OpenEvent, ContextKnown, RowContext, Next
  PROVE  RowContext'
<1> SUFFICES ASSUME NEW d \in DOMAIN store'.disk,
                    NEW r \in 1 .. Len(store'.disk[d].rows)
             PROVE  ContextHeld(store'.disk, cuts', store'.disk[d].rows[r])
  BY Zenon DEF RowContext
<1> DEFINE row == store'.disk[d].rows[r]
<1> SUFFICES ASSUME row.state = Active,
                    NEW i \in (row.frame.index - PreFrames) .. (row.frame.index - 1),
                    i >= 0
             PROVE  \/ RecordedBy(store'.disk, row.frame.session, i, row.event)
                    \/ LostIn(cuts', row.frame, i)
  BY Zenon DEF ContextHeld
<1>1. DiskOK(store'.disk) /\ row.event \in Nat
  BY Disks, DiskRows
<1>2. CASE OldPlace(d, r)
  <2>1. d \in DOMAIN store.disk /\ r \in 1 .. Len(store.disk[d].rows) /\ row = store.disk[d].rows[r]
    BY <1>2 DEF OldPlace
  <2>2. ContextHeld(store.disk, cuts, row)
    BY <2>1 DEF RowContext
  <2> HIDE DEF row
  <2>3. RecordedBy(store.disk, row.frame.session, i, row.event) \/ LostIn(cuts, row.frame, i)
    BY <2>2 DEF ContextHeld
  <2>4. LostIn(cuts, row.frame, i) => LostIn(cuts', row.frame, i)
    BY CutsGrow
  <2>5. ASSUME RecordedBy(store.disk, row.frame.session, i, row.event)
        PROVE  RecordedBy(store'.disk, row.frame.session, i, row.event)
    <3>1. CASE RowsKept
      BY <2>5, <3>1, StillRecorded
    <3>2. CASE EventDropped(store'.disk)
      <4>1. ~CurrentRow(row)
        BY <3>2 DEF EventDropped, DropsEvent, row
      <4>2. row.frame.session = session => row.event <= event.id
        BY <2>1 DEF Inv, RowsNamed
      <4> QED
        BY <1>1, <2>5, <3>2, <4>1, <4>2, ContextNotDropped
    <3> QED
      BY <3>1, <3>2, StepKinds, OpenedKeeps, AddedKeeps
  <2> QED
    BY <2>3, <2>4, <2>5
<1>3. CASE NewPlace(d, r)
  <2>1. /\ Recording /\ RowAdded(store'.disk)
        /\ row.frame = RecFrame /\ row.event = event.id /\ row.state = RecState
    BY <1>3 DEF NewPlace
  <2>2. RecFrame.session = session
    BY BacklogFrameTyped, ThisFrameTyped DEF Inv, RecFrame
  <2> HIDE DEF row
  <2>3. RecordedBy(store.disk, session, i, event.id) \/ LostIn(cuts, RecFrame, i)
    BY <2>1, ContextOfNew
  <2>4. RecordedBy(store.disk, session, i, event.id) => RecordedBy(store'.disk, session, i, event.id)
    BY <2>1, AddedKeeps, StillRecorded
  <2>5. LostIn(cuts, RecFrame, i) => LostIn(cuts', RecFrame, i)
    BY CutsGrow
  <2> QED
    BY <2>1, <2>2, <2>3, <2>4, <2>5
<1> QED
  BY <1>2, <1>3, Places
-----------------------------------------------------------------------------
(***************************************************************************)
(* No context is lost: the whole argument.                                 *)
(***************************************************************************)
Context == Whole /\ ContextKnown /\ RowContext

\* A process that starts has seen no frame, and its files hold no row.
LEMMA ContextInit == Init => Context
<1> SUFFICES ASSUME Init PROVE Context
  OBVIOUS
<1>1. Whole /\ nextIndex = 0 /\ pre = <<>> /\ PreFrames \in Nat
  BY WholeInit, RecorderAssumption DEF Init
<1>2. Inv /\ ~InEvent
  <2>1. Inv
    BY <1>1 DEF Whole, Quiet
  <2>2. event.post = 0 /\ event.active = FALSE
    BY DEF Init, NoEvent
  <2>3. ~InEvent
    BY <2>2 DEF InEvent
  <2> QED
    BY <2>1, <2>3
<1>3. ContextKnown
  <2>1. \A i \in (nextIndex - PreFrames) .. (nextIndex - 1) : ~(i >= 0)
    BY <1>1
  <2> QED
    BY <1>2, <2>1 DEF ContextKnown
<1>4. \A d \in DOMAIN store.disk : Len(store.disk[d].rows) = 0
  <2>1. startTs \in Nat /\ store = Open(<<>>, DayOf(startTs)) /\ DiskOK(<<>>)
    BY DEF Init, DiskOK
  <2>2. OpenedOnly(<<>>, store.disk)
    BY <2>1, DayOfInt, OpenOpens
  <2> QED
    BY <2>2 DEF OpenedOnly, EmptyFile
<1>5. RowContext
  BY <1>4 DEF RowContext
<1> QED
  BY <1>1, <1>3, <1>5 DEF Context

\* Every step, and every stutter, preserves it.
LEMMA ContextNext == Context /\ [Next]_vars => Context'
<1> SUFFICES ASSUME Context, [Next]_vars PROVE Context'
  OBVIOUS
<1>1. Whole'
  BY WholeNext DEF Context
<1>2. CASE Next
  <2>1. /\ Inv /\ EventTracked /\ RearmKnown /\ RingRecent /\ OpenEvent
        /\ ContextKnown /\ RowContext
    BY DEF Context, Whole, Quiet
  <2>2. ContextKnown'
    BY <1>2, <2>1, ContextStep
  <2>3. RowContext'
    BY <1>2, <2>1, RowContextStep
  <2> QED
    BY <1>1, <2>2, <2>3 DEF Context
<1>3. CASE UNCHANGED vars
  <2>1. ContextKnown'
    BY <1>3 DEF vars, Context, ContextKnown, Running, InEvent, Lost
  <2>2. RowContext'
    BY <1>3 DEF vars, Context, RowContext
  <2> QED
    BY <1>1, <2>1, <2>2 DEF Context
<1> QED
  BY <1>2, <1>3

\* The context bundle holds of every behaviour.
LEMMA AlwaysContext == Spec => []Context
  BY ContextInit, ContextNext, PTL DEF Spec

(***************************************************************************)
(* No frame near a trigger is lost: consume() records the ring before the  *)
(* trigger frame and does not clear it on the ordinary end of an event, so *)
(* each of the PreFrames frames before an active row is recorded, in this  *)
(* event or an earlier one, unless a cutoff or its inhibit interval took   *)
(* it; for every number of frames, every rearm time and every clock.       *)
(***************************************************************************)
THEOREM ContextStays == Spec => []NoContextLost
<1>1. Context => NoContextLost
  <2> SUFFICES ASSUME Context PROVE NoContextLost
    OBVIOUS
  <2>1. \A d \in DOMAIN store.disk :
          DOMAIN store.disk[d].rows = 1 .. Len(store.disk[d].rows)
    BY Disks, DiskRows DEF Context, Whole, Quiet
  <2>2. \A s, i, id : RecordedBy(store.disk, s, i, id) => Recorded(s, i)
    BY <2>1 DEF RecordedBy, Recorded
  <2>3. \A f, i : LostIn(cuts, f, i) => LostToCut(f, i)
    BY Zenon DEF LostIn, LostToCut
  <2>4. \A d \in DOMAIN store.disk : \A r \in DOMAIN store.disk[d].rows :
          ContextHeld(store.disk, cuts, store.disk[d].rows[r])
    BY <2>1 DEF Context, RowContext
  <2> QED
    BY <2>2, <2>3, <2>4, Zenon DEF NoContextLost, ContextHeld
<1> QED
  BY AlwaysContext, <1>1, PTL

-----------------------------------------------------------------------------
(***************************************************************************)
(* The post-trigger context of an event.                                   *)
(***************************************************************************)
\* The row of the last active frame of an event in its post-trigger context.
LastActiveRow == store.rows - (PostFrames - event.post)

\* In the post-trigger context the rows written since the last active one are
\* those that event.post no longer owes.
PostRows ==
  Running /\ InEvent /\ ~event.active =>
    /\ LastActiveRow >= 1
    /\ OpenRows[LastActiveRow].state = Active
    /\ \A r \in (LastActiveRow + 1) .. store.rows : OpenRows[r].state = PostTrigger

\* A row appended to an event that goes on, in its post-trigger context.
LEMMA PostRowsStep ==
  ASSUME Inv, EventTracked, PostRows, Next
  PROVE  PostRows'
<1>1. /\ store.rows \in Nat /\ PostFrames \in Nat /\ event.post \in Nat
      /\ Running => event.post <= PostFrames
  BY Disks, EventNumbers, RecorderAssumption DEF Inv, EventTracked
<1>2. ASSUME ~(Running' /\ InEvent' /\ ~event'.active)
      PROVE  PostRows'
  BY <1>2 DEF PostRows
<1>3. ASSUME NEW above \in BOOLEAN, ActiveFrame(above)
      PROVE  PostRows'
  <2>1. Running /\ Running'
    BY <1>3, ActiveEffect, DoneEffect DEF Running
  <2>2. CASE EndsAtTriggerOff(above)
    <3>1. EventEnded
      BY <1>3, <2>2, ActiveEffect
    <3>2. ~InEvent'
      BY <3>1 DEF EventEnded, InEvent
    <3> QED
      BY <1>2, <3>2
  <2>3. CASE above
    <3>1. event'.active
      BY <1>3, <2>3, ActiveEffect DEF EndsAtTriggerOff
    <3> QED
      BY <1>2, <3>1
  <2>4. CASE ~above /\ ~EndsAtTriggerOff(above)
    <3>1. event'.post = PostFrames /\ store' = AppendRow(store, ThisFrame, event.id, Active)
      BY <1>3, <2>4, ActiveEffect
    <3>2. /\ store'.rows = store.rows + 1
          /\ OpenRows'[store.rows + 1].state = Active
      BY <2>1, <3>1, RecordedRow
    <3>3. LastActiveRow' = store.rows + 1 /\ store'.rows = store.rows + 1
      BY <1>1, <3>1, <3>2 DEF LastActiveRow
    <3>4. \A r \in (store.rows + 1 + 1) .. (store.rows + 1) : FALSE
      BY <1>1
    <3>5. store.rows + 1 >= 1
      BY <1>1
    <3> QED
      BY <3>2, <3>3, <3>4, <3>5 DEF PostRows
  <2> QED
    BY <2>2, <2>3, <2>4
<1>4. ASSUME NEW above \in BOOLEAN, PostFrame(above)
      PROVE  PostRows'
  <2>1. /\ Running /\ Running' /\ InEvent /\ ~event.active /\ event.post > 0
    BY <1>4, PostEffect, DoneEffect DEF Running, InEvent
  <2>2. CASE ~above /\ event.post = 1
    <3>1. EventEnded
      BY <1>4, <2>2, PostEffect
    <3>2. ~InEvent'
      BY <3>1 DEF EventEnded, InEvent
    <3> QED
      BY <1>2, <3>2
  <2>3. CASE above
    <3>1. event'.active
      BY <1>4, <2>3, PostEffect
    <3> QED
      BY <1>2, <3>1
  <2>4. CASE ~above /\ event.post # 1
    <3>1. /\ event'.post = event.post - 1
          /\ store' = AppendRow(store, ThisFrame, event.id, PostTrigger)
      BY <1>4, <2>4, PostEffect
    <3>2. /\ store'.rows = store.rows + 1
          /\ \A r \in 1 .. store.rows : OpenRows'[r] = OpenRows[r]
          /\ OpenRows'[store.rows + 1].state = PostTrigger
      BY <2>1, <3>1, RecordedRow
    <3>3. LastActiveRow' = LastActiveRow /\ LastActiveRow \in 1 .. store.rows
      <4>1. LastActiveRow >= 1
        BY <2>1 DEF PostRows
      <4> QED
        BY <1>1, <2>1, <3>1, <3>2, <4>1 DEF LastActiveRow
    <3>4. /\ OpenRows[LastActiveRow].state = Active
          /\ \A r \in (LastActiveRow + 1) .. store.rows : OpenRows[r].state = PostTrigger
      BY <2>1 DEF PostRows
    <3> DEFINE a == LastActiveRow
    <3> HIDE DEF a
    <3>5. ASSUME NEW r \in (a + 1) .. (store.rows + 1)
          PROVE  OpenRows'[r].state = PostTrigger
      <4>1. CASE r = store.rows + 1
        BY <3>2, <4>1
      <4>2. CASE r # store.rows + 1
        <5>1. r \in (a + 1) .. store.rows /\ r \in 1 .. store.rows
          BY <1>1, <3>3, <4>2 DEF a
        <5> QED
          BY <3>2, <3>4, <5>1 DEF a
      <4> QED
        BY <4>1, <4>2
    <3>6. a >= 1 /\ OpenRows'[a].state = Active
      BY <1>1, <3>2, <3>3, <3>4 DEF a
    <3> QED
      BY <3>2, <3>3, <3>5, <3>6 DEF PostRows, a
  <2> QED
    BY <2>2, <2>3, <2>4
<1>5. CASE InhibitedFrame
  <2>1. UNCHANGED event /\ Running /\ store' = Ticked
    BY <1>5, InhibitedEffect DEF Running
  <2>2. InEvent' => InEvent
    BY <2>1 DEF InEvent
  <2>3. CASE InEvent
    <3>1. store' = store
      BY <2>1, <2>3, TickedSound
    <3> QED
      BY <2>1, <2>2, <2>3, <3>1 DEF PostRows, LastActiveRow, OpenRows, OpenFile
  <2> QED
    BY <1>2, <2>2, <2>3
<1>6. CASE CutEvent
  <2>1. ~InEvent'
    BY <1>6, CutEffect DEF EventEnded, InEvent
  <2> QED
    BY <1>2, <2>1
<1>7. CASE IdleFrame
  <2>1. ~InEvent'
    BY <1>7, IdleEffect DEF InEvent
  <2> QED
    BY <1>2, <2>1
<1>8. CASE TriggerOn
  <2>1. ~InEvent'
    BY <1>8, TriggerOnEffect DEF InEvent
  <2> QED
    BY <1>2, <2>1
<1>9. CASE Backlog
  <2>1. pc = "trigger" /\ event'.active = event.active /\ event'.post = event.post
    BY <1>9, BacklogEffect
  <2>2. ~InEvent
    BY <2>1 DEF EventTracked, Running
  <2>3. ~InEvent'
    BY <2>1, <2>2 DEF InEvent
  <2> QED
    BY <1>2, <2>3
<1>10. CASE Trigger
  <2>1. event'.active
    BY <1>10, TriggerEffect
  <2> QED
    BY <1>2, <2>1
<1>11. CASE WriteFails \/ Stop
  BY <1>2, <1>11, NotRunning
<1>12. CASE Restart
  <2>1. event'.active = FALSE /\ event'.post = 0
    BY <1>12, RestartEffect
  <2>2. ~InEvent'
    BY <2>1 DEF InEvent
  <2> QED
    BY <1>2, <2>2
<1> QED
  BY <1>3, <1>4, <1>5, <1>6, <1>7, <1>8, <1>9, <1>10, <1>11, <1>12 DEF Next, Consume

\* Only a step that ends the event by itself counts it as recorded and not as cut.
LEMMA OnlyEndCounts ==
  ASSUME Inv, EventTracked, Next, stats'.recordedEvents > stats.recordedEvents,
         stats'.forcedCutoffs = stats.forcedCutoffs
  PROVE  Records /\ ~EventOpen'
<1>1. StatsNumbers
  BY StatsAreNumbers
<1>2. CASE Records
  <2>1. stats'.recordedEvents = stats.recordedEvents + (IF EventOpen' THEN 0 ELSE 1)
    BY <1>2, RecordedStats
  <2>2. CASE EventOpen'
    <3>1. stats'.recordedEvents = stats.recordedEvents
      BY <1>1, <2>1, <2>2 DEF StatsNumbers
    <3> QED
      BY <1>1, <3>1 DEF StatsNumbers
  <2> QED
    BY <1>2, <2>2
<1>3. ASSUME stats'.recordedEvents = stats.recordedEvents
      PROVE  FALSE
  BY <1>1, <1>3 DEF StatsNumbers
<1>4. CASE CutEvent
  <2>1. CASE discards
    BY <1>3, <1>4, <2>1, CutStats
  <2>2. CASE ~discards
    <3>1. stats'.forcedCutoffs = stats.forcedCutoffs + 1
      BY <1>4, <2>2, CutStats
    <3> QED
      BY <1>1, <3>1 DEF StatsNumbers
  <2> QED
    BY <2>1, <2>2
<1>5. CASE InhibitedFrame \/ IdleFrame \/ WriteFails \/ Stop
  BY <1>3, <1>5 DEF InhibitedFrame, IdleFrame, WriteFails, Stop
<1>6. CASE TriggerOn
  <2>1. stats' = [stats EXCEPT !.triggerOns = @ + 1]
    BY <1>6 DEF TriggerOn
  <2>2. stats'.recordedEvents = stats.recordedEvents
    BY <2>1, StatsAreNumbers DEF Stats
  <2> QED
    BY <1>3, <2>2
<1>7. CASE Restart
  <2>1. stats'.recordedEvents = 0
    BY <1>7 DEF Restart, NoStats
  <2> QED
    BY <1>1, <2>1 DEF StatsNumbers
<1> QED
  BY <1>2, <1>4, <1>5, <1>6, <1>7 DEF Next, Consume, Records

\* A step that ends the event by itself writes its last row: the PostFrames rows
\* before the end are those that event.post did not owe any more.
LEMMA EndStep ==
  ASSUME Inv, EventTracked, PostRows, Records, ~EventOpen'
  PROVE  EndsWithContext(store'.disk[store.day].rows)
<1> DEFINE rows == store'.disk[store.day].rows
<1>1. /\ store.rows \in Nat /\ PostFrames \in Nat /\ event.post \in Nat
      /\ OpenRows = store.disk[store.day].rows
  BY Disks, EventNumbers, RecorderAssumption DEF Inv, OpenRows, OpenFile
<1>2. RowAdded(store'.disk) /\ Len(rows) = store.rows + 1
  BY RecordingSteps, RecordedDisk
<1>3. /\ \A r \in 1 .. store.rows : rows[r] = OpenRows[r]
      /\ rows[store.rows + 1].state = RecState
  BY <1>1, <1>2 DEF RowAdded
<1> HIDE DEF rows
<1>4. ASSUME NEW above \in BOOLEAN, ActiveFrame(above)
      PROVE  EndsWithContext(rows)
  <2>1. EndsAtTriggerOff(above)
    <3>1. CASE ~EndsAtTriggerOff(above)
      <4>1. event'.active = above /\ event'.post = IF above THEN event.post ELSE PostFrames
        BY <1>4, <3>1, ActiveEffect
      <4> QED
        BY <1>1, <3>1, <4>1 DEF EndsAtTriggerOff, EventOpen, InEvent
    <3> QED
      BY <3>1
  <2>2. PostFrames = 0 /\ RecState = Active
    BY <1>4, <2>1, ActiveEffect DEF EndsAtTriggerOff, RecState
  <2>3. /\ Len(rows) - PostFrames = store.rows + 1 /\ Len(rows) > PostFrames
        /\ \A i \in (Len(rows) - PostFrames + 1) .. Len(rows) : FALSE
    BY <1>1, <1>2, <2>2 DEF rows
  <2> QED
    BY <1>3, <2>2, <2>3 DEF EndsWithContext
<1>5. ASSUME NEW above \in BOOLEAN, PostFrame(above)
      PROVE  EndsWithContext(rows)
  <2>1. /\ Running /\ InEvent /\ ~event.active /\ event.post > 0 /\ RecState = PostTrigger
    BY <1>5, PostEffect DEF Running, InEvent, RecState
  <2>2. ~above /\ event.post = 1
    <3>1. CASE ~(~above /\ event.post = 1)
      <4>1. event'.active = above /\ event'.post = IF above THEN 0 ELSE event.post - 1
        BY <1>5, <3>1, PostEffect
      <4>2. CASE above
        BY <4>1, <4>2 DEF EventOpen, InEvent
      <4>3. CASE ~above
        <5>1. event'.post > 0
          BY <1>1, <2>1, <3>1, <4>1, <4>3
        <5> QED
          BY <5>1 DEF EventOpen, InEvent
      <4> QED
        BY <4>2, <4>3
    <3> QED
      BY <3>1
  <2>3. event.post <= PostFrames
    BY <2>1 DEF EventTracked
  <2>4. /\ LastActiveRow >= 1 /\ OpenRows[LastActiveRow].state = Active
        /\ \A r \in (LastActiveRow + 1) .. store.rows : OpenRows[r].state = PostTrigger
    BY <2>1 DEF PostRows
  <2> DEFINE a == LastActiveRow
  <2>5. /\ Len(rows) - PostFrames = a /\ Len(rows) = store.rows + 1
        /\ a \in 1 .. store.rows /\ Len(rows) > PostFrames
    BY <1>1, <1>2, <2>2, <2>3, <2>4 DEF LastActiveRow, rows
  <2>6. OpenRows[a].state = Active
    BY <2>4
  <2>7. ASSUME NEW i \in (a + 1) .. (store.rows + 1)
        PROVE  rows[i].state = PostTrigger
    <3>1. CASE i = store.rows + 1
      BY <1>3, <2>1, <3>1
    <3>2. CASE i # store.rows + 1
      <4>1. i \in (LastActiveRow + 1) .. store.rows /\ i \in 1 .. store.rows
        BY <1>1, <2>5, <3>2
      <4> QED
        BY <1>3, <2>4, <4>1
    <3> QED
      BY <3>1, <3>2
  <2> HIDE DEF a
  <2>8. rows[a].state = Active
    BY <1>3, <2>5, <2>6
  <2> QED
    BY <2>5, <2>7, <2>8 DEF EndsWithContext
<1>6. CASE Backlog \/ Trigger
  BY <1>6, BacklogEffect, TriggerEffect DEF EventOpen, InEvent
<1> QED
  BY <1>4, <1>5, <1>6 DEF Records, rows

\* What the action property needs holds of every behaviour.
LEMMA AlwaysPostRows == Spec => [](Inv /\ EventTracked /\ PostRows)
<1>1. Init => PostRows
  <2> SUFFICES ASSUME Init PROVE PostRows
    OBVIOUS
  <2>1. event.post = 0 /\ event.active = FALSE
    BY DEF Init, NoEvent
  <2>2. ~InEvent
    BY <2>1 DEF InEvent
  <2> QED
    BY <2>2 DEF PostRows
<1>2. Quiet /\ PostRows /\ [Next]_vars => PostRows'
  <2> SUFFICES ASSUME Quiet, PostRows, [Next]_vars PROVE PostRows'
    OBVIOUS
  <2>1. CASE Next
    BY <2>1, PostRowsStep DEF Quiet
  <2>2. CASE UNCHANGED vars
    BY <2>2 DEF vars, PostRows, Running, InEvent, LastActiveRow, OpenRows, OpenFile
  <2> QED
    BY <2>1, <2>2
<1>3. Quiet => Inv /\ EventTracked
  BY DEF Quiet
<1> QED
  BY <1>1, <1>2, <1>3, AlwaysQuiet, PTL DEF Spec

(***************************************************************************)
(* An event that ends by itself ends with its whole post-trigger context:  *)
(* whatever retriggers extended it, the step of consume() that counts it   *)
(* as recorded leaves PostFrames post-trigger rows right after an active   *)
(* one at the end of the file it was in.                                   *)
(***************************************************************************)
THEOREM PostContextKept == Spec => PostContextComplete
<1>1. Inv /\ EventTracked /\ PostRows /\ [Next]_vars
        => [/\ stats'.recordedEvents > stats.recordedEvents
            /\ stats'.forcedCutoffs = stats.forcedCutoffs
            => EndsWithContext(store'.disk[store.day].rows)]_vars
  <2> SUFFICES ASSUME Inv, EventTracked, PostRows, Next,
                      stats'.recordedEvents > stats.recordedEvents,
                      stats'.forcedCutoffs = stats.forcedCutoffs
               PROVE  EndsWithContext(store'.disk[store.day].rows)
    OBVIOUS
  <2> QED
    BY OnlyEndCounts, EndStep
<1> QED
  BY <1>1, AlwaysPostRows, PTL DEF Spec, PostContextComplete
=============================================================================
