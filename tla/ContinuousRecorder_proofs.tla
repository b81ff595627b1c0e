---------------------- MODULE ContinuousRecorder_proofs ---------------------
(***************************************************************************)
(* Proofs about continuous recording, for every segment length, number of  *)
(* segments, rotation time and number of restarts.  They rest on what      *)
(* DailyHdf5Writer_proofs says of the writer.                              *)
(***************************************************************************)
EXTENDS ContinuousRecorder, DailyHdf5Writer_proofs, FiniteSetTheorems, TLAPS

(***************************************************************************)
(* The inductive invariant: the storage is sound, and while the process    *)
(* runs, the frame the writer remembers is in the last row.                *)
(***************************************************************************)
Inv ==
  /\ TypeOK
  /\ StorageInv(store)
  /\ pc = "running" => PreviousOK(store, session)

\* The frame that arrives, and its number and time.
LEMMA FrameType ==
  ASSUME TypeOK
  PROVE  /\ ThisFrame \in Frame
         /\ ThisFrame.session = session
         /\ ThisFrame.ts \in Nat
         /\ SegmentId \in Nat
         /\ Neutral \in {0, 1, 2}
<1>1. session \in Nat /\ startTs \in Nat /\ nextIndex \in Nat /\ segment.id \in Nat
  BY DEF TypeOK, Segment
<1>2. startTs + 1 + nextIndex \in Nat /\ segment.id + 1 \in Nat /\ segment.id + 0 \in Nat
  BY <1>1
<1> QED
  BY <1>1, <1>2 DEF ThisFrame, Frame, SegmentId, Neutral

\* The storage when a segment may have begun: sound, and with no row touched.
LEMMA TickedStorage ==
  ASSUME Inv, pc = "running"
  PROVE  /\ StorageInv(Ticked)
         /\ PreviousOK(Ticked, session)
         /\ OpenedOnly(store.disk, Ticked.disk)
<1>1. StorageInv(store) /\ PreviousOK(store, session) /\ ThisFrame.ts \in Nat
  BY FrameType DEF Inv
<1>2. /\ StorageInv(Tick(store, ThisFrame.ts, FALSE))
      /\ PreviousOK(Tick(store, ThisFrame.ts, FALSE), session)
      /\ OpenedOnly(store.disk, Tick(store, ThisFrame.ts, FALSE).disk)
  BY <1>1, TickStorage, TickOpens
<1>3. OpenedOnly(store.disk, store.disk)
  BY DEF OpenedOnly
<1> QED
  BY <1>1, <1>2, <1>3 DEF Ticked

-----------------------------------------------------------------------------
\* The invariant holds at the start.
LEMMA InvInit == Init => Inv
<1> SUFFICES ASSUME Init PROVE Inv
  OBVIOUS
<1>1. startTs \in Nat /\ DayOf(startTs) \in Int
  BY DayOfInt DEF Init
<1>2. DiskOK(<<>>)
  BY DEF DiskOK
<1>3. StorageInv(store) /\ store.prev = NoPrevious
  BY <1>1, <1>2, OpenStorage DEF Init
<1>4. segment \in Segment /\ segment.frames < SegmentFrames
  BY SegmentAssumption DEF Init, Segment, NoSegment
<1>5. TypeOK
  BY <1>1, <1>3, <1>4 DEF Init, TypeOK, StorageInv
<1> QED
  BY <1>3, <1>5 DEF Inv, PreviousOK

\* The storage that recording a frame leaves.
LEMMA RecordStorage ==
  ASSUME Inv, RecordFrame
  PROVE  StorageInv(store') /\ PreviousOK(store', session)
<1> DEFINE s == AppendRow(Ticked, ThisFrame, SegmentId, Neutral)
<1>1. pc = "running" /\ TypeOK
  BY DEF RecordFrame, FrameArrives, Inv
<1>2. StorageInv(s) /\ PreviousOK(s, session)
  BY <1>1, TickedStorage, FrameType, AppendStorage
<1>3. store' = IF EndsSegment THEN Tick(s, ThisFrame.ts, FALSE) ELSE s
  BY DEF RecordFrame
<1> HIDE DEF s
<1>4. /\ StorageInv(Tick(s, ThisFrame.ts, FALSE))
      /\ PreviousOK(Tick(s, ThisFrame.ts, FALSE), session)
  BY <1>1, <1>2, FrameType, TickStorage
<1> QED
  BY <1>2, <1>3, <1>4

\* Recording a frame.
LEMMA RecordInv == Inv /\ RecordFrame => Inv'
<1> SUFFICES ASSUME Inv, RecordFrame PROVE Inv'
  OBVIOUS
<1>1. StorageInv(store') /\ PreviousOK(store', session)
  BY RecordStorage
<1>2. TypeOK
  BY DEF Inv
<1>3. UNCHANGED <<pc, session, startTs>> /\ nextIndex' = nextIndex + 1
      /\ finished' \in BOOLEAN
  BY DEF RecordFrame
<1>4. segment' \in Segment /\ segment'.frames < SegmentFrames
  <2>1. /\ segment.id \in Nat /\ segment.frames \in Nat
        /\ segment.completed \in Nat /\ segment.saved \in Nat
        /\ SegmentFrames \in Nat /\ SegmentFrames > 0
    BY <1>2, SegmentAssumption DEF TypeOK, Segment
  <2>2. segment' =
          [id        |-> SegmentId,
           frames    |-> IF EndsSegment THEN 0 ELSE segment.frames + 1,
           completed |-> segment.completed + (IF EndsSegment THEN 1 ELSE 0),
           saved     |-> segment.saved + 1]
    BY DEF RecordFrame
  <2>3. /\ SegmentId \in Nat
        /\ segment.frames + 1 \in Nat
        /\ segment.completed + (IF EndsSegment THEN 1 ELSE 0) \in Nat
        /\ segment.saved + 1 \in Nat
        /\ (IF EndsSegment THEN 0 ELSE segment.frames + 1) \in Nat
        /\ (IF EndsSegment THEN 0 ELSE segment.frames + 1) < SegmentFrames
    BY <1>2, <2>1, FrameType DEF EndsSegment
  <2> QED
    BY <2>2, <2>3 DEF Segment
<1>5. TypeOK'
  BY <1>1, <1>2, <1>3, <1>4 DEF TypeOK, StorageInv
<1> QED
  BY <1>1, <1>3, <1>5 DEF Inv

\* A failed append.
LEMMA FailInv == Inv /\ WriteFails => Inv'
<1> SUFFICES ASSUME Inv, WriteFails PROVE Inv'
  OBVIOUS
<1>1. pc = "running" /\ TypeOK
  BY DEF WriteFails, FrameArrives, Inv
<1>2. store' \in FailedAppends(Ticked, ThisFrame, SegmentId, Neutral)
  BY DEF WriteFails
<1>3. StorageInv(store')
  BY <1>1, <1>2, TickedStorage, FrameType, FailedAppendStorage
<1>4. TypeOK' /\ pc' = "failed"
  BY <1>1, <1>3 DEF WriteFails, TypeOK, StorageInv
<1> QED
  BY <1>3, <1>4 DEF Inv

\* A later process.
LEMMA RestartInv == Inv /\ Restart => Inv'
<1> SUFFICES ASSUME Inv, Restart PROVE Inv'
  OBVIOUS
<1>1. startTs' \in Nat /\ session' \in Nat
  <2>1. session \in Nat /\ startTs \in Nat /\ nextIndex \in Nat
    BY DEF Inv, TypeOK
  <2>2. startTs' \in (startTs + 1 + nextIndex) .. MaxTime /\ MaxTime \in Nat
    BY SegmentAssumption DEF Restart, ThisFrame
  <2> QED
    BY <2>1, <2>2 DEF Restart
<1>2. StorageInv(store') /\ store'.prev = NoPrevious
  <2>1. DiskOK(store.disk) /\ DayOf(startTs') \in Int
    BY <1>1, DayOfInt DEF Inv, StorageInv
  <2> QED
    BY <2>1, OpenStorage DEF Restart
<1>3. segment' \in Segment /\ segment'.frames < SegmentFrames
  BY SegmentAssumption DEF Restart, Segment, NoSegment
<1>4. TypeOK'
  BY <1>1, <1>2, <1>3 DEF Restart, TypeOK, StorageInv
<1> QED
  BY <1>2, <1>4 DEF Inv, PreviousOK

\* Every step keeps the invariant.
LEMMA InvStep == Inv /\ [Next]_vars => Inv'
<1> SUFFICES ASSUME Inv, [Next]_vars PROVE Inv'
  OBVIOUS
<1>1. CASE IgnoredFrame
  BY <1>1 DEF IgnoredFrame, Inv, TypeOK
<1>2. CASE Stop
  BY <1>2 DEF Stop, Inv, TypeOK
<1>3. CASE UNCHANGED vars
  BY <1>3 DEF vars, Inv, TypeOK
<1> QED
  BY <1>1, <1>2, <1>3, RecordInv, FailInv, RestartInv DEF Next

\* The inductive invariant holds in every reachable state.
THEOREM Invariant == Spec => []Inv
  BY InvInit, InvStep, PTL DEF Spec

\* The counters and the writer keep their types.
THEOREM TypeCorrect == Spec => []TypeOK
<1>1. Inv => TypeOK
  BY DEF Inv
<1> QED
  BY <1>1, Invariant, PTL

\* Every completely written row can be read back.
THEOREM AlwaysReadable == Spec => []FilesReadable
<1>1. Inv => FilesReadable
  BY DEF Inv, StorageInv, DiskOK, FilesReadable
<1> QED
  BY <1>1, Invariant, PTL

-----------------------------------------------------------------------------
\* All the rows of the files of one storage state are in those of another.
Grows(disk, new) ==
  \A d \in DOMAIN disk :
    /\ d \in DOMAIN new
    /\ \A r \in DOMAIN disk[d].rows :
         /\ r \in DOMAIN new[d].rows
         /\ new[d].rows[r] = disk[d].rows[r]

\* Opening files keeps all rows.
LEMMA OpenedGrows ==
  ASSUME NEW disk, NEW new, OpenedOnly(disk, new)
  PROVE  Grows(disk, new)
  BY DEF OpenedOnly, Grows

\* So does adding a row to the open file.
LEMMA AddsGrows ==
  ASSUME NEW s, NEW t, NEW f, NEW event, StorageInv(s), StorageInv(t),
         Adds(s, t, f, event)
  PROVE  Grows(s.disk, t.disk)
<1> SUFFICES ASSUME NEW d \in DOMAIN s.disk
             PROVE  /\ d \in DOMAIN t.disk
                    /\ \A r \in DOMAIN s.disk[d].rows :
                         /\ r \in DOMAIN t.disk[d].rows
                         /\ t.disk[d].rows[r] = s.disk[d].rows[r]
  BY DEF Grows
<1>1. d \in DOMAIN t.disk
  BY DEF Adds
<1>2. CASE d # s.day
  BY <1>1, <1>2 DEF Adds
<1>3. CASE d = s.day
  <2> DEFINE old == s.disk[d].rows
             new == t.disk[d].rows
  <2>1. old \in Seq(Row) /\ new \in Seq(Row)
    BY <1>1 DEF StorageInv, DiskOK, File
  <2>2. /\ s.rows = Len(old)
        /\ Len(new) \in s.rows .. s.rows + 1
        /\ \A r \in 1 .. s.rows : new[r] = old[r]
    BY <1>3 DEF Adds, StorageInv, CountsOK, OpenFile
  <2> HIDE DEF old, new
  <2>3. \A r \in DOMAIN old : r \in DOMAIN new /\ new[r] = old[r]
    BY <2>1, <2>2
  <2> QED
    BY <1>1, <2>3 DEF old, new
<1> QED
  BY <1>2, <1>3

\* Growing twice is growing.
LEMMA GrowsTwice ==
  ASSUME NEW a, NEW b, NEW c, Grows(a, b), Grows(b, c)
  PROVE  Grows(a, c)
  BY DEF Grows

\* Every step keeps all rows.
LEMMA StepGrows == Inv /\ [Next]_vars => Grows(store.disk, store'.disk)
<1> SUFFICES ASSUME Inv, [Next]_vars PROVE Grows(store.disk, store'.disk)
  OBVIOUS
<1>1. CASE RecordFrame
  <2> DEFINE s == AppendRow(Ticked, ThisFrame, SegmentId, Neutral)
  <2>1. pc = "running" /\ TypeOK
    BY <1>1 DEF RecordFrame, FrameArrives, Inv
  <2>2. /\ StorageInv(s)
        /\ Adds(Ticked, s, ThisFrame, SegmentId)
        /\ StorageInv(Ticked)
        /\ OpenedOnly(store.disk, Ticked.disk)
    BY <2>1, TickedStorage, FrameType, AppendStorage, AppendAdds
  <2>3. store' = IF EndsSegment THEN Tick(s, ThisFrame.ts, FALSE) ELSE s
    BY <1>1 DEF RecordFrame
  <2> HIDE DEF s
  <2>4. Grows(store.disk, Ticked.disk) /\ Grows(Ticked.disk, s.disk)
    BY <2>2, OpenedGrows, AddsGrows
  <2>5. Grows(store.disk, s.disk)
    BY <2>4, GrowsTwice
  <2>6. Grows(s.disk, Tick(s, ThisFrame.ts, FALSE).disk)
    <3>1. OpenedOnly(s.disk, Tick(s, ThisFrame.ts, FALSE).disk)
      BY <2>1, <2>2, FrameType, TickOpens
    <3> QED
      BY <3>1, OpenedGrows
  <2>7. Grows(store.disk, Tick(s, ThisFrame.ts, FALSE).disk)
    BY <2>5, <2>6, GrowsTwice
  <2> QED
    BY <2>3, <2>5, <2>7
<1>2. CASE WriteFails
  <2>1. pc = "running" /\ TypeOK
    BY <1>2 DEF WriteFails, FrameArrives, Inv
  <2>2. store' \in FailedAppends(Ticked, ThisFrame, SegmentId, Neutral)
    BY <1>2 DEF WriteFails
  <2>3. /\ StorageInv(store')
        /\ Adds(Ticked, store', ThisFrame, SegmentId)
        /\ StorageInv(Ticked)
        /\ OpenedOnly(store.disk, Ticked.disk)
    BY <2>1, <2>2, TickedStorage, FrameType, FailedAppendStorage,
       FailedAppendAdds
  <2>4. Grows(store.disk, Ticked.disk) /\ Grows(Ticked.disk, store'.disk)
    BY <2>3, OpenedGrows, AddsGrows
  <2> QED
    BY <2>4, GrowsTwice
<1>3. CASE Restart
  <2>1. TypeOK'
    BY <1>3, RestartInv DEF Inv
  <2>2. DiskOK(store.disk) /\ DayOf(startTs') \in Int
    BY <2>1, DayOfInt DEF Inv, StorageInv, TypeOK
  <2>3. OpenedOnly(store.disk, store'.disk)
    BY <1>3, <2>2, OpenOpens DEF Restart
  <2> QED
    BY <2>3, OpenedGrows
<1>4. CASE IgnoredFrame \/ Stop \/ UNCHANGED vars
  BY <1>4 DEF IgnoredFrame, Stop, vars, Grows
<1> QED
  BY <1>1, <1>2, <1>3, <1>4 DEF Next

\* No step of a continuous recording removes or changes a row.
THEOREM NothingRewritten == Spec => RowsAppended
<1>1. Inv /\ [Next]_vars =>
        [\A d \in DOMAIN store.disk :
           /\ d \in DOMAIN store'.disk
           /\ \A r \in DOMAIN store.disk[d].rows :
                /\ r \in DOMAIN store'.disk[d].rows
                /\ store'.disk[d].rows[r] = store.disk[d].rows[r]]_vars
  BY StepGrows DEF Grows
<1> QED
  BY <1>1, Invariant, PTL DEF Spec, RowsAppended

-----------------------------------------------------------------------------
(***************************************************************************)
(* The rows of a process, wherever they are.                               *)
(***************************************************************************)
RowsIn(disk, s) ==
  { dr \in UNION { {d} \X DOMAIN disk[d].rows : d \in DOMAIN disk } :
      disk[dr[1]].rows[dr[2]].frame.session = s }

At(disk, dr) == disk[dr[1]].rows[dr[2]]

\* No row is new.
RowsKept(disk, new) ==
  \A s \in Nat : /\ RowsIn(new, s) = RowsIn(disk, s)
                 /\ \A dr \in RowsIn(disk, s) : At(new, dr) = At(disk, dr)

\* One row is new: at x, of frame f and the given event.
RowAdded(disk, new, x, f, event) ==
  /\ \A s \in Nat :
       /\ RowsIn(new, s) = RowsIn(disk, s) \cup (IF s = f.session THEN {x} ELSE {})
       /\ x \notin RowsIn(disk, s)
       /\ \A dr \in RowsIn(disk, s) : At(new, dr) = At(disk, dr)
  /\ At(new, x).frame = f
  /\ At(new, x).event = event

\* What is in the rows of a process.
LEMMA RowsInMember ==
  ASSUME NEW disk, NEW s
  PROVE  /\ \A dr \in RowsIn(disk, s) :
              /\ dr = <<dr[1], dr[2]>>
              /\ dr[1] \in DOMAIN disk
              /\ dr[2] \in DOMAIN disk[dr[1]].rows
              /\ At(disk, dr).frame.session = s
         /\ \A d \in DOMAIN disk : \A r \in DOMAIN disk[d].rows :
              disk[d].rows[r].frame.session = s => <<d, r>> \in RowsIn(disk, s)
  BY DEF RowsIn, At

\* Opening files keeps the rows.
LEMMA OpenedKeepsRows ==
  ASSUME NEW disk, NEW new, OpenedOnly(disk, new)
  PROVE  RowsKept(disk, new)
<1> SUFFICES ASSUME NEW s \in Nat
             PROVE  /\ RowsIn(new, s) = RowsIn(disk, s)
                    /\ \A dr \in RowsIn(disk, s) : At(new, dr) = At(disk, dr)
  BY DEF RowsKept
<1>1. ASSUME NEW dr \in RowsIn(disk, s)
      PROVE  dr \in RowsIn(new, s) /\ At(new, dr) = At(disk, dr)
  <2>1. /\ dr = <<dr[1], dr[2]>> /\ dr[1] \in DOMAIN disk
        /\ dr[2] \in DOMAIN disk[dr[1]].rows /\ At(disk, dr).frame.session = s
    BY RowsInMember
  <2>2. dr[1] \in DOMAIN new /\ new[dr[1]] = disk[dr[1]]
    BY <2>1 DEF OpenedOnly
  <2>3. At(new, dr) = At(disk, dr)
    BY <2>2 DEF At
  <2>4. <<dr[1], dr[2]>> \in RowsIn(new, s)
    BY <2>1, <2>2, <2>3, RowsInMember DEF At
  <2> QED
    BY <2>1, <2>3, <2>4
<1>2. ASSUME NEW dr \in RowsIn(new, s) PROVE dr \in RowsIn(disk, s)
  <2>1. /\ dr = <<dr[1], dr[2]>> /\ dr[1] \in DOMAIN new
        /\ dr[2] \in DOMAIN new[dr[1]].rows /\ At(new, dr).frame.session = s
    BY RowsInMember
  <2>2. dr[1] \in DOMAIN disk /\ new[dr[1]] = disk[dr[1]]
    <3>1. DOMAIN EmptyFile.rows = {}
      BY DEF EmptyFile
    <3> QED
      BY <2>1, <3>1 DEF OpenedOnly
  <2>3. <<dr[1], dr[2]>> \in RowsIn(disk, s)
    BY <2>1, <2>2, RowsInMember DEF At
  <2> QED
    BY <2>1, <2>3
<1> QED
  BY <1>1, <1>2

\* What the open file gains.
LEMMA AddsRow ==
  ASSUME NEW s, NEW t, NEW f, NEW event, StorageInv(s), StorageInv(t),
         Adds(s, t, f, event)
  PROVE  IF Len(OpenFile(t).rows) = s.rows
         THEN RowsKept(s.disk, t.disk)
         ELSE /\ RowAdded(s.disk, t.disk, <<s.day, s.rows + 1>>, f, event)
              /\ Len(OpenFile(t).rows) = s.rows + 1
<1> DEFINE old == s.disk[s.day].rows
           now == t.disk[s.day].rows
           x == <<s.day, s.rows + 1>>
<1>1. /\ s.day \in DOMAIN s.disk /\ DOMAIN t.disk = DOMAIN s.disk /\ t.day = s.day
      /\ old \in Seq(Row) /\ now \in Seq(Row)
      /\ s.rows = Len(old) /\ s.rows \in Nat
      /\ Len(now) \in s.rows .. s.rows + 1
      /\ \A r \in 1 .. s.rows : now[r] = old[r]
      /\ \A d \in DOMAIN s.disk \ {s.day} : t.disk[d] = s.disk[d]
      /\ Len(now) = s.rows + 1 => now[s.rows + 1].frame = f
                                  /\ now[s.rows + 1].event = event
      /\ now = OpenFile(t).rows
  BY DEF Adds, StorageInv, StorageOK, CountsOK, OpenFile, DiskOK, File
<1>2. DOMAIN old = 1 .. s.rows /\ DOMAIN now = 1 .. Len(now)
  BY <1>1
<1> HIDE DEF old, now
<1>3. ASSUME NEW n \in Nat, NEW dr \in RowsIn(s.disk, n)
      PROVE  /\ dr \in RowsIn(t.disk, n) /\ At(t.disk, dr) = At(s.disk, dr)
             /\ dr # x
  <2>1. /\ dr = <<dr[1], dr[2]>> /\ dr[1] \in DOMAIN s.disk
        /\ dr[2] \in DOMAIN s.disk[dr[1]].rows /\ At(s.disk, dr).frame.session = n
    BY RowsInMember
  <2>2. CASE dr[1] = s.day
    <3>1. dr[2] \in 1 .. s.rows
      BY <1>2, <2>1, <2>2 DEF old
    <3>2. dr[2] \in DOMAIN now /\ now[dr[2]] = old[dr[2]] /\ dr[2] # s.rows + 1
      BY <1>1, <1>2, <3>1
    <3>3. At(t.disk, dr) = At(s.disk, dr)
      BY <2>2, <3>2 DEF At, old, now
    <3>4. dr[2] \in DOMAIN t.disk[dr[1]].rows
      BY <2>2, <3>2 DEF now
    <3>5. <<dr[1], dr[2]>> \in RowsIn(t.disk, n)
      BY <1>1, <2>1, <3>3, <3>4, RowsInMember DEF At
    <3> QED
      BY <2>1, <3>2, <3>3, <3>5
  <2>3. CASE dr[1] # s.day
    <3>1. t.disk[dr[1]] = s.disk[dr[1]] /\ dr[1] \in DOMAIN t.disk
      BY <1>1, <2>1, <2>3
    <3>2. At(t.disk, dr) = At(s.disk, dr)
      BY <3>1 DEF At
    <3>3. <<dr[1], dr[2]>> \in RowsIn(t.disk, n)
      BY <2>1, <3>1, <3>2, RowsInMember DEF At
    <3> QED
      BY <2>1, <2>3, <3>2, <3>3
  <2> QED
    BY <2>2, <2>3
<1>4. ASSUME NEW n \in Nat, NEW dr \in RowsIn(t.disk, n), dr \notin RowsIn(s.disk, n)
      PROVE  dr = x /\ Len(now) = s.rows + 1 /\ n = f.session
  <2>1. /\ dr = <<dr[1], dr[2]>> /\ dr[1] \in DOMAIN t.disk
        /\ dr[2] \in DOMAIN t.disk[dr[1]].rows /\ At(t.disk, dr).frame.session = n
    BY RowsInMember
  <2>2. CASE dr[1] # s.day
    <3>1. t.disk[dr[1]] = s.disk[dr[1]] /\ dr[1] \in DOMAIN s.disk
      BY <1>1, <2>1, <2>2
    <3>2. <<dr[1], dr[2]>> \in RowsIn(s.disk, n)
      BY <2>1, <3>1, RowsInMember DEF At
    <3> QED
      BY <1>4, <2>1, <3>2
  <2>3. CASE dr[1] = s.day
    <3>1. dr[2] \in 1 .. Len(now)
      BY <1>2, <2>1, <2>3 DEF now
    <3>2. CASE dr[2] \in 1 .. s.rows
      <4>1. dr[2] \in DOMAIN s.disk[dr[1]].rows
        BY <1>2, <2>3, <3>2 DEF old
      <4>4. now[dr[2]] = old[dr[2]]
        BY <1>1, <3>2
      <4>2. At(s.disk, dr) = At(t.disk, dr)
        BY <2>3, <4>4 DEF At, old, now
      <4>3. <<dr[1], dr[2]>> \in RowsIn(s.disk, n)
        BY <1>1, <2>1, <2>3, <4>1, <4>2, RowsInMember DEF At
      <4> QED
        BY <1>4, <2>1, <4>3
    <3>3. CASE dr[2] \notin 1 .. s.rows
      <4>1. dr[2] = s.rows + 1 /\ Len(now) = s.rows + 1
        BY <1>1, <3>1, <3>3
      <4>2. At(t.disk, dr) = now[s.rows + 1]
        BY <2>3, <4>1 DEF At, now
      <4>3. n = f.session
        BY <1>1, <2>1, <4>1, <4>2
      <4> QED
        BY <2>1, <2>3, <4>1, <4>3
    <3> QED
      BY <3>2, <3>3
  <2> QED
    BY <2>2, <2>3
<1>5. CASE Len(now) = s.rows
  <2>1. Len(now) # s.rows + 1
    BY <1>1, <1>5
  <2>2. RowsKept(s.disk, t.disk)
    BY <1>3, <1>4, <2>1 DEF RowsKept
  <2> QED
    BY <1>1, <1>5, <2>2
<1>6. CASE Len(now) = s.rows + 1
  <2>1. At(t.disk, x) = now[s.rows + 1]
    BY DEF At, now
  <2>2. x \in RowsIn(t.disk, f.session)
    <3>1. s.rows + 1 \in DOMAIN t.disk[s.day].rows
      BY <1>1, <1>2, <1>6 DEF now
    <3>2. t.disk[s.day].rows[s.rows + 1].frame.session = f.session
      BY <1>1, <1>6 DEF now
    <3> QED
      BY <1>1, <3>1, <3>2, RowsInMember
  <2>3. ASSUME NEW n \in Nat
        PROVE  /\ RowsIn(t.disk, n) = RowsIn(s.disk, n)
                                        \cup (IF n = f.session THEN {x} ELSE {})
               /\ x \notin RowsIn(s.disk, n)
               /\ \A dr \in RowsIn(s.disk, n) : At(t.disk, dr) = At(s.disk, dr)
    <3> HIDE DEF x
    <3> QED
      BY <1>3, <1>4, <2>2
  <2>4. RowAdded(s.disk, t.disk, x, f, event)
    BY <1>1, <1>6, <2>1, <2>3 DEF RowAdded
  <2> QED
    BY <1>1, <1>6, <2>4
<1> QED
  BY <1>1, <1>5, <1>6

-----------------------------------------------------------------------------
(***************************************************************************)
(* The stream of a process.                                                *)
(***************************************************************************)
\* Two rows of one segment.
Together(disk, a, b) ==
  /\ a[1] = b[1]
  /\ At(disk, b).frame.index - At(disk, a).frame.index = b[2] - a[2]
  /\ At(disk, a).frame.index % SegmentFrames = 0 =>
       DayOf(At(disk, a).frame.ts) = a[1]

\* The rows R of a process are its stream from the first frame on.
Whole(disk, R) ==
  /\ IsFiniteSet(R)
  /\ \A dr \in R : /\ At(disk, dr).frame.index \in 0 .. Cardinality(R) - 1
                   /\ dr[2] \in Nat
                   /\ At(disk, dr).event
                        = (At(disk, dr).frame.index \div SegmentFrames) + 1
  /\ \A i \in 0 .. Cardinality(R) - 1 : \E dr \in R : At(disk, dr).frame.index = i
  /\ \A a, b \in R :
       At(disk, a).event = At(disk, b).event => Together(disk, a, b)

\* A number is cut into segments in one way.
LEMMA SegmentOf ==
  ASSUME NEW c \in Nat, NEW r \in 0 .. SegmentFrames - 1, NEW k \in Nat,
         k = c * SegmentFrames + r
  PROVE  k \div SegmentFrames = c /\ k % SegmentFrames = r
<1> DEFINE p == k \div SegmentFrames
           m == k % SegmentFrames
<1>1. SegmentFrames \in Nat \ {0}
  BY SegmentAssumption
<1>2. p \in Int /\ k = p * SegmentFrames + m /\ m \in 0 .. SegmentFrames - 1
  BY <1>1
<1> HIDE DEF p, m
<1>3. ~(p < c)
  <2> SUFFICES ASSUME p < c PROVE FALSE
    OBVIOUS
  <2>1. p * SegmentFrames + SegmentFrames <= c * SegmentFrames
    BY <1>1, <1>2
  <2> QED
    BY <1>1, <1>2, <2>1
<1>4. ~(c < p)
  <2> SUFFICES ASSUME c < p PROVE FALSE
    OBVIOUS
  <2>1. c * SegmentFrames + SegmentFrames <= p * SegmentFrames
    BY <1>1, <1>2
  <2> QED
    BY <1>1, <1>2, <2>1
<1>5. p = c
  BY <1>2, <1>3, <1>4
<1>6. m = r
  BY <1>1, <1>2, <1>5
<1> QED
  BY <1>5, <1>6 DEF p, m

\* Rows that stay as they are stay a stream.
LEMMA WholeKept ==
  ASSUME NEW disk, NEW new, NEW R, Whole(disk, R),
         \A dr \in R : At(new, dr) = At(disk, dr)
  PROVE  Whole(new, R)
  BY DEF Whole, Together

\* What is new at x is the next frame, number k, of the rows R: in segment c,
\* as its first row or after the rows that it has.
NextFrame(disk, new, R, x, k, c, r) ==
  /\ \A dr \in R : At(new, dr) = At(disk, dr)
  /\ x \notin R /\ x[2] \in Nat
  /\ k = Cardinality(R) /\ At(new, x).frame.index = k
  /\ k \div SegmentFrames = c /\ k % SegmentFrames = r
  /\ At(new, x).event = c + 1
  /\ r = 0 => DayOf(At(new, x).frame.ts) = x[1]
  /\ \A a \in R : At(disk, a).event = c + 1 =>
       r # 0 /\ a[1] = x[1] /\ a[2] + k - At(disk, a).frame.index = x[2]

\* The next frame goes on with the stream.
LEMMA WholeOneMore ==
  ASSUME NEW disk, NEW new, NEW R, Whole(disk, R), NEW x,
         NEW k \in Nat, NEW c \in Nat, NEW r \in Nat,
         NextFrame(disk, new, R, x, k, c, r)
  PROVE  /\ Whole(new, R \cup {x})
         /\ Cardinality(R \cup {x}) = k + 1
<1> USE DEF NextFrame
<1> DEFINE S == R \cup {x}
<1>1. IsFiniteSet(R)
  BY DEF Whole
<1>2. IsFiniteSet(S) /\ Cardinality(S) = k + 1
  BY <1>1, FS_AddElement
<1>4. \A dr \in R :
        /\ At(new, dr).frame.index \in 0 .. k - 1
        /\ dr[2] \in Nat
        /\ At(new, dr).event = (At(new, dr).frame.index \div SegmentFrames) + 1
  BY DEF Whole
<1>5. /\ At(new, x).frame.index = k
      /\ At(new, x).event = (At(new, x).frame.index \div SegmentFrames) + 1
  OBVIOUS
<1>6. \A dr \in S :
        /\ At(new, dr).frame.index \in 0 .. (k + 1) - 1
        /\ dr[2] \in Nat
        /\ At(new, dr).event = (At(new, dr).frame.index \div SegmentFrames) + 1
  <2> SUFFICES ASSUME NEW dr \in S
               PROVE  /\ At(new, dr).frame.index \in 0 .. (k + 1) - 1
                      /\ dr[2] \in Nat
                      /\ At(new, dr).event
                           = (At(new, dr).frame.index \div SegmentFrames) + 1
    OBVIOUS
  <2>1. CASE dr \in R
    <3>1. At(new, dr).frame.index \in 0 .. (k + 1) - 1
      BY <1>4, <2>1
    <3> QED
      BY <1>4, <2>1, <3>1
  <2>2. CASE dr = x
    <3>1. k \in 0 .. (k + 1) - 1
      OBVIOUS
    <3> QED
      BY <1>5, <2>2, <3>1
  <2> QED
    BY <2>1, <2>2
<1>7. \A i \in 0 .. (k + 1) - 1 : \E dr \in S : At(new, dr).frame.index = i
  <2> SUFFICES ASSUME NEW i \in 0 .. (k + 1) - 1
               PROVE  \E dr \in S : At(new, dr).frame.index = i
    OBVIOUS
  <2>1. CASE i = k
    BY <1>5, <2>1
  <2>2. CASE i # k
    <3>1. i \in 0 .. Cardinality(R) - 1
      BY <2>2
    <3>2. PICK dr \in R : At(disk, dr).frame.index = i
      BY <3>1 DEF Whole
    <3> QED
      BY <3>2
  <2> QED
    BY <2>1, <2>2
<1>8. ASSUME NEW a \in R, At(new, a).event = c + 1
      PROVE  Together(new, a, x) /\ Together(new, x, a)
  <2>1. /\ r # 0 /\ a[1] = x[1]
        /\ a[2] + k - At(new, a).frame.index = x[2]
    BY <1>8
  <2>2. At(new, a).frame.index \in Nat /\ a[2] \in Nat
    BY <1>4
  <2>3. k - At(new, a).frame.index = x[2] - a[2]
        /\ At(new, a).frame.index - k = a[2] - x[2]
    BY <2>1, <2>2
  <2>4. Together(new, a, a)
    BY DEF Whole, Together
  <2> QED
    BY <1>5, <2>1, <2>3, <2>4 DEF Together
<1>9. Together(new, x, x)
  <2>1. k - k = 0 /\ x[2] - x[2] = 0
    OBVIOUS
  <2> QED
    BY <1>5, <2>1 DEF Together
<1>10. \A a, b \in S : At(new, a).event = At(new, b).event => Together(new, a, b)
  <2> SUFFICES ASSUME NEW a \in S, NEW b \in S, At(new, a).event = At(new, b).event
               PROVE  Together(new, a, b)
    OBVIOUS
  <2>1. CASE a \in R /\ b \in R
    BY <2>1 DEF Whole, Together
  <2>2. CASE a \in R /\ b = x
    BY <1>8, <2>2
  <2>3. CASE a = x /\ b \in R
    BY <1>8, <2>3
  <2>4. CASE a = x /\ b = x
    BY <1>9, <2>4
  <2> QED
    BY <2>1, <2>2, <2>3, <2>4
<1> HIDE DEF S
<1>11. Whole(new, S)
  BY <1>2, <1>6, <1>7, <1>10 DEF Whole
<1> QED
  BY <1>2, <1>11 DEF S

-----------------------------------------------------------------------------
(***************************************************************************)
(* The inductive invariant of the stream.                                  *)
(***************************************************************************)
\* Every process so far left its stream, no longer than it was to be.
Streams ==
  /\ session # 0
  /\ \A s \in Nat : s > session => RowsIn(store.disk, s) = {}
  /\ \A s \in 1 .. session :
       /\ Whole(store.disk, RowsIn(store.disk, s))
       /\ SegmentCount # 0 =>
            Cardinality(RowsIn(store.disk, s)) <= SegmentCount * SegmentFrames

\* The counters say what is in the files, and where in its stream the process
\* is.
Counters ==
  pc # "failed" =>
    /\ segment.saved = Cardinality(RowsIn(store.disk, session))
    /\ segment.saved = segment.completed * SegmentFrames + segment.frames
    /\ segment.id = segment.completed + (IF segment.frames = 0 THEN 0 ELSE 1)
    /\ finished => /\ SegmentCount # 0
                   /\ segment.completed = SegmentCount
                   /\ segment.frames = 0
    /\ ~finished => /\ nextIndex = segment.saved
                    /\ SegmentCount # 0 => segment.completed < SegmentCount

\* The rows of a segment that has begun are at the end of the open file.
CurrentSegment ==
  pc = "running" /\ segment.frames # 0 =>
    \A dr \in RowsIn(store.disk, session) :
      At(store.disk, dr).event = segment.id =>
        /\ dr[1] = store.day
        /\ dr[2] + segment.saved - At(store.disk, dr).frame.index = store.rows + 1

StreamInv == Inv /\ Streams /\ Counters /\ CurrentSegment

\* An index below a segment's first is in an earlier segment.
LEMMA EarlierSegment ==
  ASSUME NEW c \in Nat, NEW i \in Nat, i < c * SegmentFrames
  PROVE  i \div SegmentFrames # c
<1> DEFINE p == i \div SegmentFrames
           m == i % SegmentFrames
<1>1. SegmentFrames \in Nat \ {0}
  BY SegmentAssumption
<1>2. p \in Int /\ i = p * SegmentFrames + m /\ m \in 0 .. SegmentFrames - 1
  BY <1>1
<1> HIDE DEF p, m
<1>3. p # c
  BY <1>1, <1>2
<1> QED
  BY <1>3 DEF p

\* Whether this frame begins a segment, or goes on with one.
LEMMA ThisSegment ==
  ASSUME StreamInv, pc = "running", ~finished
  PROVE  /\ SegmentId = segment.completed + 1
         /\ segment.frames = 0 => Ticked.day = DayOf(ThisFrame.ts)
         /\ segment.frames # 0 => Ticked = store
         /\ ThisFrame.index = segment.saved
<1>1. /\ segment.frames \in Nat /\ segment.completed \in Nat /\ segment.id \in Nat
      /\ segment.id = segment.completed + (IF segment.frames = 0 THEN 0 ELSE 1)
      /\ nextIndex = segment.saved
  BY DEF StreamInv, Counters, Inv, TypeOK, Segment
<1>2. SegmentId = segment.completed + 1
  BY <1>1 DEF SegmentId, StartsSegment
<1>3. segment.frames = 0 => Ticked.day = DayOf(ThisFrame.ts)
  BY DEF Ticked, StartsSegment, Tick, Rotate, Open
<1>4. segment.frames # 0 => Ticked = store
  BY DEF Ticked, StartsSegment
<1> QED
  BY <1>1, <1>2, <1>3, <1>4 DEF ThisFrame

\* The storage with the row of this frame is one more frame of the stream.
LEMMA NextRow ==
  ASSUME StreamInv, pc = "running", ~finished,
         NEW new,
         RowAdded(store.disk, new, <<Ticked.day, Ticked.rows + 1>>, ThisFrame, SegmentId)
  PROVE  /\ \A s \in Nat : s > session => RowsIn(new, s) = {}
         /\ \A s \in 1 .. session :
              /\ Whole(new, RowsIn(new, s))
              /\ SegmentCount # 0 =>
                   Cardinality(RowsIn(new, s)) <= SegmentCount * SegmentFrames
         /\ Cardinality(RowsIn(new, session)) = segment.saved + 1
         /\ RowsIn(new, session)
              = RowsIn(store.disk, session) \cup {<<Ticked.day, Ticked.rows + 1>>}
         /\ NextFrame(store.disk, new, RowsIn(store.disk, session),
                      <<Ticked.day, Ticked.rows + 1>>,
                      segment.saved, segment.completed, segment.frames)
<1> DEFINE x == <<Ticked.day, Ticked.rows + 1>>
           R == RowsIn(store.disk, session)
           k == segment.saved
           c == segment.completed
           r == segment.frames
<1>1. /\ session \in Nat /\ session # 0 /\ session \in 1 .. session
      /\ SegmentFrames \in Nat \ {0} /\ SegmentCount \in Nat
      /\ k \in Nat /\ c \in Nat /\ r \in 0 .. SegmentFrames - 1
      /\ k = Cardinality(R) /\ k = c * SegmentFrames + r
      /\ SegmentCount # 0 => c < SegmentCount
  BY SegmentAssumption DEF StreamInv, Streams, Counters, Inv, TypeOK, Segment
<1>2. /\ ThisFrame.session = session /\ ThisFrame.index = k /\ SegmentId = c + 1
      /\ r = 0 => Ticked.day = DayOf(ThisFrame.ts)
      /\ r # 0 => Ticked = store
  <2>1. TypeOK
    BY DEF StreamInv, Inv
  <2> QED
    BY <2>1, ThisSegment, FrameType
<1>3. Ticked.rows \in Nat
  <2>1. StorageInv(Ticked)
    BY TickedStorage DEF StreamInv
  <2> QED
    BY <2>1 DEF StorageInv, StorageOK
<1>4. /\ \A s \in Nat :
           /\ RowsIn(new, s) = RowsIn(store.disk, s) \cup (IF s = session THEN {x} ELSE {})
           /\ x \notin RowsIn(store.disk, s)
           /\ \A dr \in RowsIn(store.disk, s) : At(new, dr) = At(store.disk, dr)
      /\ At(new, x).frame = ThisFrame
      /\ At(new, x).event = SegmentId
  BY <1>2 DEF RowAdded
<1>5. Whole(store.disk, R)
  BY <1>1 DEF StreamInv, Streams
<1>6. x[1] = Ticked.day /\ x[2] = Ticked.rows + 1 /\ x[2] \in Nat
  BY <1>3
<1> HIDE DEF x
<1>7. /\ RowsIn(new, session) = R \cup {x} /\ x \notin R
      /\ \A dr \in R : At(new, dr) = At(store.disk, dr)
  BY <1>1, <1>4
<1>8. \A a \in R : At(store.disk, a).event = c + 1 =>
        r # 0 /\ a[1] = x[1] /\ a[2] + k - At(store.disk, a).frame.index = x[2]
  <2> SUFFICES ASSUME NEW a \in R, At(store.disk, a).event = c + 1
               PROVE  /\ r # 0 /\ a[1] = x[1]
                      /\ a[2] + k - At(store.disk, a).frame.index = x[2]
    OBVIOUS
  <2> DEFINE i == At(store.disk, a).frame.index
  <2>1. i \in 0 .. k - 1 /\ At(store.disk, a).event = (i \div SegmentFrames) + 1
    BY <1>1, <1>5 DEF Whole
  <2>2. i \in Nat /\ i < k /\ i \div SegmentFrames \in Int
    BY <1>1, <2>1
  <2>3. i \div SegmentFrames = c
    BY <1>1, <2>1, <2>2
  <2> HIDE DEF i
  <2>4. r # 0
    <3> SUFFICES ASSUME r = 0 PROVE FALSE
      OBVIOUS
    <3>1. i < c * SegmentFrames
      <4>1. k = c * SegmentFrames
        BY <1>1
      <4> QED
        BY <2>2, <4>1
    <3> QED
      BY <1>1, <2>2, <2>3, <3>1, EarlierSegment
  <2>5. segment.id = c + 1
    BY <1>1, <2>4 DEF StreamInv, Counters
  <2>6. a[1] = store.day /\ a[2] + k - i = store.rows + 1
    BY <2>4, <2>5 DEF StreamInv, CurrentSegment, i
  <2> QED
    BY <1>2, <1>6, <2>4, <2>6 DEF i
<1>9. At(new, x).frame.index = k /\ At(new, x).event = c + 1
      /\ (r = 0 => DayOf(At(new, x).frame.ts) = x[1])
  BY <1>2, <1>4, <1>6
<1> HIDE DEF R, k, c, r
<1>16. k \in Nat /\ k = Cardinality(R) /\ c \in Nat /\ r \in Nat
  BY <1>1
<1>17. NextFrame(store.disk, new, R, x, k, c, r)
  <2>1. k \div SegmentFrames = c /\ k % SegmentFrames = r
    BY <1>1, SegmentOf
  <2> QED
    BY <1>6, <1>7, <1>8, <1>9, <1>16, <2>1 DEF NextFrame
<1>10. /\ Whole(new, R \cup {x})
       /\ Cardinality(R \cup {x}) = k + 1
  BY <1>5, <1>16, <1>17, WholeOneMore, Zenon
<1>11. SegmentCount # 0 => k + 1 <= SegmentCount * SegmentFrames
  <2> SUFFICES ASSUME SegmentCount # 0 PROVE k + 1 <= SegmentCount * SegmentFrames
    OBVIOUS
  <2>1. c + 1 <= SegmentCount
    BY <1>1
  <2>2. c * SegmentFrames + SegmentFrames <= SegmentCount * SegmentFrames
    BY <1>1, <2>1
  <2> QED
    BY <1>1, <2>2
<1>12. ASSUME NEW s \in Nat, s # session
       PROVE  /\ RowsIn(new, s) = RowsIn(store.disk, s)
              /\ \A dr \in RowsIn(store.disk, s) : At(new, dr) = At(store.disk, dr)
  BY <1>4, <1>12
<1>13. ASSUME NEW s \in Nat, s > session PROVE RowsIn(new, s) = {}
  BY <1>1, <1>12, <1>13 DEF StreamInv, Streams
<1>14. ASSUME NEW s \in 1 .. session
       PROVE  /\ Whole(new, RowsIn(new, s))
              /\ SegmentCount # 0 =>
                   Cardinality(RowsIn(new, s)) <= SegmentCount * SegmentFrames
  <2>1. CASE s = session
    BY <1>7, <1>10, <1>11, <2>1
  <2>2. CASE s # session
    <3>1. s \in Nat
      BY <1>1
    <3>2. /\ Whole(store.disk, RowsIn(store.disk, s))
          /\ SegmentCount # 0 =>
               Cardinality(RowsIn(store.disk, s)) <= SegmentCount * SegmentFrames
      BY DEF StreamInv, Streams
    <3>3. Whole(new, RowsIn(store.disk, s))
      BY <1>12, <2>2, <3>1, <3>2, WholeKept
    <3> QED
      BY <1>12, <2>2, <3>1, <3>2, <3>3
  <2> QED
    BY <2>1, <2>2
<1>15. Cardinality(RowsIn(new, session)) = segment.saved + 1
  BY <1>7, <1>10 DEF k
<1> QED
  BY <1>7, <1>13, <1>14, <1>15, <1>17 DEF x, R, k, c, r

-----------------------------------------------------------------------------
(***************************************************************************)
(* Every step keeps it.                                                    *)
(***************************************************************************)
\* Files are opened before the row is added.
LEMMA KeptAdded ==
  ASSUME NEW a, NEW b, NEW c, NEW x, NEW f, NEW e,
         RowsKept(a, b), RowAdded(b, c, x, f, e)
  PROVE  RowAdded(a, c, x, f, e)
  BY DEF RowsKept, RowAdded

\* Files are opened after the row is added.
LEMMA AddedKept ==
  ASSUME NEW a, NEW b, NEW c, NEW x, NEW f, NEW e, f.session \in Nat,
         RowAdded(a, b, x, f, e), RowsKept(b, c)
  PROVE  RowAdded(a, c, x, f, e)
<1>1. x \in RowsIn(b, f.session)
  BY DEF RowAdded
<1>2. At(c, x) = At(b, x)
  BY <1>1 DEF RowsKept
<1>3. ASSUME NEW s \in Nat
      PROVE  /\ RowsIn(c, s) = RowsIn(a, s) \cup (IF s = f.session THEN {x} ELSE {})
             /\ x \notin RowsIn(a, s)
             /\ \A dr \in RowsIn(a, s) : At(c, dr) = At(a, dr)
  <2>1. /\ RowsIn(b, s) = RowsIn(a, s) \cup (IF s = f.session THEN {x} ELSE {})
        /\ x \notin RowsIn(a, s)
        /\ \A dr \in RowsIn(a, s) : At(b, dr) = At(a, dr)
    BY DEF RowAdded
  <2>2. /\ RowsIn(c, s) = RowsIn(b, s)
        /\ \A dr \in RowsIn(b, s) : At(c, dr) = At(b, dr)
    BY DEF RowsKept
  <2> QED
    BY <2>1, <2>2
<1> QED
  BY <1>2, <1>3 DEF RowAdded

\* A process without rows.
LEMMA NoRows == ASSUME NEW disk PROVE Whole(disk, {}) /\ Cardinality({}) = 0
<1>1. IsFiniteSet({}) /\ Cardinality({}) = 0
  BY FS_EmptySet
<1>2. 0 .. Cardinality({}) - 1 = {}
  BY <1>1
<1> QED
  BY <1>1, <1>2 DEF Whole

\* A step without a new row.
LEMMA StreamsKept ==
  ASSUME StreamInv, RowsKept(store.disk, store'.disk), session' = session
  PROVE  Streams'
<1>1. session \in Nat
  BY DEF StreamInv, Inv, TypeOK
<1>2. ASSUME NEW s \in Nat PROVE RowsIn(store'.disk, s) = RowsIn(store.disk, s)
  BY DEF RowsKept
<1>3. ASSUME NEW s \in 1 .. session
      PROVE  /\ Whole(store'.disk, RowsIn(store'.disk, s))
             /\ SegmentCount # 0 =>
                  Cardinality(RowsIn(store'.disk, s)) <= SegmentCount * SegmentFrames
  <2>1. s \in Nat
    BY <1>1
  <2>2. /\ Whole(store.disk, RowsIn(store.disk, s))
        /\ SegmentCount # 0 =>
             Cardinality(RowsIn(store.disk, s)) <= SegmentCount * SegmentFrames
    BY DEF StreamInv, Streams
  <2>3. Whole(store'.disk, RowsIn(store.disk, s))
    BY <2>1, <2>2, WholeKept DEF RowsKept
  <2> QED
    BY <1>2, <2>1, <2>2, <2>3
<1>4. session # 0 /\ \A s \in Nat : s > session => RowsIn(store'.disk, s) = {}
  BY <1>2 DEF StreamInv, Streams
<1> QED
  BY <1>3, <1>4 DEF Streams

\* At the start there are no rows.
LEMMA StreamInit == Init => StreamInv
<1> SUFFICES ASSUME Init PROVE StreamInv
  OBVIOUS
<1>1. Inv
  BY InvInit
<1>2. \A s : RowsIn(store.disk, s) = {}
  <2>1. DOMAIN EmptyFile.rows = {}
    BY DEF EmptyFile
  <2>2. \A d \in DOMAIN store.disk : store.disk[d] = EmptyFile
    BY DEF Init, Open, FileOn
  <2> QED
    BY <2>1, <2>2, RowsInMember
<1>3. session = 1 /\ segment = NoSegment /\ ~finished /\ nextIndex = 0
  BY DEF Init
<1>4. SegmentFrames \in Nat /\ SegmentCount \in Nat /\ SegmentCount * SegmentFrames \in Nat
      /\ 0 * SegmentFrames = 0
  BY SegmentAssumption
<1>5. Streams
  BY <1>2, <1>3, <1>4, NoRows DEF Streams
<1>6. Counters
  <2>1. 0 = 0 * SegmentFrames + 0
    BY <1>4
  <2> QED
    BY <1>2, <1>3, <1>4, <2>1, NoRows DEF Counters, NoSegment
<1>7. CurrentSegment
  BY <1>3 DEF CurrentSegment, NoSegment
<1> QED
  BY <1>1, <1>5, <1>6, <1>7 DEF StreamInv

\* Where the row of a recorded frame is.
LEMMA RecordRow ==
  ASSUME Inv, RecordFrame
  PROVE  /\ RowAdded(store.disk, store'.disk, <<Ticked.day, Ticked.rows + 1>>,
                     ThisFrame, SegmentId)
         /\ ~EndsSegment => store'.day = Ticked.day /\ store'.rows = Ticked.rows + 1
<1> DEFINE s == AppendRow(Ticked, ThisFrame, SegmentId, Neutral)
<1>1. pc = "running" /\ TypeOK
  BY DEF RecordFrame, FrameArrives, Inv
<1>2. /\ StorageInv(s) /\ s.rows = Ticked.rows + 1
      /\ Adds(Ticked, s, ThisFrame, SegmentId)
      /\ StorageInv(Ticked)
      /\ OpenedOnly(store.disk, Ticked.disk)
  BY <1>1, TickedStorage, FrameType, AppendStorage, AppendAdds
<1>3. store' = IF EndsSegment THEN Tick(s, ThisFrame.ts, FALSE) ELSE s
  BY DEF RecordFrame
<1> HIDE DEF s
<1>4. ThisFrame.session \in Nat /\ ThisFrame.ts \in Nat
  BY <1>1, FrameType DEF TypeOK
<1>5. RowAdded(Ticked.disk, s.disk, <<Ticked.day, Ticked.rows + 1>>, ThisFrame, SegmentId)
  <2>1. Len(OpenFile(s).rows) = s.rows /\ Ticked.rows \in Nat
    BY <1>2 DEF StorageInv, StorageOK, CountsOK
  <2>2. Len(OpenFile(s).rows) # Ticked.rows
    BY <1>2, <2>1
  <2> QED
    BY <1>2, <2>2, AddsRow
<1>6. RowAdded(store.disk, s.disk, <<Ticked.day, Ticked.rows + 1>>, ThisFrame, SegmentId)
  BY <1>2, <1>5, OpenedKeepsRows, KeptAdded
<1>7. RowsKept(s.disk, store'.disk)
  <2>1. OpenedOnly(s.disk, Tick(s, ThisFrame.ts, FALSE).disk)
    BY <1>2, <1>4, TickOpens
  <2>2. OpenedOnly(s.disk, s.disk)
    BY DEF OpenedOnly
  <2>3. OpenedOnly(s.disk, store'.disk)
    BY <1>3, <2>1, <2>2
  <2> QED
    BY <2>3, OpenedKeepsRows
<1>8. RowAdded(store.disk, store'.disk, <<Ticked.day, Ticked.rows + 1>>, ThisFrame,
               SegmentId)
  BY <1>4, <1>6, <1>7, AddedKept
<1>9. ~EndsSegment => store'.day = Ticked.day /\ store'.rows = Ticked.rows + 1
  BY <1>2, <1>3 DEF Adds
<1> QED
  BY <1>8, <1>9

\* The streams with the row of this frame.
LEMMA StreamsGrow ==
  ASSUME StreamInv, pc = "running", ~finished, session' = session,
         RowAdded(store.disk, store'.disk, <<Ticked.day, Ticked.rows + 1>>,
                  ThisFrame, SegmentId)
  PROVE  Streams'
<1>1. session # 0
  BY DEF StreamInv, Streams
<1>2. /\ \A s \in Nat : s > session => RowsIn(store'.disk, s) = {}
      /\ \A s \in 1 .. session :
           /\ Whole(store'.disk, RowsIn(store'.disk, s))
           /\ SegmentCount # 0 =>
                Cardinality(RowsIn(store'.disk, s)) <= SegmentCount * SegmentFrames
  BY NextRow
<1> QED
  BY <1>1, <1>2 DEF Streams

\* Recording a frame.
LEMMA RecordStep == StreamInv /\ RecordFrame => StreamInv'
<1> SUFFICES ASSUME StreamInv, RecordFrame PROVE StreamInv'
  OBVIOUS
<1> DEFINE x == <<Ticked.day, Ticked.rows + 1>>
           R == RowsIn(store.disk, session)
           k == segment.saved
           c == segment.completed
           r == segment.frames
<1>1. Inv /\ Inv' /\ pc = "running" /\ ~finished
  BY RecordInv DEF StreamInv, RecordFrame, FrameArrives
<1>2. /\ RowAdded(store.disk, store'.disk, x, ThisFrame, SegmentId)
      /\ ~EndsSegment => store'.day = Ticked.day /\ store'.rows = Ticked.rows + 1
  BY <1>1, RecordRow
<1>3. UNCHANGED <<pc, session, startTs>> /\ nextIndex' = nextIndex + 1
      /\ finished' = (EndsSegment /\ LastSegment)
  BY DEF RecordFrame
<1>4. Streams'
  BY <1>1, <1>2, <1>3, StreamsGrow
<1>5. /\ Cardinality(RowsIn(store'.disk, session)) = k + 1
      /\ RowsIn(store'.disk, session) = R \cup {x}
      /\ NextFrame(store.disk, store'.disk, R, x, k, c, r)
  BY <1>1, <1>2, NextRow
<1>6. /\ SegmentFrames \in Nat \ {0} /\ SegmentCount \in Nat
      /\ k \in Nat /\ c \in Nat /\ r \in 0 .. SegmentFrames - 1
      /\ k = c * SegmentFrames + r /\ nextIndex = k
      /\ SegmentCount # 0 => c < SegmentCount
      /\ SegmentId = c + 1
  BY <1>1, SegmentAssumption, ThisSegment
     DEF StreamInv, Counters, Inv, TypeOK, Segment
<1>7. /\ segment'.id = SegmentId
      /\ segment'.frames = IF EndsSegment THEN 0 ELSE r + 1
      /\ segment'.completed = c + (IF EndsSegment THEN 1 ELSE 0)
      /\ segment'.saved = k + 1
  BY DEF RecordFrame
<1> HIDE DEF x, R, k, c, r
<1>8. Counters'
  <2>1. segment'.saved = Cardinality(RowsIn(store'.disk, session'))
    BY <1>3, <1>5, <1>7
  <2>2. segment'.saved = segment'.completed * SegmentFrames + segment'.frames
    <3>1. CASE EndsSegment
      <4>1. r + 1 = SegmentFrames
        BY <1>6, <3>1 DEF EndsSegment, r
      <4>2. (c + 1) * SegmentFrames = c * SegmentFrames + SegmentFrames
        BY <1>6
      <4>3. k + 1 = (c + 1) * SegmentFrames + 0
        BY <1>6, <4>1, <4>2
      <4> QED
        BY <1>7, <3>1, <4>3
    <3>2. CASE ~EndsSegment
      <4>1. k + 1 = (c + 0) * SegmentFrames + (r + 1)
        BY <1>6
      <4> QED
        BY <1>7, <3>2, <4>1
    <3> QED
      BY <3>1, <3>2
  <2>3. segment'.id = segment'.completed + (IF segment'.frames = 0 THEN 0 ELSE 1)
    BY <1>6, <1>7
  <2>4. finished' => /\ SegmentCount # 0
                     /\ segment'.completed = SegmentCount
                     /\ segment'.frames = 0
    <3> SUFFICES ASSUME finished'
                 PROVE  /\ SegmentCount # 0
                        /\ segment'.completed = SegmentCount
                        /\ segment'.frames = 0
      OBVIOUS
    <3>1. EndsSegment /\ LastSegment
      BY <1>3
    <3>2. SegmentCount # 0 /\ c + 1 >= SegmentCount
      BY <3>1 DEF LastSegment, c
    <3>3. c + 1 = SegmentCount
      BY <1>6, <3>2
    <3> QED
      BY <1>7, <3>1, <3>2, <3>3
  <2>5. ~finished' => (SegmentCount # 0 => segment'.completed < SegmentCount)
    <3> SUFFICES ASSUME ~finished', SegmentCount # 0
                 PROVE  segment'.completed < SegmentCount
      OBVIOUS
    <3>1. CASE EndsSegment
      <4>1. ~LastSegment
        BY <1>3, <3>1
      <4>2. ~(c + 1 >= SegmentCount)
        BY <4>1 DEF LastSegment, c
      <4> QED
        BY <1>6, <1>7, <3>1, <4>2
    <3>2. CASE ~EndsSegment
      BY <1>6, <1>7, <3>2
    <3> QED
      BY <3>1, <3>2
  <2>6. nextIndex' = segment'.saved
    BY <1>3, <1>6, <1>7
  <2> QED
    BY <2>1, <2>2, <2>3, <2>4, <2>5, <2>6 DEF Counters
<1>9. CurrentSegment'
  <2> SUFFICES ASSUME segment'.frames # 0,
                      NEW dr \in RowsIn(store'.disk, session'),
                      At(store'.disk, dr).event = segment'.id
               PROVE  /\ dr[1] = store'.day
                      /\ dr[2] + segment'.saved - At(store'.disk, dr).frame.index
                           = store'.rows + 1
    BY DEF CurrentSegment
  <2>1. ~EndsSegment
    BY <1>7
  <2>2. /\ store'.day = x[1] /\ store'.rows = x[2]
        /\ At(store'.disk, dr).event = c + 1
    BY <1>2, <1>6, <1>7, <2>1 DEF x
  <2>3. dr \in R \cup {x}
    BY <1>3, <1>5
  <2>4. x[2] \in Nat /\ At(store'.disk, x).frame.index = k
    BY <1>5 DEF NextFrame
  <2>5. CASE dr = x
    <3>1. x[2] + (k + 1) - k = x[2] + 1
      BY <1>6, <2>4
    <3> QED
      BY <1>7, <2>2, <2>4, <2>5, <3>1
  <2>6. CASE dr \in R
    <3>1. At(store'.disk, dr) = At(store.disk, dr)
      BY <1>5, <2>6 DEF NextFrame
    <3>2. dr[1] = x[1] /\ dr[2] + k - At(store.disk, dr).frame.index = x[2]
      BY <1>5, <2>2, <2>6, <3>1 DEF NextFrame
    <3>3. Whole(store.disk, R) /\ Cardinality(R) = k
      <4>1. session \in 1 .. session
        BY <1>1 DEF StreamInv, Streams, Inv, TypeOK
      <4> QED
        BY <1>5, <4>1 DEF StreamInv, Streams, NextFrame, R
    <3>4. dr[2] \in Nat /\ At(store.disk, dr).frame.index \in 0 .. k - 1
      BY <2>6, <3>3 DEF Whole
    <3>5. dr[2] + (k + 1) - At(store.disk, dr).frame.index = x[2] + 1
      BY <1>6, <3>2, <3>4
    <3> QED
      BY <1>7, <2>2, <3>1, <3>2, <3>5
  <2> QED
    BY <2>3, <2>5, <2>6
<1> QED
  BY <1>1, <1>4, <1>8, <1>9 DEF StreamInv

\* A failed append, with the row written or not.
LEMMA FailStep == StreamInv /\ WriteFails => StreamInv'
<1> SUFFICES ASSUME StreamInv, WriteFails PROVE StreamInv'
  OBVIOUS
<1>1. Inv /\ Inv' /\ TypeOK /\ pc = "running" /\ ~finished
  BY FailInv DEF StreamInv, WriteFails, FrameArrives, Inv
<1>2. pc' = "failed" /\ session' = session
  BY DEF WriteFails
<1>3. store' \in FailedAppends(Ticked, ThisFrame, SegmentId, Neutral)
  BY DEF WriteFails
<1>4. /\ StorageInv(store')
      /\ Adds(Ticked, store', ThisFrame, SegmentId)
      /\ StorageInv(Ticked)
      /\ OpenedOnly(store.disk, Ticked.disk)
  BY <1>1, <1>3, TickedStorage, FrameType, FailedAppendStorage, FailedAppendAdds
<1>5. RowsKept(store.disk, Ticked.disk)
  BY <1>4, OpenedKeepsRows
<1>6. Streams'
  <2>1. CASE Len(OpenFile(store').rows) = Ticked.rows
    <3>1. RowsKept(Ticked.disk, store'.disk)
      BY <1>4, <2>1, AddsRow
    <3>2. RowsKept(store.disk, store'.disk)
      BY <1>5, <3>1 DEF RowsKept
    <3> QED
      BY <1>2, <3>2, StreamsKept
  <2>2. CASE Len(OpenFile(store').rows) # Ticked.rows
    <3>1. RowAdded(Ticked.disk, store'.disk, <<Ticked.day, Ticked.rows + 1>>,
                   ThisFrame, SegmentId)
      BY <1>4, <2>2, AddsRow
    <3>2. RowAdded(store.disk, store'.disk, <<Ticked.day, Ticked.rows + 1>>,
                   ThisFrame, SegmentId)
      BY <1>5, <3>1, KeptAdded
    <3> QED
      BY <1>1, <1>2, <3>2, StreamsGrow
  <2> QED
    BY <2>1, <2>2
<1>7. Counters' /\ CurrentSegment'
  BY <1>2 DEF Counters, CurrentSegment
<1> QED
  BY <1>1, <1>6, <1>7 DEF StreamInv

\* A later process: a new stream, of no row yet.
LEMMA RestartStep == StreamInv /\ Restart => StreamInv'
<1> SUFFICES ASSUME StreamInv, Restart PROVE StreamInv'
  OBVIOUS
<1>1. Inv /\ Inv' /\ session \in Nat
  BY RestartInv DEF StreamInv, Inv, TypeOK
<1>2. RowsKept(store.disk, store'.disk)
  <2>1. DiskOK(store.disk) /\ DayOf(startTs') \in Int
    BY <1>1, DayOfInt DEF Inv, StorageInv, TypeOK
  <2>2. OpenedOnly(store.disk, store'.disk)
    BY <2>1, OpenOpens DEF Restart
  <2> QED
    BY <2>2, OpenedKeepsRows
<1>3. /\ session' = session + 1 /\ segment' = NoSegment
      /\ ~finished' /\ nextIndex' = 0
  BY DEF Restart
<1>4. \A s \in Nat : s > session => RowsIn(store'.disk, s) = {}
  <2> SUFFICES ASSUME NEW s \in Nat, s > session PROVE RowsIn(store'.disk, s) = {}
    OBVIOUS
  <2>1. RowsIn(store.disk, s) = {}
    BY DEF StreamInv, Streams
  <2> QED
    BY <1>2, <2>1 DEF RowsKept
<1>5. SegmentFrames \in Nat /\ SegmentCount \in Nat /\ 0 <= SegmentCount * SegmentFrames
      /\ 0 = 0 * SegmentFrames + 0
  BY SegmentAssumption
<1>6. RowsIn(store'.disk, session') = {} /\ session' \in Nat /\ session' # 0
  BY <1>1, <1>3, <1>4
<1>7. Streams'
  <2>1. ASSUME NEW s \in 1 .. session'
        PROVE  /\ Whole(store'.disk, RowsIn(store'.disk, s))
               /\ SegmentCount # 0 =>
                    Cardinality(RowsIn(store'.disk, s)) <= SegmentCount * SegmentFrames
    <3>1. CASE s = session'
      BY <1>5, <1>6, <3>1, NoRows
    <3>2. CASE s # session'
      <4>1. s \in Nat /\ s \in 1 .. session
        BY <1>1, <1>3, <3>2
      <4>2. /\ Whole(store.disk, RowsIn(store.disk, s))
            /\ SegmentCount # 0 =>
                 Cardinality(RowsIn(store.disk, s)) <= SegmentCount * SegmentFrames
        BY <4>1 DEF StreamInv, Streams
      <4>3. /\ RowsIn(store'.disk, s) = RowsIn(store.disk, s)
            /\ Whole(store'.disk, RowsIn(store.disk, s))
        BY <1>2, <4>1, <4>2, WholeKept DEF RowsKept
      <4> QED
        BY <4>2, <4>3
    <3> QED
      BY <3>1, <3>2
  <2>2. \A s \in Nat : s > session' => RowsIn(store'.disk, s) = {}
    BY <1>1, <1>3, <1>4
  <2> QED
    BY <1>6, <2>1, <2>2 DEF Streams
<1>8. Counters'
  <2>1. SegmentCount # 0 => 0 < SegmentCount
    BY <1>5
  <2>2. segment'.saved = 0 /\ segment'.frames = 0 /\ segment'.completed = 0
        /\ segment'.id = 0
    BY <1>3 DEF NoSegment
  <2>3. Cardinality(RowsIn(store'.disk, session')) = 0
    BY <1>6, NoRows
  <2>4. segment'.saved = segment'.completed * SegmentFrames + segment'.frames
    BY <1>5, <2>2
  <2>5. segment'.id = segment'.completed + (IF segment'.frames = 0 THEN 0 ELSE 1)
    BY <2>2
  <2> QED
    BY <1>3, <2>1, <2>2, <2>3, <2>4, <2>5 DEF Counters
<1>9. CurrentSegment'
  BY <1>3 DEF CurrentSegment, NoSegment
<1> QED
  BY <1>1, <1>7, <1>8, <1>9 DEF StreamInv

\* Every step.
LEMMA StreamStep == StreamInv /\ [Next]_vars => StreamInv'
<1> SUFFICES ASSUME StreamInv, [Next]_vars PROVE StreamInv'
  OBVIOUS
<1>1. Inv'
  BY InvStep DEF StreamInv
<1>2. RowsKept(store.disk, store.disk)
  BY DEF RowsKept
<1>3. CASE IgnoredFrame
  <2>1. Streams'
    BY <1>2, <1>3, StreamsKept DEF IgnoredFrame
  <2> QED
    BY <1>1, <1>3, <2>1 DEF StreamInv, IgnoredFrame, Counters, CurrentSegment
<1>4. CASE Stop
  <2>1. Streams'
    BY <1>2, <1>4, StreamsKept DEF Stop
  <2> QED
    BY <1>1, <1>4, <2>1 DEF StreamInv, Stop, Counters, CurrentSegment
<1>5. CASE UNCHANGED vars
  <2>1. Streams'
    BY <1>2, <1>5, StreamsKept DEF vars
  <2> QED
    BY <1>1, <1>5, <2>1 DEF StreamInv, vars, Counters, CurrentSegment
<1> QED
  BY <1>3, <1>4, <1>5, RecordStep, FailStep, RestartStep DEF Next

\* The inductive invariant of the stream holds in every reachable state.
THEOREM StreamInvariant == Spec => []StreamInv
  BY StreamInit, StreamStep, PTL DEF Spec

\* What every process leaves in the files is its stream from the first frame
\* on, in whole segments, each of them in one file.
THEOREM WholeStream == Spec => []StreamComplete
<1>1. StreamInv => StreamComplete
  <2> SUFFICES ASSUME StreamInv, NEW s \in 1 .. session
               PROVE  /\ { RowAt(dr).frame.index : dr \in RowsOf(s) }
                           = 0 .. Cardinality(RowsOf(s)) - 1
                      /\ \A dr \in RowsOf(s) :
                           RowAt(dr).event
                             = (RowAt(dr).frame.index \div SegmentFrames) + 1
                      /\ SegmentInOneFile(s)
    BY DEF StreamComplete
  <2> DEFINE R == RowsOf(s)
  <2>1. R = RowsIn(store.disk, s) /\ \A dr : RowAt(dr) = At(store.disk, dr)
    BY DEF RowsOf, RowsIn, RowAt, At
  <2>2. Whole(store.disk, RowsIn(store.disk, s))
    BY DEF StreamInv, Streams
  <2> HIDE DEF R
  <2>3. { RowAt(dr).frame.index : dr \in R } = 0 .. Cardinality(R) - 1
    BY <2>1, <2>2 DEF Whole
  <2>4. \A dr \in R : RowAt(dr).event = (RowAt(dr).frame.index \div SegmentFrames) + 1
    BY <2>1, <2>2 DEF Whole
  <2>5. SegmentInOneFile(s)
    BY <2>1, <2>2 DEF Whole, Together, SegmentInOneFile, R
  <2> QED
    BY <2>3, <2>4, <2>5 DEF R
<1> QED
  BY <1>1, StreamInvariant, PTL

\* A recording with a last segment ends with it, and with nothing after it.
THEOREM CountKept == Spec => []CountHonoured
<1>1. StreamInv => CountHonoured
  <2> SUFFICES ASSUME StreamInv PROVE CountHonoured
    OBVIOUS
  <2> DEFINE k == segment.saved
             c == segment.completed
             r == segment.frames
  <2>1. \A s : RowsOf(s) = RowsIn(store.disk, s)
    BY DEF RowsOf, RowsIn
  <2>2. SegmentCount # 0 =>
          \A s \in 1 .. session :
            Cardinality(RowsOf(s)) <= SegmentCount * SegmentFrames
    BY <2>1 DEF StreamInv, Streams
  <2>3. ASSUME pc # "failed"
        PROVE  /\ k = Cardinality(RowsOf(session))
               /\ finished <=> SegmentCount # 0 /\ k = SegmentCount * SegmentFrames
    <3>1. /\ k = Cardinality(RowsOf(session))
          /\ k = c * SegmentFrames + r
          /\ finished => SegmentCount # 0 /\ c = SegmentCount /\ r = 0
          /\ ~finished => (SegmentCount # 0 => c < SegmentCount)
      BY <2>1, <2>3 DEF StreamInv, Counters
    <3>2. /\ k \in Nat /\ c \in Nat /\ r \in 0 .. SegmentFrames - 1
          /\ SegmentFrames \in Nat \ {0} /\ SegmentCount \in Nat
      BY SegmentAssumption DEF StreamInv, Inv, TypeOK, Segment
    <3> HIDE DEF k, c, r
    <3>3. finished => SegmentCount # 0 /\ k = SegmentCount * SegmentFrames
      BY <3>1, <3>2
    <3>4. ASSUME ~finished, SegmentCount # 0 PROVE k # SegmentCount * SegmentFrames
      <4>1. c + 1 <= SegmentCount
        BY <3>1, <3>2, <3>4
      <4>2. c * SegmentFrames + SegmentFrames <= SegmentCount * SegmentFrames
        BY <3>2, <4>1
      <4> QED
        BY <3>1, <3>2, <4>2
    <3> QED
      BY <3>1, <3>3, <3>4
  <2> QED
    BY <2>2, <2>3 DEF CountHonoured
<1> QED
  BY <1>1, StreamInvariant, PTL
=============================================================================
