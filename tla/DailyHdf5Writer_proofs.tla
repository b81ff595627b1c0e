----------------------- MODULE DailyHdf5Writer_proofs -----------------------
(***************************************************************************)
(* What the operations of the writer preserve, for every storage state:    *)
(* lemmas for the proofs about the recorders that use it.                  *)
(***************************************************************************)
EXTENDS DailyHdf5Writer, TLAPS

(***************************************************************************)
(* A storage state between two calls: the writer's counts are the lengths  *)
(* of the tables of the open file, every row names a prefix that exists,   *)
(* and every whole row can be read back.                                   *)
(***************************************************************************)
PrefixesExist(file) ==
  \A r \in 1 .. Len(file.rows) : file.rows[r].prefix < Len(file.prefixes)

DiskOK(disk) ==
  /\ disk = [d \in DOMAIN disk |-> disk[d]]
  /\ DOMAIN disk \in SUBSET Int
  /\ \A d \in DOMAIN disk : /\ disk[d] \in File
                            /\ PrefixesExist(disk[d])
                            /\ FileReadable(disk[d])

CountsOK(s) ==
  /\ s.rows = Len(OpenFile(s).rows)
  /\ s.prefixRows = Len(OpenFile(s).prefixes)

StorageInv(s) == StorageOK(s) /\ DiskOK(s.disk) /\ CountsOK(s)

(***************************************************************************)
(* While the writer remembers a previous frame, that frame is in the last  *)
(* row of the open file, and its run is the last one.                      *)
(***************************************************************************)
PreviousOK(s, session) ==
  s.prev # NoPrevious =>
    LET last == OpenFile(s).rows[s.rows]
    IN /\ s.rows > 0
       /\ last.frame.index = s.prev
       /\ last.frame.session = session
       /\ last.prefix = s.prefixRows - 1

\* rotationDayUtc() always names a day.
LEMMA DayOfInt == ASSUME NEW ts \in Nat PROVE DayOf(ts) \in Int
  BY DayAssumption DEF DayOf

\* Opening a file, new or existing, gives a storage state that matches it.
LEMMA OpenStorage ==
  ASSUME NEW disk, DiskOK(disk), NEW day \in Int
  PROVE  StorageInv(Open(disk, day)) /\ Open(disk, day).prev = NoPrevious
<1> DEFINE s == Open(disk, day)
<1>1. EmptyFile \in File /\ PrefixesExist(EmptyFile) /\ FileReadable(EmptyFile)
  BY DEF EmptyFile, File, PrefixesExist, FileReadable
<1>2. \A d \in DOMAIN disk \cup {day} :
        /\ FileOn(disk, d) \in File
        /\ PrefixesExist(FileOn(disk, d))
        /\ FileReadable(FileOn(disk, d))
  BY <1>1 DEF DiskOK, FileOn
<1>3. /\ s.disk = [d \in DOMAIN disk \cup {day} |-> FileOn(disk, d)]
      /\ s.day = day
      /\ s.rows = Len(FileOn(disk, day).rows)
      /\ s.prefixRows = Len(FileOn(disk, day).prefixes)
      /\ s.prev = NoPrevious
  BY DEF Open
<1>4. DiskOK(s.disk)
  BY <1>2, <1>3 DEF DiskOK
<1>5. CountsOK(s)
  BY <1>3 DEF CountsOK, OpenFile
<1>6. StorageOK(s)
  <2>1. s.rows \in Nat /\ s.prefixRows \in Nat
    BY <1>2, <1>3 DEF File
  <2>2. s = [disk |-> s.disk, day |-> s.day, rows |-> s.rows,
             prefixRows |-> s.prefixRows, prev |-> s.prev]
    BY DEF Open
  <2>3. s.day \in DOMAIN s.disk
    BY <1>3
  <2> QED
    BY <1>3, <1>4, <2>1, <2>2, <2>3 DEF StorageOK, DiskOK
<1> QED
  BY <1>3, <1>4, <1>5, <1>6 DEF StorageInv

\* tick() keeps a storage state in order, whether or not it rotates.
LEMMA TickStorage ==
  ASSUME NEW s, StorageInv(s), NEW ts \in Nat, NEW b \in BOOLEAN, NEW n,
         PreviousOK(s, n)
  PROVE  StorageInv(Tick(s, ts, b)) /\ PreviousOK(Tick(s, ts, b), n)
<1>1. StorageInv(Open(s.disk, DayOf(ts)))
      /\ Open(s.disk, DayOf(ts)).prev = NoPrevious
  BY DayOfInt, OpenStorage DEF StorageInv
<1> QED
  BY <1>1 DEF Tick, Rotate, PreviousOK

-----------------------------------------------------------------------------
(***************************************************************************)
(* The prefix table after the first half of append(): it keeps what it     *)
(* had, and a new run has put its frame at the end.                        *)
(***************************************************************************)
LEMMA PrefixTable ==
  ASSUME NEW s, StorageInv(s), NEW f \in Frame, PreviousOK(s, f.session)
  PROVE  /\ PrefixesWith(s, f) \in Seq(Frame)
         /\ PrefixRowsWith(s, f) \in Nat \ {0}
         /\ Len(PrefixesWith(s, f)) = PrefixRowsWith(s, f)
         /\ PrefixRowsWith(s, f) >= s.prefixRows
         /\ \A i \in 1 .. s.prefixRows :
              PrefixesWith(s, f)[i] = OpenFile(s).prefixes[i]
         /\ NewRun(s, f) => PrefixesWith(s, f)[PrefixRowsWith(s, f)] = f
<1> DEFINE old == OpenFile(s).prefixes
           table == SubSeq(old, 1, s.prefixRows)
<1>1. /\ old \in Seq(Frame)
      /\ s.prefixRows = Len(old)
      /\ s.prefixRows \in Nat
  BY DEF StorageInv, StorageOK, CountsOK, OpenFile, File
<1>2. /\ table \in Seq(Frame)
      /\ Len(table) = s.prefixRows
      /\ \A i \in 1 .. s.prefixRows : table[i] = old[i]
  BY <1>1
<1> HIDE DEF old, table
<1>3. CASE NewRun(s, f)
  <2>1. /\ PrefixesWith(s, f) = Append(table, f)
        /\ PrefixRowsWith(s, f) = s.prefixRows + 1
    BY <1>3 DEF PrefixesWith, PrefixRowsWith, table, old
  <2> QED
    BY <1>1, <1>2, <2>1 DEF old
<1>4. CASE ~NewRun(s, f)
  <2>1. /\ PrefixesWith(s, f) = old
        /\ PrefixRowsWith(s, f) = s.prefixRows
    BY <1>1, <1>4 DEF PrefixesWith, PrefixRowsWith, old
  <2>2. s.rows \in Nat /\ s.rows > 0 /\ OpenFile(s).rows[s.rows] \in Row
    BY <1>4 DEF NewRun, PreviousOK, StorageInv, StorageOK, CountsOK, OpenFile,
                File
  <2>3. s.prefixRows > 0
    BY <1>1, <1>4, <2>2 DEF NewRun, PreviousOK, Row
  <2> QED
    BY <1>1, <1>4, <2>1, <2>3 DEF old
<1> QED
  BY <1>3, <1>4

(***************************************************************************)
(* The open file after append() put a row in it: the rows before are what  *)
(* they were, and if the row is whole it can be read back like them.       *)
(***************************************************************************)
LEMMA FileWithRow ==
  ASSUME NEW s, StorageInv(s), NEW f \in Frame, PreviousOK(s, f.session),
         NEW row \in Row, row.frame = f,
         row.prefix \in {0, PrefixRowsWith(s, f) - 1},
         row.whole => row.prefix = PrefixRowsWith(s, f) - 1
  PROVE  LET file == OpenFile(WithRow(s, f, row))
         IN /\ file \in File
            /\ Len(file.rows) = s.rows + 1
            /\ Len(file.prefixes) = PrefixRowsWith(s, f)
            /\ \A r \in 1 .. s.rows : file.rows[r] = OpenFile(s).rows[r]
            /\ file.rows[s.rows + 1] = row
            /\ PrefixesExist(file)
            /\ FileReadable(file)
<1> DEFINE old == OpenFile(s)
           kept == SubSeq(old.rows, 1, s.rows)
           file == [rows |-> Append(kept, row), prefixes |-> PrefixesWith(s, f)]
<1>1. OpenFile(WithRow(s, f, row)) = file
  BY DEF WithRow, OpenFile, StorageInv, StorageOK
<1>2. /\ old.rows \in Seq(Row)
      /\ s.rows \in Nat
      /\ s.prefixRows \in Nat
      /\ s.rows = Len(old.rows)
      /\ s.prefixRows = Len(old.prefixes)
      /\ \A r \in 1 .. s.rows : old.rows[r].prefix < s.prefixRows
      /\ \A r \in 1 .. s.rows : old.rows[r].prefix \in Nat
      /\ \A r \in 1 .. s.rows : old.rows[r].whole => RowReadable(old, r)
  <2>1. /\ old \in File
        /\ PrefixesExist(old)
        /\ FileReadable(old)
        /\ s.rows \in Nat
        /\ s.prefixRows \in Nat
        /\ s.rows = Len(old.rows)
        /\ s.prefixRows = Len(old.prefixes)
    BY DEF StorageInv, StorageOK, CountsOK, OpenFile, DiskOK
  <2>2. old.rows \in Seq(Row)
    BY <2>1 DEF File
  <2>3. \A r \in 1 .. s.rows : old.rows[r].prefix \in Nat
    <3>1. \A r \in 1 .. s.rows : old.rows[r] \in Row
      BY <2>1, <2>2
    <3>2. \A row1 \in Row : row1.prefix \in Nat
      BY DEF Row
    <3> QED
      BY <3>1, <3>2
  <2> QED
    BY <2>1, <2>2, <2>3 DEF PrefixesExist, FileReadable
<1>3. /\ kept \in Seq(Row)
      /\ Len(kept) = s.rows
      /\ \A r \in 1 .. s.rows : kept[r] = old.rows[r]
  BY <1>2
<1> HIDE DEF kept
<1>4. /\ file.rows \in Seq(Row)
      /\ Len(file.rows) = s.rows + 1
      /\ \A r \in 1 .. s.rows : file.rows[r] = old.rows[r]
      /\ file.rows[s.rows + 1] = row
  BY <1>2, <1>3
<1>5. /\ file.prefixes \in Seq(Frame)
      /\ Len(file.prefixes) = PrefixRowsWith(s, f)
      /\ PrefixRowsWith(s, f) \in Nat \ {0}
      /\ PrefixRowsWith(s, f) >= s.prefixRows
      /\ \A i \in 1 .. s.prefixRows : file.prefixes[i] = old.prefixes[i]
      /\ NewRun(s, f) => file.prefixes[PrefixRowsWith(s, f)] = f
  BY PrefixTable
<1>6. file \in File
  BY <1>4, <1>5 DEF File
<1> HIDE DEF file, old
<1>7. PrefixesExist(file)
  <2> SUFFICES ASSUME NEW r \in 1 .. Len(file.rows)
               PROVE  file.rows[r].prefix < Len(file.prefixes)
    BY DEF PrefixesExist
  <2>1. CASE r \in 1 .. s.rows
    <3>1. file.rows[r] = old.rows[r]
      BY <1>4, <2>1
    <3>2. old.rows[r].prefix < s.prefixRows /\ old.rows[r].prefix \in Nat
      BY <1>2, <2>1
    <3> QED
      BY <1>2, <1>5, <3>1, <3>2
  <2>2. CASE r = s.rows + 1
    BY <1>4, <1>5, <2>2
  <2> QED
    BY <1>2, <1>4, <2>1, <2>2
<1>8. FileReadable(file)
  <2> SUFFICES ASSUME NEW r \in 1 .. Len(file.rows), file.rows[r].whole
               PROVE  RowReadable(file, r)
    BY DEF FileReadable
  <2>1. file.rows[r].prefix < Len(file.prefixes)
    BY <1>7 DEF PrefixesExist
  <2>2. CASE r \in 1 .. s.rows
    <3>1. RowReadable(old, r) /\ old.rows[r].prefix + 1 \in 1 .. s.prefixRows
      BY <1>2, <1>4, <2>2
    <3>2. file.rows[r] = old.rows[r] /\ (r # 1 => r - 1 \in 1 .. s.rows)
      BY <1>2, <1>4, <2>2
    <3>3. StartsRun(file, r) <=> StartsRun(old, r)
      BY <1>4, <2>2, <3>2 DEF StartsRun
    <3>4. CASE StartsRun(old, r)
      BY <1>5, <2>1, <3>1, <3>2, <3>3, <3>4 DEF RowReadable
    <3>5. CASE ~StartsRun(old, r)
      <4>1. r # 1
        BY <3>5 DEF StartsRun
      <4> QED
        BY <1>4, <2>1, <3>1, <3>2, <3>3, <3>5, <4>1 DEF RowReadable
    <3> QED
      BY <3>4, <3>5
  <2>3. CASE r = s.rows + 1 /\ NewRun(s, f)
    <3>1. PrefixRowsWith(s, f) = s.prefixRows + 1
      BY <2>3 DEF PrefixRowsWith
    <3>2. file.rows[r] = row /\ row.prefix = s.prefixRows
      BY <1>2, <1>4, <2>3, <3>1
    <3>3. StartsRun(file, r)
      <4>1. CASE s.rows = 0
        BY <2>3, <4>1 DEF StartsRun
      <4>2. CASE s.rows > 0
        <5>1. r - 1 \in 1 .. s.rows /\ file.rows[r - 1] = old.rows[r - 1]
          BY <1>2, <1>4, <2>3, <4>2
        <5>2. file.rows[r - 1].prefix < s.prefixRows
          BY <1>2, <5>1
        <5>3. file.rows[r - 1].prefix \in Nat
          BY <1>2, <5>1
        <5> QED
          BY <1>2, <3>2, <5>2, <5>3 DEF StartsRun
      <4> QED
        BY <1>2, <4>1, <4>2
    <3> QED
      BY <1>5, <2>1, <2>3, <3>1, <3>2, <3>3 DEF RowReadable
  <2>4. CASE r = s.rows + 1 /\ ~NewRun(s, f)
    <3>1. PrefixRowsWith(s, f) = s.prefixRows
      BY <1>2, <2>4 DEF PrefixRowsWith
    <3>2. file.rows[r] = row /\ row.prefix = s.prefixRows - 1
      BY <1>4, <2>4, <3>1
    <3>3. /\ s.prev # NoPrevious
          /\ f.index = s.prev + 1
          /\ s.rows > 0
          /\ old.rows[s.rows].frame.index = s.prev
          /\ old.rows[s.rows].frame.session = f.session
          /\ old.rows[s.rows].prefix = s.prefixRows - 1
      BY <2>4 DEF NewRun, PreviousOK, old
    <3>4. r # 1 /\ r - 1 = s.rows /\ file.rows[r - 1] = old.rows[s.rows]
      BY <1>2, <1>4, <2>4, <3>3
    <3>5. ~StartsRun(file, r)
      BY <3>2, <3>3, <3>4 DEF StartsRun
    <3> QED
      BY <2>1, <3>2, <3>3, <3>4, <3>5 DEF RowReadable, FollowsInStream
  <2> QED
    BY <1>2, <1>4, <2>2, <2>3, <2>4
<1> QED
  BY <1>1, <1>4, <1>5, <1>6, <1>7, <1>8 DEF old

(***************************************************************************)
(* A row at the end keeps the storage state in order; if it is whole the   *)
(* writer also knows its previous frame again.                             *)
(***************************************************************************)
LEMMA RowStorage ==
  ASSUME NEW s, StorageInv(s), NEW f \in Frame, PreviousOK(s, f.session),
         NEW row \in Row, row.frame = f,
         row.prefix \in {0, PrefixRowsWith(s, f) - 1},
         row.whole => row.prefix = PrefixRowsWith(s, f) - 1
  PROVE  /\ StorageInv(WithRow(s, f, row))
         /\ row.whole => PreviousOK(WithRow(s, f, row), f.session)
<1> DEFINE t == WithRow(s, f, row)
           file == OpenFile(t)
<1>1. /\ file \in File
      /\ Len(file.rows) = s.rows + 1
      /\ Len(file.prefixes) = PrefixRowsWith(s, f)
      /\ file.rows[s.rows + 1] = row
      /\ PrefixesExist(file)
      /\ FileReadable(file)
  BY FileWithRow
<1>2. /\ t = [disk |-> t.disk, day |-> t.day, rows |-> t.rows,
              prefixRows |-> t.prefixRows, prev |-> t.prev]
      /\ DOMAIN t.disk = DOMAIN s.disk
      /\ t.disk = [d \in DOMAIN t.disk |-> t.disk[d]]
      /\ \A d \in DOMAIN t.disk : t.disk[d] = IF d = s.day THEN file
                                                           ELSE s.disk[d]
      /\ t.day = s.day
      /\ t.rows = s.rows + 1
      /\ t.prefixRows = PrefixRowsWith(s, f)
      /\ t.prev = f.index
  <2> DEFINE g == [rows     |-> Append(SubSeq(OpenFile(s).rows, 1, s.rows), row),
                   prefixes |-> PrefixesWith(s, f)]
  <2>1. /\ s.disk = [d \in DOMAIN s.disk |-> s.disk[d]]
        /\ s = [disk |-> s.disk, day |-> s.day, rows |-> s.rows,
                prefixRows |-> s.prefixRows, prev |-> s.prev]
        /\ s.day \in DOMAIN s.disk
    BY DEF StorageInv, StorageOK
  <2>2. t = [s EXCEPT !.disk = [s.disk EXCEPT ![s.day] = g],
                      !.rows = s.rows + 1,
                      !.prefixRows = PrefixRowsWith(s, f),
                      !.prev = f.index]
    BY DEF WithRow
  <2> HIDE DEF g, t
  <2>3. t = [disk |-> [s.disk EXCEPT ![s.day] = g], day |-> s.day,
             rows |-> s.rows + 1, prefixRows |-> PrefixRowsWith(s, f),
             prev |-> f.index]
    BY <2>1, <2>2
  <2>4. file = g
    BY <2>1, <2>3 DEF OpenFile
  <2> QED
    BY <2>1, <2>3, <2>4
<1>3. /\ s.day \in DOMAIN s.disk
      /\ s.rows \in Nat
      /\ f.index \in Nat
  BY DEF StorageInv, StorageOK, Frame
<1>4. PrefixRowsWith(s, f) \in Nat
  BY PrefixTable
<1> HIDE DEF t
<1>5. DiskOK(t.disk)
  BY <1>1, <1>2 DEF DiskOK, StorageInv
<1>6. CountsOK(t)
  BY <1>1, <1>2, <1>3 DEF CountsOK
<1>7. StorageOK(t)
  <2>1. DOMAIN t.disk \in SUBSET Int /\ \A d \in DOMAIN t.disk : t.disk[d] \in File
    BY <1>5 DEF DiskOK
  <2>2. t.day \in DOMAIN t.disk /\ t.rows \in Nat /\ t.prefixRows \in Nat
        /\ t.prev \in Nat
    BY <1>2, <1>3, <1>4
  <2> QED
    BY <1>2, <2>1, <2>2 DEF StorageOK
<1>8. row.whole => PreviousOK(t, f.session)
  BY <1>1, <1>2, <1>3 DEF PreviousOK
<1> QED
  BY <1>5, <1>6, <1>7, <1>8 DEF StorageInv, t

\* append() that returns.
LEMMA AppendStorage ==
  ASSUME NEW s, StorageInv(s), NEW f \in Frame, PreviousOK(s, f.session),
         NEW event \in Nat, NEW state \in {0, 1, 2}
  PROVE  /\ StorageInv(AppendRow(s, f, event, state))
         /\ PreviousOK(AppendRow(s, f, event, state), f.session)
<1>1. PrefixRowsWith(s, f) \in Nat \ {0}
  BY PrefixTable
<1>2. /\ RowFor(s, f, event, state) \in Row
      /\ RowFor(s, f, event, state).frame = f
      /\ RowFor(s, f, event, state).prefix = PrefixRowsWith(s, f) - 1
      /\ RowFor(s, f, event, state).whole
  BY <1>1 DEF RowFor, Row
<1> QED
  BY <1>2, RowStorage DEF AppendRow

\* append() that throws, wherever it does.
LEMMA FailedAppendStorage ==
  ASSUME NEW s, StorageInv(s), NEW f \in Frame, PreviousOK(s, f.session),
         NEW event \in Nat, NEW state \in {0, 1, 2},
         NEW t \in FailedAppends(s, f, event, state)
  PROVE  StorageInv(t)
<1>1. PrefixRowsWith(s, f) \in Nat \ {0}
  BY PrefixTable
<1>2. CASE t = s
  BY <1>2
<1>3. CASE t = PrefixOnly(s, f)
  <2> DEFINE file == [OpenFile(s) EXCEPT !.prefixes = PrefixesWith(s, f)]
  <2>1. /\ PrefixesWith(s, f) \in Seq(Frame)
        /\ Len(PrefixesWith(s, f)) = PrefixRowsWith(s, f)
        /\ PrefixRowsWith(s, f) >= s.prefixRows
        /\ \A i \in 1 .. s.prefixRows :
             PrefixesWith(s, f)[i] = OpenFile(s).prefixes[i]
    BY PrefixTable
  <2>2. /\ OpenFile(s) \in File
        /\ PrefixesExist(OpenFile(s))
        /\ FileReadable(OpenFile(s))
        /\ s.rows = Len(OpenFile(s).rows)
        /\ s.prefixRows = Len(OpenFile(s).prefixes)
        /\ s.day \in DOMAIN s.disk
        /\ s.rows \in Nat
        /\ s.prefixRows \in Nat
    BY DEF StorageInv, StorageOK, DiskOK, CountsOK, OpenFile
  <2>3. /\ file \in File
        /\ file.rows = OpenFile(s).rows
        /\ file.prefixes = PrefixesWith(s, f)
    BY <2>1, <2>2 DEF File
  <2>4. /\ t = [disk |-> t.disk, day |-> t.day, rows |-> t.rows,
                prefixRows |-> t.prefixRows, prev |-> t.prev]
        /\ DOMAIN t.disk = DOMAIN s.disk
        /\ t.disk = [d \in DOMAIN t.disk |-> t.disk[d]]
        /\ \A d \in DOMAIN t.disk : t.disk[d] = IF d = s.day THEN file
                                                             ELSE s.disk[d]
        /\ OpenFile(t) = file
        /\ t.day = s.day
        /\ t.rows = s.rows
        /\ t.prefixRows = PrefixRowsWith(s, f)
        /\ t.prev = s.prev
    BY <1>3 DEF PrefixOnly, OpenFile, StorageInv, StorageOK
  <2> HIDE DEF file
  <2>5. \A r \in 1 .. s.rows : OpenFile(s).rows[r].prefix \in Nat
    <3>1. \A r \in 1 .. s.rows : OpenFile(s).rows[r] \in Row
      BY <2>2 DEF File
    <3>2. \A row1 \in Row : row1.prefix \in Nat
      BY DEF Row
    <3> QED
      BY <3>1, <3>2
  <2>6. PrefixesExist(file)
    BY <1>1, <2>1, <2>2, <2>3, <2>5 DEF PrefixesExist
  <2>7. FileReadable(file)
    <3> SUFFICES ASSUME NEW r \in 1 .. s.rows, file.rows[r].whole
                 PROVE  RowReadable(file, r)
      BY <2>2, <2>3 DEF FileReadable
    <3>1. RowReadable(OpenFile(s), r)
      BY <2>2, <2>3 DEF FileReadable
    <3>2. OpenFile(s).rows[r].prefix + 1 \in 1 .. s.prefixRows
      BY <2>2, <2>5, <3>1 DEF RowReadable
    <3>3. file.rows[r].prefix < Len(file.prefixes)
      BY <2>2, <2>3, <2>6 DEF PrefixesExist
    <3> QED
      BY <2>1, <2>3, <3>1, <3>2, <3>3 DEF RowReadable, StartsRun
  <2>8. DiskOK(t.disk)
    BY <2>3, <2>4, <2>6, <2>7 DEF DiskOK, StorageInv
  <2>9. CountsOK(t)
    BY <2>1, <2>2, <2>3, <2>4 DEF CountsOK
  <2>10. StorageOK(t)
    BY <1>1, <2>2, <2>4, <2>8 DEF StorageOK, DiskOK, StorageInv
  <2> QED
    BY <2>8, <2>9, <2>10 DEF StorageInv
<1>4. CASE t = AppendRow(s, f, event, state)
  BY <1>4, AppendStorage
<1>5. CASE t \in { WithRow(s, f, row) : row \in TornRows(s, f, event, state) }
  <2>1. PICK row \in TornRows(s, f, event, state) : t = WithRow(s, f, row)
    BY <1>5
  <2>2. PICK p \in {0, PrefixRowsWith(s, f) - 1} :
          row = [RowFor(s, f, event, state) EXCEPT !.whole = FALSE, !.prefix = p]
    BY <2>1 DEF TornRows
  <2>3. row \in Row /\ row.frame = f /\ row.prefix = p /\ ~row.whole
    <3>1. row = [frame |-> f, event |-> event, state |-> state, prefix |-> p,
                 whole |-> FALSE]
      BY <2>2 DEF RowFor
    <3>2. p \in Nat
      BY <1>1
    <3> QED
      BY <3>1, <3>2 DEF Row
  <2> QED
    BY <2>1, <2>3, RowStorage
<1> QED
  BY <1>2, <1>3, <1>4, <1>5 DEF FailedAppends

\* truncateRows() to a row count that does not exceed the present one.
LEMMA TruncateStorage ==
  ASSUME NEW s, StorageInv(s), NEW n \in 0 .. s.rows, NEW session,
         PreviousOK(s, session)
  PROVE  /\ StorageInv(TruncateRows(s, n))
         /\ PreviousOK(TruncateRows(s, n), session)
         /\ TruncateRows(s, n).rows = n
         /\ \A r \in 1 .. n : OpenFile(TruncateRows(s, n)).rows[r]
                                = OpenFile(s).rows[r]
<1>1. CASE n = s.rows
  BY <1>1 DEF TruncateRows
<1>2. CASE n # s.rows
  <2> DEFINE t == TruncateRows(s, n)
             old == OpenFile(s)
             file == [old EXCEPT !.rows = SubSeq(old.rows, 1, n)]
  <2>1. /\ old \in File
        /\ PrefixesExist(old)
        /\ FileReadable(old)
        /\ s.rows = Len(old.rows)
        /\ s.prefixRows = Len(old.prefixes)
        /\ s.day \in DOMAIN s.disk
        /\ s.rows \in Nat
        /\ s.prefixRows \in Nat
    BY DEF StorageInv, StorageOK, DiskOK, CountsOK, OpenFile
  <2>2. /\ t = [disk |-> t.disk, day |-> t.day, rows |-> t.rows,
                prefixRows |-> t.prefixRows, prev |-> t.prev]
        /\ DOMAIN t.disk = DOMAIN s.disk
        /\ t.disk = [d \in DOMAIN t.disk |-> t.disk[d]]
        /\ \A d \in DOMAIN t.disk : t.disk[d] = IF d = s.day THEN file
                                                             ELSE s.disk[d]
        /\ OpenFile(t) = file
        /\ t.day = s.day
        /\ t.rows = n
        /\ t.prefixRows = s.prefixRows
        /\ t.prev = NoPrevious
    BY <1>2 DEF TruncateRows, OpenFile, StorageInv, StorageOK
  <2>3. /\ SubSeq(old.rows, 1, n) \in Seq(Row)
        /\ Len(SubSeq(old.rows, 1, n)) = n
        /\ \A r \in 1 .. n : SubSeq(old.rows, 1, n)[r] = old.rows[r]
    BY <2>1 DEF File
  <2>4. /\ file \in File
        /\ Len(file.rows) = n
        /\ \A r \in 1 .. n : file.rows[r] = old.rows[r]
        /\ file.prefixes = old.prefixes
    BY <2>1, <2>3 DEF File
  <2> HIDE DEF t, file, old
  <2>5. PrefixesExist(file)
    BY <2>1, <2>4 DEF PrefixesExist
  <2>6. FileReadable(file)
    <3> SUFFICES ASSUME NEW r \in 1 .. n, file.rows[r].whole
                 PROVE  RowReadable(file, r)
      BY <2>4 DEF FileReadable
    <3>1. RowReadable(old, r)
      BY <2>1, <2>4 DEF FileReadable
    <3>2. r # 1 => file.rows[r - 1] = old.rows[r - 1]
      BY <2>4
    <3> QED
      BY <2>4, <3>1, <3>2 DEF RowReadable, StartsRun
  <2>7. DiskOK(t.disk)
    BY <2>2, <2>4, <2>5, <2>6 DEF DiskOK, StorageInv
  <2>8. CountsOK(t)
    BY <2>1, <2>2, <2>4 DEF CountsOK
  <2>9. StorageOK(t)
    BY <2>1, <2>2, <2>7 DEF StorageOK, DiskOK, StorageInv
  <2> QED
    BY <2>2, <2>4, <2>7, <2>8, <2>9 DEF StorageInv, PreviousOK, t, old
<1> QED
  BY <1>1, <1>2

-----------------------------------------------------------------------------
(***************************************************************************)
(* What the operations do to the rows in the files.                        *)
(***************************************************************************)
\* Files were opened, nothing else.
OpenedOnly(disk, new) ==
  /\ DOMAIN disk \subseteq DOMAIN new
  /\ \A d \in DOMAIN new : IF d \in DOMAIN disk THEN new[d] = disk[d]
                                                ELSE new[d] = EmptyFile

\* The open file has more rows, all of them of frame f and the given event.
Adds(s, t, f, event) ==
  /\ DOMAIN t.disk = DOMAIN s.disk
  /\ t.day = s.day
  /\ \A d \in DOMAIN s.disk \ {s.day} : t.disk[d] = s.disk[d]
  /\ Len(OpenFile(t).rows) \in s.rows .. s.rows + 1
  /\ \A r \in 1 .. s.rows : OpenFile(t).rows[r] = OpenFile(s).rows[r]
  /\ Len(OpenFile(t).rows) = s.rows + 1 =>
       /\ OpenFile(t).rows[s.rows + 1].frame = f
       /\ OpenFile(t).rows[s.rows + 1].event = event

\* Opening a file changes no other file.
LEMMA OpenOpens ==
  ASSUME NEW disk, DiskOK(disk), NEW day \in Int
  PROVE  OpenedOnly(disk, Open(disk, day).disk)
  BY DEF OpenedOnly, Open, FileOn

\* tick() opens a file or does nothing, and during an event does nothing.
LEMMA TickOpens ==
  ASSUME NEW s, StorageInv(s), NEW ts \in Nat, NEW b \in BOOLEAN
  PROVE  /\ OpenedOnly(s.disk, Tick(s, ts, b).disk)
         /\ b => Tick(s, ts, b) = s
<1>1. OpenedOnly(s.disk, Open(s.disk, DayOf(ts)).disk)
  BY DayOfInt, OpenOpens DEF StorageInv
<1>2. OpenedOnly(s.disk, s.disk)
  BY DEF OpenedOnly
<1> QED
  BY <1>1, <1>2 DEF Tick, Rotate

\* A row at the end is all that is new.
LEMMA RowAdds ==
  ASSUME NEW s, StorageInv(s), NEW f \in Frame, PreviousOK(s, f.session),
         NEW row \in Row, row.frame = f,
         row.prefix \in {0, PrefixRowsWith(s, f) - 1},
         row.whole => row.prefix = PrefixRowsWith(s, f) - 1
  PROVE  Adds(s, WithRow(s, f, row), f, row.event)
<1> DEFINE t == WithRow(s, f, row)
<1>1. /\ Len(OpenFile(t).rows) = s.rows + 1
      /\ \A r \in 1 .. s.rows : OpenFile(t).rows[r] = OpenFile(s).rows[r]
      /\ OpenFile(t).rows[s.rows + 1] = row
  BY FileWithRow
<1>2. /\ DOMAIN t.disk = DOMAIN s.disk
      /\ t.day = s.day
      /\ \A d \in DOMAIN s.disk \ {s.day} : t.disk[d] = s.disk[d]
  BY DEF WithRow, StorageInv, StorageOK
<1>3. s.rows \in Nat
  BY DEF StorageInv, StorageOK
<1> QED
  BY <1>1, <1>2, <1>3 DEF Adds

\* append() that returns has added one row.
LEMMA AppendAdds ==
  ASSUME NEW s, StorageInv(s), NEW f \in Frame, PreviousOK(s, f.session),
         NEW event \in Nat, NEW state \in {0, 1, 2}
  PROVE  /\ Adds(s, AppendRow(s, f, event, state), f, event)
         /\ AppendRow(s, f, event, state).rows = s.rows + 1
<1>1. PrefixRowsWith(s, f) \in Nat \ {0}
  BY PrefixTable
<1>2. /\ RowFor(s, f, event, state) \in Row
      /\ RowFor(s, f, event, state).frame = f
      /\ RowFor(s, f, event, state).prefix = PrefixRowsWith(s, f) - 1
      /\ RowFor(s, f, event, state).event = event
  BY <1>1 DEF RowFor, Row
<1>3. AppendRow(s, f, event, state).rows = s.rows + 1
  BY DEF AppendRow, WithRow, StorageInv, StorageOK
<1> QED
  BY <1>2, <1>3, RowAdds DEF AppendRow

\* append() that throws has added a row or not.
LEMMA FailedAppendAdds ==
  ASSUME NEW s, StorageInv(s), NEW f \in Frame, PreviousOK(s, f.session),
         NEW event \in Nat, NEW state \in {0, 1, 2},
         NEW t \in FailedAppends(s, f, event, state)
  PROVE  Adds(s, t, f, event)
<1>1. PrefixRowsWith(s, f) \in Nat \ {0}
  BY PrefixTable
<1>2. s.rows \in Nat /\ s.rows = Len(OpenFile(s).rows)
  BY DEF StorageInv, StorageOK, CountsOK
<1>3. CASE t = s
  BY <1>2, <1>3 DEF Adds
<1>4. CASE t = PrefixOnly(s, f)
  <2>1. /\ DOMAIN t.disk = DOMAIN s.disk
        /\ t.day = s.day
        /\ \A d \in DOMAIN s.disk \ {s.day} : t.disk[d] = s.disk[d]
        /\ OpenFile(t).rows = OpenFile(s).rows
    BY <1>4 DEF PrefixOnly, OpenFile, StorageInv, StorageOK, File
  <2> QED
    BY <1>2, <2>1 DEF Adds
<1>5. CASE t = AppendRow(s, f, event, state)
  BY <1>5, AppendAdds
<1>6. CASE t \in { WithRow(s, f, row) : row \in TornRows(s, f, event, state) }
  <2>1. PICK row \in TornRows(s, f, event, state) : t = WithRow(s, f, row)
    BY <1>6
  <2>2. PICK p \in {0, PrefixRowsWith(s, f) - 1} :
          row = [RowFor(s, f, event, state) EXCEPT !.whole = FALSE, !.prefix = p]
    BY <2>1 DEF TornRows
  <2>3. row = [frame |-> f, event |-> event, state |-> state, prefix |-> p,
               whole |-> FALSE]
    BY <2>2 DEF RowFor
  <2>4. row \in Row
    <3>1. p \in Nat
      BY <1>1
    <3> QED
      BY <2>3, <3>1 DEF Row
  <2> QED
    BY <2>1, <2>3, <2>4, RowAdds
<1> QED
  BY <1>3, <1>4, <1>5, <1>6 DEF FailedAppends

\* truncateRows() changes only the open file, and leaves its first n rows.
LEMMA TruncateDrops ==
  ASSUME NEW s, StorageInv(s), NEW n \in 0 .. s.rows
  PROVE  /\ DOMAIN TruncateRows(s, n).disk = DOMAIN s.disk
         /\ TruncateRows(s, n).day = s.day
         /\ \A d \in DOMAIN s.disk \ {s.day} :
              TruncateRows(s, n).disk[d] = s.disk[d]
  BY DEF TruncateRows, StorageInv, StorageOK
=============================================================================
