-------------------------- MODULE DailyHdf5Writer --------------------------
(***************************************************************************)
(* The storage side of the recorder: class DailyHdf5Writer.  A daily file  *)
(* is a growing table of rows, one per recorded frame, beside the table    *)
(* /iq/segment_prefix.  A row stores only the newer half (the hop) of its  *)
(* frame's FFT window.  The older half is the hop of the row before it or, *)
(* when the row starts a run, an entry of the prefix table.                *)
(*                                                                         *)
(* The writer runs in one thread, so its methods are operators from a      *)
(* storage state to the next one; the recorder modules hold the state in a *)
(* variable.  A storage state has                                          *)
(*   disk        the daily files, one per logical day that has been opened *)
(*   day         _day, the day of the open file                            *)
(*   rows        _rows, the writer's own count of rows of the open file    *)
(*   prefixRows  _prefixRows, its count of prefixes of the open file       *)
(*   prev        _previousFrameIndex, or NoPrevious when there is none     *)
(* Names follow src/src/meteoris.cpp, except that AppendRow is append().   *)
(***************************************************************************)
EXTENDS Integers, Sequences

CONSTANTS
  DayLength,  \* frame periods in a day
  RotateAt    \* daily_rotate_time, in frame periods after midnight UTC

ASSUME DayAssumption == /\ DayLength \in Nat \ {0}
                        /\ RotateAt \in 0 .. DayLength - 1

(***************************************************************************)
(* A frame is identified by the process that made it (session) and its     *)
(* index in that process.  ts is its timestamp, in frame periods.          *)
(***************************************************************************)
Frame == [session : Nat, index : Nat, ts : Nat]

(***************************************************************************)
(* One element of each of the row-aligned /iq datasets.  A row is whole    *)
(* when every dataset holds what append() wrote; a row that an HDF5 error  *)
(* left extended but unwritten is not, and keeps fill values.              *)
(***************************************************************************)
Row == [frame : Frame, event : Nat, state : {0, 1, 2}, prefix : Nat,
        whole : BOOLEAN]

PreTrigger  == 0
Active      == 1
PostTrigger == 2

File == [rows : Seq(Row), prefixes : Seq(Frame)]

EmptyFile == [rows |-> <<>>, prefixes |-> <<>>]

NoPrevious == -1

\* The file that is open for writing.
OpenFile(s) == s.disk[s.day]

\* rotationDayUtc(): the date after shifting UTC back by the rotation time.
DayOf(ts) == (ts - RotateAt) \div DayLength

-----------------------------------------------------------------------------
(***************************************************************************)
(* rotate(), with close(), createNew() and openExisting().  openExisting() *)
(* takes the counts from the extents found in the file and forgets the     *)
(* previous frame, so that the next row starts a run.                      *)
(***************************************************************************)
FileOn(disk, day) == IF day \in DOMAIN disk THEN disk[day] ELSE EmptyFile

\* Mutant: openExisting() that forgets the prefixes already in the file.
OpenWithoutPrefixes(disk, day) ==
  [disk       |-> [d \in DOMAIN disk \cup {day} |-> FileOn(disk, d)],
   day        |-> day,
   rows       |-> Len(FileOn(disk, day).rows),
   prefixRows |-> 0,
   prev       |-> NoPrevious]

\* Mutant: openExisting() that takes the file it finds for an empty one.
OpenWithoutRows(disk, day) ==
  [disk       |-> [d \in DOMAIN disk \cup {day} |-> FileOn(disk, d)],
   day        |-> day,
   rows       |-> 0,
   prefixRows |-> Len(FileOn(disk, day).prefixes),
   prev       |-> NoPrevious]

Open(disk, day) ==
  [disk       |-> [d \in DOMAIN disk \cup {day} |-> FileOn(disk, d)],
   day        |-> day,
   rows       |-> Len(FileOn(disk, day).rows),
   prefixRows |-> Len(FileOn(disk, day).prefixes),
   prev       |-> NoPrevious]

\* Mutant: a rotation that takes the new day before it has opened the file.
RotateDayOnly(s, ts) == [s EXCEPT !.day = DayOf(ts)]

Rotate(s, ts) == IF DayOf(ts) = s.day THEN s ELSE Open(s.disk, DayOf(ts))

\* Mutant: a tick() that rotates in the middle of an event.
TickInEvent(s, ts, eventInProgress) == Rotate(s, ts)

\* tick(): the file may change only between events.
Tick(s, ts, eventInProgress) == IF eventInProgress THEN s ELSE Rotate(s, ts)

-----------------------------------------------------------------------------
(***************************************************************************)
(* append().  H5Dset_extent sets the extents from the writer's own counts, *)
(* so whatever a table holds beyond them is cut off.                       *)
(***************************************************************************)
NewRun(s, f) == s.prev = NoPrevious \/ f.index # s.prev + 1

PrefixRowsWith(s, f) == s.prefixRows + (IF NewRun(s, f) THEN 1 ELSE 0)

PrefixesWith(s, f) ==
  IF NewRun(s, f)
  THEN Append(SubSeq(OpenFile(s).prefixes, 1, s.prefixRows), f)
  ELSE OpenFile(s).prefixes

RowFor(s, f, event, state) ==
  [frame |-> f, event |-> event, state |-> state,
   prefix |-> PrefixRowsWith(s, f) - 1, whole |-> TRUE]

\* The storage state after append() put row at the end of the open file.
WithRow(s, f, row) ==
  [s EXCEPT !.disk = [s.disk EXCEPT ![s.day] =
              [rows     |-> Append(SubSeq(OpenFile(s).rows, 1, s.rows), row),
               prefixes |-> PrefixesWith(s, f)]],
            !.rows = s.rows + 1,
            !.prefixRows = PrefixRowsWith(s, f),
            !.prev = f.index]

AppendRow(s, f, event, state) == WithRow(s, f, RowFor(s, f, event, state))

(***************************************************************************)
(* What append() can leave behind when it throws: nothing; a new prefix    *)
(* that no row uses; a row whose datasets were extended but not all        *)
(* written (the prefix index among them or not); or, when only             *)
(* checkStorageSafety() threw, the complete row.                           *)
(***************************************************************************)
PrefixOnly(s, f) ==
  [s EXCEPT !.disk = [s.disk EXCEPT ![s.day].prefixes = PrefixesWith(s, f)],
            !.prefixRows = PrefixRowsWith(s, f)]

TornRows(s, f, event, state) ==
  { [RowFor(s, f, event, state) EXCEPT !.whole = FALSE, !.prefix = p] :
      p \in {0, PrefixRowsWith(s, f) - 1} }

FailedAppends(s, f, event, state) ==
  {s, PrefixOnly(s, f), AppendRow(s, f, event, state)}
    \cup { WithRow(s, f, row) : row \in TornRows(s, f, event, state) }

-----------------------------------------------------------------------------
\* Mutants: a truncateRows() that is off by one, either way.
TruncateOneMore(s, n) ==
  IF n = s.rows \/ n = 0 THEN s
  ELSE [s EXCEPT !.disk = [s.disk EXCEPT ![s.day].rows =
                             SubSeq(OpenFile(s).rows, 1, n - 1)],
                 !.rows = n - 1,
                 !.prev = NoPrevious]

TruncateOneLess(s, n) ==
  IF n = s.rows THEN s
  ELSE [s EXCEPT !.disk = [s.disk EXCEPT ![s.day].rows =
                             SubSeq(OpenFile(s).rows, 1, n + 1)],
                 !.rows = n + 1,
                 !.prev = NoPrevious]

\* truncateRows(): the prefixes of the dropped rows stay in the file.
TruncateRows(s, n) ==
  IF n = s.rows THEN s
  ELSE [s EXCEPT !.disk = [s.disk EXCEPT ![s.day].rows =
                             SubSeq(OpenFile(s).rows, 1, n)],
                 !.rows = n,
                 !.prev = NoPrevious]

-----------------------------------------------------------------------------
(***************************************************************************)
(* What a storage state is made of.                                        *)
(***************************************************************************)
StorageOK(s) ==
  /\ s = [disk |-> s.disk, day |-> s.day, rows |-> s.rows,
          prefixRows |-> s.prefixRows, prev |-> s.prev]
  /\ s.disk = [d \in DOMAIN s.disk |-> s.disk[d]]
  /\ DOMAIN s.disk \in SUBSET Int
  /\ \A d \in DOMAIN s.disk : s.disk[d] \in File
  /\ s.day \in DOMAIN s.disk
  /\ s.rows \in Nat
  /\ s.prefixRows \in Nat
  /\ s.prev \in Nat \cup {NoPrevious}

(***************************************************************************)
(* Reading a file back.  doc/IQ_RECORDING_V1.md: the first half of a       *)
(* window is the run's prefix for the first frame of a run, and the hop of *)
(* the row before for the others.  A row starts a run when its prefix      *)
(* index is not that of the row before.                                    *)
(***************************************************************************)
StartsRun(file, r) ==
  \/ r = 1
  \/ file.rows[r].prefix # file.rows[r - 1].prefix

FollowsInStream(f, g) == f.session = g.session /\ g.index = f.index + 1

RowReadable(file, r) ==
  /\ file.rows[r].prefix < Len(file.prefixes)
  /\ IF StartsRun(file, r)
     THEN file.prefixes[file.rows[r].prefix + 1] = file.rows[r].frame
     ELSE FollowsInStream(file.rows[r - 1].frame, file.rows[r].frame)

FileReadable(file) ==
  \A r \in 1 .. Len(file.rows) : file.rows[r].whole => RowReadable(file, r)

(***************************************************************************)
(* The rule of convert_iq_to_psd() in tools/meteoris_plot.py: it takes the *)
(* hop of the row before whenever the frame indices are consecutive, and   *)
(* does not look at whether the prefix index changed.                      *)
(***************************************************************************)
PlotReadsRow(file, r) ==
  IF r > 1 /\ file.rows[r].frame.index = file.rows[r - 1].frame.index + 1
  THEN FollowsInStream(file.rows[r - 1].frame, file.rows[r].frame)
  ELSE file.prefixes[file.rows[r].prefix + 1] = file.rows[r].frame
=============================================================================
