# Meteoris in TLA+

Meteoris receives I/Q samples from a software-defined radio, computes a power
spectrum (PSD) of a band at a fixed rate, asks a detector plugin which spectra
show a meteor echo, and records the I/Q windows behind those spectra in daily
HDF5 files. This directory models the parts whose correctness depends on order,
concurrency, failure and restart, checks them with TLC on small instances, and
proves the most important properties with TLAPS for every instance.

## 1. Inventory: the system's components

All of the C++ core is one file, `src/src/meteoris.cpp`, with the network
server, the detectors and the DSP kernels beside it.

| component | state it keeps | operations | must hold |
|---|---|---|---|
| **DailyHdf5Writer** (meteoris.cpp 1188-1597) | open file, `_day`, `_rows`, `_prefixRows`, `_previousFrameIndex` | constructor, `append`, `truncateRows`, `tick`/`rotate`, `createNew`, `openExisting`, `close`, SWMR flush | what is in a file can be turned back into FFT windows; counts match extents |
| **PsdDetectorRecorder** (1678-2118) | pre-trigger ring, event state, counters | `consume` (inhibited, cutoff, active, post, idle, trigger), destructor summary | events are complete, bounded, in one file; a discard removes exactly one event |
| **ContinuousPsdRecorder** (1600-1676) | segment number, frames in the segment, completed segments, saved count, `_finished` | `consume`, `finished` | the stream is recorded whole, in segments that are in one file each |
| **AsyncPsdRecorder** (2126-2320) | ring buffer of frames, read/write/count, worker state, three atomics | `enqueue`, worker `run`, `throwIfFailed`, `stopAndDrain`, `eventInProgress` | FIFO, nothing lost or recorded twice, failure noticed, drain ends |
| **main loop** (3275-3570) | stream state, signal flags | read, DSP, AGC, enqueue, publish, control commands, shutdown | every accepted frame is recorded before exit; errors end the process |
| **NetworkServer** (network_server.cpp) | client sockets, bounded PSD queue, control queue | `publish`, PSD loop, control loop, `tryPopControl`, `completeControl` | one client's frames never reach the next; a command is answered once |
| **web gateway** (web/meteoris_web.py) | viewers, control client, PSD task | reconnect, retry of a control request, websocket fan-out | a viewer that waits gets frames; a SET that is sent again never undoes a later one |
| **DSP chain** (490-808) | FIR block hand-off, Welch ring, frame pool | `processCs8`, worker loop, `consume`, frame reuse | no block is read half computed; no frame is rewritten in use |
| **detectors** (src/src/detector) | tracks; thresholds, baseline, trigger delay; hits and learned notches | `process` in two modes, with `reset` | an active answer rests on what was seen since the last cutoff; an event ends on silence |
| **ClippingAgc** (874-932) | average, gain index | `update` | gain stays in range, does not oscillate |
| configuration, log sink, simulator, tools, plotters | - | sequential text and file processing | - |

How they interact: the acquisition thread pulls samples, runs the DSP chain and
hands each `PsdFrame` (a shared pointer from a pool) to `AsyncPsdRecorder` and
to `NetworkServer`. The recorder's worker thread is the only one that touches
the detector, the event state and the writer. The network server has two threads
of its own; control commands come back to the acquisition thread through a
queue and are applied between two reads. The web gateway is another process that
talks to the server over two TCP connections. A restart of the process appends
to the files that it finds.

Where it is hard: the file format keeps half of each FFT window and rebuilds the
other half from the row before or from a table of run prefixes, so that event
gaps, discards, rotations, failed writes and restarts all have to be reflected in
the run structure; event logic has four clocks (pre-trigger ring, post-trigger
count, maximum duration, rearm time) that interact; the recorder queue must
survive a worker that dies; network threads share queues with the acquisition
thread. `PROJECT.json` lists every such place with its line under `hazards`.

## 2. The plan

Modules in the order in which they were written. All of them exist.

| modules | what they model | composes / implements |
|---|---|---|
| `DailyHdf5Writer`, `TriggeredRecorder` | file format, event logic, failure, restart | `TriggeredRecorder` drives the writer's operators |
| `FrameQueue`, `AsyncPsdRecorder` | the two-thread queue | `AsyncPsdRecorder` implements `FrameQueue` |
| `ContinuousRecorder` | segments over the same writer | drives the writer's operators |
| `Acquisition` | main loop, signals, errors, drain | conjoins its actions with those of `AsyncPsdRecorder` |
| `PsdStream`, `ControlServer` | the two halves of the network server: PSD queue and control commands, with disconnects and the 2 s timeout | - |
| `PeakTracker`, `EchoesAutomatic`, `MeteorLogger3f`, `Detectors` | the three detector plugins, and the part of the recorder that decides how they see a frame | `Detectors` instantiates the plugins |
| `BlockFir1Decimator`, `DspChain` | block hand-off between two threads; second filter, Welch framing, the pool of shared frames | every step of `DspChain` is a step of `BlockFir1Decimator` or leaves it alone |
| `WebControl`, `WebFanOut`, `WebGateway` | control client with its retry, websocket fan-out | `WebControl` conjoins its actions with those of `ControlServer`, and its steps are steps of it (`UsesServer`) |

Three modules of the first plan were not written, because the code does not decide
what they would say: the automatic gain control is floating-point arithmetic around
one clamp, what a live reader sees of nine datasets flushed in turn (SWMR) is up to
the HDF5 library, and so is what the recovery tool can still read.

Every safety property that a passing run checks is a theorem as well; liveness stays
with TLC.

## 3. What is modelled, and how it corresponds to the code

**`DailyHdf5Writer`** has no variables. The writer is used by one thread, so its
methods are operators from a storage state to the next one, and the recorder
modules keep that state in the variable `store`. `store.disk` maps days to files;
`day`, `rows`, `prefixRows` and `prev` are the members of the same name.
`AppendRow` is `append()`: the prefix of a run's first row, then the row. A row
that HDF5 left half written is a row with `whole = FALSE` (`FailedAppends`
lists everything a throwing `append()` can leave, the complete row included:
`checkStorageSafety()` throws after the writing). `Open` covers `createNew()`,
`openExisting()` and `close()`, `Tick` and `Rotate` are the methods of those names,
`TruncateRows` cuts rows and keeps their prefixes, as the code does. `FileReadable`
is the reading rule of doc/IQ_RECORDING_V1.md, `PlotReadsRow` that of
tools/meteoris_plot.py. Days are integers and time is counted in frame periods;
`DayOf` shifts by the rotation time before it divides.

**`TriggeredRecorder`** has one action per path through
`PsdDetectorRecorder::consume()`: `InhibitedFrame`, `CutEvent`, `ActiveFrame`,
`PostFrame`, `IdleFrame`, and for a trigger `TriggerOn`, `Backlog` (once for each
pre-trigger frame) and `Trigger`, which are separate because an append among them
may throw. `event` holds the event state, `stats` the counters of the summary.
The detector's answer is arbitrary, so that what is shown holds with any plugin
(`Detectors` is about the plugins themselves). `WriteFails` ends the process in any write,
`Stop` between two frames, and `Restart` starts another process on the same files.

**`ContinuousRecorder`** does the same for `ContinuousPsdRecorder::consume()`:
`IgnoredFrame` and `RecordFrame` are its two paths.

**`AsyncPsdRecorder`** has the ring (`slots`, `readPos`, `writePos`, `count`), the
flags, and a location for each thread. A critical section is one step, since all
its state is only touched under the mutex. `notify_one()` follows the unlock and is
a step of its own; a waiting worker is in `"waiting"` and leaves it by a
notification or spuriously, then evaluates the predicate under the mutex.
`consume()` is one step without the mutex, and returns or throws. `caller` records
where the acquisition thread is in its use of the class. The three atomics that
serve `eventInProgress()` are left out: nothing calls it.

**`FrameQueue`** is what that class promises: a bounded FIFO whose consumer takes
all accepted frames in order until it fails, and which ends when it is closed and
empty or failed.

**`Acquisition`** conjoins the steps of `main()` with the recorder's: `LoopCondition`,
`CheckRecorder` (`throwIfFailed()`), `ReadBlock` / `ReadNothing` / `Throws` for the
outcomes of a read and of the DSP chain, `EnqueueFrame`, `FrameRefused`,
`StopRecorder` (`stopAndDrain()` or the destructor during unwinding) and `EndProcess`.
`Signal` may come at any time. Whether an event is open is arbitrary after each
consumed frame.

**`PsdStream`** and **`ControlServer`** are the two halves of the network server,
which share only `_stop` and the destructor. In `PsdStream`, `publish()` is three
steps (`PublishBegin` reads the flag, `Push` holds the mutex, `NotifyPushed` wakes),
because the flag is read without the mutex; `psdLoop()` is `Accept`, `Wait`, `Take`,
`Send` / `SendFails` and `ClearQueue`, which follows the reset of the flag as in the
code. In `ControlServer`, `controlLoop()` queues a command (`ReadSet`), waits at most
2 s (`EndWait`), forgets it (`Erase`) and replies; the acquisition thread pops,
applies, stores the runtime state and completes, in the two critical sections of
`completeControl()` (`FindPending`, `CompletePending`). A command sets the
parameter to its own id, so that values tell the commands apart. The destructor
runs on the acquisition thread, which then applies nothing any more. Clients,
their lines and disconnects are external and arbitrary; lines are told apart as
SET or as one of those that are answered at once.

**`Detectors`** gives one plugin every frame as `PsdDetectorRecorder::consume()`
does: `Detect` in Full mode, `CutEvent` and `Inhibited` in PreprocessOnly mode,
`Rearmed` with `reset()` before the first frame after them. Of the recorder only what
picks the mode is kept (`post`, `eventStart`, `rearmUntil`). Each plugin has a `Full`
and a `Preprocess` operator:

- `PeakTracker`: a spectrum is the list of its local maxima, strongest first. `Peaks`
  applies separation and limit, tracks and peaks are paired greedily by cost (pairs of
  equal cost in any order), then tracks are lost, born, classified and activated.
  Quotients are compared by cross multiplication; ids and levels are left out.
- `EchoesAutomatic`: a frame is its level. Thresholds, warm-up, trigger delay, join time
  and the frozen thresholds of an open event are as in the code. The exponential
  mean moves the baseline to any value between it and the sample, and the test of
  the deviation is an arbitrary answer.
- `MeteorLogger3f`: a spectrum is which three bins are strongest. Clustering, gaps and
  drift of a sequence, release, and notches with their limit are as in the code; a
  notch is the sum and the number of its hits.

**`BlockFir1Decimator`** is the first filter with its worker. Samples are known by
their numbers, and a dot product by the number of the output it is when its window is
whole and an output is due there, and as `Garbage` otherwise, so that a wrong history,
a wrong position or a vector read too early shows. `PostJob`, `CheckDone`, `Test` and
`SetDone` are the critical sections, each notify is a step of its own, and both
condition variables may wake spuriously. `Begin` to `End` are `processCs8()`;
`RequestStop`, `NotifyStop` and `Join` are the destructor.

**`DspChain`** adds what the acquisition loop does with the outputs: `Push` is
`FirDecimator::push()` with everything that follows from it, `Consume` and `MakeFrame`
are the two parts of `WelchBandPsd::consume()`, `Deliver` hands the frames of a block to
the recorder and, arbitrarily, to the network, and `Release` is a consumer's shared
pointer that lets go. A frame object holds the first of its samples and the center it
claims. `Reusable` reads `use_count()`, which other threads may only lower meanwhile
(a reference is never made from nothing), so one read decides. An object allocated
in place of a busy one is any unused one; that one exists is the only bound.

**`WebControl`** composes `ControlClient.request()` with `ControlServer`, whose only
client it is: the connections of the gateway, one after the other, are the clients
there. It extends that module and names its own `WebInit`, `WebNext` and `Close` (the
gateway's use of `CloseConnection`). The lock is fair and hands the connection from one
request to the next; a request writes one line, reads one line, and is tried once more
when the connection breaks in either. `RequestsHonoured` says what that retry can do: a
SET may be applied twice, and may be applied after its browser was told that it failed,
but never after one that was asked for later.

**`WebFanOut`** is the other half on the same event loop: `_psd_loop()`, `_broadcast`
and the websocket handlers, with a step from one await to the next. `wanted` is the
event `_psd_wanted`. Viewers stall, close and come back as others; a send to a
stalled one ends with the heartbeat of the websocket. **`WebGateway`** is both
halves; they share no state that either of them acts on, so a behaviour follows one
of them and their interleavings are left out.

## 4. The runs

| run | instance | shows |
|---|---|---|
| `triggered_recorder` | 2 processes, frame times up to 9, days of 5 frames rotating at 1, pre 2, post 1, maximum 4, rearm 2; 229,885 states | types; every whole row readable; what a discard would remove is exactly the event; `EventsWhole`: events in one file, in order, bounded, counted in the summary, the open file current when idle; quiet after a cutoff; discarded events gone; no frame near a trigger lost; rows retained; post-trigger context complete |
| `pre_context` | one process, days of 20 frames, pre 2 and post 1 | *violated*: pre-trigger rows of one event with a gap in them |
| `plot_reader` | 2 processes, days of 20 frames, 6 frame times | *violated*: the plotter's rule joins halves of two processes |
| `continuous_recorder` | 3 processes, frame times up to 10, days of 4 frames, 2 segments of 3; 79,710 states | rows readable; the whole stream in numbered segments, each in one file; exactly the wanted number; nothing rewritten |
| `acquisition` | ring of 3, 4 blocks of up to 2 frames, last frame 5; 14,062 states | nothing lost, repeated or overtaken in the ring (it implements `FrameQueue`); a wakeup is always to come; an end is complete; every accepted frame is recorded or the process ends with an error; the process ends when asked |
| `graceful_shutdown` | ring of 2, 2 blocks | *violated*: one signal and the process exits with its event open |
| `psd_stream` | queue of 2, 6 frames, 2 clients; 21,188 states | frames ascend over drops and clients; at most one frame outlives a client; nothing stalls while a client is there; the destructor returns |
| `fresh_stream` | the same with 4 frames | *violated*: a client receives a frame from before its time |
| `control_server` | 2 clients, 3 lines; 390,846 states | answers are a command's own; commands applied once and in order; the status keeps up with the answers; the destructor returns although it runs on the thread that completes commands |
| `detectors` | each plugin, 13 frames of period 2; 644,259 states | nothing of an active answer is older than the last cutoff; an event ends only after the whole silence asked for; the frame of a crossing is still in the pre-trigger ring; one track to a peak; notches apart; a sequence without more gaps or drift than allowed |
| `dsp_chain` | 34 samples in blocks of 1, 5 and 8; taps 3 and 2, both decimations 2, `Nfft` 4, ring of 2 in at most 5 objects, split from 3 outputs; 153,664 states | outputs, windows and timestamps are of the right samples; the worker writes only its half, during a call; no held frame is rewritten; blocks and the destructor end |
| `web_gateway` | 2 requests, 2 connections, 3 lines; 3 viewers; 174,555 states | browsers get the outcome of their own request, and late or repeated SETs never overtake; the event says whether anybody watches; a viewer who stays is fed, and nothing is read for nobody |

*Why the bounds are enough.* In the recorder runs a day is shorter than the longest
event and than the time bound, so that events and segments cross one rotation and
two rotations happen; the ring of pre-trigger frames overflows; an event can be
retriggered, cut, discarded, followed by another one and by a restart into the same
file. In the queue the ring wraps twice, is full and empty in every phase of the
worker. The PSD queue of 2 overflows, and with six frames two clients are each served
over a full and an empty queue. Three lines are enough for two commands that are
given up, one of them completed while the next is waited for; in the gateway, for a
request that is sent twice and one that follows. Thirteen frames are enough for a
track, a delayed trigger or a sequence to be cut, inhibited, rearmed and built up
again. In the DSP chain a block has no output, one, or enough to be split; all three
histories wrap, three frames are made over two slots and a slot is found busy.
Each property has a mutant of the code, in the modules, that breaks
it within these bounds; the mutated definitions are marked "Mutant".

*Fairness.* `AsyncPsdRecorder` and `Acquisition` assume weak fairness of the
worker's own steps (the scheduler runs it, `consume()` returns or throws) and of the
steps that the acquisition thread has begun: a notification, a stop, a join. In
`Acquisition` also the main loop is fair, since a read returns after at most 250 ms.
In the network server the loops are fair: their waits, selects and sends have
time limits of 200 ms to 2 s. Of the acquisition thread `ControlServer` assumes
nothing but that a join returns; it may hang in the device.
In `DspChain` both threads run, and an end that has begun goes on; reads need not
give data and consumers need not let go. In `WebFanOut` the event loop runs its tasks
and the websocket library its heartbeat of 15 s. Its strong fairness is about the DSP
process: it accepts the gateway now and then, and sends a frame now and then to one
that stays connected. The gateway reads from it without a time limit, so a DSP process
that is silent for ever leaves it waiting, and nothing in the code says otherwise.
`WebControl` has safety properties only and assumes nothing.
Data, signals, clients, spurious wakeups and exceptions may happen but are never
assumed to.
The safety properties are checked and proved without fairness.
`CHECK_DEADLOCK FALSE` everywhere: a process that has ended does nothing more, and
bounds end the inputs.

### Disagreements the runs show

- `pre_context`: only post-trigger and idle frames are remembered, and a retrigger
  does not clear the ring, so with more pre-trigger than post-trigger context a later
  event begins with frames from both sides of an active stretch. The shipped defaults
  (0.5 s and 1 s) avoid it.
- `plot_reader`: `meteoris_plot.py` takes the previous hop whenever frame indices are
  consecutive, although the writer starts a new run at every restart and says so.
- `fresh_stream`: the documentation says that frames are not queued until a client is
  connected; `publish()` reads the flag before it locks, so one frame can be queued
  after a disconnect has cleared the queue, stay there, and reach the next client.
  `OneLeftOver` shows that it is never more than one.
- `graceful_shutdown`: two documents say that the first signal waits for the event
  in progress; the main loop leaves at once.

## 5. The proofs

TLAPS checks these for every value of the constants (days, rotation time, contexts,
limits, segment length, queue capacity, taps, decimations, window, pool, block sizes,
number of frames, processes, clients and requests), from the named `ASSUME`s of the modules, which
only say that the constants are numbers, that a day, a segment, the queue, a window and
the pool are not empty, and that the bounds are large enough for each other.

| module | theorems |
|---|---|
| `DailyHdf5Writer_proofs` | lemmas only: each operation keeps `StorageInv` and `PreviousOK`, and what it does to the rows |
| `TriggeredRecorder_proofs` | `TypeCorrect`, `AlwaysReadable`, `DiscardIsExact`, `DiscardIsFinal`, `OtherRowsKept`, `QuietAfterCuts`, `EventsStayWhole`, `ContextStays`, `PostContextKept` |
| `ContinuousRecorder_proofs` | `TypeCorrect`, `AlwaysReadable`, `NothingRewritten`, `StreamInvariant`, `WholeStream`, `CountKept` |
| `Acquisition_proofs` | of the queue: `TypeCorrect`, `NoFrameLost`, `NoLostWakeup`, `ImplementsQueue`; of the process: `UsesRecorder`, `ProcessInvariant`, `LoopTypesCorrect`, `CompleteEnd` |
| `PsdStream_proofs` | `TypeCorrect`, `InOrder`, `OneHeldBack`, `OneStale` |
| `WebGateway_proofs` | of the control server: `TypeCorrect`, `InOrder`, `OwnAnswers`, `StatusCurrent`; of the gateway: `UsesServer`, `GatewayInvariant`, `Honours`, `Wanted` |
| `Detectors_proofs` | `TypeCorrect`, `NothingIsInherited`, `PeaksAreNotShared`, `NotchesStayApart`, `SequencesCohere`, `EventsEndOnSilence`, `CrossingIsRemembered` |
| `DspChain_proofs` | of the first filter: `FirInvariant`, `Confined`, `Exact`; of the chain: `UsesFilter`, `ChainInvariant`, `RightWindows`, `SharedFrames` |

*Files.* `FilesReadable` is not inductive: whether the next row is readable depends
on what the writer remembers. `StorageInv` adds that the writer's counts are the
extents of the open file and that every row's prefix exists, torn rows included;
`PreviousOK` adds that a remembered frame index is that of the last row, written by
this process, in the last run. A failed append breaks `PreviousOK`, so the recorders
claim it only of a running process; reopening forgets the previous frame and
restores it. The continuous recorder's proofs reuse the lemmas unchanged.

*Discards.* `EventRowsKnown` (the rows from `_eventStartRow` on are the event's, all of
them) needs that rows are named after the processes and events that exist
(`RowsNamed`), that the rows of the open event are in the open file
(`EventInOpenFile`), that the pre-trigger ring holds frames of this process
(`RingSound`) and that cut events have ended (`CutsNamed`). `DiscardedEventsAbsent`
and `RowsRetained` follow from it.

*Cuts, events and context.* Four more invariants of the triggered recorder rest on how its
clocks agree (`EventTracked`: an event is open exactly while it has a start time, and that
lies behind; `RingRecent`: the ring holds the last frames of the stream).
`QuietAfterCut` needs `RearmKnown`: whatever is recorded next, the ring included, is later
than every cut and its inhibit interval. `EventsWhole` is about finished events and so not
inductive; `OpenEvent` says it of the one that is open: during the trigger its rows are
the oldest frames of the ring and the backlog is the rest (`TriggerRows`), after that its
last row is the last frame and every row is in time (`EventRows`), which is what makes the next
row follow without a gap. `Counted` ties the summary's counters to the files while
`consume()` has not thrown. For `NoContextLost`, `ContextKnown` says of each of the last
`PreFrames` frames that it is recorded, lost to a cut, or in the ring, and `RowContext`
that the context of a row is in its own event or an *earlier* one; without the second half a
discard, which only removes the open event, might take another event's context.
`PostContextComplete` counts back from the last row to the last active one (`PostRows`).

*Stream.* `WholeStream` and `CountKept` count rows, so every step is first reduced to one
of two facts about the files: no row is new (`RowsKept`), or one is, at a known place
(`RowAdded`). `Streams` is the claim itself for every process so far. It needs
`Counters` (what is in the files is what `_savedFrames` says, and that is whole segments
plus `_framesInSegment`) and `CurrentSegment` (the rows of a segment that has begun end at
the last row of the open file), without which a segment might go on elsewhere. A row
whose append failed may be in the files though no counter says so; the process has ended
then, and `Streams` alone must hold. `WholeOneMore` is the step: frame number *k* after
frames 0 to *k* - 1.

*Queue.* `Inv` joins `NothingLost` and `WakeupComing` with `PositionsAgree` (the write
position is `count` slots after the read position) and `ThreadsAgree` (which
locations of the two threads go together). For the refinement, `PendingIs` shows that
what is pending is a run of consecutive frame numbers; enqueueing appends to the
run, consuming takes its head, and releasing a slot changes the ring but not the run.

*Process.* `UsesRecorder` shows that each step of the process is a step of
`AsyncPsdRecorder` or leaves it alone. Its invariant then holds in the process by the
theorem about the queue, not by a second proof, and `LoopInv` adds how far the
main thread is with the recorder and how many frames it has made and enqueued.

*Stream server.* The frames that are sent, in hand and queued are one ascending chain,
none later than the one that `publish()` is about to queue (`KnownFrames`). That only one frame
is left over (`OneLeftOver`) holds because a client is served exactly when the flag is
set (`FlagAgrees`), so that between two clients nothing but a `publish()` that had read the flag
before can still push; `OneStale` follows it into the next connection: of the
frames a client gets, at most one was captured before it connected.

*Commands.* `Ascending` orders the applied commands, the one in hand, the queue and the
next id in one chain, so that popping and applying only move along it. `AnswersOwn`
follows one command's value from the device through `result` and `outcome` into the
reply; it holds over a late completion because what `completeControl()` found is
the command in hand (`Places`). `RuntimeAhead` bounds every answer on its way by the
runtime state, which only grows.

*Gateway.* `RequestsHonoured` speaks of what browsers were told and of the device, which a lost
connection leaves out of step: a line may still be read, and its command applied, long
after its request was given up. `WebInv` follows requests all the way. The lock hands out turns in
the order of the requests (`InTurn`), so the lines of all connections are in that order
(`LinesInTurn`), and so are the commands, since the server takes the connections
one after the other (`Connections`) and reads each from its front (`OriginInTurn`, with
`Past` for what was read or dropped); `AppliedInOrder` of the server carries the order on to the
device. That an answer is the reader's own needs `OneLine`: on the connection that the gateway
holds there is one line, or its command, or its reply, and otherwise nothing, because
whoever gives up closes the connection first. `UsesServer` shows on the same invariant
that the composition is a client such as the server's theorems are about.
`WantedWhenWatched` is inductive as it stands.

*Detectors.* Every step of the recorder is one of two for the plugin: a frame in Full mode,
before which `reset()` comes only while nothing is active, or a frame in PreprocessOnly mode,
which becomes `preprocessed` (`PluginSteps`). `peak_tracker`: `TrackOrigin` says that a track
after a frame is an old one that was kept, one that was seen, or a new one, each peak serving
at most one of them, so `TracksKnown` survives whatever way the greedy assignment breaks
its ties; a track that was active and is gone was lost, because nothing
deactivates a track. `echoes_automatic`: `EventSound` keeps a pending crossing a whole number of
frames back and less than the delay, so the frame that starts the event is within the
rounded-up ring; and it equates the time since the level fell with the number of
calm frames. `meteor_logger_3f`: `NotchesApart` needs `RunApart`, that the running mean is
apart from every notch as well: a hit is outside the notch and inside the run, so it is on
the run's side, and so is the new mean (`LongerApart`, with sums and counts multiplied out).
`LastThere` says that a sequence with hits has a last one, which `appendSequence()` looks for.

*Filter.* Of the two-thread filter, `HandOver` says what the flags mean: while the worker's
half is owed (`ready`, or the worker is computing or finishing) the caller is in a split
block and `done` is down, and a split block that is not owed is done. `SecondHalf` gives
the job its content, `FirstHalf` and `SecondHalf` how far each half is right, `InStream`
and `BlockRight` where the block is in the stream. Each output is right because its
window is a stretch of the block (`ComputedRight`); that the outputs of a block are
exactly those due in it is arithmetic (`OutputsCount`, `MultipleMoved`), since the
provers know division only by its defining inequality.

*Chain.* `UsesFilter` makes the filter's invariant one of the chain. Delay line and Welch
ring are one idea, `DoubleRing`: the last K numbers that entered, kept twice so that they
can be read in one stretch (`Enter`, `Window`). `SecondFilter` and `Framing` tie the two
countdowns to multiples of the decimation and of the hop, which makes every window the
right one (`RightWindows`). For `SharedFrames` the references must be counted:
an object whose use count is one has no reader (`ReusableUnheld`), because the counts are
cardinalities of finite sets; that needs the invariant `HeldKnown`, and that two readers
of one object agree, which is the theorem itself.

*Only model-checked:* the liveness properties (out of the prover's reach). `TypeCorrect` of the queue, the
PSD stream, the detectors, the continuous recorder and the control server, and `NoFrameLost`,
are proved though no run lists them: stronger properties of the runs take their place
there.

## 6. What is not modelled, and why

- Failures of opening and rotating a file, growth and free-space limits (a throw of
  `append()` like any other), SWMR publication, the extents of the nine datasets one by
  one: a row is whole or torn. What a live reader sees between two flushes depends on the
  order in which the HDF5 library publishes extents, which the code does not determine.
- The automatic gain control: its state is an exponential mean, its decision a
  logarithm, and the rest one clamp. That the initial gain is clamped without the device being
  told is listed as a hazard.
- The arithmetic of mixing, filters, window and FFT: which samples go in is modelled, not
  what comes out. The simulator is a source of signals for tests.
- Detector diagnostics, track ids, debug metrics, and the validation of the detectors'
  configuration. In `PeakTracker` the levels of a spectrum
  enter only by the order of its maxima.
- The wall clock: a restart is later than the last frame, as NTP keeps it.
- Statistics, logging, `eventInProgress()` and the atomics behind it.
- In `Acquisition`, control commands, publishing and the way of a block through the DSP:
  `ControlServer`, `PsdStream` and `DspChain` model the acquisition thread's part in them.
- In the gateway, `/api/status` (a request like the others that changes nothing), static
  files, the end of its process, and the page in the browser.
- The wire format, whose magic and version (`MIQ1`, 2) differ from doc/NETWORK_WEB.md
  (`MPSD`, 1), and the frequency in its header, which is that of the time of sending.
- Configuration parsing, log rotation, daemon start, the HDF5 recovery tool (what it keeps
  is what the library can still read) and the plotters: sequential text, input and output,
  or presentation.
