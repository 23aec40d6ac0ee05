# Verification of the VR trading desk

TLA+ models of the trading desk in this repository and of the parts of LibOVR
its head tracking stands on, TLC runs that check them on small instances, and
TLAPS proofs of what matters most for every instance. `PROJECT.json` lists the
runs, the properties and, definition by definition, the source lines each one
stands for.

Run TLC with `tlc -config X.cfg M.tla` and the proofs with `tlapm M.tla`.

## The system

`bin/vrtradingdesk/VRTradingDesk.cpp` calls `Init(false)` and `RunDisplay()` of
`gui/Display.cpp`. A frame is two passes, one per eye; a pass calls `Render` of
each of six charts once. Charts get their data from readers, readers from
sources. The camera follows the head: `io/Device.cpp` starts LibOVR's device
manager, whose background thread reads the tracker and updates the `SensorFusion`
that the desk's thread asks for the orientation.

| Part | State | Operations | Interacts with |
|---|---|---|---|
| `SourceReader` / `FileReader` | file position, buffer and its size | `ReadNextData`, `SetBufferSize` | read by `DataReader` |
| `RandomCSVSimpleReader` | whether the header was given | `ReadNextData` | source of the live charts |
| `YahooFinanceReader` | a file of `/tmp` that outlives the process | constructor (looks for the file, `wget`), `ReadNextData` | other processes, by that file |
| `DataReader` | the rest of the last portion | `ReadNextLine` | calls the source when the rest holds no newline |
| `CSVDataReader`, `CSVDataType` | names of the columns | constructor, `GetNextData` | calls `ReadNextLine` |
| `MDArchiveDataReader` | HDF5 handles, arrays read once | counts and arrays of retail states, trades, exchange states | read by four charts when they are constructed |
| `Graph3D` (visA) | two counters | `Render` | archive |
| `AskBidBubbleChart` (visB) | two counters, prices and volumes | `ComputeChange`, `Render` | archive |
| `Heatmap2Visualisation` (visC), `HeatmapVisualisation` (visF) | two counters | `Render` | archive |
| `BuySellBarVisualisation` (visD) | scales and colours, a counter | `ComputeChange`, `Render` | CSV reader over a random source |
| `LineGraph` (visE) | 20 prices, a counter | `ComputeChange`, `Render` | CSV reader over a random source |
| `Display` | window, view matrices, GL state | `Init`, `UpdateView`, `RunDisplay` | everything |
| `Device` | headset info, sensor | constructor | LibOVR |
| `ThreadCommandQueue` | circular buffer of commands, blocked threads, exit flags, a pipe | `PushCall`, `PushExitCommand`, `PopCommand`, `Execute` | any thread pushes, the manager's thread pops |
| `DeviceManagerThread` | files to poll, notifiers of time | `Run` | the queue, udev, the tracker's file |
| `HIDDevice`, `HIDDeviceManager` | handle and path of the tracker | `OnEvent`, `OnDeviceNotification`, `OnTicks` | the kernel; the sensor device |
| `SensorDeviceImpl` | last timestamp, count and sample, handler | `onTrackerMessage`, `SetMessageHandler`, `OnTicks` | calls the fusion under the handlers' lock |
| `SensorFusion` | orientation, running time, reference points | `AttachToSensor`, `Reset`, `handleMessage` | called by both threads |

What is hard here: the readers cut text at one set of boundaries and receive it
at another. The charts count passes where they mean frames, each for itself,
while archives of different lengths run out under them. The cache of downloads
outlives failures. The queue carries its wake-ups from thread to thread. The
tracker's clock wraps, its reports get lost, and the news of its coming and going
is late and tells it only by a name that is used again. The hazards, line by
line, are in `PROJECT.json`.

What makes each part correct:

- a source hands out its content once, in order, and gives the empty string at
  the end only; a line reader gives back exactly the lines, and always returns;
- a row is its line, `NULL` stands for the end or a blank line, the end is final,
  and reading until `NULL` ends;
- a cached table is whole;
- no chart reads outside the archive, skips a record or goes back, and the
  replay comes to an end on all of them;
- what two charts show of the same company belongs together;
- data on the screen change between frames, not between the eyes of a frame;
- a bar tells of its own company's trades;
- a call that was accepted is run once, in the order of acceptance, before its
  caller returns; nobody waits for something that nobody will tell of;
- the head is never turned for a stretch of time twice, nor, while no report is
  lost, for less than has passed;
- the open file is the tracker's, a tracker that is back is opened, and while it
  streams it is told in time to keep doing so.

## Modules

### Readers

`Texts` and `FileBuffer` hold the constants. `SourceReader` is the abstract
source: any next piece of the content, empty at the end only. `FileReader` is the
file source, with `fgets` cutting at newlines, at the size of the buffer and at
the end of the file, and `SetBufferSize` between any two portions; it implements
`SourceReader` (`IsASource`).

`DataReader` is `ReadNextLine` over a source. A call is not atomic:
`ReadNextLine` starts it, and each iteration of the loop is `TakeLine` (the scan
of the buffer finds a newline) or `Refill` (it does not, and the source is asked
once, `JoinBuffer` being what becomes of the answer). `ret` and `pc` are the local
variable and the program counter. The abstract specification is `LineStream`: a
call returns the next line. The mapping takes content and line as they are and the
cursor to `pos - Len(buffer) - Collected`, what was handed out less what has not
been returned.

`CSVDataReader` says what becomes of a line: the names of the columns, and then a
row, `NULL`, or the exception for a line that does not fit the header, whose line
is used up all the same.

`Readers` composes the three. A client's call goes down to the source, which is a
`FileReader` or any other source, and comes back with its answer in the step in
which the line is complete; between calls the client may resize the file's
buffer. The other source is there because every source of the repository ends a
portion at a newline: only a source that may not do so brings several lines in
one portion, which `ReadNextLine` is written for.

`YahooFinanceReader` is the constructor in its steps (look for the file, `wget`,
open it) for several processes, and the reading portion by portion. `wget -O` is
external: it creates or empties the file first, and what arrives is written at
its place. A download may fail and a process be killed at any of these steps; a
reboot clears `/tmp`. `spoilt` and `overlapped` are history: a download did not
end well since the file appeared; a client began while another was at work.

### Charts that replay the archive

`Graph3D`, `AskBidBubbleChart`, `Heatmap2Visualisation` and
`HeatmapVisualisation` hold one `Render` each: which records or trades the pass
reads, as indices, and what it does to the counters. Prices, geometry and GL calls
are left out, as no property is about them. `shown` is what the pass put on the
screen. An index is kept even where it lies outside the array: that is what
`RecordsInBounds` and `BubblesInBounds` are about.

`Playback` composes them. `Pass` is a pass of `RunDisplay` and calls the four
renders; `Close` is the window closing, which the loop sees between two frames
only, so a frame that has begun is finished. The lengths of the archives are
chosen in `Init` and do not change. `Visualisation` says what a display with two
eyes expects of a chart: its data change in the pass for the first eye only.

### Live charts

`BuySellBarVisualisation` and `LineGraph` are composed in `Trades`, each fed with
rows of `RandomCSVSimpleReader` (any it can make up). `scalex` is in thousandths
and parts of colours are in tenths, so that the sums are exact; the program adds
floats. `lastType` and `seenBy` are history: the side of the last trade of
each company, and the eyes that have seen the prices as they are.

### The command queue

`CircularBuffer` has the arithmetic of the buffer's three offsets as operators,
byte by byte as `Write` and `ReadEnd` do it. `Event` is the event of
`OVR_ThreadsPthread.cpp`, pulsed or set.

`ThreadCommandQueue` is the queue with the loop that serves it. There is one
action per scope of `QueueLock` and per wait: a caller enters (`PushCall`,
`PushExitCommand`, which sets the flag), stores its command (`Enqueue`), is put in
the list of the blocked (`Block`), is refused (`Refuse`), or comes back from a wait
(`WaitForRoom`, `WaitForCall`). The consumer pops and wakes the oldest of the
blocked (`PopCommand`), runs the command (`Execute`), pulses the caller's event
(`NotifyCaller`), or finds nothing and goes to sleep on the pipe (`FindNothing`,
`Poll`). A command is its size and two flags; `stored` remembers where each was
put, so that `CommandsApart` can say that none lies on another. Events are per
thread: the code keeps them in a free list, and a thread frees the one it waited
on itself, once it is back.

`CallQueue` is what the queue promises: calls are accepted or refused, run one at
a time in the order of acceptance, and callers that wait come back after their
call has run. `RunsCallsInOrder` is the refinement; `RunsAllCalls` its liveness.

### The tracker

`SensorDevice` turns reports into the messages handed to the fusion, of which it
keeps the length of time each adds. A report of the tracker is a choice of how
many samples were lost before it and how many it stands for; its timestamp is the
tracker's 16-bit clock. `Replug` is another clock. While `messages` is not empty
the handlers' lock is held, so that the desk's thread can install the handler and
reset the fusion only between reports; it clears `SequenceValid` at any time, as
the code does without the lock. `time`, `resetAt` and `gapless` are history.
`MagReferences` is the list of reference points of the yaw correction, with the
field as a point on a line and the verdict on each measurement as a choice.

`HIDDevice` is the inner loop of `DeviceManagerThread::Run` with the callbacks it
makes: `OnTicks`, `Poll`, then the tracker's file (`ReadReport`, `LogError`,
`ReadError`), then udev's monitor (`OnNotification`, which takes one notification).
Around it is the world, which is external: the tracker and another device are
plugged and unplugged and get any free name, and udev tells of it later, in order.
A read can fail, on a tracker that is there too, and so can an open; `failed` is
history: one of them did, and nothing was opened or plugged in since.

`OnEvent` describes the device of an `add` when it takes the notification, not when
the notification was sent: libudev walks to the USB device at the port the `add` came
from. If that was unplugged since, the port may hold another one (`Finds`; which ports
the two devices use is not modelled, so it may be any whose own `add` is still to
come behind the removal). `openDevice` then goes by the name alone, and overwrites
the description of the tracker with that of whichever device has the name now: `mine`
says whose description is kept. The two devices are told apart by their
descriptions, serial number included, as each of them is taken to have one.

The operators introduced with "A bug to compare with" are used by no
specification: they stand for plausible mistakes, and a property is worth its run
only if it finds one.

## Runs

| Run | Instance | Shows |
|---|---|---|
| `readers` | all texts up to 6 characters over a letter, comma and newline; a file with buffers of 2, 3 and 8, or any cut | lines and rows come out whole wherever portions are cut, `NULL` stands for nothing but the end or a blank line, the end is final and reached |
| `yahoo_cache` | two processes, a table of three portions | the cache is whole unless a download went wrong or processes overlapped |
| `yahoo_spoilt` | one process | *violation*: a failed download becomes the table of the next reader |
| `playback` | 3 companies with 1 to 3 records, 0 to 5 trades, 54 passes | see below |
| `bubbles_past_end` | the same | *violation*: a bubble is placed by the record after the last |
| `trades` | GOOG, MSFT, AMZN, largest volume | bars and colours follow trades, both eyes agree on bars |
| `blue_of_msft` | the same | *violation*: MSFT sets AMZN's blue |
| `command_queue` | 3 threads, calls of two sizes, 112 bytes | calls run once and in order, nobody sleeps on work, nothing is left behind |
| `queue_exit` | the same, one size | *violation*: the exit command is never stored |
| `tracker` | clocks before their half and their end, 0, 3 or 300 samples lost, 1 or 5 in a report | time is neither invented nor, without loss, lost; references stay apart |
| `tracker_time` | the same | *violation*: a small gap is not filled |
| `hot_plug` | 3 names, 6 pluggings | the file follows the tracker, keep-alives are in time, a tracker that is back is opened; the exceptions are below |

`playback` checks that no heatmap row and no block reads outside the archive
(`RecordsInBounds`), that visC's moves start from the records visF shows
(`BaselineIsSpread`, and `HeatmapsTogether`, the reason), that data change between
frames only (`EyesAgree`, and `PeriodsEndWithFrames`, the reason), that no record
is skipped (`NoRecordSkipped`), that bubbles stand at one moment
(`BubblesShowOneMoment`) and that an open window sees the end (`PlaybackEnds`).

Bounds, and why they are enough.

- Readers: three characters in a text decide every case of the line reader
  (before, at and after a newline or a cut); `MaxLen = 6` leaves room for a header
  of two columns and two rows, one of which does not fit.
- Replay: the periods of 60, 20 and 50 are 12, 4 and 4, keeping them even and the
  first two in their ratio of 3; records of 1, 2 and 3 make every order in which
  three archives can run out, and 54 passes (`INT_MAX`) go on for more than a
  period after the last trade. Five trades exceed the window `SHOW_CNT = 2` so that
  old ones leave it. The bubbles run on two of the three companies of the
  heatmaps, as in the code on three of five.
- Live charts: volumes of 10 reach the limits of a bar in two trades, from either
  side.
- Queue: sizes 24 and 40 round up to 32 and 48, so that `Size = 112` holds two of
  the larger or three of the smaller, is wrapped after every few calls, and lets a
  small command in where a large one must wait; three threads block two behind
  one. `ReadSize = 1` and `PipeLimit = 2` stand for 128 and 65536: wake-ups pile up
  and are read one by one.
- Tracker: one report before, one across and one after the half or the end of the
  clock, with losses below and above the 254 the code repeats (`MaxReports = 3`);
  two references with room for no third, and points at, below and above their
  distance. A score is told apart up to `ScoreLimit`, which is enough to become
  negative.
- Hot plug: `MaxPlugs = 6` is out and in again, twice, with another device coming
  and going in between (a late `add` leads to the other device after five); three
  names let the two swap theirs while a file is still open. `KeepAliveDelta = 1` and
  `KeepAliveTimeout = 3` are the 3 and 10 seconds of the code in units of 3; the
  proofs have any two.

`CHECK_DEADLOCK FALSE` is set where the system may stop: the window closes and
`INT_MAX` ends the counting of passes; every thread has left the queue, and its
consumer too; the tracker has sent its `MaxReports`.

Fairness. A call of `ReadNextLine` that has begun runs on, as it is a loop of one
thread; its client reads on, as the tests do. `RunDisplay` goes on while the window
is open (`WF` of `Pass`); the window need never close. The bars and `LineGraph`
have `WF` of their pass for the same reason, though their properties are safety.
The consumer of the queue and each thread inside a push run on (`WF` of `Run` and of
`Push(t)`), as a lock is held for a few steps; no thread has to push. The device
manager's loop runs on (`WF` of `Run` in `HIDDevice`); nothing is asked of the
world. `YahooFinanceReader` and `SensorDevice` assume none.

One more assumption is about time. `TimePasses` of `HIDDevice` is a unit of some
seconds, and passes only while the thread waits in `poll`, and, while the tracker
streams, only after one of the thousands of reports of that unit was read. That is what keeps
keep-alives in time: see the next section. A tracker that is opened without streaming
yet has no such help, and `KeptAlive` does not speak of it.

What `hot_plug` excepts. After a failed open or read nothing in the code tries
again, so `HandleFollowsTracker` and `Reopens` let a tracker stay closed until it is
plugged in again (`failed`). And while the description kept is that of another device
(`mine` is false) they promise nothing: see `OpensTheTracker` in the next section.

## What the violations say

1. `YahooFinanceReader` throws for a failed download once; the file `wget` left is
   found from then on.
2. `AskBidBubbleChart::ComputeChange` reads `rs[count]`; the heatmaps read
   `count - 1` in the same place. `BubblesShowOneMoment` holds: it is one too far
   and never more.
3. The MSFT branch of `BuySellBarVisualisation::ComputeChange` writes the blue of
   bar 4. `BlueTellsOfTheOthers` holds for the other companies.
4. A thread that was woken to store a command and finds the exit announced returns
   without waking the next. With more threads blocked than commands left, the exit
   command's own pusher is never woken, and the consumer sleeps. Before the exit
   this cannot happen (`RoomIsPassedOn`), and what was accepted is run all the same
   (`RunsAllCalls`).
5. `LastTimestamp` is signed and what it is set from is not. In the upper half of
   the clock's cycle a small gap looks 65536 too large and is not filled.
   `TimeKeptWithoutLoss` holds: the difference is only looked at for gaps.

Five more formulas are in the modules for what a comment or assertion says and the
code does not do. They have no run of their own; TLC refutes each when it is added
to the configuration named here.

- `NullOnlyAtTheEnd` (`MCReaders`): `CSVDataReader::GetNextData` cannot tell a blank
  line from the end. `NullIsABlankLine` holds: it gives up for nothing else.
- `GraphsAgree` (`MCTrades`): `LineGraph` counts the pass of a new price twice, so
  its period is 49 and every second price arrives between the eyes of a frame.
  `SeenByBothEyes` holds: every price is seen by both eyes, if not in one frame.
- `TicksInTime` (`MCHIDDevice`): `waitMs` starts at -1 and no wait is below it, so
  `poll` waits for ever, against "the largest number of microseconds this function
  can wait" (`OVR_Linux_DeviceManager.h:87-88`). `KeptAlive` holds, because the
  reports themselves make `poll` return.
- `NothingAddedWhileOpen` (`MCHIDDevice`): the `OVR_ASSERT(0)` of
  `OVR_Linux_HIDDevice.cpp:744` is reached by any device added while the tracker
  is open, and the notification is then taken for the tracker's own.
- `OpensTheTracker` (`MCHIDDevice`): "Is this the correct device?"
  (`OVR_Linux_HIDDevice.cpp:697`) is asked of the device at the port, and the file is
  opened by a name that may be another's by then. It takes five pluggings.

## Proofs

`DataReaderProofs` (for every alphabet, every content, every cut):

- `TypeInvariant` and `NothingIsDropped`: `TypeOK` and `NothingDropped` are
  inductive together. The latter is needed because the buffer must be known to be
  the end of what was handed out, and `ret` the piece before it without newlines.
- `LinesAreRead`: each step maps to a step of `LineStream` or to a stutter, by the
  mapping above. A `TakeLine` returns the piece from the cursor to the first
  newline; a `Refill` that gets nothing returns the rest.

`ReadersProofs`, of the file source alone (for every file and every choice of buffer
sizes):

- `FileTypes`: the position stays in the file.
- `FileIsASource`: a call hands out the next non-empty piece of the file, or nothing
  at its end, and resizing the buffer is a stutter.

The same module carries these to the composed stack, action by action:
`StackDropsNothing`, `StackReadsLines`, `StackHasASource`. Each
action of the stack is one of `DataReader` on its part of the state and one of the
source, or leaves it alone, so that the lemmas above apply. `TheEndIsFinal` adds
that with nothing left every answer is `NULL`, and `NullsAreBlankLines` the converse: the
line of a `NULL` is empty, and so, by the refinement of `LineStream`, the cursor stood
at the end of the content or before a newline (`EmptyLineIsBlank`).

Then it comes to the rows, and so to what a loop computes. `ExtractValues` and
`Joined` are recursive functions; the provers know of such a function only that it
is chosen to satisfy its equation. `RecursiveFunction` shows that one exists, by
induction over the numbers (`Induction`, from the well-foundedness of `<`), and a
second induction, over the length of what has been read, shows what it computes:
reading one character more (`After`) appends that character to what the values
join to (`JoinedAfter`). So `ValuesAreTheLine`: for every line, the values joined
are the line. The inductive `StackInv` is `TypeOK`, `NothingDropped`, the types of
the rest and `RowIsItsLine`; a line has no newline in it because it is a piece of
the content between two of them (`LineOfTheContent`). `StackTypes` and
`RowsAreLines` follow.

`PlaybackProofs` (for all companies, lengths of archives, even periods, any number
of passes):

- `TypeInvariant`, and from it `NoReadOutOfBounds`.
- `NeverApart`: the inductive `HeatmapsTogether`. While visC counts, both do, with
  the same count of passes and a record between them; then visF counts alone until
  it has caught up, and then both have stopped. `OneBaseline` follows.
- `PeriodsAreFrames`: the inductive `PeriodsEndWithFrames`. A first eye's pass makes
  every running count odd, and an odd count ends no even period
  (`OddEndsNoPeriod`), so what it was shown is what the second eye is about to
  be. `BothEyesSeeTheSame` follows: each of the four charts implements
  `Visualisation`.
- `NothingSkipped`: the inductive `ShownLately` relates what each chart last put on
  the screen to its counters, so that the next thing it shows is known to be the
  same or the one after.
- `BubblesAtOneMoment`: the inductive `BubblesMoved` says at which count the bubbles
  were last placed; on it all indices are that count's, or their archive's end.

`TradesProofs` (for any of the code's companies, any costs and volumes of its
source, every even period above 2, any number of points):

- `TypeInvariant`; `LimitsAreTrades`: a move is never zero (`MovesABar`), so that a
  trade takes a bar to no limit but that of its own side (`ClampedBar`);
  `BluesAreTrades`.
- `BothEyesSeeTheSameBars`: the inductive `Painted`. The second eye's pass has an
  odd count, so no trade arrives in it, and it colours bars that are coloured
  already: `Recoloured` twice is `Recoloured` once.
- `PricesAreSeen`: the inductive `SeenLately`, for the one pass after a new price in
  which only one eye has seen it.

`YahooFinanceReaderProofs` (for any number of processes and any length of the table):
`TypeOK` needs that a running `wget` has its file (`WgetHasFile`). `Turns` says that
without overlap one process is at work and its file is what has arrived; on it,
`Whole` says that a file nobody is downloading is whole or absent.
`TablesAreWhole` and `WholeTableIsKept` follow.

`ThreadCommandQueueProofs` (for any threads, any calls and any size of the buffer
that holds twice the longest). `TypeOK` is inductive once it says which threads
hold a command. On it stands `Shape`: the commands are laid out from the tail to
the head in one run, or from the tail to the end and from the start to the head,
each at the end of the one before it; `CommandsAreApart` follows. The rest are
invariants of the protocol:

- `Rooms`: a blocked thread is in the list once and waits for room, and either
  something is stored or someone who was told is on the way
  (`RoomIsAlwaysPassedOn`);
- the byte in the pipe, from the writer's test under the lock (`ConsumerWakes`);
- `Exits`: at most one exit command, and nothing behind it;
- `Callers`: for a thread that waits for its call, its event is set or exactly one
  of the buffer and the consumer has the call; with `Signals` and `Exits`,
  `NothingIsLeftBehind`;
- `QueueRunsCallsInOrder`: every action maps to one of `CallQueue` or to a stutter
  (`Block`, `WaitForRoom`, `Poll`, `FindNothing`).

`HIDDeviceProofs` (for any names, any number of pluggings, any keep-alive shorter
than the timeout):

- `NotificationsLeadToTheTracker`: the inductive `Follows` adds to
  `HandleFollowsTracker`, which speaks while the description kept is the tracker's,
  what the queue of notifications looks like for each name, always:
  whoever has a name now was added by the last notification about it, if any is
  left, and a dead file's removal comes before anything else about its name.
- `TheTrackerIsKeptAlive`: the inductive `InTime` bounds what is left of the
  timeout by the time to the next keep-alive, and says in which state of the loop
  that keep-alive is due.

`SensorDeviceProofs` (for any clock, any losses, any number of reports, of samples
in them and of reference points). The inductive `Inv` adds three things to the
types and the three invariants:

- `Handed`: at most four messages wait, all for an installed handler, so that their
  sum is known term by term;
- `Stamped`: while the sequence is valid and the tracker plugged in, the timestamp
  kept is that of the start of the last report, modulo 2^16 and read as a signed
  number. From it `ReplicatedIsLost`: what is replicated for a gap is no longer than
  the gap, and nothing when there is none, on either side of a wrap. A wrong sign
  makes the difference 65536 too large, never too small, and then nothing is
  replicated; this is why the fifth violation loses time and cannot invent any;
- `Settled`: while a reference is in use the handler is installed, the fusion is
  calibrated and its clock has settled, and none of these can change before `Reset`
  drops the reference. So each message that brings a new field also checks or
  replaces the reference in the same step.

`TimeIsNotInvented`, `TimeIsKeptWithoutLoss` and `ReferencesAlwaysFit` follow. For
the last, deleting a point moves the last one to its place (`WithoutBadApart`), and
a point is only added when none is nearer than the limit.
`GapsAreFilledInTheLowerHalf` says how far the fifth violation reaches: after a
report that began in the lower half of the clock's cycle every small gap is filled,
to the millisecond.

Assumptions, all named in the modules: the newline and the comma are characters and
contents are strings of characters; a buffer holds at least one character and the
end of the string; the bubbles' companies are among the heatmaps'; every archive
holds a record (no code checks it); the periods are positive and even (they are 60
and 20, and 50 for the live charts, where more than 2 is needed); a command is shorter than half the buffer (`CircularBuffer::Write` asserts
it); keep-alives are more frequent than the timeout (3 and 10 seconds); a report
stands for 1 to 255 samples, the count being a byte, a tracker that was unplugged is
away for longer than the 254 ms that are replicated, and the limits on reference
points and the model's bound on reports are numbers.

Only model-checked: liveness (`ReadsToNull`, `PlaybackEnds`, `RunsAllCalls`,
`Reopens`), as fairness is out of the prover's reach. Every other property of a
passing run is a theorem.

## Not modelled

- A file that cannot be opened (`FileNotFoundException`, thrown before there is any
  state) or read on: `fgets` answers a read error as it does the end.
- A full pipe of the queue: `write` would block under `QueueLock` and the consumer
  with it. It takes 65536 commands that each arrive just after the last was popped;
  at the model's `PipeLimit` a push into an empty buffer is not taken instead.
- `MDArchiveDataReader`: a missing file or dataset leaves counts uninitialised, and
  what follows depends on the memory found. The replay assumes an archive.
- `Device` but for `AttachToSensor`, `Init` and `UpdateView`: straight sequences of
  calls. What is hazardous in them (uninitialised headset info, a pose per eye) is
  listed under the hazards.
- `LineDataReader` wraps one call of `ReadNextLine` and never answers `NULL`.
- `ScreenModel` and `DisplayUtil` are constant geometry and calls to OpenGL;
  `StockSim` is a separate program without state of interest; exceptions carry a
  message.
- Of LibOVR: enumeration at the start, creation and release of devices (the desk
  creates one of each and releases none), the filters and integration of the
  fusion, prediction, ranges, the latency tester, the other platforms, and the
  containers, allocators and maths. The field of the magnetometer is a point on a
  line, and the angles that decide a score are a choice.
- gtest and gmock, most of the lines under `src/`, only test what is modelled.
- Overflow of the bubbles' `cycle` after 2^31 passes is beyond `INT_MAX`.

## What could follow

Creation and release of devices with their reference counts, for programs that do
release them; the enumeration at the start racing with the first notifications.
