# skygraph in TLA+

skygraph is a telemetry system for Skyrim: an SKSE plugin samples the game and
streams NDJSON records over a named pipe to a viewer, and to a rolling
recording on disk. This directory holds its TLA+ models, the configurations
with which TLC checks them, and proofs checked by TLAPS.

Paths below are relative to `plugin/src/` unless they name `viewer/`.

    tlc -workers 2 -config MCSpscRing.cfg MCSpscRing.tla      # any run
    tlapm SpscRingProofs.tla                                  # any *Proofs module

## 1. The system

    samplers, heartbeat,        SPSC ring      WriterThread       PipeServer
    commands, crash handler --> (Submit) --->  (Loop)  ---------> per-client buffers --> viewer
                                                  \-------------> RollingRecorder  --> *.ndjson.gz

| Component | State | Operations | Interacts with |
|---|---|---|---|
| Ring `transport/ring_buffer.h` | `_slots`, `_head`, `_tail`, `_dropped` | TryPush, TryPop, counters | producers of Submit; WriterThread's Loop |
| Writer thread `transport/writer_thread.cpp` | the ring, `_running`, `_recorder` | Start, Stop, Submit, AttachRecorder, Loop | ring, pipe server, recorder |
| Pipe server `transport/pipe_server.cpp` | `running`, `clients`, sessions (handle, alive, outbound, outboundPending, readerThread), `_connectedCount` | Start, Stop, Broadcast, AcceptorLoop, HandleClient, WriterLoop | writer thread, viewers, HandleCommand |
| Recorder `transport/rolling_recorder.cpp` | `_gz`, `_currentPath`, `_windowStart`, `_rotated`, `_running`, the directory | Start, Stop, Append, RotateNow, PinCurrent | writer thread, commands, crash handler |
| Crash handler `crash/seh_handler.cpp` | `g_handled`, two pointers | Install, Handler | Submit, RotateNow |
| Plugin `plugin.cpp` | the singletons, the heartbeat | SKSEPluginLoad, HandleCommand, HeartbeatLoop, OnSkseMessage | everything in the plugin |
| Samplers `samplers/` | per-sampler accumulators, the Papyrus table, cell timings | hooks, sampling threads | Submit, LatestCache |
| Flagger and cache `diagnostics/` | last value of each metric, the cell in flight | OnFrame, Update*, Note* | samplers |
| Viewer sources `viewer/src/transport/` | handle, `_scratch`, `_queue`, state | Start, Stop, Loop, Feed, Drain, SendCommand | pipe, file, UI thread |
| Telemetry store `viewer/src/state/` | capped rings, last samples, connection | Ingest, Clear | App, panels |
| Viewer app and panels `viewer/src/` | the source, panel state | Frame, OpenLivePipe, OpenReplayFile | sources, store |
| Configuration, logging, protocol | constants | read once | - |

What is hard in it:

- threads: the game's threads, samplers, the heartbeat, one reader per client,
  the acceptor, two writers, a crash handler on whichever thread faults; in the
  viewer, a source thread and the UI thread;
- order of start and stop: threads started before the object that owns them is
  complete, wake-ups sent once, joins under a lock;
- limits: the ring and the outbound buffers drop when full, pipe instances run
  out, indices wrap, files share a name within one second;
- failure: any file or pipe operation fails, the process ends at any point and
  a new one starts on the same directory.

What makes each component correct: the ring is a FIFO without data races under
one producer; the writer thread neither loses nor reorders between Submit and
Broadcast and drains at Stop; the pipe server delivers each live client's
records in order, counts exactly, frees what a dead client held and stops; the
recorder writes files without gaps, keeps the newest, leaks none and pins
whole windows; the crash handler leaves the recorded window on disk; the
samplers attribute each quantity to one frame, cell or script; the viewer
shows whole records of the source it is connected to. `PROJECT.json` lists the
hazards behind these, each at its line.

## 2. The modules

**BoundedQueue** is what the ring promises: a FIFO of at most `Capacity`
records in which a push that finds it full is refused and counted.

**SpscRing** is the ring, one action per access to shared memory
(`PushLoadHead`, `PushReject`/`PushAdmit` for the load of `_tail` and the
comparison, `PushWrite`, `PushPublish`; `PopAdmit`, `PopMove`, `PopPublish`),
for any set of producers. Indices are `size_t`: they run over
`0 .. IndexSpan - 1` and wrap. `Queue` maps it to BoundedQueue: the contents are
the slots from `_tail` to `_head`. Merged into one step: the `fetch_add` of
`_dropped` with the comparison that leads to it (it commutes with every other
access), and in TryPop the two loads (only the consumer writes `_tail`).
Accesses interleave one at a time. For the two indices this is what their
release stores and acquire loads give; weaker orders of the plain slot
accesses are what `NoSlotRace` rules out for one producer.

**PipeServer** has one action per step between two shared accesses of each
thread: the acceptor (check, create, listen, register, spawn, assign), a reader
per session, the writer (snapshot and reap, visit, write), Broadcast on its
caller's thread, Stop on its owner's, and the clients. `clientsMtx` is the
variable `mtx` where a critical section spans steps (Broadcast, Stop) and one
step where it does not (Register, SnapshotAndReap). `pending`, `listening` and
`peer` stand for the Windows pipe. Merged into one step: the count and the start
of the reader thread; a reader's closing of its handle and its counting out; in
Stop, marking a session, cancelling and closing. Records have size 1.
`Offer` reads `alive` and appends in one step; a session marked dead in
between gets a record nobody reads any more. `Survivors` is what the erase loop
of WriterLoop leaves. Commands are read and dropped here; they act on other
components only (`SaveSession` and `Submit` in WriterThread).

**DeliveryService** is what PipeServer promises its viewers: one that has joined
is given the record last published, or not (it may be behind), never one twice,
and receives what it was given in that order until it leaves. `Delivery` in
PipeServer maps the server to it: a session is a member from when it is listed
until it is marked dead (by its reader, a failed write or Stop, at different
times from when it is taken off the list), and its queue is what the writer has
in hand for it and, while it is alive, its outbound buffer.

**RollingRecorder** has one action per operation, since each runs under
`_writeMtx`; the private helpers are operators on `State`, so a rotation inside
Append is part of Append. Any `gzopen`, `gzwrite` or copy may fail. A session
file is identified by the second in which it is opened, a pinned one by a name
and a second: that is what the code puts in the path. What was written to a
stream is on disk for certain once it is closed; when the process ends any
prefix of an open one may be (`Torn`). `Restart` is a new process on the same
directory: no code path stops the recorder before the process ends. One clock
stands for both the wall clock of the names and the steady clock of the window.
`history` only serves the properties.

**WriterThread** composes them: the ring as BoundedQueue, RollingRecorder
through INSTANCE with its real operations, and of the pipe server the sequence
of records given to Broadcast. Its own actions are the steps of Loop (test of
`_running`, pop, broadcast, append, drain), Stop, the part of SKSEPluginLoad
that starts and attaches the recorder and installs the handler, `save_session`
from a pipe reader, and the crash handler. The handler runs once, on the
writer thread (which then stands still until the exception is resumed) or on
another; a fault of the writer inside Append leaves `_writeMtx` held, and the
handler's RotateNow then throws and is swallowed.

Because a Submit is one step there, WriterThread describes the code when only
one thread at a time is in Submit. SpscRing shows what happens otherwise.

**NdjsonSource** is the viewer's source of records: the loop of PipeClient, one
action per step between two shared accesses or calls of the system (test of
`_running`, CreateFile, publishing the handle, ReadFile in two steps, Feed,
closing), the loop of FileSource, the framing in Feed, and the steps of Stop and
SendCommand on the UI thread. A record is two fragments, the second with the
newline, and a buffer holds `BufSize` of them: a read that ends inside a record
is the rule. A line parses only if it is one whole record; the halves of two
records do not make one. `fed` is the history of the bytes read. One source lives
at a time (its worker is joined before the next is made), so one set of variables
stands for all. The plugin's end of the pipe is the environment: it comes, is
busy, sends, breaks the connection with or without what was unread, and goes.
The handle is opened without FILE_FLAG_OVERLAPPED, so that the system serializes
the operations on it: WriteFile and CloseHandle wait while a ReadFile is
pending. That is the model's assumption about Windows.

**Viewer** adds the UI thread of `app.cpp`: a frame drains the source into the
store, the menu (`MenuOpens`, `MenuExits`, `SaveButton`, `SaveConfirmed`,
`NothingPressed`) comes next, and the panels last. The calls it makes of a
source are the variable `call`. Of the store, two kinds of record with a ring
are kept: frames and stutters.

**FrameSampler** is a frame as the plugin measures it. The hooks on other
threads add to the accumulators at any point; `Drain` is one exchange of
ConsumeFrame, so that they add between two of them. The archive read hook has
three steps, the summary thread two. `IsStutter` is the flagger's decision.
Times are small integers; `Median` is what nth_element leaves at n/2.

**PapyrusAttribution** is the table of script times. Each operation runs under
its mutex and is one action; `Decayed` is `std::round(n * 0.55)` in integers.

**PacedLoops** is the loop that the memory, state and Papyrus samplers share:
read the clock once, sample what is due, `next += period`, and `next = now +
period` when that is past. A loop has one deadline or, in MemorySampler, two
with one reading of the clock. `TimePasses` by any amount stands for sleeps,
long samples and the scheduler. `fired` is the history of the samples.

**CellEvents** is the pair of cell sinks and the cell in flight that they keep
in LatestCache. The game's events are the environment: a cell is attached and
detached by its references, several times over, and loads in between or not;
cells may share a name. The sink of TESCellFullyLoadedEvent looks up its start
under one lock and tells the cache under another, hence two steps.

**MemoryPressure** is the page-fault difference of EmitPressure with the width
of both integers: the counter is taken modulo 2^32, the difference modulo 2^64.

**StateSnapshot** follows the game's state from the ticker's AddTask, through
the task on the main thread that stores the counts and then the name, to a
stutter that reads the counts and, later in the same function, the name. A
state of the game is a number, so that a mixture of two shows.

**HookInstall** is OnSkseMessage at kPostLoad, hook by hook in the code's order:
the frame's, those of subsystem_hooks behind TryInstallCallSite, Papyrus,
streaming. `place` and `code` are what the configuration and the Address
Library make of each id: missing, no call, or a call, maybe the same for two
hooks, which then chain. A patch and the assignment of `_original` are two steps.

**PluginLoad** is SKSEPluginLoad. `Steps` is its sequence and the messages of
SKSE after it; a step that only makes or starts something is `Begin`, the others
have actions of their own. Meanwhile the threads it has started run: readers in
HandleCommand, the writer thread, the samplers and the heartbeat. The
ring is a queue that does not overflow here (SpscRing, WriterThread say the rest).
Which of the options are on is any choice: LoadOrDefault may find a file, none,
or one that does not parse.

**TelemetryStore** is Ingest, every type of record, with Clear and Reset; a
record is a number and functions give what is looked at in it;
`papyrus_cumulative_us` is a function over the names that are in it. **Panels** are
the static states of DrawUi over it: the list of stutters, sorted by
any column, and the selection, which is an index into the ring; the pie, cut at
any of the sets of rows that std::partial_sort may put first (`Cuts`); the
playhead. Viewer has a smaller store of its own, for what its threads do to it.

**Charts** are two computations of the charts panel as operators: the pacing
line over a ring of frame times and the stacked breakdown. MCPanels has TLC
evaluate the first on every ring of up to four frames (`PacingOfShortRings`).

**MCComponents** runs any of the ten that share no variable (RollingRecorder
and the nine from FrameSampler on, with the panels): each behaviour runs one of
them and leaves the others in an initial state, so that every state of each is
checked and not their product.

## 3. The runs

| Run | Instance | Shows |
|---|---|---|
| `ring` | 1 producer, 4 slots, indices mod 8, 2 records | NoSlotRace, ImplementsQueue, RingInv: a race-free FIFO, across two laps of the indices |
| `ring_two_producers` | 2 producers, 2 slots | violation: ImplementsQueue |
| `pipe` | 2 sessions connected together, 2 records, watermark 1 | NothingLost, CountsExact, ImplementsDelivery |
| `pipe_live` | 2 sessions, 1 instance, 1 record | Delivered, InstanceReclaimed, StopReturns, LockReleased |
| `pipe_reap` | 1 session | violation: ReapSafe |
| `pipe_stop` | 1 session | violation: StopUnblocksAcceptor |
| `writer` | 3 records, ring of 1, 2 seconds, window 1, keep 1 | TeeInOrder, DrainedOnStop, FilesAreRuns, CrashKeepsWindow, Drained |
| `crash_record` | 2 records, ring of 2 | violation: CrashRecordOnDisk |
| `viewer` | 2 sources, 2 live and 3 recorded records, buffer of half a record, rings of 1 | LostOnlyAfterTear, StoreIsCurrent, ClosedOnce, CallsReturn, Reconnects, Replayed |
| `components`: recorder | 3 seconds, 2 records, window 2, keep 2 | FilesKeptAndPruned, PinIsWindow |
| - frame, papyrus | window of 3 frames, 5 frames, 2 readers; 2 scripts, 4 calls | NothingCountedTwice, WindowIsRecent, SlowIsNoStutter; KeepsEveryScript |
| - loops | one loop with deadlines of 1 and 2, clock to 6 | NoCatchUp |
| - cells | 3 cells with 2 names, 5 events | InFlightIsLastAttach |
| - pressure | a counter of 4 values in a word of 16, 3 faults | FaultsExact |
| - state | 5 states of the game, 2 tasks waiting | SnapshotIsOneState |
| - hooks | 5 hooks, 2 sites, every assignment of sites and of what is there | HooksSafeAndTold |
| - load | 2 viewers, 2 commands, 3 options, 2 records waiting | NoneTooEarly |
| - panels | 9 records of 5 types, 3 ingested, rings of 2, 2 slices, 2 sources | DetailsAreClicked, PieIsWhole |
| `papyrus_reaped` | 2 scripts, 2 calls | violation: Reaped |
| `playhead` | the panels of `components` | violation: PlayheadOfFile |

Why the bounds are enough. *Ring*: four slots and eight indices let the head
lap the tail, the ring fill and empty, and both indices wrap; two records
tell a swap from a loss; the theorems cover every size. *Pipe*: two sessions are
the least in which one client's state can disturb another's (the writer visits
them in turn, Stop joins them in turn); a watermark of one is reached by the
second record. `pipe` leaves the stalling of clients to `pipe_live`
(`NoneStalled`): it checks what may never happen, and there a client that has
stalled is no more than a writer that takes no step. With one instance and two sessions the second client connects
only if the first one's instance is freed, while the other may have stalled in the
middle of a write. *Recorder*: three seconds hold a window and the next one, a
file past `KeepRotations` = 2 and two openings in one second; two records tell a window from its neighbour. *Writer*: three records give a ring
that overflows, and a file with a first, a failed and a later record, the
least that shows a gap. *Viewer*: with a buffer of half a record every record
takes two reads, and a connection can break between them; one break lets a
second connection follow on the first one's `_scratch`; two sources let the
second follow on the first, live or recorded; rings of one drop at the second
record of a kind. *Components*: five frames let a window of three fill and slide
twice, so that an old frame must go and a slot must not be overwritten twice;
two accumulators and two readers are the least in which one is taken while the
other is added to; calls of 1 and 4 microseconds cover a value that decay keeps
and one that it brings down; a clock of six lets a deadline of one be missed by
several periods and one of two with it; two of three cells share a name, so
that the load of one can be taken for another's; a counter of four values wraps
within three faults; with five states of the game and two tasks waiting it moves
on between a tick and its sample, and is sampled twice between two stutters; two
sites let hooks chain; four rows of scripts and
two slices leave something to "(other)", and three records overflow a ring of
two.

Fairness. In PipeServer the acceptor, the writer and each reader are threads
of their own and Broadcast and Stop run on threads that have nothing to wait
for but what the model shows, so a step that stays possible is taken. Nothing is
assumed of clients: a viewer may stop reading for good, and a ReadFile may
never return. `Delivered` and `StopReturns` therefore except a client that has
stalled: WriteFile has no timeout, and a blocked write holds up every client
and Stop. In WriterThread only Loop is fair, for as long as its thread has not
faulted; Submit, Stop, crashes, commands and the clock may never happen.
In Viewer the worker and the UI thread run (the window is not occluded for
ever: an occluded one draws no frames and drains nothing), and a plugin that is
connected goes on: it sends (the heartbeat does, every second) or the game ends,
so that a pending read returns. `CallsReturn` rests on that: Stop cancels a read
only if it has begun, and SendCommand always waits for one. In `papyrus_reaped`
the snapshot loop runs. The other components are checked for safety only.

Stopping. Every cfg but the ring's turns deadlock checking
off: Stop ends the threads, and a bounded number of records or clients ends the
rest.

## 4. What is proved

The proofs hold for every value of the constants, under the assumptions named
in the modules:

| Assumption | Says | Why |
|---|---|---|
| `RingAssumption` | the capacity divides the number of index values | both are powers of two |
| `WriterAssumption` | the ring holds at least one record | its size is a constant |
| `RecorderAssumption`, `RecorderIsAssumed` | an empty file is not a missing one; at least one rotation is kept | the first is the model's encoding; kKeepRotations is 3 |
| `PipeAssumption` | at least one pipe instance; the count has two values or more | constants of the code |
| `SourceAssumption`, `ViewerAssumption`, `StoreAssumption` | buffers, rings and numbers of sources are naturals, the rings not empty; a record has a time, and its scripts names and times | constants of the code; Get reads a missing field as zero |
| `PanelsAssumption` | the pie has a slice at least, and a source is opened | kMaxSlices is 10; Init opens one |
| `FrameAssumption` | the readers of the archives are finitely many; the accumulators are a list, drained in its order, the archive reads' last; frame times are positive; the stutter ratio is above one | ConsumeFrame; a frame takes time; the default is 2.5, and a ratio of one flags every frame that is as slow as the median |
| `HookAssumption` | the hooks are a list without repetitions | OnSkseMessage names each once |
| `PressureAssumption` | fewer than 2^32 page faults between two samples | they are a second apart |
| others | the bounds are naturals | - |

*SpscRingProofs.* `TypeCorrect` needs no more than types, for any set of
producers. `RingInvariant`, `NoRace` and `RingImplementsQueue` assume
`SingleProducer`. Types alone are not inductive for them; `RingInv` adds three
parts: `WindowInv` (the published records are at most `Capacity` and `_head`
names the slot that many after `_tail`), `ProducerInv` (a producer's copy of
`_head` is current, and the place it was admitted to stays free: the consumer
only makes room) and `ConsumerInv` (every slot of the window holds a whole
record). The argument turns on index arithmetic modulo the span and modulo the
capacity, stated once as lemmas. The refinement proof maps each step to Push,
Take or a stutter: a push takes effect when it stores `_head`, a refused one
when it finds the ring full, a pop when it stores `_tail`.

*WriterThreadProofs.* `WriterInv` is inductive: what was broadcast, the record
in hand and the ring make up what was accepted; the drain runs only after
`_running` was cleared, hence after Stop recorded what it owes; Loop exits only
with the ring empty. `TeeOrdered` and `StopDrains` follow; no step of the
recorder, the crash handler or a command touches these variables. The files
need both invariants at once: `RunsRecorded` (FilesAreRuns) instantiates
RollingRecorderProofs, and `FilesInv` says with `RecorderInv` that records are
numbered as they are accepted, that a record about to be appended is the last
one broadcast, and that each file is an unbroken run of the records recorded so
far, the later the newer, of which the open one is the last; so a record
appended continues it, and one that is missed can only be missed between two
files. `CrashWindowKept` adds `CrashInv`: the file that the handler closed is
among the rotated ones until enough newer ones are, or a name was used again.
`TypeCorrect` collects the types from these.

That module also says that the two parts it uses are what their own modules say.
`RingIsBoundedQueue`: every step is a push of one of the ring's records, a pop, or
none of its business, so what SpscRing implements is what the program uses (with
two producers it does not: `ring_two_producers`).
`SessionFilesKept` and `SessionPinsAreWindows` carry the recorder's guarantees
over to the program, with its crashes and commands. They go by `RecorderInv` and
not by a refinement of RollingRecorder's `Spec`: there `next` numbers the records
that are appended, here those that are submitted, and the ring may refuse one.

*PipeServerProofs.* `NothingIsLost`: for any number of connections, records and
instances, whatever clients and Stop do. `NothingLost` alone is not inductive:
the writer works on a buffer it took from a session whose own buffer goes on
filling. `FlowInv` says, of every session, listed or not, that what was
delivered, what is in the writer's hands and some rest make up what was offered,
and that the rest is the outbound buffer while the session is alive; it is kept
by each step that touches a buffer (Visit, a write, a failed write,
Offer) and by those that only end a session. `CountsAreExact` adds
`BacklogInv`, and `SetUpInv` with `CountInv`: a reader is started once, for the
one connection the acceptor is setting up, and the readers started and not yet
exited are finitely many and as many as `_connectedCount` says. It assumes
`MaxSessions < CountSpan`: fewer connections than an unsigned count has values.
None of this asks which sessions are listed. `TypeCorrect` does, for the lists
have types (`ListTypes`); what the reaping leaves is defined by a recursive
function, of which the proofs use that it exists and that a set of
counterexamples would have a least one.

`PipeImplementsDelivery` is the refinement. What makes it true is in two
invariants. `MemberInv`: whoever is read from, visited by the writer or by
Broadcast, or about to be closed has been listed, and the connection being set
up has not; so that a session only dies after it has joined, it joins once, and
Stop, which holds `clientsMtx` meanwhile, has marked every listed session before
it clears the list. `GiveInv`: the list names nobody twice, so that the sessions
a Broadcast has still to visit have not been given its record, and what each
was given goes up. The proof then maps each step: Register joins, BroadcastBegin
publishes, Offer gives or passes over, a write receives; whoever marks a session
dead makes it leave with what the writer has in hand for it (`DeathMaps`), a
failed write with nothing; all others are stutters, the reaping and the writer's
taking of a buffer too. `ReadInOrder` draws the conclusion for the clients.

*RollingRecorderProofs.* `TypeCorrect` (with the bound on the list of rotated
files), `RotatedFilesKept` and `PinsAreWindows`, for any clock,
window and rotations kept, whatever open, write or copy fails, and across
restarts. The helpers of the recorder are compositions (close, prune, open,
write), so the proof follows them: a directory is `Whole` if each name that is
listed twice, or listed and open, was used twice (`NamesTold`), the files of all
other names are as they were closed (`Kept`), every file on disk is listed, open
or inherited (`Pruned`), the open one exists and no more files are listed than
are to be kept; one lemma for each helper says
that it leaves the directory whole, and one step for each operation chains them.

*PluginLoadProofs.* `NothingTooEarly`, for any configuration, viewers, commands
and waiting records. `LoadInv` adds to the types `AttachedInTime` (until the
recorder is attached, only answers to commands wait in the ring, are in the
writer's hands or were missed, for the threads that submit anything else are
started by later steps) and `ToldOnce` (hello and the load order,
told and waiting together, are one of each at most, in this order). The proof
turns on the places of the steps of SKSEPluginLoad, stated as lemmas: a step
moved in the code is a lemma that no longer holds. `HooksAreSafe`, for any
hooks, order and sites: `ChainInv` says that each site calls the last hook
patched there and each hook's `_original` the one before it, down to the
original callee, or nobody knows what where no call was; `MaskInv` what the mask
says before and after the merge. A chain is as long as the hooks of its site;
that it ends is again shown by a least counterexample. `LoadTyped` and
`HookTyped` read the types off the same invariants.

*SamplersProofs.* `NeverCatchesUp`: for any loops, deadlines, periods and
delays, `k + 1` samples in a row lie at least `k - 1` periods apart. The property
compares samples only, and says nothing of the deadline: `DueAhead` adds that
the deadline is as many periods past each earlier sample as there were samples
since (a deadline that is kept adds a period; one that was missed is set from a
`now` which is later than every sample), and `IdleFresh` that a loop not yet
started, whose deadlines will be set to now, has no samples.
`CellInFlight`: `InFlightIsLastAttach` is inductive by itself.
`SnapshotCoherent`: `CacheIsOneState` adds what holds in the middle of
UpdateState and of OnFrame; it rests on the two running on one thread
(`Free`), for no lock covers both the counts and the name.
`FaultsReported`: `Moved` relates the two readings to the faults between
them, with a correction of 2^32 if the counter wrapped.
`ScriptsKept`: every entry of the Papyrus table keeps a microsecond and a call
at least (`TableInv`), which the decay's rounding preserves.
`CountedOnce`: `CountInv` follows each accumulator from the hook through the
drain to the record; the drain's next place is the first that was not drained.
`MedianOfRecent`: the circular window is the last frames, turned about its index
(`Turned`), so that the two have the same median. `SlowNotFlagged`: the middle
element of a list most of whose elements are equal is that element; a frame
that takes as long as the median does not pass the ratio.
The types of the six modules follow. Two take more than their shape. In
`FrameTyped` the median must exist: of the values in the window the least that is
not below the middle place is one (`SomeMiddle`); and `inFlight` must not fall
below zero: it is the number of readers in a read (`FrameInv`). In `PapyrusTyped`
the table must be finite, for there to be a top of it (`TopsAre`).

*ViewerProofs.* `ViewerInv` is one invariant in four parts, and the four
properties follow from it. `HandleInv` (`HandlesClosedOnce`): where the UI thread
may be (`UiPlace`), that the handles of earlier connections are closed and the
last one's is open exactly while the loop is in the connection and Stop has not
closed it (`Handles`), and that there are no more connections than sources and
breaks allow (`Budget`). `Control` and `Data` are the types (`TypeCorrect`); a
read is no longer than its buffer, and `Ingest` folded over the queue leaves
what the store should hold (`StoreHolds`, for `StoreFollowsSource`). `Lines`
(`OnlyTornLinesAreLost`): what was fed, the piece just read and the messages not
yet read are in order (`Stream`); `_scratch` is the end of what was fed, cut only
where it overflowed (`Framed`); and what was received are the whole lines of
what was fed, but for the first one and those after a torn one (`Got`). Feed is
a function that recurses over the piece, and a step of it keeps the last two.

*ComponentsProofs.* Of the panels: `DetailsOfClicked`: a ring grows at its far
end, so that the index that was clicked stays that stutter's until the ring drops
one (`ClickInv`). `PieSumsUp` (PieIsWhole), for any scripts, times, number of
slices and choice among equal rows. What is shown and "(other)" are parts of the
rows that do not overlap, and rows of zero add nothing; that a sum over a finite
set splits so is shown by taking the elements away one by one
(`SubsetInduction`). For the cumulative pie `PieInv` says that the entries
of `papyrus_cumulative_us` sum to the time observed: a record adds each of
its rows to one name. The property speaks of every cut; `SomeCut` says that there
is one. `PercentileSplits`: for any number of frames and any quantile in
thousandths, the index is in range and splits the frames as it should, up to
rounding down. `BandsAreParts`: each band is as high as its part, whatever the
parts are.

Of the ten parts together: `PartsAreComponents` says that the specification which
`components` checks implies the specification of each part, for no step of one
writes another's variables. So what is proved of a part in its own module is
proved of the run's specification. `PartsTyped` (PartsTypeOK) is the first use:
the types of all ten.

Induction over data is out of the prover's reach, for the library states it with
an operator as a parameter. Where a proof needs it (the reaping, Feed, the
ingestion of a queue, a chain of hooks) the recursive function is shown to
exist, and a property of all its values to hold, by the least argument at which
it would not.

Model-checked only: the sums of ComputePacing, which sorts its list with TLC's
SortSeq and folds it; all liveness (fairness and ENABLED are out of the prover's reach); and what the
runs that expect a violation are about.

## 5. What the models found

- **Two producers** (`ring_two_producers`). `Submit` is documented for any
  sampler thread, and is called from the game thread, the sampler threads, the
  heartbeat and the pipe readers. Two threads in TryPush can load the same
  `_head`: an accepted record is lost.
- **Reaping** (`pipe_reap`). A session is listed and its reader started before
  `readerThread` is assigned. If its client leaves at once, the writer can
  erase it in between; the thread object is then destroyed joinable.
- **Stop's wake-up** (`pipe_stop`). It is sent once, before the acceptor need
  have an instance for it to reach; Stop may then join the acceptor forever.
- **The crash record** (`crash_record`). The handler submits its record to the
  ring and rotates the file at once, so the flush does not cover the record.
- **The Papyrus table** (`papyrus_reaped`). The comment in
  SnapshotTopAndDecay says that entries are reaped to bound the table. Decay
  rounds one up to one: no entry is ever reaped. What does hold is stated too:
  the table is exactly the scripts called since the last Reset
  (KeepsEveryScript).
- **The playhead** (`playhead`). timeline_panel.h says that `initialized` is
  latched when the user scrubs, and reset on file change. It is latched by the
  first frame drawn of a recording, when only a part of the file may have been
  drained, and never reset: the next recording has the playhead of the first.

Also seen while modelling, not the subject of a run: docs/spec.md:94 says
"Drop-oldest on overflow", the ring refuses the newest record; the session
files of earlier processes are never pruned (`DiskBounded` in RollingRecorder
states what rolling_recorder.h:19-20 says, and would fail); when a reopen fails
the recorder stays silent until the process ends; two pins of the same name in
one second share a path and the second overwrites the first (`PinPermanent` in
RollingRecorder states rolling_recorder.h:23-24, and would fail); session files
collide in the same way (FilesKeptAndPruned excepts it, and says so); pipe_client.h
says that the worker owns the handle, but Stop closes it under a worker that may
be about to read; `_scratch` outlives the connection, so the first record of a
connection can be lost to the last half line of the one before
(LostOnlyAfterTear states exactly that, and no more).

Of the plugin: messages.h:17 and docs/protocol.md:15 call hello and the load
order one-shot per connection, but each is submitted once, at load, and a viewer
that connects later gets neither; latest_cache.h:50-51 says of the cell in
flight that it is loading, but a cell detached before it has loaded stays in
flight, and a reference that enters a loaded cell puts it back
(`InFlightIsLoading` in CellEvents would fail); the duration of a cell's load
is counted from its last reference's attach; streaming_sampler.cpp:50-52 says
that a missing id only switches its hook off, but REL::ID ends the process
(`MissingIdDemotes` in HookInstall would fail; subsystem_hooks.cpp tests for it
first); a hook is reachable before its `_original` is assigned; after 2^32
page faults one sample tells of some 2^64; RollingRecorder::Start sets `_gz`
without `_writeMtx`; the heartbeat thread is never joined.

Of the viewer: the cumulative pie is said to be "since connect", and a
reconnection does not clear it; a stutter's index means another stutter once
the ring has dropped one (DetailsAreClicked excepts that); the "60s window"
of the histogram is the last 3600 frames; with up to a hundred frames neither low
of the pacing line is the worst frame, and with two frames both are the better one;
a position that is not finite arrives as null, whose get<float> throws, and
nothing between Ingest and main catches it; status_bar::Draw goes on with a
reference to a source that its own menu has replaced.

## 6. What is not modelled

In the modelled components: the contents of records, file and command formats,
log lines (the drop report of Loop too); handle values and their reuse after a
close; the outcome of destroying a joinable thread (`ReapSafe` states that it
cannot be reached instead); spurious pipe errors other than a client that is
gone; in the viewer, back-off times, byte counters, and what the panels draw.
Stop of the hook samplers and of the heartbeat is left out: nothing calls it.

Parts left out, with the reason (see also `PROJECT.json`): the protocol's constants
and the log sink have no behaviour; the values of the configuration other than
what it switches on; OS and GPU counters, which are read and passed on;
window, D3D and ImGui set-up and all drawing; pins, filters and pauses of the
events, plugins and Papyrus tables, which relate no two pieces of state.

## 7. What could follow

- The composition of PluginLoad with WriterThread and PipeServer, whose product
  is past what TLC enumerates at the present bounds.
