# Handel / FalconXN: a TLA+ development

Handel is XIA's C library for digital X-ray spectrometers; this repository is
its FalconXN release. A user program calls the Handel API, the FalconXN driver
(`src/src/falconxn_psl.c`) turns the calls into SINC messages to the box over
one TCP connection per module, and a receiver thread per module turns what the
box sends into channel states, responses, histograms and traces. This directory
holds TLA+ specifications of that system, the TLC configurations that check
them, and TLAPS proofs.

Contents: [the system](#the-system), [the modules](#the-modules),
[the runs](#the-runs), [the proofs](#the-proofs), [findings](#findings),
[other disagreements](#other-disagreements-met),
[what is not modelled](#what-is-not-modelled), [what is left](#what-is-left).

Line numbers without a file are those of `src/src/falconxn_psl.c`.

## The system

### Threads, locks and events

| actor | code | runs |
|---|---|---|
| user thread(s) | every `xia...` call | API calls, each to its end |
| receiver thread, one per module | `psl__ModuleReceiver` (8473-8545) | one message at a time, in the order of the stream |
| the box | external | answers commands in order; reports states and data when it likes |

- the *module lock* guards the module record; the receiver holds it while it
  processes a message, a user while it looks at the response slot;
- the *send lock* makes user threads take turns in transactions; it is held from
  the request to the end of the transaction;
- the *detector lock*, one per channel, guards the channel state and the mapping
  mode buffers; it is released between the steps of a start or stop;
- the *send event* wakes the user waiting for a response, the *asyncEvent* of a
  detector wakes the user waiting for a channel state. An event stays set until
  a wait clears it, and a wait clears it even when it ends by its timeout
  (`handel_md_event_wait`).

Everything else is state of the calling thread: the lists of modules, channels,
detectors, firmware sets, default values and detChans, and the file they are
saved in. Handel has no lock of its own, so those calls are one thread's.

### Components

For each component: what it keeps and does, what is hard in it, and what makes
it correct.

**Mapping mode buffers** (`falconx_mm.c`). Two buffers: *Active* is read by the
user, *Next* is filled by the receiver. Hard: roles swap from three places (a
data set, a buffer_done, a stop); the pixel header is written before any check
of the room left; "full" depends on the level, the pixel limit and the stopped
flag at once. Correct when no buffer is written past its end, the user's buffer
does not change under it, data leaves in order and once, and every pixel is
accounted for.

**Mapping mode 0** (4095-4259, 4761-5340, 7166-7242). The latest spectrum and
the statistics of a channel, swapped at every histogram. Hard: a read takes the
buffer apart by the settings of the moment. Correct when a spectrum read belongs
to one histogram and is complete.

**Mapping mode 1** (4264-4470, 5356-5832, 7244-7425, 7866-7953). One pixel per
histogram. Hard: every call locks for itself, so a histogram comes between any
two of them; drops move the pixel count without a pixel; a failed stop leaves
the run active. Correct when headers and pixel numbers describe the data,
whatever was lost.

**Mapping mode 3, list mode** (4472-4611, 5837-6257, 7554-7746). Event packets split over
the two buffers. Correct when no word is lost without a report.

**Channel state and asynchronous events** (819-884, 3854-4093, 8180-8319). The
user primes and waits, the receiver records and signals. Hard: the lock is
released between look, prime and wait; flag and event outlive the call. Correct
when no wakeup is lost, a call that succeeds has seen the state it asked for,
every call returns.

**Module transactions** (6945-7164). Send lock, send event, one response slot.
Hard: responses carry no request number, a timeout leaves an answer on its way,
an error has no type. Correct when each caller gets one answer, its own where
nothing timed out, and none waits for an answer that has come.

**Run control** (`handel_run_control.c`, 4095-4700). `runActive` per module,
starts and stops of sets of channels. Hard: one start of several fails; the mode
is that of whichever channel the call names. Correct when the flags and the
channels agree after any sequence of calls.

**Module life cycle** (8473-9222). Connection, receiver thread, set-up and end of
channels. Hard: the thread ends by itself on a read error, and may be in a
message while what it uses is freed. Correct when closing ends and the thread
outlives nothing it uses.

**Calibration and DC offset** (1526-1626, 6495-6689, 7803-7864, 8023-8151,
9200-10000). State machines with a request, a response and a channel state each,
and a text form of their data. Hard: the detector lock is held over a
transaction; response and report come in either order. Correct when no state is
entered without its data and what is saved comes back.

**Acquisition values** (1664-3850, 9025-9222). A table of values kept with the device's
parameters. Hard: some values share a parameter, some are two parameters, some
are rounded by the device, some only take effect when a run starts. Correct when
the value kept is the value in force, after refusals and restarts too.

**Handel configuration** (`handel_dyn_*.c`, `handel_detchan.c`,
`handel_file.c`, `handel_sort.c`). Lists built by calls in any order, sets of
sets of channels, and the text file all of it is saved to. Hard: calls that fail
half way, aliases that move, cycles of sets, files of older versions or edited.
Correct when a detChan is one channel however it is looked up, a set reaches its
channels, and a file read gives back what was saved.

**SINC client library** (`libsinc-c`). Framing over TCP, list mode packets;
also requests, encoding and a blocking interface. Correct when messages come out
whole and in order however the reads are cut, and a packet reader that lost step
finds it again.

`PROJECT.json` lists every component with its status and, under `hazards`, what
is hard to test in this code, each at its line with the properties that would
catch it.

### What is modelled of each

| component | modules | status |
|---|---|---|
| mapping mode buffers | `MappingBuffers`, `PixelStream` | modelled |
| mapping mode 0 | `DetectorData`, `MappingMode0`, `RunData` | modelled |
| mapping mode 1 | `MappingMode1` | partly: starts that run out of memory are left out |
| mapping mode 3, list mode | `DetectorData`, `ListMode`, `RunData` | modelled |
| mapping mode 1 read-out | `Mm1Reader` | partly: one channel, without set-up and file |
| channel state and events | `ChannelState`, `Calibration` | modelled |
| module transactions | `SincTransaction` | modelled |
| receiver thread | in the module of what each handler changes | modelled |
| run control | `ModuleRun` | partly: disabled channels and the dispatch of queries are left out |
| module life cycle | `ModuleLifecycle` | partly: one module |
| calibration and DC offset | `Calibration`, `CharData` | modelled |
| locks | `Calibration`, `SincTransaction`, `ModuleLifecycle` | partly: locks always can be taken |
| acquisition values | `AcqHandlers`, `AcquisitionValues` | modelled |
| threads, mutexes and events | in the modules that wait | partly: no wakeup without a signal |
| detector channels and sets | `DetChans`, `ConfigQueries`, `SystemConfig` | modelled |
| dynamic configuration | `ConfigLists`, `ConfigQueries`, `SystemConfig`, `FirmwareSets` | modelled |
| Handel system | `ModuleLifecycle`, `SystemConfig` | partly |
| sorting | `FirmwareSets` | partly: the merge sort nothing calls is left out |
| configuration files | `IniFile`, `SystemConfig` | modelled |
| SINC messages | `SincStream`, `MessageQueue` | partly: no datagrams |
| SINC list mode | `ListPackets` | modelled |
| SINC requests, encoding, arrays, generated and vendored code, logging, build | | not modelled |

## The modules

| module | models |
|---|---|
| `MappingBuffers` | the double buffer, one operator for each function of `falconx_mm.c` |
| `MappingMode1` | a mapping mode 1 run of one channel: user and receiver on the double buffer |
| `PixelStream` | what the double buffer promises: a bounded first-in first-out stream of pixels |
| `Mm1Reader` | the read-out loop of `src/tests/c/hd-mm1.c` on top of `MappingMode1` |
| `DetectorData` | what a channel sends and the control that is open for it |
| `MappingMode0`, `ListMode`, `RunData` | the handlers of modes 0 and 3, and what `xiaGetRunData` answers about them |
| `ChannelState` | commands, reports, priming and waiting on one channel |
| `Calibration` | characterization and DC offset of one channel, with the module and detector locks |
| `SincTransaction` | requests and responses of one module |
| `SincStream`, `MessageQueue` | the byte stream and its reader; the queue of messages it promises |
| `ListPackets` | the list mode buffer of `libsinc-c`: encoding and decoding of packets |
| `ModuleRun` | starts and stops of modules with several channels |
| `ModuleLifecycle` | connection, receiver thread, set-up, end and exit of a module |
| `DetChans`, `ConfigLists`, `ConfigQueries`, `SystemConfig` | the lists of Handel: sets of channels, the calls that build them, what looks them up, the system that is started, saved and loaded |
| `IniFile` | the text of the saved file and its reader |
| `FirmwareSets` | firmware sets, their sorting and validation |
| `AcqHandlers`, `AcquisitionValues` | the handlers of the acquisition values; sets, reads, runs, saves and restarts of one channel |
| `CharData` | the text form of a characterization, saved and loaded |
| `MC...` | the instances of the runs that need more than a `.cfg` can say |
| `..._proofs` | theorems and proofs |

`RunControl_proofs` holds the proofs of `ModuleRun` and of `AcquisitionValues`:
what a run control call does to the channels, and what it configures them with;
`Channel_proofs` holds those of `ChannelState` and of `CharData`, a channel's
state and what it knows of its detector; `Handel_proofs` those of
`ModuleLifecycle` and of `FirmwareSets`, what Handel's calls set up and take down.

Where modules meet: `MappingMode1` and `DetectorData` extend `MappingBuffers`,
which has no variables (each operator takes the buffers record and returns the
new one); `Mm1Reader` puts a program on top of `MappingMode1`; `RunData` joins
modes 0 and 3; `SystemConfig` puts together the lists and the file;
`MappingMode1` implements `PixelStream` and `SincStream` implements
`MessageQueue`, each by `INSTANCE ... WITH`. `ChannelState` looks closely at what
`MappingMode1` and `DetectorData` take as given, that a stop may end too early,
too late or on time; `SincTransaction` does so for the sending of a command, and
`SincStream` for the message it is answered by.

An operator whose name starts with `Fault_` is the definition after it with a
plausible bug put in (a guard dropped, a count off by one, a reset forgotten).
Nothing in the specifications uses these operators: they are kept to show, for
each property, a bug that breaks it. `PROJECT.json` says which one goes with
which property, and under `map` which lines each definition stands for.

### MappingMode1

One channel, its double buffer and the calls of one user. A handler of the
receiver runs under the detector lock from its beginning to its end and is one
action, with all the buffer operations it calls:

| action | code |
|---|---|
| `StoreHistogram`, `OverrunHistogram`, `SkipHistogram` | `psl__ReceiveHistogramData`, `psl__ReceiveHistogram_MM1`: stored, both buffers in use, or ignored |
| `DroppedHistograms` | `psl__ReceiveAsynchronousError`, "%u Gated Histogram data dropped" |
| `ReceiveChannelState` | `psl__ReceiveParamUpdated`: the channel has acted on a command |
| `StartRun` | `psl__Start_MappingMode_1`: closes the old buffers, opens new ones, starts the channel; on an error stops it |
| `StartRun_NotSet` | the same, when a setting is refused before the buffers are opened |
| `StopRun_Send`, `StopRun_End` | `psl__Stop_MappingMode_1`: the command, then after the wait the stop of the buffers, run whatever the wait gave |
| `ReadBuffer`, `BufferDone`, `BufferOverrun`, `MappingPixelNext` | the run data and board operations of the same names |

A pixel is its number and its data set; a buffer's contents are the sequence of
pixels copied in, with the level counted in words beside it as in the code, so
that the room left is a result and not an assumption. The XMAP header is the
record of the fields that depend on the state. Counters are natural numbers: the
code's are 32 bits wide (16 in the header) and the bounds stay far from that.
`delivered`, `released`, `overrun`, `dropped` and `skipped` are history.

`Punctual` FALSE lets a stop end at any time and in either way, a start be lost
and commands queue up; TRUE makes each wait for a channel state end by its
arrival. The runs about the buffers use FALSE: nothing they show depends on the
timing of starts and stops. The read-out loop uses TRUE.

In `PixelStream`, `pending` are the pixels stored and not handed over and `taken`
those handed over. The mapping: `taken` is what the user has copied out,
`pending` is what is unread in Active followed by what is in Next.

### Mm1Reader

One variable `pc` names the next Handel call of the loop; every call is a step,
and the receiver runs between any two. What the loop keeps in variables between
calls (`any_running`, `buffer_full`) is kept here too, so it can be stale. The
loop's exits through an error are final values of `pc`, named in `Failures`.

### DetectorData, MappingMode0, ListMode, RunData

`settings` are the four acquisition values a read goes by, and the user may
change them in a run. `device`, `wire` and `channelState` are what the channel
does, what it has sent, and what the receiver last heard: a message is taken by
the mode that is open when the receiver comes to it. `MappingMode0` adds the swap
at every histogram and the reads; `ListMode` the packets and their splits;
`RunData` the handlers of `xiaGetRunData`, looked up by the `mapping_mode` of the
moment. A word is the data set it is of, its part and its place.

### ChannelState

`Begin` is the entry of a call with the first look at the state, `Command` its
transaction, `Prime` the locked look and the priming, `LookAgain` the unlocked
look of a start, `Wake` and `TimeOut` the two ends of `psl__DetectorWait`. The
calls are: start of histograms, start of list mode, stop, and the ADC trace. The
device is external: it obeys a start when ready, a stop when running, and
reports each change; `DeviceFinishes` ends or breaks off a run by itself.

### Calibration

A call of the user is a path through `pc`; the transaction in it is the pair of
steps "await" (the event) and "take" (the module lock), after which the call goes
on at the label `after`. The receiver's message is `rx` from the moment it has
the module lock. The device answers requests and starts, makes progress with and
ends a characterization, sends the DC offset and reports states. Two history
variables are read by the properties only: `disturbed`, that a request was refused
or timed out, and `fromFile`, that the calibration state is what the saved file
says. A wait also times out, without any fault, when user and receiver wait for
each other's lock.

### SincTransaction

`Send` takes the lock and puts the request into the stream together with the
device's decision to accept or refuse it; `Wake`/`TimeOut` end the wait;
`TakeResponse`, `TakeError`, `RejectResponse` are the three outcomes of the look
at the slot; `ReceiveAnswer` is what the receiver does with an answer. Ids of
requests are history: no guard compares them. Types are three, chosen because
they are treated differently: success (of any channel), a parameter (of one
channel), and the calibration (whose response the slot keeps as NULL, so that it
is not flushed when it is rejected).

### SincStream and MessageQueue

A unit stands for bytes: the marker is two units, the length one. `Read` takes
any part of what has arrived; `Look` is the search for a whole packet in what was
read. Between packets there may be part of a marker, a marker with no or too
great a length, or a packet of another code, and a message may have a marker or
a whole packet in it. `MessageQueue` is: the messages sent, each once, whole, in
order.

### ListPackets

A word is two units. Packets of every type are encoded (in the formats before
and after 0.9.0), added to the buffer in pieces of any size, and looked for. A
`break` is what the line may have lost: half a word, a word of no type, half a
pulse, a packet without its end, a wrong alignment word. `InStep` says after
which of them the reader is in step again.

### ModuleRun

`Call` is `xiaStartRun` or `xiaStopRun` on a channel or on a set; `todo` is what
is left of the set. For each element `Skip` is the test of `runActive` and
`Enter` is `psl__StartRun` or `psl__StopRun` with the mode it reads.
`Configure` and `StartChannel` are the rounds of the two loops of a start,
`StopChannel` is a round of the stop loop, which a failing start runs too; each
has a failing form. A command that fails may or may not have been obeyed, and a
channel that is told to stop may not stop, which is what `ChannelState` shows of
each. Between two steps of a call the channels may end their runs or break down.
`lostStop` is history: the channels that run on since a stop of them failed. The
invariants make an exception for them, and it is not empty
(see [below](#other-disagreements-met)).

### ModuleLifecycle

Each successful connection is a *generation* with its own `FalconXNModule`, wire
and thread, because the thread of one may outlive the structures. `touched`,
`astray` and `slow` are history: structures used after they were freed, updates
whose detector was gone, waits for the thread that ran out. `holds` are the
detectors with memory of a run (the control with its two buffers), and `leaked`,
history too, says what was freed without what it held. Set-up, end and exit
go step by step with the receiver in between; a device may refuse, stay silent,
or lose the connection.

### DetChans, ConfigLists, ConfigQueries, SystemConfig

Operators take a configuration and give `[status, config]`; each is one API call
or one function below it. `SystemConfig` has the variables: the lists, the saved
file, whether the system is started. Loading is the calls it makes one after the
other, with what `IniFile` finds in the text. `lastCall` is whether the last call
was a load and how it ended; a call that would dereference NULL ends in `crash`
and nothing is called after it. The validation of the firmware sets at a start may
end either way, since what is in them is in `FirmwareSets`.

### IniFile

A line is its name with the number in it, and its value; optional things are
sequences of at most one. The reader goes over the file once for every value and
ends a walk at the first line with the same text as the entry's end line. The
user may put a comment in, move a section, set a value for all channels, take a
line out or leave one section only before the file is read, and what was read is
written once more. Places a file is looked for (`xiaFindFile`) are
the domain of `disk`.

### FirmwareSets

The Firmware structures are a heap with `next` and `prev`, so that what sorting
relinks is what the code relinks. `lastAdded` is the static `current` of
`xiaAddFirmwareItem`, behind which new firmware goes, whatever set it is added to
and whatever sorting has put there. `ranges` and `mixed` are history: what the
user gave each firmware, and the sets with firmware that went to another, or came
from it, because the last added was not the end of the list added to (`InOrder`).
Where the last added has gone with its set the code writes to freed memory, taken
to be no one's yet. The
loops over a list are recursive functions with as many steps as the heap allows:
`Inserted` is the inner loop of `xiaInsertSort`, `SortedFrom` the outer one, each
step of which (`Advanced`) goes on behind where the last one put its firmware;
`Validated` goes through the sets up to the one that decides.

### AcqHandlers, AcquisitionValues

A value has the limits its handler accepts, the parameters it writes (`Writes`),
what is kept of it (`Kept`) and what is read back (`Reading`). `params` are the
device's parameters; a refused write leaves those before it, and perhaps that
one (`AfterWrites`, and `Stages` for every point it can stop at). At a restart the
values go out in the order of the list in the file, which may be any (`Orders`),
up to the first the driver refuses (`AcceptedPart`). `settled` is history: the
values last set or read without an error. Values are offered in groups of those
that share parameters or are used together.

### CharData

Bytes and pulses of a characterization, the lines they are printed on and read
from, the length the text is given, and the restart that sends them to the
device. A sample is a whole number of units finer than the six decimals written.
`Calibrations` is what the structures can hold, `Whole` those whose pulses all
have samples; `Damages` cuts the saved text or changes a number in it.

## The runs

| run | module | distinct states | question |
|---|---|---|---|
| `MappingMode1` | `MappingMode1` | 532 219 | are the buffers of one run consistent? |
| `MappingMode1Restart` | `MappingMode1` | 2 926 501 | do they implement a stream over two runs? |
| `Mm1Reader` | `Mm1Reader` | 75 780 | is what the read-out loop writes complete, and does it end? |
| `DetectorData` | `MCDetectorData` | 1 883 117 | modes 0 and 3; list mode packets |
| `ChannelState` | `ChannelState` | 51 693 | do calls see the state they ask for? |
| `Calibration` | `Calibration` | 781 916 | are the stages met in order and current? |
| `SincClient` | `MCSincClient` | 528 787 | requests and answers; the byte stream |
| `ModuleRun` | `MCModuleRun` | 327 049 | do driver and channels agree on what runs? |
| `ModuleLifecycle` | `ModuleLifecycle` | 415 948 | does the thread outlive what it uses, do calls return? |
| `Handel` | `MCHandel` | 473 239 | configuration, file, firmware, values, characterizations |
| `ChannelStateStop`, `CalibrationLocks` | | | one statement of the repository each that does not hold ([findings](#findings)) |

**MappingMode1.** Two pixels a buffer and up to five data sets: both buffers
fill, a third pixel is left over, an overrun occurs; a limit of three pixels,
reached in the middle of a buffer, and none; header and pixel of different sizes,
so that words cannot be mistaken for pixels.
`HeaderMatchesData`: a buffer's header agrees with what it holds.
`PixelsAccounted`: the pixel count is stored + released + overrun + dropped.
`UserOwnsActive`: an Active buffer that is not done does not change.

**MappingMode1Restart.** Three data sets, two runs: the second starts while
buffers, commands or the channel of the first are in any state the calls leave
them in. `StreamSafety`: the refinement of `PixelStream`, which has the order of
the pixels, that none comes twice, and that at most two buffers' worth waits.

**Mm1Reader.** A timed capture and captures of five or six pixels over buffers of
two, so that the last buffer is partly filled or whole, also after an overrun.
`FileComplete`: a capture that ends without an error and without drops has every
pixel. `LoopTerminates`.

**DetectorData.** Two runs of modes 0 and 3 in any order, four data sets, one
change of a setting, list packets of 1, 2 and 4 words over buffers of 3, so that a
packet fits, fills, is split, or is longer than a buffer. One message waits on
the wire: enough for data of the run before to be met by the next.
`SpectrumIsLatest`, `AnswersAgree`, `WordsAccounted`, `LossIsReported`. Apart from
it four packets of the library's list mode with one break, 12 units a piece;
numbered packets of at most 6 words (16 in the code). `PacketsFound`.

**ChannelState.** Five calls in any order: enough for a start whose event is left
over, a stop that consumes it and two more calls that meet what it left; one run
is ended or broken off by the device. `NoLostWakeup`, `StopTimesOutOnFailure`
(a stop runs out of time only on a channel that failed), `CleanStopIsReady` (with
no event left over a stop succeeds on a ready channel only), `CallReturns`.

**Calibration.** Four calls, one fault, one report of progress.
`DCOffsetWaitEnds`: no wait without an event or a ready state to come, and no stage
out of order, so that no assertion of the code fails. `CalibrationCurrent`: a
channel taken for calibrated is and its data is here, one found not to be is not.
Both speak of calls before any was refused or timed out: the answer that comes
after a timeout is taken for that of a later request, and with six calls or more
that reaches the calibration too. `OtherCallsReturn`.

**SincClient.** Three requests by two threads: a first that times out, a second
that takes or rejects its answer, a third after it; one error out of turn.
`HandedOverOnce`, `OwnAnswerInSequence` (where nothing timed out the answer is the
caller's own), `NoLostAnswer`. Apart from it three packets or pieces of noise in
pieces of any size: `Delivers`, the refinement of `MessageQueue`, and
`EveryMessageReturned`.

**ModuleRun.** Two modules of two channels, the first of the second module not
calibrated; three calls (starts and stops of one channel or of all four, changes
of `mapping_mode`) and two failures: enough for a start that fails half way
through the set, a clean-up that fails too and a call after it.
`RunningIsActive`: between calls a channel that takes data belongs to a module
with `runActive` set. `RunningInItsMode`: its control is open in a mode for what it
sends. `BuffersKeptWhileRunning`: no start closes that control.

**ModuleLifecycle.** Two set-ups of a module of two channels, one trouble
(a refused or unanswered request, a lost connection, a slow thread), one datum.
`ThreadEndsBeforeModule` and `DetectorOutlivesMessage`: nothing is used after it was
freed. `UpdateFindsDetector`: with no trouble no update of an ended channel is
met. `NothingLeftBehind`: a module not listed has left no structure of its own,
no detector, connection or thread; the memory of runs and the stream's buffer can
be lost (`RunMemoryFreed`, `StreamFreed`,
[below](#other-disagreements-met)).
`CallsReturn`.

**Handel.** Calls of one thread on parts that share no state, so one part at a
time:

- firmware: every file of one set with up to three entries with peaking times
  1..3 (disjoint, touching, equal, nested), then three calls, which is enough to
  turn to a second set and back and to add to a set that was sorted.
  `SetsHaveTheirFirmware`: a set's list is the firmware it was given, but for mixed
  sets, and in all of them the links agree and none is shared. `ValidationExact`:
  validation passes sorted ranges without overlap and refuses others, and in what
  it passed, not mixed, the firmware found by a peaking time is the one that
  covers it;
- configuration: two modules, two channels, two sets, one user's file, four
  calls. `DetChanIsOneChannel`: every way of looking a detChan up finds its
  channel. `SetReachesItsChannels`: a set reaches its members and theirs.
  `SavedIsRestored`: a load of what was saved gives it back, in the lists and, for
  seven configurations and one edit by the user, in the text;
- values: groups of values, devices with no feature and with all, the two orders
  of a file, four calls, one refusal. `ValuesInForce`: a value set or read
  without error is the one in the device. `RestartRestores`: a restart brings the
  saved values back, or refuses. `RunConfigured`: a run was configured by the
  values at its start;
- characterizations: two channels, five characterizations, five calls, lines of
  two values and a buffer of 14 lines, which the longest one passes.
  `CharacterizationKept`: what a restart brings back is what was saved, but for
  the decimals.

Bounds are named constants (`MaxSets`, `MaxDrop`, `MaxAdvance`, `MaxCommands`,
`MaxRuns`, `MaxCalls`, `MaxFinished`, `MaxRequests`, `MaxStrays`, `MaxSent`,
`MaxFailures`, `MaxFaults`, `MaxProgress`, `MaxSetups`, `MaxTroubles`, `MaxData`,
`MaxWire`, `MaxChanges`, `MaxItems`, `MaxBreaks`, `MaxUnits`, `MaxFirmware`, `MaxFwCalls`,
`MaxConfigCalls`, `MaxAcqCalls`, `MaxRefused`, `MaxCharCalls`, `MaxEdits`,
`MaxSaves`). They only cut behaviours short, in the guards.

`CHECK_DEADLOCK FALSE` is given where calls, requests and data are used up and
nothing is left to do: every run but those of `MappingMode1` and `Mm1Reader`,
where the user can always poll or the loop stays at its end.

### Fairness

- `ReaderSpec`: weak fairness of the loop's next step (a thread that is not
  blocked runs on; no call of the loop waits for another thread once the channel
  has started) and of the handling of the channel's reports (the receiver goes on
  reading the connection). None is given to the histograms: a device that sends
  nothing ends the loop by its poll limit.
- `ChanSpec`: weak fairness of the receiver and of the call in progress. Every
  wait of the code has a timeout, so the call always has a next step.
- `CalFairSpec`: the user and the receiver go on; the device answers, is busy or
  finishes.
- `LifeSpec`: the user and each thread go on; the device answers what it accepts
  as long as it is connected.
- `ClientSpec`, in the stream: the reader goes on, and reads what has arrived: the
  socket is polled at once and read as often as it has something (strong
  fairness, because what has arrived is looked at between reads).
- All other specifications have none: they are checked for safety only.

## The proofs

Eight modules `*_proofs` hold theorems for all values of the constants that
satisfy the named assumptions, and so for any number of calls, runs, messages and
faults, as the bounds of the runs are constants too:

| assumption | says |
|---|---|
| `Mm1Assumption`, `ReaderAssumption` | sizes and the poll limit are positive, the rest natural numbers; the loop's commands are answered in time |
| `DataAssumption`, `RunDataAssumption` | numbers of bins and sizes are positive, there is one number of bins at least; an `unsigned long` has one word or two |
| `ChannelAssumption`, `TransactionAssumption` | calls and requests are of the known kinds, the bounds are natural numbers |
| `CalibrationAssumption` | the bounds are natural numbers |
| `RunAssumption` | a module has at least one channel, the set is a sequence of channels |
| `LifecycleAssumption` | there is a channel, channels are numbers, the bounds are natural numbers |
| `FirmwareAssumption` | peaking times are positive whole numbers, there is one; the PTRRs are finitely many; the bounds are natural numbers |
| `CharAssumption` | channels are numbers; units, lines and the buffer are positive; a device gives bytes, at least one, and pulses with as many x as y (one `len`, `sinc.h:106`) |
| `HandlersAssumption`, `AcqAssumption` | a tick is a positive number of units, the gain step a digit; values offered are whole numbers for names of the table, and no negative number of SCAs; a device has some of the optional features; gains and bounds are natural numbers |

| theorem | statement | for the run's |
|---|---|---|
| `Mm1TypeCorrect` | `Mm1Spec => []Mm1TypeOK` | |
| `BuffersWellFilled` | `Mm1Spec => []BuffersInv` | |
| `BuffersNeverOverfull` | `Mm1Spec => []NeverOverfull` | |
| `ActiveBelongsToUser` | `Mm1Spec => UserOwnsActive` | `MappingMode1` |
| `AllPixelsAccounted` | `Mm1Spec => []PixelsAccounted` | `MappingMode1` |
| `HeadersMatchData` | `Mm1Spec => []HeaderMatchesData` | `MappingMode1` |
| `BuffersAreAStream` | `Mm1Spec => StreamSafety` | `MappingMode1Restart` |
| `CaptureIsComplete` | `ReaderSpec => []FileComplete` | `Mm1Reader` |
| `EveryWordAccounted` | `ChannelSpec => []WordsAccounted` | `DetectorData` |
| `EveryLossReported` | `ChannelSpec => []LossIsReported` | `DetectorData` |
| `SpectrumOfTheLatest` | `ChannelSpec => []SpectrumIsLatest` | `DetectorData` |
| `AnswersAgreeWithData` | `ChannelSpec => []AnswersAgree` | `DetectorData` |
| `WakeupNotLost` | `ChanSpec => []NoLostWakeup` | `ChannelState` |
| `CleanStopHeardReady` | `ChanSpec => CleanStopIsReady` | `ChannelState` |
| `PunctualStopFailsOnFailure` | `ChanSpec => StopTimesOutOnFailure` | `ChannelState` |
| `TransTypeCorrect` | `TransSpec => []TransTypeOK` | |
| `LockHeld` | `TransSpec => []LockHeldInTransaction` | |
| `AnswerNotLost` | `TransSpec => []NoLostAnswer` | `SincClient` |
| `AnswerHandedOverOnce` | `TransSpec => []HandedOverOnce` | `SincClient` |
| `OwnAnswerWhileInSequence` | `TransSpec => []OwnAnswerInSequence` | `SincClient` |
| `CalInvariant` | `CalSpec => []CalInv` | |
| `DCOffsetWaitsEnd` | `CalSpec => []DCOffsetWaitEnds` | `Calibration` |
| `CalibrationKnown` | `CalSpec => []CalibrationCurrent` | `Calibration` |
| `RunTypeCorrect` | `RunSpec => []RunTypeOK` | |
| `RunningKnown` | `RunSpec => []RunningIsActive` | `ModuleRun` |
| `RunningHasItsBuffers` | `RunSpec => []RunningInItsMode` | `ModuleRun` |
| `BuffersKept` | `RunSpec => BuffersKeptWhileRunning` | `ModuleRun` |
| `AcqInductive` | `AcqSpec => []AcqInv` | |
| `ValuesStayInForce` | `AcqSpec => []ValuesInForce` | `Handel` |
| `RestartsRestore` | `AcqSpec => []RestartRestores` | `Handel` |
| `RunsAreConfigured` | `AcqSpec => []RunConfigured` | `Handel` |
| `CharInductive` | `CharSpec => []CharInv` | |
| `CharacterizationsKept` | `CharSpec => []CharacterizationKept` | `Handel` |
| `FwInductive` | `FwSpec => []FwInv` | |
| `SetsKeepTheirFirmware` | `FwSpec => []SetsHaveTheirFirmware` | `Handel` |
| `ValidationsExact` | `FwSpec => []ValidationExact` | `Handel` |
| `ThreadsEndFirst` | `LifeSpec => []ThreadEndsBeforeModule` | `ModuleLifecycle` |
| `ModuleLeavesNothing` | `LifeSpec => []NothingLeftBehind` | `ModuleLifecycle` |
| `DetectorsOutlive` | `LifeSpec => []DetectorOutlivesMessage` | `ModuleLifecycle` |
| `UpdatesFindDetectors` | `LifeSpec => []UpdateFindsDetector` | `ModuleLifecycle` |

`ChannelSpec` is `RunData`'s own specification of one channel; the run checks its
steps (`ChannelNext`) in `MCDetectorData`, which has the packets beside them.
`TransSpec` is likewise the part of `MCSincClient` that has the transactions, and
`AcqSpec`, `CharSpec` and `FwSpec` are parts of `MCHandel`.

*The buffers.* `NeverOverfull` is not inductive: the pixel header is written at
the level without a check, so its safety rests on the fact that a Next buffer
that is not full has room for a whole pixel. `BuffersInv` says why: a buffer is
empty or holds its header and a whole number of pixels, at most
`PixelsPerBuffer` of them, so a level below the size is below it by a pixel. It
also says that the user holds Active exactly when something is in it, which is
what makes it impossible for a swap to take a buffer away (`UserOwnsActive`),
and that the pixels counted in a Next buffer that has room are those stored in
it. `MappingBuffers_proofs` proves what each buffer operator does to types and
contents; `MappingMode1_proofs` lifts it to the actions. `PixelsAccounted` adds
up the two buffers; its proof splits the actions into those that leave the
contents alone, add to Next, or clear Active. `HeaderMatchesData` holds because
the header is written again at every pixel stored and only there, and because the
pixels counted in a Next buffer with room are those stored (`BuffersInv`).

*The stream.* The refinement maps what waits to the pixels of Active followed by
those of Next. It depends on the roles of the buffers and not on which of the two
has them, so a swap is a stutter; a histogram that is stored is a `Store`, a read
a `HandOver` of what Active has unread, `buffer_done` a `Discard` of what nobody
read, a start a `NewRun`. That at most two buffers' worth waits is `BuffersInv`.

*The read-out loop.* `FileComplete` relates the counters of the loop, which are old
when they are used, to the buffers. `ReaderInv` says what can still be relied on:
a buffer found full stays so until the loop gives it back, an overrun is either
reported at the next poll or none has been, and once `run_active` has answered
that the pixels are all in, nothing is stored or lost any more, so that the
buffer that is not full after the last release is empty. With `PixelsAccounted`
what was written is what was counted. No fairness is used.

*The data of a channel.* `DataInv` has three parts. `WireInv`: data on its way to
the driver comes after the report of the state it was taken in and before the
next one, which is why a run answered to be over sends nothing more. `McaInv`:
the Active buffer is, entry by entry, the spectrum of the histogram received
last, in the settings its control was opened for. `ListInv`: both buffers hold
what was sent and not yet handed over, in lengths that fit. The passes of
`psl__ReceiveListMode_MM3` conserve the words of a packet each, whatever is left
of it.

*The wakeups.* `NoLostWakeup` is inductive with the type of `asyncReady` and
`asyncEvent`: the receiver clears the flag only where it sets the event. The
stops need `ReportsInv`: reports not yet heard lead, one legal change after the
other, from the state the driver knows to that of the device; so a channel that
obeyed a stop has only its ready or error state left to report. `StopInv` says
what a stop in progress has heard, and that its event, unless left over, came
with the ready state.

*The transactions.* `NoLostAnswer` needs `LockHeldInTransaction`: only the thread
in its transaction may clear the event, and its answer is still in the stream
when it does. `HandedOverOnce` follows from `OnceInv`: requests are numbered, the
stream is in their order, what is in the slot is older than the stream, and what
was handed over is in neither. `OwnAnswerInSequence` from `TurnInv`: in
sequence, there is an answer on its way or in the slot only while its thread
waits for it, and then exactly one.

*Calibration and DC offset.* `CalInv` relates five actors: the user's call and its
transaction, the stream, the receiver's message, the detector and the device.
`Conversation` says that the answer to the user's request is in one place.
`ResultOrder`, `CharacterizeOrder` and `WokenOnce` say in which order the stages
still to be handled lie in the stream and which of them the waiting user is woken
by; `StateByHand` and `CharacterizeByHand` what the states the driver sets itself
stand for until the device's own report overtakes them. `DataKept`, `Loads`,
`StateKept` and `ReadsKept` say what the driver knows of the calibration, also
between the two transactions of `psl__UpdateCalibration`: as long as it holds the
detector lock no ready state is handled, so what it read before the end of a
characterization is replaced by what comes after. All of it but the types is under
`~disturbed`. Its first form, under "no fault", was refuted by the attempt to
prove it: a wait that ends by the two locks is no fault of the device but leaves
an answer behind as well.

*The runs.* `RunningIsActive` speaks of the time between calls; `RunInv` extends
it to the calls. A start enters a module only when its run is not active, so
none of its channels takes data until the second loop, which is why the first
loop may open their controls (`BuffersKept`). In the second loop, and in the
stop that follows a failure, the channels that take data are those of the
current module, and those a stop loop has passed take none, so that at its end
none is left. `ModeInv` adds that the first loop leaves every channel of the
module in the mode of the call.

*The life of a module.* `MemoryInv` holds whatever fails: at most one module has
memory, a connection and a live thread, and it is the current one; what is freed
was stopped before, unless a wait for the thread ran out. `ProtocolInv` is about
calls without failures and losses: the response the user waits for is asked for,
on its way, handled or posted, and only one of these; every channel the device
tells of, in the stream or in the thread's hands, has its detector; and while a
channel is ended its last update lies before the answer to the request that ends
it. The steps of the thread and those of the user are proved apart. The memory of
runs is no part of it.

*The acquisition values.* `AcqInv` is the types of the lists and parameters, the
three properties, and `NothingRefused`: while no write was ever refused, the list
of the driver, and a list saved clean, hold values their handlers accept on the
device. `RestartRestores` needs it, since only a list that is accepted to its end
is set up as a whole. Each value commands certain parameters, told apart from
what else its handler writes, and no two values command the same one, except
those the code derives from one another; so after all values have been written
the parameters are those of the list in whatever order they went out
(`WritesMeant`), which is what a restart, a failed set, and a set of one value
have in common. What is read back and kept is read back as the same
(`KeptTwice`, `DacGainTwice`): the list that is saved after a restart is the
list the restart was given. The lists of writes are walked by the community
modules' recursive functions (`FlattenSeq`); what those return is had by a
smallest counterexample (`LeastOf`, `FlattenedRange`) in place of induction.

*The characterizations.* `CharInv` says that a file nobody damaged holds the text of
what was kept, and that what is loaded from it is `Back` of that: the bytes, and
each pulse rounded to the decimals written. Two chains of lemmas carry it. What
is written on lines is read back (`ValuesRead`): the lines after a heading hold
the values in order, `FlattenSeq` of them is had by a smallest counterexample,
and the reader stops at the line that completes the count, so the next heading
is where it looks for it. And whatever the text says, what is read is a
characterization the driver may hold (`ReadTextTypes`), which is what an edited
file leaves of the property. `RestoredNear` bounds what rounding does to the
samples, half a unit each or half a unit for the start and every step of an
even pulse; `RestoredExact` says that a multiple of the unit written is restored
as it is, hence the ramps of x that `Sane` asks for, and whatever has come from
a file before. The attempt to prove the property as it was first written failed for
pulses without samples, and for a y whose x has none (*Other disagreements met*);
both are now excepted by name.

*The firmware.* `FwInv` says of each set that a sequence of addresses is its list
(`IsList`: linked forward and back, none twice), that no two sets share one, that
the numbers in a list differ, and what the status of the last call says of the
ranges. Sorting is the work: `SwappedIs` shows that `xiaSwap` exchanges two
neighbours in the list and touches nothing else, at either end of it;
`InsertedIs` that the inner loop moves one firmware to its place; and
`SortedFromIs` that the outer loop, which meets again what an insertion has
passed, ends with the whole list sorted. It ends because each turn brings the
sorted part one further, or, within it, the place looked at (`ToGo`), so the square
of the heap's length bounds the turns. `SetValidatedIs` and `ValidatedIs` carry
this through the sets. Sorted and without overlap, a list has one range that a
peaking time is inside of, hence the first that fits is it (`ValidationsExact`);
and in a sorted list two ranges that fail `xiaArePTRsValid` do overlap. Each
recursive function is had by one lemma: the loop exists (`LoopExists`), and what
each step keeps holds at its end (`ByCounting`, by a smallest counterexample).
Nothing is assumed of the order of additions. One behind the end of its own list
lengthens it (`GrowsAt`); any other cuts what was behind the last added off that
one's list and puts the new one there (`CutOff`, `LinkedBehind`), or links it to
what is in no list: the lists stay doubly linked and apart, and the sets
concerned are in `mixed` from then on (`AddPtrrMixes`), which the parts that speak
of the user's ranges except.

What stays with TLC: the invariants of `ListPackets` and `SystemConfig`, the
refinement `Delivers` of `SincStream`, and all that is liveness. Liveness and
`ENABLED` are out of the prover's reach. The others rest on what definitions by
recursion compute for every input: the lists of detectors, modules and sets and
the text of the file, packets and messages cut out of bytes. The induction
theorems of the library take an operator, which the provers here cannot be given;
a recursive function can be reasoned about by its smallest counterexample, as
above, but these modules have many, one resting on another, and operators that
recur.

## Findings

Two statements the repository makes about itself that do not hold; each has a run
that ends in a counterexample.

- `ChannelStateStop`: a stop can end by the event of an earlier call, before the
  channel is ready (3897, against "Wait for the ready state.", 3883). A start
  that primed the detector and then saw the histogram state in its second,
  unlocked look leaves its event behind.
- `CalibrationLocks`: `psl__UpdateCalibration` (1526) holds the detector lock over
  its transaction and needs the module lock to take the answer (7006); the
  receiver holds the module lock over a message and needs the detector lock to
  handle a state. A send event left set by a DC offset calculation wakes a
  detc-successful at once, the receiver takes the module lock for the ready report
  before it, and both wait for a mutex, without a timeout and so for ever. A
  response is meant to be waited for with one ("Timeout to wait for a response.",
  `src/inc/falconxn_psl.h:73`). When the user is still waiting for the event, the
  same cycle lasts until its timeout only.

## Other disagreements met

Found while modelling; the specifications do what the code does, and where a
statement is named it is a definition of its module and no run checks it.

*Read-out and runs.* Dropped pixels can bring the pixel count to its limit without
a swap (7930): the partly filled Next is then full and not readable, which
`hd-mm1.c:577` takes for an error (`FullAlwaysReadable`). One
`mapping_pixel_next` makes a gate or sync run wait for the user (5816;
`GateRunNeverWaits`). A trace that has come before the detector is primed is
waited for until the timeout (1484-1486; `TraceWaitsForReady`). After a timeout
the late answer is taken for that of the next request of its type (7017;
`AnswersOwnRequest`). When a start fails and its clean-up does too, `xiaStopRun`
returns success while the channel takes data (`handel_run_control.c:224`;
`StopRunStops`). A list mode packet that is split starts again with its first
words in the second buffer (7554; `StreamUnbroken`), and the words of a stop's
partly filled Next are never handed over. `psl__mm0_sca` sums words read as
`unsigned long` and leaves out the upper bin of each region (5259;
`ScaSumsItsBins`). A read of a mode 0 spectrum goes by the settings of the moment:
after a change in the run it returns the wrong parts with success.
`psl__MappingModeBuffers_Toggle` asserts that what it takes from the user was given
back ("The previous Active and new Next is cleared by buffer_done",
`falconx_mm.c:183-186`). Mode 0 swaps at every histogram (7239) and never gives a
buffer back, so a build with `_DEBUG` aborts at the second histogram of every mode 0
run (`ToggleFollowsDone`). `WithHistogram` swaps, as a build without does: what is
checked of mode 0 is checked of that. A status set on a bad special run name is
overwritten by that of the unlock (6817).

*Calibration.* A refused or timed out DC offset calculation leaves the stage at
"requested", and the next read of the offset fails its assertion (6594). The
result of a calculation can replace the answer that accepted it, which then
counts as timed out. After "detc-successful" has timed out the state is Ready
with its data on its way; a save at once dereferences NULL. A refresh that fails
is never tried again. `psl__SetCalibration` does not look at the answer of the
device. The migration of a characterization from the firmware set's file
(9059-9082) never runs: it is for `XIA_NOT_FOUND` from `psl__LoadChanData`
(6827-6855), which returns success for a channel without data, having set the
state to none itself (6843-6850), and otherwise the status of
`psl__LoadDetCharacterizationS` (9748-9908), which is never that one.

*Life cycle.* `xiaEndDetectors` scans from the channel it has just ended
(`handel_dyn_detector.c:766`), so `xiaEndSystem` does not return with a channel
that was set up (`EndSystemReturns`). A second `xiaStartSystem` fails an assertion,
though `handel_system.c:100` reports a forced restart (`NoAssertFails`).
`xiaRemoveModule` frees the channels before the receiver has stopped
(`ChannelsOutliveThread`). `psl__EndDetChan` frees the detector (9001) with the control
and the buffers of the last run, which only the next start closes (4205, 4405,
4556), and with a trace that came too late to be read (7794; 1513-1517): a set-up, a
run and an exit lose them, nothing failing (`RunMemoryFreed`), which is what
`tests/memory_leak_test/memory_leak_test.c:65` does: "Check that restarting system
works without memory failure". A set-up that fails frees the detector without the
module lock. A thread that ends between two looks at it, 50 ms apart, makes
set-up fail after two seconds. A set-up that fails behind `SincInit` (8620-8757)
does not call `SincCleanup`, as `psl__EndModule` does, and the buffer of the stream
is lost (`StreamFreed`).

*Configuration.* The master set keeps a removed detChan, and one that is renamed
to itself twice (`MasterIsComplete`). Sets that share a member in a diamond are
reported as a loop. Sets are not saved. The saved file is opened for writing
before the new one is read (`handel_file.c:677`, comment at 264): a failure leaves it
empty, and an empty file loads without an error. A module can be saved that will
not load: a set with neither file nor PTRR, a channel without detector. The
section that comes first and last in a file is compared with memory never
written (`handel_file.c:888`). Firmware keywords are read as the name of their
line. `xiaRemoveFirmware` of an alias that is not there removes the last set;
validation stops at the first set with a file and looks at the first firmware
for fippi and dsp, though a comment says each. `xiaAddFirmwareItem` goes by the
firmware added last (`handel_dyn_firmware.c:242-247`, 271) and not by the set named:
after the user has turned to another set, firmware and items go to that one;
after a validation that has sorted the list, what was put behind is cut off;
after a removal, freed memory is written (`FirmwareGoesToItsSet`). Removing a
module removes detectors and firmware others share.

*Values.* A `mca_start_channel` that fails half way leaves the device's lower
limit changed: the next read of `number_mca_channels` changes the list, and what
is saved then may be refused at the next start. `preset_type` after
`preset_value` leaves the parameter of the new type as it was. `mca_refresh` set
in a gate run turns the periodic spectra back on. Runs of modes 1 (user advance)
and 3 leave the statistics gate of an earlier run set. A read of
`detector_polarity` changes the list and not the detector. Times are rounded here
in whole numbers; `psl__SamplesToNS` (739) truncates a double, so for some sample
rates a value read back and written again may lose a sample, which is not
modelled.

*SINC library.* `*bytesConsumed = bufLen - 4` replaces where everything else adds
(`encapsulation.c:162`). `SincReadMessage` returns nothing while a sender never
pauses, and on a closed connection the error before the messages it has. The list mode
reader needs one byte more than the last word, so the last packet is kept back;
a header read before it is complete is lost (`lmbuf.c:237-285`). The text of a
characterization longer than the 80 000 characters first allocated is damaged
where the buffer grows (`xia_sio.c:113`). A pulse of length zero is written with a
value that is not there (9436), and is not read again. The length of a y is compared with
that of its x only when the x have one (9636), so an edited file can make the two
differ.

## What is not modelled

- requests, encoding, arrays and project files of `libsinc-c`, the generated and
  vendored protocol code, logging, the platform layers and the build: no state of
  the system is in them that outlives a call, and they are the larger part of the
  lines of the repository;
- events that wake without having been set (POSIX permits it): waits end by the
  event or by the timeout;
- wrap-around of 32 and 16 bit counters, memory that runs out, mutexes that fail;
- disabled channels in starts and stops; more than one module in the life cycle;
- in `ModuleRun`, that the driver's view of a channel's state may lag behind the
  channel: what this does to one start or stop is the subject of `ChannelState`;
- the content of statistics; datagrams; board operations other than those of the
  mapping modes; the merge sort and the binner, which nothing uses; functions
  without a caller (`xiaModifyDefaultItem` and others);
- names matched by their beginnings, lines over 131 characters, entries over 500
  lines, values that are not whole numbers.

Assumed of the device: it sends the DC offset before it reports ready, a
characterization lasts longer than the call that starts it, a stop does not cancel a
calculation; lengths on the wire that are within limits are right. Assumed of the
user: the configuration of a system that runs is not changed, detChans and set
numbers differ, a detector has a channel, set -1 is left to Handel.

## What is left

- proofs about `SystemConfig` and `ListPackets`: their recursive definitions one
  by one, by smallest counterexamples;
- starts of mapping mode 1 that run out of memory, disabled channels in
  `ModuleRun`, and the identification reads of the board operations;
- composition of `ChannelState` with `ModuleRun`, with the driver's view of a
  channel as a variable of its own.
