# A formal model of the SPAD512S bridge

The bridge (`src/bridge/`, Python, FastAPI on one asyncio loop) sits between a
browser and a single-photon camera whose vendor software accepts one TCP
client, one command at a time. This directory holds TLA+ modules that model
the bridge's control, TLC configurations that check them on small instances,
and theorems about them checked by the TLA+ proof system (TLAPS).

`PROJECT.json` lists components, runs, mutants (a plausible bug per property,
with which TLC finds the property violated), the source lines each definition
stands for, findings, hazards and theorems.

## 1. The system

Everything in the bridge runs on one event loop: a task runs until it awaits
something that is not ready. Worker threads only decode, correct and save. What
is hard is therefore not parallelism but what may happen during each `await`:
another request is admitted, a stop arrives, a reply comes late, the link drops.

| component | state | operations | talks to |
|---|---|---|---|
| instrument (`core/instrument.py`) | status, `stop_requested`, `abort_reason` | `set`, `request_stop`, `is_busy` | read and written by everyone below |
| acquisition runner (`core/acquisition.py`) | `current` (task, result) | intensity (single or batched), gated (one command or paced), live frame | protocol client, health monitor, files, hub |
| calibration and FLIM routes (`routes/calibration.py`, `routes/acquire.py`) | none of their own | calibrations, FLIM, dark count curve | instrument, protocol client |
| stop handler (`routes/acquire.py:106`) | its own wait | `POST /stop` | instrument, runner, queue, sweep |
| health monitor (`services/health.py`) | last reading, alarms, `vex_reduced` | periodic poll, poll at a boundary, auto-protect | protocol client, instrument |
| protocol client (`protocol/client.py`) | connection, command lock, idle watcher | `send_command`, `send_acquire`, `reset`, reconnection | camera, hub |
| sweep (`services/sweep.py`, `core/checkpoint.py`) | one active sweep, SQLite checkpoints | start, resume, one operation per point | runner, instrument |
| queue (`services/queue.py`) | items, log, its own stop latch | start, stop, status | runner |
| scheduler (`services/scheduler.py`) | jobs and their tasks | schedule, get, shutdown | runner, experiment log |
| WebSocket hub (`core/ws_hub.py`) | connections | broadcast of states and previews | browser |
| payload decoder (`protocol/decoder.py`, `protocol/commands.py`) | none | sizes, bit depths, layouts | runner |
| dark reference (`services/dark_reference.py`) | stored references | fingerprint, build, apply, look up | runner, files |
| files (`services/file_writer.py`, `data_location.py`, `routes/data.py`) | acquisition folders, the save path | number a folder, write frames, show and resolve paths | runner (threads), browser |
| experiment log (`services/experiment_log.py`, `routes/experiments.py`) | entries | add, update, rerun | routes, scheduler |
| reducer, sidecar, FLIM, preview | none | movie, record and transforms of a finished acquisition | runner |
| mock server (`src/mock_server`) | simulated camera | one reply per command | protocol client |
| browser (`src/frontend`) | pages, live loop, queue editor | HTTP and one WebSocket | bridge |

What makes each correct, and where it is hard:

- *Instrument and runner.* One operation at a time holds the camera, the busy
  flag is up while it does and never when nobody does, a stop takes effect at
  the next safe boundary and does not leak into the next operation, every
  operation ends. Hard because a stop, a timeout, a poll, a failed lookup or a
  lost link may come at each `await`, and because several callers (`/stop`
  included) write the status.
- *Protocol client.* A reply goes to the request it answers; after a fault the
  stream is dropped or comes into step; a lost connection is noticed although
  nobody asks anything; every call ends. Hard because a cancelled read, a
  watcher, a reset and a reconnection share one stream.
- *Sweep.* A point in the checkpoints has been acquired, is never acquired
  again, and a sweep that counts as done is complete, over failures, crashes and
  resumptions; a sweep that is active ends. Hard because points are operations of
  a shared instrument and the process may die between two of them.
- *Queue and scheduler.* Items run in order, one at a time, and each settles
  with the outcome it had. Hard because of two stop latches and a shared runner.
- *Health monitor.* An over-temperature stops the run under way and no later
  one; the bias is lowered once. Hard because readings age.
- *Decoder, dark reference, files, log.* What ends up on the disk is what the
  camera measured: the bytes asked for are the bytes it sends, each file has the
  frame its text names, a correction subtracts the dark counts of the same
  configuration and never wraps, two saves never share a folder, a logged path
  leads to its run or nowhere, and a rerun takes the same measurement. Hard
  because six ways lead from a body to parameters, three to frames, and because
  saves fail half way, the save path changes, and the bridge restarts.

`PROJECT.json` lists the hazards at their lines with the properties that would
catch them.

## 2. The modules

| module | what it is |
|---|---|
| `Acquisition` | instrument, runner, calibration and FLIM routes, stop handler, health polls, socket lock |
| `InstrumentLease` | the promise the runner keeps: an exclusive lease of the instrument |
| `MCAcquisition` | constants for TLC (symmetry) |
| `AcquisitionProofs` | theorems about `Acquisition` |
| `ProtocolClient` | command lock, watcher, reset, reconnection, and the camera's side of the stream |
| `MCProtocolClient` | constants for TLC (symmetry) |
| `ProtocolClientProofs` | theorems about `ProtocolClient` |
| `Sweep` | sweep runner, checkpoints, the operations its points start |
| `SweepLedger` | the promise of the checkpoints: a ledger of points |
| `SweepProofs` | theorems about `Sweep` |
| `JobQueue` | acquisition queue and scheduler, the runner as they see it, the stop handler |
| `Series` | the promise of the queue: items settle in order, one at a time |
| `JobQueueProofs` | theorems about `JobQueue` |
| `HealthMonitor` | polls, auto-protect, alarms, the routes that set the bias and the limit |
| `HealthProofs` | theorems about `HealthMonitor` |
| `Payload` | commands, the camera's layout of frames, the bridge's decoding, the vendor's own |
| `Requests` | from the body of a request to the parameters of an acquisition, in each route |
| `DarkReference` | fingerprints, building, storing and applying dark references |
| `DataFiles` | save path, folder numbers, files with their text, the movie and its readers |
| `Measurement` | composes these four: from the request to the disk, the reference and the log |
| `MCMeasurement` | constants for TLC (sensor, bodies) |
| `MeasurementProofs` | a theorem about `Measurement`: folders |
| `LogProofs` | theorems about `Measurement`: types, the log, paths and reruns |
| `DataProofs` | theorems about `Measurement`: what the files, the movie and the corrected views hold |

### Acquisition

`op[o]` is one operation: its kind, its program counter between awaits, the
acquisitions left, what it heard of a stop. The kinds are the routes: `single`
and `batched` intensity (a tracked task, `run_intensity`), `live`, `gated` (one
command), `paced` (a command per gate step with a cool-off), `flim`, `calib`,
and `dcr`, the dark count curve that consults no guard. An action is what the
code does between two awaits: admission reads `is_busy` and sets `ACQUIRING`
in one (`Admit`), a step's end decodes and polls (`AfterStep`), the end of an
operation makes the instrument idle, notes the result and announces it. `wire`
is the queue of `asyncio.Lock` in `ProtocolClient`; `poller` is the monitor's
own task; `stopper` a `/stop` request. Readings are `cool`, `hot` or `invalid`;
decoding, correcting and saving either succeed or fail as the code lets them
(`ValueError` is handled in one place and not in another: the model keeps that).

`InstrumentLease` has an owner, an open door and the set of those who talk. The
refinement maps the owner to the operation that holds the instrument.

### ProtocolClient

A frame is a text reply, acquisition data, an ERROR reply or something nobody
asked for; it carries the caller whose request it answers, so that taking
another's answer is visible (`got = "wrong"`). Connections and watcher tasks
are slots. The constant `Faults` says what may go wrong in an instance: the
camera closes the connection, replies ERROR, sends a stray message or stays
silent until the read timeout; an acquisition's caller times out and resets; a
WebSocket client makes a broadcast slow or hangs the one in `_connect`. Without
`slow_ws`, a broadcast ends before anything else happens (`Prompt`).
`WaitForSpawns` is the runtime: in Python 3.11 `asyncio.wait_for` runs its
coroutine in a task of its own, which gives a cancelled watcher a turn to leave
its read; in 3.12 it does not.

### Sweep

`run` is the sweep's task, `store` the checkpoint table (what survives a
crash), `acquired` the points whose data exist, `ops` the operations under way:
the points' and a client's. `Faults` says what may happen: a point fails
(`error`), raises what the loop does not handle (`raise`), outlasts the
runner's grace and answers "running" (`outlast`), `/stop` or auto-protect asks
for a stop (`stop`), the stop handler loses patience (`impatient`), another
client operates between two points (`client`), the bridge crashes (`crash`).

`SweepLedger` promises that a point enters a sweep once, and that a sweep
becomes done only when all its points are there.

### JobQueue

The runner is seen from outside: an operation is admitted or refused as busy,
is under way (`op[c].pc`: announced, in its exchanges, with its data), makes the
instrument idle, and is over with a result; `current` is the task an intensity
operation leaves in `runner.current`. More than one frame is announced in a
broadcast before the task is created, and a task still sends its result and the
state once the instrument is idle (`"tail"`): another client may be admitted then
and take the place in `current` (`overtaken`), and the grace may pass as late. The queue's loop (`run`) is suspended only while it awaits the
runner or the task in `current`, so from the end of an item to the start of the
next is one step (`ItemReturns`, `Proceed`), in which items with parameters that
do not parse, or that are refused, settle at once. Between the operation's end
and that step the instrument is idle and a client may begin. `stopper` is the
stop handler, waiting for a task and for the series. Items are identified by
their series, so that nothing of one is mistaken for another's. `Faults` says
what may happen: an operation ends with an error, times out, outlasts the
grace and answers "running", auto-protect finds the chip hot, somebody presses
stop, the stop handler loses patience, the experiment log raises.

`Series` promises order: an item begins when all before it have settled, a
settled item does not change, what is skipped is the rest of the series.

### HealthMonitor

Three kinds of polls share the readings and the socket: the background task
(`"loop"`), the one an operation awaits at a boundary (`"boundary"`, the only
one that reads while the instrument is busy) and the requests for the readings
(`Readers`). `poll[p]` is where one is between awaits: before the answer to `R`,
to `V`, to the safe bias, or announcing alarms. `wire` is the socket's queue;
an answer and what its caller does up to its next command are one step, as
nothing awaits in between (`request_stop` awaits a broadcast of the status, taken
as prompt here; `ProtocolClient` has the slow ones). `setter` is
`POST /api/settings/vex`, `UpdateConfig` the route that changes `vex_max`, which
both routes keep at or below the ceiling. `Unanswered` is an exchange without a
link, with an ERROR, or with a link that is lost while the device may already
have obeyed. The chip is too hot or is not, as its threshold is not changed here;
the alarms kept are one that comes and goes and one that is latched. `lowered`
and `unheard` are history: that auto-protect was the last to set the bias, and how
often each alarm was raised and not yet announced.

### Measurement

`runs[r]` is one acquisition or calibration, from admission to its entry in the
log: how it was asked for (`via`), the body and the parameters read from it, its
program counter, the data so far (`wire` as received, `stack` as decoded, `view`
after correction), its folder and what is written there. `folders`, `refs` and
`log` are the disk; `savePath`, `busy`, `stop`, `jobs` and `calibration` are
memory, which `Crash` forgets. An exchange with the camera is one step here
(`Acquisition` and `ProtocolClient` have its inside), and so is each file
operation: listing the directory, making the folder, every frame, the sidecar,
the movie. Between any two of them the save path may change, a stop may give
up, the disk may fail (`SaveFails`) or the bridge restart. `Finish` makes the
instrument idle, `Answer` is the route's part after it (log, reference), and a
next run may begin in between. The grace of an intensity run may pass before
(`GraceExpires`) and after the instrument is idle (the second half of `Answer`):
a rerun or a job is then logged without a path. `Happens` counts what the environment does.

The data are real in small: `Expose` gives the counts of a frame by run,
iteration and gate offset, all different; `EncodeFrames` lays them out as the
camera does (packed bits, one or two bytes, interleaved halves), `DecodeFrame`
takes them apart as the bridge does, and `VendorImage`, from the vendor's
`cSPAD.py`, is the reference for what they mean. `GateFrames` reads the movie as
the laboratory's scripts do. Timestamps, the encoding of PNG and the names of
the files are left out.

## 3. The runs

| run | instance | shows |
|---|---|---|
| `AcquisitionUnattended` | 2 operations of every guarded kind, 1 poll, 3 acquisitions each; 933k states | nobody calls `/stop`: the guard is exclusive, auto-protect stops at a boundary and leaves nothing behind, a run it stops is shown as stopping, with the reason, and the end of an intensity run as what it was, pile-up mode and frame agree, a result lands on its own record, the runner implements the lease |
| `AcquisitionStops` | 2 operations (intensity, gated, dark count curve), 1 `/stop` | the busy flag is never left up by nobody; every operation ends, whatever a stop does meanwhile |
| `AcquisitionStopGated` | the same with gated and calibration | violation: `/stop` admits a second operation (finding) |
| `ClientLockstep` | 3 callers; close, ERROR, silence, a hung WebSocket | exchanges stay in lockstep (one at a time, on an open stream, no reply left over), replies are one's own |
| `ClientRecovery` | 2 callers; close, timeouts with resets | every call ends, loss is noticed though nobody asks, a stream out of step heals |
| `ClientFaults` | 2 callers; ERROR, silence, stray messages, Python 3.12 | every call ends even where the stream goes out of step |
| `SweepUnstopped` | 3 sweeps of 3 points; errors, exceptions, other clients, crashes | recorded means acquired; the store implements the ledger |
| `SweepStopped` | 2 sweeps of 2 points; all faults but escaping exceptions | no recorded point is acquired again; an active sweep ends |
| `JobQueue` | 1 series of up to 2 batched or paced items, 1 job and 1 client that take single frames; timeouts, late answers, tasks that outlive the busy instrument, stops, auto-protect, a failing log; 755k states | a stop ends the series, refusals are others' fault, outcomes are the items' own (unless another intensity run took the item's place in `runner.current`), series and jobs end, the queue implements `Series` |
| `HealthMonitor` | bias and limit 0 to 2, all three kinds of polls, 2 upsets (manual bias, new limit, operation, ERROR, lost link) | an intervention of auto-protect stays shown until a manual change, no alarm is announced twice, a bias above the limit does not stay |
| `Measurement` | 2 requests (intensity in batches, 1 bit, one sweep, paced, along a list, reversed, dark references, FLIM, live, calibration, reruns, jobs), a sensor of 4 rows, 2 events (failures, late answers, save path, stop, restart, scheduling, busy reruns); 924k states | files hold what was measured and say so, the movie is read right, a correction subtracts the right dark counts, every run has its folder, a logged path leads to its run or nowhere, a rerun repeats |
| `SweepStopDone` | 1 sweep of 3 points, stops | violation: a stopped sweep is done with points missing (finding) |

**Bounds.** Two operations are enough for every race the properties speak of:
one holds or leaves, one enters. Three acquisitions per run give a first, a
middle and a last boundary. Three callers give a holder, a waiter and one that
arrives; two connections and two watchers are the current and the previous one,
and an action that needs a free slot waits for one. `MaxStream` stops new calls
and stray messages while more than that is under way. Three sweeps of three
points: one done, one failed, one resumed, with a point before, at and after.
Two items: one whose end clears the instrument's stop request and one that must
not begin then; a job and a client can both hold the runner in between. Three
levels of bias are below, at and above a limit; two upsets put a change of one
kind into the flight of another. In `Measurement`, two runs are a reference and
its user, an entry and its rerun, a folder and the next one, or two savers at
once; two events are a failure and a restart, a stop and its giving up, a
changed save path before and after. Batches of two with three iterations give a
full and a partial batch; four rows and widths 2 and 4 tell a rotation from a
transposition and a narrow frame from a full one; counts reach beyond a byte.
The run states safety only, and the bridge is at rest when the requests are used
up: hence `CHECK_DEADLOCK FALSE`.

**Fairness.** Weak fairness of what the event loop runs: tasks that are ready,
worker threads and sleeps that end, replies that come or time out. Never of
what a user or the camera may leave undone: starting an operation, pressing
stop, closing or losing the link. `ProtocolClient` uses strong fairness for
callers and watchers: they are in the loop's first-in first-out ready queue,
and reconnections, which involve a sleep, cannot overtake them for ever.
`HealthMonitor` assumes that the link comes back, since only then can a bias be
commanded, and strong fairness of an operation's end: it has finitely many
boundaries, which the model does not count.

## 4. The theorems

TLC checks the instances above; TLAPS proves the following for any number of
operations, polls, stop requests, callers, steps, sweeps, points, series, items
and runs, and any sensor. The modules' assumptions about their constants are
named first; what a theorem assumes beyond them is in its statement and said here.

`AcquisitionProofs`, from `ConstantsAssumption`:

- `TypeCorrect`: the variables keep their types, and a run that is about to
  acquire has a step left. `Inv` is `TypeOK /\ StepsLeft /\ KindFits`: the type
  alone is not inductive, since a counter could be decreased at zero; it needs
  which kinds of operation are at which program counters (`KindFits`).
- `MutualExclusion` (without `/stop`): one operation holds the instrument and
  the busy flag is up. Inductive with the type.
- `StopDoesNotLeak` (without `/stop`): an idle instrument has no stop request.
- `BusyHasOwner` (with `/stop`): a busy flag has an owner, provided no dark
  reference lookup raises (`"raise" \notin RefOutcomes`): with it, the flag stays
  up for ever, since the lookup is outside the `try` (`acquisition.py:267`).
- `RunnerImplementsLease`: the initial state maps to the lease's, and every step
  to a step of it or a stutter, action by action.
- `ModeMatches` (without `/stop`, and without the dark count curve, which looks
  at no flag): from its command for the pile-up mode to the end of its exchanges
  the camera is in the mode of the operation that has the instrument
  (`TunedFits`), since whoever else would change it has to be admitted first.
- `AtMostOneStep` (without `/stop`): after auto-protect's request at most one more
  step completes. Only the end of the holder clears a request (`Marked`); a step
  that completed late is on its way to the boundary that reads it (`LateFits`).
- `StopShown` (without `/stop`): a request carries its reason (`ReasonFits`), so a
  run asked to stop is shown as stopping with it (`AskedIsShown`); a run begins
  with a record that has no result yet, and is cut short only to write its data
  (`RecordFits`), so the step that ends it shows its own end (`EndIsShown`).
- `NotesItsOwn` (without `/stop`): `runner.current` is the record of an intensity
  run as long as its task has something to note (`TaskFits`).

`ProtocolClientProofs`, from `ClientAssumption`:

- `ClientTypes`, under every fault: with `TypeOK`, that a watcher or a caller that
  reads has a connection (`Types`).
- `LockstepKept` and `OwnAnswers`, under `PairingFaults`: the camera may close the
  connection, reply ERROR or stay silent, WebSocket clients may hang the
  announcement of a connection, and a cancelled watcher leaves its read before
  anything is sent (Python 3.11). One invariant carries both (`PairedInv`, with
  the order of the lock): the only watcher is the current one, on the current
  connection, and absent during a call (`WatchFits`); what is not connected is
  empty or about to be dropped (`ConnFits`); in the stream there is a call's
  request, its answer, or nothing (`ExchangeFits`). Each fault left out breaks a
  property, as section 5 shows, so the hypothesis is as weak as it can be fault by
  fault.

`SweepProofs`, from `SweepAssumption`:

- `SweepTypes`; the inductive `Inv` is `TypeOK /\ RunFits`: the run's own list of
  points still to do agrees with its row in the store.
- `RecordedOnce`: a point in the store is never acquired again, under all faults.
- `StoreIsLedger`: without stops, the store implements the ledger.
- `RecordedAcquired`: if no point outlasts the runner's grace, what is recorded
  has been acquired, stops and crashes included.

`JobQueueProofs`, from `JobQueueAssumption`, under every choice of faults:

- `QueueTypes`: types, with `RunFits` (the item the task waits for is running,
  those before have an outcome, those after are pending), without which a result
  could settle an item that is not there.
- `SeriesKept`: the queue implements `Series`. Each step of the loop is shown to
  be a `QueueStep`: the items up to a cut have settled, and behind it one begins
  or the series is over.
- `StopHeeded`: a handler that waits for the present series has set the queue's
  latch (`StopFits`), and a latched loop begins nothing.
- `OutcomeOwn`: as long as an item's task is not over, it is the one in `current`,
  or another operation has taken its place, which is noted in `overtaken` for good
  (`WaitsFit`, `OvertakenStays`). The task the queue finds there is therefore its
  own item's, but for the items in `overtaken`, of which the theorem says nothing.
  Exclusion does not help here: the instrument is idle before a task is over.
- `RefusedOnlyByOthers`: an instrument that is busy while no job or client
  operates is busy with the item the queue waits for (`BusyByItem`), so the queue
  never refuses an item on its own account.

`HealthProofs`, from `HealthAssumption`:

- `HealthTypes`: types, and with them that no bias above the ceiling is ever
  commanded. Inductive with `SetterFits`: the request that sets the bias is in
  the socket's queue at most once, and only while it has a value to set.
- `InterventionShown`: once auto-protect has set the bias the readings show it,
  until somebody sets the bias by hand.
- `AlarmsOnce`: an alarm raised and not announced is in the hands of one poll: the
  count of each is the number of polls that hold it (`Balanced`), and a poll that
  announces nothing holds none (`TellFits`).

`MeasurementProofs`, from nothing but the specification:

- `OwnFolders`: no two runs share a folder, unless one was admitted beside the
  other after a stop that gave up waiting. A number is chosen in one step and
  the folder made in a later one, without a lock, so `OwnFolder` is not
  inductive: `Inv` adds that runs under way together were admitted together
  (`Apart`), that only such a run may be about to make a folder another has, that
  a run which has not made its folder has written nothing (`FolderFits`), and that
  every directory has a last number (`NumbersEnd`), so that the next is free.

`LogProofs`, from `MeasurementAssumption`, `BodiesAssumption` and
`DataRootAssumption`:

- `MeasurementTypes`. `LogInv` relates each entry to its run and back (a job's to
  its schedule), `RefsFit` says a stored reference has frames, `OthersFit` the rest:
  a reference is only built of frames that were taken, a folder only written by a
  run that has made it.
- `RerunsReproduce`, if no body names two integration times that differ
  (`OneTime`): the intensity route prefers the one, a rerun the other
  (`acquire.py:97`), and such an entry is repeated with another exposure.
- `LoggedPathsSaved`, if no save path on the bridge's host is a directory below
  that of the data (`RootApart`). With the save path `data/sub`, and `D`
  and `D/sub` paths of the browser's machine, a run kept in `data/1` and shown
  as `D/sub/1` resolves, once the save path is `D`, to `data/sub/1`, which may be
  another run's. `PathInv`: a run is shown the path of its own folder, when that
  is complete; an entry has the path of its run; of a job's and a route's entry
  about one run, one has a path at most.

`DataProofs`, from the same and `PayloadAssumption`, `WidthsAssumption`, if light
gives counts (`LightCounts`) and the requests are ones the camera can serve
(`RequestsLegal`). The latter says of the routes what their pydantic models do,
numbers are numbers and keys they do not know are dropped, and of the dictionaries
nobody checks (jobs, overrides of a rerun) that bit depth, iterations and widths are
the camera's; section 5 has what happens otherwise.

- `FilesMeasured`: each file of a folder that is a run's alone shows, for the
  iteration and the step its text names, what the vendor's client would show of
  what the camera saw, up to the loss of section 5, and the sidecar tells the
  truth.
- `CurvesMeasured`: the analysis scripts read from the movie, at each gate step, the
  counts of every iteration at its offset.

- `CorrectionsRight`: a corrected view is the signal less the dark counts of a
  measurement with the same configuration, at the same step and pixel, and no run
  fails for its correction (`CorrectionFits`).

The argument for the first two has three layers. *Bytes*: what `EncodeFrames` packs, one bit, one or
two bytes per pixel in the camera's halves, is what `DecodeFrame` unpacks, frame
by frame (`OneShown`), and a reply holds the frames of a batch or of a sweep in
order (`IntensityData`, `GatedData`). That the flattened reply falls into these
pieces needs induction: a set of lengths for which it fails has no least member
(`NoneFirst`, by the library's well-founded minimum, so without its schemes).
*Runs*: `DataInv` says that what a run holds is what its parameters ask for as
far as it has got, in wire format, decoded, or corrected, in whatever batches or
steps it came, with iterations outside and gate steps inside (`RowAndColumn`).
*Disk*: `FilesInv` says that every folder was made by a run and that a run's own
holds just the frames it has written so far; `BesideInv` knows who ran beside
whom and which run bears out the state of a calibration. None is inductive alone;
`WholeInv` is their conjunction with those above.

For the third, `DarkInv` says that each stored reference, and the one a run has
resolved, is what `build_reference` makes of all the frames of some dark measurement
(`BuiltOf`), with its fingerprint; that a view is what `apply_dark_correction` makes
of the frames of its run and its reference, and a gated run that has one has taken
all its steps (only a paced one is stopped early, and then goes without). Equal
fingerprints mean equal configurations and frames of one size (`FingerprintTells`),
so that what is corrected is whole sweeps (`SweepsCorrectable`), and each frame meets
the reference of its own step. That half of the repeats are below the median and half
above (`MedianIsDark`) needs no sorting: `Smallest` is defined by how many values
are below, and the least bound that enough values stay under is one (`SmallestIs`).

**Only model-checked.** All liveness, since fairness is defined by ENABLED, of which
the prover knows nothing: that calls end, loss is noticed and the stream heals
(`CallsEnd`, `LossIsNoticed`, `Heals`), that operations, sweeps, series and jobs
end (`OperationsEnd`, `SweepEnds`, `SeriesEnds`, `JobsEnd`), that a bias above the
limit does not stay (`OverBiasEnds`).

## 5. Disagreements between code and documents

Two are runs of their own (`AcquisitionStopGated`, `SweepStopDone`; see
"findings"). Others show when the constants of a passing run are changed as
said here; TLC then reports the property.

| property | change | what happens |
|---|---|---|
| `StopTakesEffect` | `AcquisitionStops` with `Kinds = {"paced"}`, `MaxSteps = 3` | `/stop` finds no task in `runner.current`, forces idle and so clears the request a paced sweep was to read (`acquire.py:139`); `docs/constraints.md:35` wants stops at safe boundaries |
| `PileupMatches` | `AcquisitionUnattended` with `Kinds = {"single", "dcr"}` | the unguarded dark count curve (`calibration.py:375`) changes the pile-up mode between another operation's two commands; `docs/constraints.md:21` |
| `PollsBetweenAcquisitions` | `AcquisitionUnattended` with `Kinds = {"single"}` | a poll that began while idle is served between the commands of an acquisition (`health.py:112`); `docs/constraints.md:22` |
| `AnswersAreOwn` | `ClientRecovery`, `MaxStream = 1`, `Faults = {"timeout"}` | the timed-out exchange frees the lock before `reset`: a waiter sends on the desynced stream and takes the late answer (`acquisition.py:404`) |
| `AnswersAreOwn` | the same, `Faults = {}`, `WaitForSpawns = FALSE` | on Python 3.12 a command meets the watcher it cancelled (`client.py:198`) |
| `LossIsNoticed` | `ClientRecovery` with `Faults = {"close", "error"}` | after an acquisition refused with ERROR the watcher is not restarted (`client.py:274`), so a lost link goes unnoticed |
| `Lockstep` | `ClientLockstep` with `Faults = {"close", "slow_ws"}` | a disconnection suspended in a broadcast tears down the new connection (`client.py:175`) |
| `Heals` | `ClientRecovery`, `MaxStream = 1`, `Faults = {"stray"}` | a command in the 0.2 s after a stray message leaves the stream out of step and unwatched (`client.py:230`) |
| `StopIsHeeded` | `SweepStopDone` | a point's end clears the stop request the sweep was to read (`instrument.py:54`) |
| `RecordedIsAcquired` | `SweepUnstopped` with `"outlast"` | a point that answers "running" is recorded before its data exist (`sweep.py:242`) |
| `SweepEnds` | `SweepStopped` with `"raise"`, without `"crash"`, `CHECK_DEADLOCK FALSE` | an exception other than `SweepError` leaves the sweep active for ever (`sweep.py:192`) |
| `SkippedWasStopped` | `JobQueue` with `Modes = OtherModes = {"single"}`, `Faults = {"stop"}` | `/stop` on an idle instrument stays latched in `stop_requested`; the series started next is skipped as a whole (`queue.py:91`), although `start` resets the queue's own latch (`queue.py:83`) |
| `CompletedHasEnded` | `JobQueue` with `Faults = {"outlast"}` | a job whose acquisition answers "running" is recorded as completed (`scheduler.py:86`); `docs/PRD.md:81` wants completion or failure visible |
| `OutcomeIsOwn` without its exception for `overtaken` | `JobQueue` with `Faults = {"outlast"}`, `CHECK_DEADLOCK FALSE` | the instrument is idle while an item's task still sends its last frames (`acquisition.py:303-311`): a client is admitted, its task becomes `runner.current`, the item's grace passes, and the item settles with the client's result (`queue.py:106`), with no stop involved; with `"stop"` and `"impatient"` a stop handler that loses patience opens the same way earlier. The comment at `queue.py:103` says that "the series must wait for true completion" |
| `OnlyLowers` | `HealthMonitor` with `MaxUpsets = 1`, `Faults = {}` | a lower bias set by hand is queued between a poll's `V` and its command: auto-protect, which is to reduce the bias (`docs/plan.md:504`), raises it to the limit (`health.py:177`) |
| `ReducedMeansLowered` | the same | the latch "auto-protect intervened" (`health.py:181`) is set also while an operation is under way, when nothing was commanded |

What follows was met while modelling the way from a request to the disk. The
model does what the code does; the properties are worded so that they state what
is left.

- Pile-up corrected counts of up to 8 bits are saved as bytes and lose what is
  above 255 (`file_writer.py:109`), although the decoder widens them; hence the
  exception in `Shows`.
- The text and the sidecar of a paced run that was stopped half way tell of the
  steps that were asked for (`acquisition.py:162`), so the analysis scripts read
  its movie with the wrong number of steps; hence the condition in
  `CurvesAreMeasured`. The docstring at `acquisition.py:768` wants "persistence,
  previews, decay curves, and dark correction behave identically to the continuous
  path".
- The iterations and steps of a gated request are not checked; a paced run of no
  steps is logged as aborted, without a path.
- A rerun is logged as completed whatever came of it, a busy instrument included
  (`experiments.py:62`), and an entry that is not gated is rerun as an intensity
  acquisition, one of FLIM, 1 bit or a dark reference included; hence the modes
  named in `RerunReproduces`. `docs/PRD.md:110` wants "one click to
  repeat a past acquisition".
- The intensity route prefers `integration_time` to `integration_time_ms`
  (`acquire.py:97`), every other reader the other way round
  (`sweep.py:248`); the name and the reducer are dropped by reruns, sweeps, the
  queue and the scheduler.
- An intensity run that outlasts its grace is never logged, nor is a sweep's
  point (`docs/PRD.md:108`: "every acquisition recorded"); an aborted run is logged as completed. A job that outlasts it is
  completed without a path (`scheduler.py:86`), so is one that times out, one that finds the instrument
  busy has failed for good, and the jobs a restart loses stay "scheduled".
- A logged path is what a client was shown when the run was saved. After the save
  path has changed, or a restart has forgotten it, such a path may lead nowhere;
  `LoggedIsSaved` says that it never leads to another run.
- `GET` of the calibrations' states marks the breakdown calibration as done
  whenever the camera is connected, also after one that failed
  (`calibration.py:154`); hence the exception in `FilesAreMeasured`.
- `GET /api/acquire/status` takes the result from the last intensity run's record
  (`acquire.py:167`), also during and after the runs that are not noted there: after
  an intensity run that was aborted, a gated run is shown as running with that
  run's reason, and once it has ended well as aborted; a paced run that
  auto-protect stopped is shown with its reason only until it ends. `StopIsShown` says what is
  left: the reason while a run stops, and the end of an intensity run at its end.
- The sensor's size is fixed at startup for the runner (`main.py:70`), while the
  routes read it anew; unchecked paths (sweep, queue, scheduler, rerun) can pass
  a bit depth that the camera coerces, and the frame then has another length than
  expected: the model ends such a run with an error, as the code does. The
  camera makes 8 of a depth it does not have (2, 3 or 5, say): where the length is
  that of 8 bits too, the run succeeds and its files hold more counts than the
  depth in its record has; hence `RequestsLegal`. No iterations, asked for by such a dictionary,
  raise an exception at the preview.
- The offsets of paced steps are rounded (`acquisition.py:772`): steps below one
  unit collapse; the model has whole steps.
- `ExperimentLog.entries` ignores the offset unless a limit is given
  (`experiment_log.py:195`).

## 6. Not modelled, and why

- Numerical transforms of finished data (previews and their histograms, FLIM
  phasors and regions, the arithmetic of the dark count curve): no control, and
  floating point is beyond TLC.
- Presets, search and paging of the log, system information, settings, static
  pages: single reads and writes of rows.
- The browser (the socket's reconnection, the live loop's switch, the queue's
  editor) and which browsers the hub's frames reach: the bridge relies on nothing
  the browser keeps, and the bridge promises nothing about lost frames; the
  requests it sends are the inputs of the models. Two hazards stay listed without
  a property for that reason.
- Start scripts; the vendor's and the laboratory's scripts but for how they
  decode a frame and read a movie.
- Concurrency of the disk with other programs.

## 7. Plan

In this order; all are done.

1. `InstrumentLease`, `Acquisition`: the heart of the bridge.
2. `AcquisitionProofs`: types, exclusion, clean idle, owner, refinement.
3. `ProtocolClient`: framing, recovery.
4. `SweepLedger`, `Sweep`: checkpoints over crashes.
5. `SweepProofs`.
6. The runs above.
7. `Series`, `JobQueue`, `JobQueueProofs`: order, outcomes and stops of a series.
8. `HealthMonitor`, `HealthProofs`: readings, alarms, `vex_reduced`, auto-protect,
   changes of the limit and of the bias in between.
9. `Payload`, `Requests`, `DarkReference`: frames, parameters, corrections.
10. `DataFiles`, `Measurement`: folders, files, log, over changed save paths,
    failures and restarts.
11. `MeasurementProofs`: every run its folder.
12. `ProtocolClientProofs`: types, `Lockstep` and `AnswersAreOwn` under the faults
    of `ClientLockstep`.
13. The remaining safety properties of `Acquisition`, `JobQueue`, `HealthMonitor`.
14. `LogProofs`, `DataProofs`: types, paths, reruns, files, curves and corrections.
