---------------------------- MODULE Acquisition ----------------------------
(***************************************************************************)
(* The instrument state machine, the acquisition runner, the /stop handler *)
(* and the health polls that share the single vendor socket.               *)
(*                                                                         *)
(* The bridge is one asyncio event loop: the code between two awaits that  *)
(* really suspend runs alone, so such a stretch is one action here.        *)
(* InstrumentState is built without a listener (bridge/main.py:50), hence  *)
(* `await instrument.set(...)` never suspends and a busy check followed by *)
(* it is atomic.  What does suspend is a vendor exchange, a worker thread, *)
(* a sleep and a WebSocket broadcast.                                      *)
(*                                                                         *)
(* An operation is one call that talks to the camera.  Op identifiers are  *)
(* slots: a finished operation frees its slot.                             *)
(***************************************************************************)
EXTENDS Naturals, Sequences, SequencesExt

CONSTANTS
  Ops,          \* slots for operations that run concurrently
  Pollers,      \* health polls that are not part of an operation
  Stoppers,     \* concurrent POST /api/acquire/stop requests
  Kinds,        \* the kinds of operation the clients use
  PileModes,    \* the pile-up settings the clients ask for
  MaxSteps,     \* bound: batches of an intensity run, steps of a paced sweep
  RefOutcomes,  \* how the dark reference lookup may end: "ok", "error", "raise"
  None

GuardedKinds ==
  {"single", "batched", "live", "gated", "paced", "flim", "calib"}
AllKinds == GuardedKinds \cup {"dcr"}
IntensityKinds == {"single", "batched"}
Results == {"done", "aborted", "error", "timeout"}

ASSUME ConstantsAssumption ==
  /\ Kinds \subseteq AllKinds
  /\ PileModes \subseteq BOOLEAN
  /\ MaxSteps \in Nat \ {0, 1}
  /\ RefOutcomes \subseteq {"ok", "error", "raise"}
  /\ None \notin Ops \cup Pollers \cup {"over_temperature"}
  /\ None \notin [status : Results, reason : {None, "over_temperature"}]
  /\ "woken" \notin Ops /\ "off" \notin Ops
  /\ Ops \cap Pollers = {}

VARIABLES
  status,         \* InstrumentState._status
  stopRequested,  \* InstrumentState._stop_requested
  abortReason,    \* InstrumentState._abort_reason
  op,             \* the operations in progress
  current,        \* AcquisitionRunner.current: the intensity task and its result
  wire,           \* ProtocolClient._lock: its head holds it, the rest wait in turn
  pileup,         \* the pile-up mode last sent to the camera (command PU)
  connected,      \* ProtocolClient._connected
  reading,        \* HealthMonitor._readings: the chip temperature last read
  poller,         \* the polls that are not part of an operation
  stopper         \* the stop requests: off, woken, or the task awaited

instrument == <<status, stopRequested, abortReason>>
vars == <<instrument, op, current, wire, pileup, connected, reading, poller, stopper>>

-----------------------------------------------------------------------------
(* Operations.                                                              *)

Statuses == {"idle", "acquiring", "calibrating", "stopping"}

(* Where an operation is suspended: in a broadcast (announce, tail), as a   *)
(* created task (begin), in one of its vendor exchanges (setup, io, pollR,  *)
(* pollV), in the alarm broadcast of its poll (check), in the cool-off      *)
(* sleep, in a worker thread (decode, post), or on its way out of a timeout.*)
WirePcs == {"setup", "io", "pollR", "pollV"}
Pcs == WirePcs \cup {"off", "announce", "begin", "decode", "check", "cooloff",
                     "post", "timedout", "dropping", "tail"}

Operation == [kind: AllKinds \cup {None}, pc: Pcs, pile: BOOLEAN,
              left: 0..MaxSteps, aborted: BOOLEAN, asked: BOOLEAN, late: 0..2]

(* AcquisitionRunner.current: the intensity task, None once it is done or   *)
(* before the first, and the result noted for GET /status.                  *)
Current == [task: Ops \cup {None},
            result: {None} \cup [status: Results, reason: {None, "over_temperature"}]]

(* `asked` records that a stop was requested while the operation held the   *)
(* instrument, `late` counts the steps that completed after that (to 2).    *)
Fresh(kind, pc, pile, steps) ==
  [kind |-> kind, pc |-> pc, pile |-> pile, left |-> steps,
   aborted |-> FALSE, asked |-> FALSE, late |-> 0]

Off == Fresh(None, "off", FALSE, 0)

IsBusyWithoutStopping == status \in {"acquiring", "calibrating"}

IsBusy == status \in {"acquiring", "calibrating", "stopping"}

(* The operation is between the busy check that admitted it and the         *)
(* `finally` that returns the instrument to idle.                           *)
Holding(o) == o.kind \in GuardedKinds /\ o.pc \notin {"off", "tail"}
Holds(o) == Holding(op[o])

At(o, pc) == op[o].pc = pc
GoTo(o, pc) == op' = [op EXCEPT ![o].pc = pc]

-----------------------------------------------------------------------------
(* InstrumentState.                                                         *)

SetIdleKeepsStop == status' = "idle" /\ UNCHANGED <<stopRequested, abortReason>>

SetIdle ==
  /\ status' = "idle"
  /\ stopRequested' = FALSE
  /\ abortReason' = None

RequestStopStatusOnly(reason) ==
  /\ abortReason' = IF reason = None THEN abortReason ELSE reason
  /\ status' = IF IsBusy THEN "stopping" ELSE status
  /\ UNCHANGED stopRequested

RequestStop(reason) ==
  /\ stopRequested' = TRUE
  /\ abortReason' = IF reason = None THEN abortReason ELSE reason
  /\ status' = IF IsBusy THEN "stopping" ELSE status

(* The operations f with the stop noted on those that hold the instrument.  *)
Asked(f) == [o \in Ops |-> IF Holding(f[o]) THEN [f[o] EXCEPT !.asked = TRUE] ELSE f[o]]

-----------------------------------------------------------------------------
(* The socket lock: an asyncio.Lock, which is granted in the order asked.   *)

HoldsWire(u) == wire # <<>> /\ Head(wire) = u
Requeue(u) == wire' = Append(Tail(wire), u)
ReleaseWire == wire' = Tail(wire)
Enqueue(u) == wire' = Append(wire, u)

WithoutKeepsPlace(u) == wire

Without(u) ==
  IF \E i \in 1..Len(wire) : wire[i] = u
    THEN RemoveAt(wire, CHOOSE i \in 1..Len(wire) : wire[i] = u)
    ELSE wire

-----------------------------------------------------------------------------
(* How an operation ends.                                                   *)

(* A task ends: the stop requests that await it become runnable, and the    *)
(* runner's reference to it is that of a finished task.                     *)
EndTask(o) ==
  /\ stopper' = [s \in Stoppers |-> IF stopper[s] = o THEN "woken" ELSE stopper[s]]
  /\ current' = IF current.task = o THEN [current EXCEPT !.task = None] ELSE current

(* An intensity run that produced a result: idle, the result is noted on    *)
(* the runner's current record, whatever task that now belongs to, and the  *)
(* task goes on to broadcast the preview and the state.                     *)
EndIntensityIdleFirst(o, result) ==
  /\ SetIdle
  /\ current' = [current EXCEPT !.result = [status |-> result, reason |-> abortReason']]
  /\ GoTo(o, "tail")
  /\ UNCHANGED stopper

EndIntensity(o, result) ==
  /\ SetIdle
  /\ current' = [current EXCEPT !.result =
                   [status |-> result,
                    reason |-> IF result = "aborted" THEN abortReason ELSE None]]
  /\ GoTo(o, "tail")
  /\ UNCHANGED stopper

(* The other operations run inside the request that asked for them.         *)
EndInline(o) ==
  /\ IF op[o].kind = "dcr" THEN UNCHANGED instrument ELSE SetIdle
  /\ op' = [op EXCEPT ![o] = Off]
  /\ UNCHANGED <<current, stopper>>

End(o, result) ==
  IF op[o].kind \in IntensityKinds THEN EndIntensity(o, result) ELSE EndInline(o)

-----------------------------------------------------------------------------
(* Admission: each entry point refuses while the instrument is busy.        *)

Steps(kind) ==
  CASE kind = "batched" -> 2..MaxSteps
    [] kind = "paced"   -> 1..MaxSteps
    [] OTHER            -> {1}

Admit(o, kind) ==
  /\ kind \in Kinds
  /\ At(o, "off")
  /\ ~IsBusy
  /\ status' = IF kind = "calib" THEN "calibrating" ELSE "acquiring"
  /\ UNCHANGED <<stopRequested, abortReason>>

(* run_intensity: more than one iteration narrates `busy` (and suspends)    *)
(* before the task exists, one iteration creates it at once.                *)
RunIntensity(o) ==
  \E kind \in IntensityKinds, pile \in PileModes, announces \in BOOLEAN :
    \E n \in Steps(kind) :
      /\ kind = "batched" => announces
      /\ Admit(o, kind)
      /\ IF announces
           THEN /\ op' = [op EXCEPT ![o] = Fresh(kind, "announce", pile, n)]
                /\ UNCHANGED current
           ELSE /\ op' = [op EXCEPT ![o] = Fresh(kind, "begin", pile, n)]
                /\ current' = [task |-> o, result |-> None]
      /\ UNCHANGED <<wire, pileup, connected, reading, poller, stopper>>

(* The broadcast is over: the task is created and made the current one.     *)
CreateTaskUntracked(o) ==
  /\ At(o, "announce") /\ op[o].kind \in IntensityKinds
  /\ GoTo(o, "begin")
  /\ UNCHANGED <<instrument, current, wire, pileup, connected, reading, poller, stopper>>

CreateTask(o) ==
  /\ At(o, "announce") /\ op[o].kind \in IntensityKinds
  /\ GoTo(o, "begin")
  /\ current' = [task |-> o, result |-> None]
  /\ UNCHANGED <<instrument, wire, pileup, connected, reading, poller, stopper>>

ReferenceErrorStaysBusy(o) ==
  /\ GoTo(o, "tail")
  /\ UNCHANGED <<instrument, current, wire, stopper>>

(* A reported lookup error: idle, and no result on the current record.      *)
ReferenceError(o) ==
  /\ SetIdle
  /\ GoTo(o, "tail")
  /\ UNCHANGED <<current, wire, stopper>>

(* The task's first step looks the dark reference up, outside its try: an   *)
(* exception ends the task with the instrument left busy.                   *)
BeginIntensity(o) ==
  /\ At(o, "begin")
  /\ \E ref \in RefOutcomes :
       \/ /\ ref = "ok"
          /\ GoTo(o, "setup") /\ Enqueue(o)
          /\ UNCHANGED <<instrument, current, stopper>>
       \/ /\ ref = "error"
          /\ ReferenceError(o)
       \/ /\ ref = "raise"
          /\ op' = [op EXCEPT ![o] = Off]
          /\ EndTask(o)
          /\ UNCHANGED <<instrument, wire>>
  /\ UNCHANGED <<pileup, connected, reading, poller>>

(* run_gated narrates `busy` first; a paced run has a cool-off.             *)
RunGated(o) ==
  \E kind \in {"gated", "paced"}, pile \in PileModes : \E n \in Steps(kind) :
    /\ Admit(o, kind)
    /\ op' = [op EXCEPT ![o] = Fresh(kind, "announce", pile, n)]
    /\ UNCHANGED <<current, wire, pileup, connected, reading, poller, stopper>>

(* _gated_op: here a failed lookup, reported or raised, reaches `finally`.  *)
BeginGated(o) ==
  /\ At(o, "announce") /\ op[o].kind \in {"gated", "paced"}
  /\ \E ref \in RefOutcomes :
       IF ref = "ok"
         THEN /\ GoTo(o, "setup") /\ Enqueue(o)
              /\ UNCHANGED <<instrument, current, stopper>>
         ELSE /\ EndInline(o)
              /\ UNCHANGED wire
  /\ UNCHANGED <<pileup, connected, reading, poller>>

CaptureLiveFrame(o) ==
  /\ Admit(o, "live")
  /\ op' = [op EXCEPT ![o] = Fresh("live", "setup", FALSE, 1)]
  /\ Enqueue(o)
  /\ UNCHANGED <<current, pileup, connected, reading, poller, stopper>>

(* A calibration, or a FLIM acquisition: one command, no pile-up setting.   *)
Calibrate(o) ==
  /\ Admit(o, "calib")
  /\ op' = [op EXCEPT ![o] = Fresh("calib", "io", FALSE, 1)]
  /\ Enqueue(o)
  /\ UNCHANGED <<current, pileup, connected, reading, poller, stopper>>

AcquireFlim(o) ==
  /\ Admit(o, "flim")
  /\ op' = [op EXCEPT ![o] = Fresh("flim", "io", FALSE, 1)]
  /\ Enqueue(o)
  /\ UNCHANGED <<current, pileup, connected, reading, poller, stopper>>

(* The dark count curve acquires a frame without consulting the busy flag.  *)
DcrCurve(o) ==
  /\ "dcr" \in Kinds
  /\ At(o, "off") /\ connected
  /\ op' = [op EXCEPT ![o] = Fresh("dcr", "setup", FALSE, 1)]
  /\ Enqueue(o)
  /\ UNCHANGED <<instrument, current, pileup, connected, reading, poller, stopper>>

-----------------------------------------------------------------------------
(* Vendor exchanges of an operation, while it holds the socket lock.        *)

(* The pile-up mode is set; the acquisition command asks for the lock anew. *)
SetupDone(o) ==
  /\ At(o, "setup") /\ HoldsWire(o) /\ connected
  /\ pileup' = op[o].pile
  /\ GoTo(o, "io") /\ Requeue(o)
  /\ UNCHANGED <<instrument, current, connected, reading, poller, stopper>>

Later(n) == IF n = 2 THEN 2 ELSE n + 1

(* A batched run polls after every batch, a paced one once the step is      *)
(* decoded, after every step but the last.                                  *)
AfterStep(o) ==
  CASE op[o].kind = "batched" -> "pollR"
    [] op[o].kind = "paced" /\ op[o].left > 1 -> "decode"
    [] OTHER -> "post"

(* One step's data is complete.                                             *)
StepDone(o) ==
  /\ At(o, "io") /\ HoldsWire(o) /\ connected
  /\ IF op[o].kind = "calib"
       THEN EndInline(o)
       ELSE /\ op' = [op EXCEPT ![o] =
                        [op[o] EXCEPT !.left = op[o].left - 1,
                                      !.pc = AfterStep(o),
                                      !.late = IF op[o].asked THEN Later(op[o].late)
                                                              ELSE op[o].late]]
            /\ UNCHANGED <<instrument, current, stopper>>
  /\ IF AfterStep(o) = "pollR" THEN Requeue(o) ELSE ReleaseWire
  /\ UNCHANGED <<pileup, connected, reading, poller>>

(* The poll that follows marks the readings invalid, and sends nothing,     *)
(* when the connection was lost meanwhile.                                  *)
StepDecoded(o) ==
  /\ At(o, "decode")
  /\ IF connected
       THEN GoTo(o, "pollR") /\ Enqueue(o) /\ UNCHANGED reading
       ELSE GoTo(o, "check") /\ reading' = "invalid" /\ UNCHANGED wire
  /\ UNCHANGED <<instrument, current, pileup, connected, poller, stopper>>

(* The camera answers ERROR, the link is lost under the exchange (by a read *)
(* timeout or an end of stream), or it was lost before its turn came.       *)
ExchangeFailed(o) ==
  /\ op[o].pc \in {"setup", "io"} /\ HoldsWire(o)
  /\ connected' \in {FALSE, connected}
  /\ End(o, "error")
  /\ ReleaseWire
  /\ UNCHANGED <<pileup, reading, poller>>

(* timeout_s expires on an intensity or live exchange, in flight or still   *)
(* queued: the lock is given up first, the connection is dropped next, and  *)
(* only then is the instrument idle.                                        *)
TimeoutExpires(o) ==
  /\ op[o].kind \in IntensityKinds \cup {"live"}
  /\ op[o].pc \in {"setup", "io"}
  /\ GoTo(o, "timedout")
  /\ wire' = Without(o)
  /\ UNCHANGED <<instrument, current, pileup, connected, reading, poller, stopper>>

Reset(o) ==
  /\ At(o, "timedout")
  /\ connected' = FALSE
  /\ GoTo(o, "dropping")
  /\ UNCHANGED <<instrument, current, wire, pileup, reading, poller, stopper>>

TimeoutReported(o) ==
  /\ At(o, "dropping")
  /\ End(o, "timeout")
  /\ UNCHANGED <<wire, pileup, connected, reading, poller>>

-----------------------------------------------------------------------------
(* Health polls.                                                            *)

(* _apply_auto_protect on reading r, f being the operations as they proceed *)
AutoProtect(r, f) ==
  IF r = "hot" /\ IsBusy
    THEN /\ RequestStop("over_temperature")
         /\ op' = Asked(f)
    ELSE /\ op' = f
         /\ UNCHANGED instrument

(* R is answered and V asks for the lock; or R fails, which poll() hides,   *)
(* and the protection is applied to the reading at hand.                    *)
PollTemperature(o) ==
  /\ At(o, "pollR") /\ HoldsWire(o)
  /\ \/ /\ connected
        /\ GoTo(o, "pollV") /\ Requeue(o)
        /\ UNCHANGED <<instrument, connected>>
     \/ /\ connected' \in {FALSE, connected}
        /\ AutoProtect(reading, [op EXCEPT ![o].pc = "check"])
        /\ ReleaseWire
  /\ UNCHANGED <<current, pileup, reading, poller, stopper>>

(* V is answered: the reading is renewed.  Or V fails and it is not.        *)
PollVoltage(o) ==
  /\ At(o, "pollV") /\ HoldsWire(o)
  /\ \/ /\ connected /\ UNCHANGED connected
        /\ reading' \in {"cool", "hot"}
     \/ /\ connected' \in {FALSE, connected}
        /\ UNCHANGED reading
  /\ AutoProtect(reading', [op EXCEPT ![o].pc = "check"])
  /\ ReleaseWire
  /\ UNCHANGED <<current, pileup, poller, stopper>>

MoreStepsOffByOne(o) == op[o].left >= 0

(* Batches, or gate offsets, that the run has still to acquire.             *)
MoreSteps(o) == op[o].left > 0

(* The safe boundary: stop here, go on with the next batch, or cool off.    *)
Boundary(o) ==
  /\ At(o, "check")
  /\ \/ /\ stopRequested
        /\ op' = [op EXCEPT ![o].pc = "post", ![o].aborted = TRUE]
        /\ UNCHANGED wire
     \/ /\ ~stopRequested /\ ~MoreSteps(o)
        /\ GoTo(o, "post")
        /\ UNCHANGED wire
     \/ /\ ~stopRequested /\ MoreSteps(o) /\ op[o].kind = "batched"
        /\ GoTo(o, "setup") /\ Enqueue(o)
     \/ /\ ~stopRequested /\ MoreSteps(o) /\ op[o].kind = "paced"
        /\ GoTo(o, "cooloff")
        /\ UNCHANGED wire
  /\ UNCHANGED <<instrument, current, pileup, connected, reading, poller, stopper>>

CooledOff(o) ==
  /\ At(o, "cooloff")
  /\ GoTo(o, "io") /\ Enqueue(o)
  /\ UNCHANGED <<instrument, current, pileup, connected, reading, poller, stopper>>

-----------------------------------------------------------------------------
(* The worker thread has decoded and written the data, or failed: a failed  *)
(* dark correction is reported, any other exception leaves the task.        *)

Postprocessed(o) ==
  /\ At(o, "post")
  /\ End(o, IF op[o].aborted THEN "aborted" ELSE "done")
  /\ UNCHANGED <<wire, pileup, connected, reading, poller>>

CorrectionFailed(o) ==
  /\ At(o, "post") /\ op[o].kind \in IntensityKinds
  /\ EndIntensity(o, "error")
  /\ UNCHANGED <<wire, pileup, connected, reading, poller>>

WriteRaised(o) ==
  /\ At(o, "post") /\ op[o].kind \in IntensityKinds
  /\ SetIdle
  /\ op' = [op EXCEPT ![o] = Off]
  /\ EndTask(o)
  /\ UNCHANGED <<wire, pileup, connected, reading, poller>>

(* The preview and state frames are out: the intensity task is finished.    *)
TaskDone(o) ==
  /\ At(o, "tail")
  /\ op' = [op EXCEPT ![o] = Off]
  /\ EndTask(o)
  /\ UNCHANGED <<instrument, wire, pileup, connected, reading, poller>>

-----------------------------------------------------------------------------
(* A poll by the monitor's loop or by GET /api/health: it asks the camera   *)
(* only while the instrument is idle, and protects in any case.             *)

PollTick(p) ==
  /\ poller[p] = "sleep"
  /\ \/ /\ ~IsBusy /\ connected
        /\ poller' = [poller EXCEPT ![p] = "readR"]
        /\ Enqueue(p)
        /\ UNCHANGED <<instrument, op, reading>>
     \/ /\ ~IsBusy /\ ~connected
        /\ reading' = "invalid"
        /\ UNCHANGED <<instrument, op, wire, poller>>
     \/ /\ IsBusy
        /\ AutoProtect(reading, op)
        /\ UNCHANGED <<wire, reading, poller>>
  /\ UNCHANGED <<current, pileup, connected, stopper>>

PollReply(p) ==
  /\ poller[p] \in {"readR", "readV"} /\ HoldsWire(p)
  /\ \/ /\ poller[p] = "readR" /\ connected
        /\ poller' = [poller EXCEPT ![p] = "readV"]
        /\ Requeue(p)
        /\ UNCHANGED <<instrument, op, connected, reading>>
     \/ /\ \/ /\ poller[p] = "readV" /\ connected /\ UNCHANGED connected
              /\ reading' \in {"cool", "hot"}
           \/ /\ connected' \in {FALSE, connected}
              /\ UNCHANGED reading
        /\ AutoProtect(reading', op)
        /\ poller' = [poller EXCEPT ![p] = "sleep"]
        /\ ReleaseWire
  /\ UNCHANGED <<current, pileup, stopper>>

-----------------------------------------------------------------------------
(* POST /api/acquire/stop.  With an intensity task in progress the handler  *)
(* awaits it; with none, it goes straight on to force the instrument idle,  *)
(* whatever other operation holds it.                                       *)

Stop(s) ==
  /\ stopper[s] = "off"
  /\ IF current.task # None
       THEN /\ RequestStop(None)
            /\ op' = Asked(op)
            /\ stopper' = [stopper EXCEPT ![s] = current.task]
       ELSE /\ IF IsBusy THEN SetIdle ELSE RequestStop(None)
            /\ op' = Asked(op)
            /\ UNCHANGED stopper
  /\ UNCHANGED <<current, wire, pileup, connected, reading, poller>>

(* The awaited task ended, or twenty seconds went by.                       *)
StopReturns(s) ==
  /\ stopper[s] # "off"
  /\ stopper' = [stopper EXCEPT ![s] = "off"]
  /\ IF IsBusy THEN SetIdle ELSE UNCHANGED instrument
  /\ UNCHANGED <<op, current, wire, pileup, connected, reading, poller>>

(* GET /api/acquire/status, without a sweep: what it says while the handler *)
(* waits for the next boundary to pass is what it says then.                *)
acquire_status ==
  LET last == current.result
  IN  [state |->
         CASE stopRequested \/ status = "stopping" -> "stopping"
           [] ~stopRequested /\ status \in {"acquiring", "calibrating"} -> "running"
           [] ~stopRequested /\ status = "idle" ->
                IF last = None THEN "idle"
                ELSE IF last.status = "done" THEN "completed" ELSE last.status,
       reason |-> IF abortReason # None THEN abortReason
                  ELSE IF last = None THEN None ELSE last.reason]

-----------------------------------------------------------------------------
(* The link.                                                                *)

(* The idle watcher sees the peer close the connection.                     *)
LinkLost ==
  /\ connected /\ wire = <<>>
  /\ connected' = FALSE
  /\ UNCHANGED <<instrument, op, current, wire, pileup, reading, poller, stopper>>

Reconnect ==
  /\ ~connected
  /\ connected' = TRUE
  /\ UNCHANGED <<instrument, op, current, wire, pileup, reading, poller, stopper>>

-----------------------------------------------------------------------------
Init ==
  /\ status = "idle" /\ stopRequested = FALSE /\ abortReason = None
  /\ op = [o \in Ops |-> Off]
  /\ current = [task |-> None, result |-> None]
  /\ wire = <<>>
  /\ pileup = FALSE
  /\ connected \in BOOLEAN
  /\ reading = "invalid"
  /\ poller = [p \in Pollers |-> "sleep"]
  /\ stopper = [s \in Stoppers |-> "off"]

(* A client or a service starts an operation.                               *)
Begin(o) ==
  \/ RunIntensity(o) \/ RunGated(o) \/ CaptureLiveFrame(o)
  \/ Calibrate(o) \/ AcquireFlim(o) \/ DcrCurve(o)

(* What an operation does of its own accord once it has begun.              *)
Proceed(o) ==
  \/ CreateTask(o) \/ BeginIntensity(o) \/ BeginGated(o)
  \/ SetupDone(o) \/ StepDone(o) \/ StepDecoded(o) \/ ExchangeFailed(o)
  \/ Reset(o) \/ TimeoutReported(o)
  \/ PollTemperature(o) \/ PollVoltage(o) \/ Boundary(o) \/ CooledOff(o)
  \/ Postprocessed(o) \/ CorrectionFailed(o) \/ WriteRaised(o) \/ TaskDone(o)

Operate ==
  \/ \E o \in Ops : Begin(o) \/ Proceed(o) \/ TimeoutExpires(o)
  \/ \E p \in Pollers : PollTick(p) \/ PollReply(p)
  \/ LinkLost \/ Reconnect

Next == Operate \/ \E s \in Stoppers : Stop(s) \/ StopReturns(s)

(* Every exchange ends (client.py bounds each read by read_timeout), worker *)
(* threads and sleeps end, and the event loop runs what is runnable; nobody *)
(* has to start an operation or press stop.                                 *)
Fairness ==
  /\ \A o \in Ops : WF_vars(Proceed(o))
  /\ \A p \in Pollers : WF_vars(PollReply(p))

Spec == Init /\ [][Next]_vars /\ Fairness /\ \A s \in Stoppers : WF_vars(StopReturns(s))

(* The same program when nobody calls /stop: only auto-protect stops runs.  *)
UnattendedSpec == Init /\ [][Operate]_vars /\ Fairness

-----------------------------------------------------------------------------
(* Properties.                                                              *)

(* The variables have the values the code gives them.                       *)
TypeOK ==
  /\ status \in Statuses
  /\ stopRequested \in BOOLEAN
  /\ abortReason \in {None, "over_temperature"}
  /\ op \in [Ops -> Operation]
  /\ current \in Current
  /\ wire \in Seq(Ops \cup Pollers)
  /\ pileup \in BOOLEAN
  /\ connected \in BOOLEAN
  /\ reading \in {"invalid", "cool", "hot"}
  /\ poller \in [Pollers -> {"sleep", "readR", "readV"}]
  /\ stopper \in [Stoppers -> Ops \cup {"off", "woken"}]

(* A run that is to issue another acquisition has a step left to acquire.   *)
StepsLeft ==
  \A o \in Ops : op[o].pc \in {"announce", "begin", "setup", "io", "decode", "cooloff"}
                   => op[o].left >= 1

(* Two operations never hold the instrument at once: no command starts      *)
(* while another still streams, the abort window of docs/constraints.md:23  *)
(* included.                                                                *)
SingleHolder == \A o1, o2 \in Ops : Holds(o1) /\ Holds(o2) => o1 = o2

(* The busy guard is up while an operation holds the instrument.            *)
HolderIsBusy == \A o \in Ops : Holds(o) => IsBusy

(* What docs/constraints.md:21 asks of the busy guard.                      *)
OneOperation == SingleHolder /\ HolderIsBusy

(* A busy instrument is held by an operation that will return it to idle:   *)
(* the flag is never left up by nobody, stop requests and races included.   *)
BusyIsHeld == IsBusy => \E o \in Ops : Holds(o)

(* Between operations neither a stop request nor an abort reason is left    *)
(* over for the next operation to trip on.                                  *)
IdleIsClean == ~IsBusy => ~stopRequested /\ abortReason = None

(* Once a stop is requested at most the step in flight completes, in a      *)
(* batched or paced run: the safe boundary of docs/constraints.md:35.       *)
StopTakesEffect == \A o \in Ops : op[o].late <= 1

(* A run that auto-protect asked to stop, of whichever kind, is shown as    *)
(* stopping, and why, until it lets go of the instrument.                   *)
AskedIsShown ==
  \A o \in Ops :
    Holds(o) /\ op[o].asked
      => acquire_status = [state |-> "stopping", reason |-> "over_temperature"]

(* An intensity run that ends is shown as it ended: as aborted, and why,    *)
(* just when it was cut short and its data were written; as an error when   *)
(* they were not; and otherwise, a stop that came too late to cut it short  *)
(* included, with no reason.                                                *)
EndIsShown ==
  [][\A o \in Ops :
       op[o].kind \in IntensityKinds /\ Holds(o) /\ op'[o].pc = "tail" =>
         acquire_status' \in
           IF op[o].aborted
             THEN {[state |-> "aborted", reason |-> "over_temperature"],
                   [state |-> "error", reason |-> None]}
             ELSE [state : {"idle", "completed", "error", "timeout"}, reason : {None}]]_vars

(* What GET /status shows of a run that auto-protect stops, while it does   *)
(* and at its end, although the end of the run clears the reason.  Nothing  *)
(* is said of what is shown during and after the runs that are not noted in *)
(* `current` (gated, paced, FLIM, live): it is the last intensity run's     *)
(* outcome, and no reason for a paced run that was stopped (acquire.py:167).*)
StopIsShown == []AskedIsShown /\ EndIsShown

(* The camera is in the pile-up mode of the operation whose acquisition it  *)
(* executes: the frame size the bridge expects depends on it.               *)
PileupMatches ==
  \A o \in Ops : At(o, "io") /\ HoldsWire(o) /\ op[o].kind \notin {"calib", "flim"}
                   => pileup = op[o].pile

(* The monitor's own poll has the socket only between acquisitions, not     *)
(* between the commands of one (docs/constraints.md:22).                    *)
PollsBetweenAcquisitions ==
  \A p \in Pollers, o \in Ops : HoldsWire(p) => ~(Holds(o) /\ At(o, "io"))

(* A result is noted on the runner's current record only by the task that   *)
(* record belongs to (GET /status reports it as the last result).           *)
ResultIsOwn ==
  [][\A o \in Ops :
       /\ op[o].kind \in IntensityKinds /\ op[o].pc # "tail" /\ op'[o].pc = "tail"
       /\ current'.result # current.result
       => current.task = o]_vars

(* The abstract promise, and how the runner keeps it: the owner is the      *)
(* operation that holds the instrument.                                     *)
Owner == IF \E o \in Ops : Holds(o) THEN CHOOSE o \in Ops : Holds(o) ELSE None

Lease == INSTANCE InstrumentLease WITH
           owner <- Owner,
           open <- ~IsBusy,
           talking <- {o \in Ops : Holds(o) /\ op[o].pc \in WirePcs}

(* Unless /stop is used, the runner implements a lease of the instrument.   *)
ImplementsLease == Lease!LeaseSpec

(* Every operation that was admitted ends, and then, as a busy instrument   *)
(* is held by one (BusyIsHeld), the instrument is free.                     *)
OperationsEnd == \A o \in Ops : op[o].pc # "off" ~> op[o].pc = "off"
=============================================================================
