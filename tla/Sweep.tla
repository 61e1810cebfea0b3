------------------------------- MODULE Sweep -------------------------------
(***************************************************************************)
(* The sweep runner and its checkpoint store, with whatever happens to a   *)
(* sweep from outside: points that fail, /stop requests, operations of     *)
(* other clients in the windows between points, crashes of the bridge and  *)
(* sweeps taken up again.                                                  *)
(*                                                                         *)
(* An operation is seen as the runner's caller sees it: admitted or        *)
(* refused, under way, ended in some way (Acquisition has the inside).     *)
(* Between the end of one point and the start of the next the sweep's      *)
(* task is suspended, in the broadcast of the idle state or waiting for    *)
(* the operation's task: the instrument is idle then.                      *)
(***************************************************************************)
EXTENDS Naturals, Sequences, FiniteSets

CONSTANTS
  N,          \* the number of points of a sweep
  MaxSweeps,  \* bound: sweeps in the store
  Faults      \* what may happen in the instance

Points == 1..N

AllFaults == {"error", "raise", "outlast", "stop", "impatient", "client", "crash"}

ASSUME SweepAssumption ==
  /\ N \in Nat \ {0}
  /\ MaxSweeps \in Nat
  /\ Faults \subseteq AllFaults

VARIABLES
  status,         \* InstrumentState._status
  stopRequested,  \* InstrumentState._stop_requested
  ops,            \* the operations under way, the client's and the sweep's
  active,         \* SweepRunner._active
  run,            \* SweepRunner._run
  store,          \* CheckpointStore: the sweeps, in order of creation
  stopper,        \* the stop handler, and whether it found a sweep active
  acquired        \* history: each sweep's points whose acquisition ended well

vars == <<status, stopRequested, ops, active, run, store, stopper, acquired>>

(* A task of _run: the points still to come, the one acquired now, and how  *)
(* its acquisition ended.                                                   *)
Runs == [pc: {"none", "loop", "point", "ended", "linger"}, id: Nat, todo: SUBSET Points,
         point: Points \cup {0}, outcome: {"none", "done", "running", "failed", "raised"}]

NoRun == [pc |-> "none", id |-> 0, todo |-> {}, point |-> 0, outcome |-> "none"]

(* Operations: one client's, and a sweep's, by sweep and point.             *)
ClientOp == [id |-> 0, point |-> 0]
Op == [id: Nat, point: Points \cup {0}]

Busy == status # "idle"
SetIdle == status' = "idle" /\ stopRequested' = FALSE

-----------------------------------------------------------------------------
(* Starting and resuming a sweep.                                           *)

Launch(id, skip) ==
  /\ active' = TRUE
  /\ run' = [NoRun EXCEPT !.pc = "loop", !.id = id, !.todo = Points \ skip]
  /\ UNCHANGED <<status, stopRequested, ops, stopper>>

Start ==
  /\ ~Busy /\ ~active
  /\ Len(store) < MaxSweeps
  /\ store' = Append(store, [done |-> FALSE, points |-> {}])
  /\ acquired' = Append(acquired, {})
  /\ Launch(Len(store) + 1, {})

(* The youngest sweep in the store that does not count as done.             *)
LatestIncomplete(id) ==
  /\ ~store[id].done
  /\ \A later \in DOMAIN store : later > id => store[later].done

(* Mutant: a resumed sweep begins at its first point.                       *)
ResumeAll ==
  /\ ~Busy /\ ~active
  /\ \E id \in DOMAIN store : LatestIncomplete(id) /\ Launch(id, {})
  /\ UNCHANGED <<store, acquired>>

Resume ==
  /\ ~Busy /\ ~active
  /\ \E id \in DOMAIN store : LatestIncomplete(id) /\ Launch(id, store[id].points)
  /\ UNCHANGED <<store, acquired>>

-----------------------------------------------------------------------------
(* The loop over the points.                                                *)

AtLoop == run.pc = "loop"
NextPoint(p) == p \in run.todo /\ \A q \in run.todo : p <= q

PointStarts ==
  /\ AtLoop /\ ~stopRequested /\ ~Busy
  /\ status' = "acquiring"
  /\ \E p \in Points :
       /\ NextPoint(p)
       /\ ops' = ops \cup {[id |-> run.id, point |-> p]}
       /\ run' = [run EXCEPT !.pc = "point", !.point = p]
  /\ UNCHANGED <<stopRequested, active, store, stopper, acquired>>

(* Mutant: a sweep that failed goes on as one whose loop is over.           *)
FailFallsThrough ==
  /\ run' = [run EXCEPT !.pc = "linger"]
  /\ active' = FALSE
  /\ store' = [store EXCEPT ![run.id].done = TRUE]
  /\ UNCHANGED <<status, stopRequested, ops, stopper, acquired>>

(* Mutant: a sweep that failed stays active.                                *)
FailStaysActive ==
  /\ run' = NoRun
  /\ UNCHANGED <<status, stopRequested, ops, active, store, stopper, acquired>>

(* SweepError: the sweep ends and stays resumable.                          *)
Fail ==
  /\ run' = NoRun
  /\ active' = FALSE
  /\ UNCHANGED <<status, stopRequested, ops, store, stopper, acquired>>

(* Mutant: an instrument found busy counts as a stop at a boundary.         *)
PointSkippedWhenBusy ==
  /\ AtLoop /\ run.todo # {} /\ ~stopRequested /\ Busy
  /\ run' = [run EXCEPT !.pc = "linger"]
  /\ store' = [store EXCEPT ![run.id].done = TRUE]
  /\ UNCHANGED <<status, stopRequested, ops, active, stopper, acquired>>

(* Somebody else's operation, or the sweep's own previous one, is under way.*)
PointRefused ==
  /\ AtLoop /\ run.todo # {} /\ ~stopRequested /\ Busy
  /\ Fail

(* The loop is over, through all points or by a stop request: both count as *)
(* done.                                                                    *)
LoopEnds ==
  /\ AtLoop
  /\ run.todo = {} \/ stopRequested
  /\ store' = [store EXCEPT ![run.id].done = TRUE]
  /\ run' = [run EXCEPT !.pc = "linger"]
  /\ UNCHANGED <<status, stopRequested, ops, active, stopper, acquired>>

Lingered ==
  /\ run.pc = "linger"
  /\ run' = NoRun
  /\ active' = FALSE
  /\ UNCHANGED <<status, stopRequested, ops, store, stopper, acquired>>

(* The sweep's task waits for operation o.                                  *)
Awaits(o) == run.pc = "point" /\ o = [id |-> run.id, point |-> run.point]

(* How an operation may end: a stop request may abort it at a boundary, and *)
(* one that has a single boundary ends well in spite of it.                 *)
Ends ==
  {"done"} \cup (IF "error" \in Faults \/ stopRequested THEN {"failed"} ELSE {})
           \cup (IF "raise" \in Faults THEN {"raised"} ELSE {})

OperationEnds(o) ==
  /\ o \in ops
  /\ ops' = ops \ {o}
  /\ SetIdle
  /\ \E end \in Ends :
       /\ acquired' = IF end = "done" /\ o # ClientOp
                        THEN [acquired EXCEPT ![o.id] = @ \cup {o.point}] ELSE acquired
       /\ run' = IF Awaits(o) THEN [run EXCEPT !.pc = "ended", !.outcome = end] ELSE run
  /\ UNCHANGED <<active, store, stopper>>

(* run_intensity answers "running" once its grace is over.                  *)
GracePasses ==
  /\ "outlast" \in Faults
  /\ run.pc = "point"
  /\ run' = [run EXCEPT !.pc = "ended", !.outcome = "running"]
  /\ UNCHANGED <<status, stopRequested, ops, active, store, stopper, acquired>>

(* Mutant: a point is recorded however it ended.                            *)
PointRecordedAnyhow ==
  /\ run.pc = "ended" /\ run.outcome \in {"done", "running", "failed"}
  /\ store' = [store EXCEPT ![run.id].points = @ \cup {run.point}]
  /\ run' = [NoRun EXCEPT !.pc = "loop", !.id = run.id, !.todo = run.todo \ {run.point}]
  /\ UNCHANGED <<status, stopRequested, ops, active, stopper, acquired>>

PointRecorded ==
  /\ run.pc = "ended" /\ run.outcome \in {"done", "running"}
  /\ store' = [store EXCEPT ![run.id].points = @ \cup {run.point}]
  /\ run' = [NoRun EXCEPT !.pc = "loop", !.id = run.id, !.todo = run.todo \ {run.point}]
  /\ UNCHANGED <<status, stopRequested, ops, active, stopper, acquired>>

PointFailed ==
  /\ run.pc = "ended" /\ run.outcome = "failed"
  /\ Fail

(* Any other exception ends the task where it stands.                       *)
PointRaised ==
  /\ run.pc = "ended" /\ run.outcome = "raised"
  /\ run' = NoRun
  /\ UNCHANGED <<status, stopRequested, ops, active, store, stopper, acquired>>

-----------------------------------------------------------------------------
(* The rest of the bridge.                                                  *)

ClientStarts ==
  /\ "client" \in Faults
  /\ ~Busy /\ ClientOp \notin ops
  /\ status' = "acquiring"
  /\ ops' = ops \cup {ClientOp}
  /\ UNCHANGED <<stopRequested, active, run, store, stopper, acquired>>

(* With no sweep and no operation to wait for the handler answers at once.  *)
StopAsked ==
  /\ "stop" \in Faults
  /\ stopper = "none"
  /\ stopper' = IF active THEN "sweep" ELSE IF ops # {} THEN "plain" ELSE "none"
  /\ stopRequested' = TRUE
  /\ status' = IF Busy THEN "stopping" ELSE status
  /\ UNCHANGED <<ops, active, run, store, acquired>>

(* The handler has waited for the operation's task and for the sweep, or    *)
(* lost its patience after STOP_WAIT_S; a busy instrument is made idle.     *)
StopAnswered ==
  /\ stopper # "none"
  /\ ~active \/ "impatient" \in Faults
  /\ stopper' = "none"
  /\ IF Busy THEN SetIdle ELSE UNCHANGED <<status, stopRequested>>
  /\ UNCHANGED <<ops, active, run, store, acquired>>

(* The bridge crashes and starts again: the store is all that is left.      *)
Crash ==
  /\ "crash" \in Faults
  /\ status' = "idle" /\ stopRequested' = FALSE /\ stopper' = "none"
  /\ ops' = {} /\ active' = FALSE /\ run' = NoRun
  /\ UNCHANGED <<store, acquired>>

-----------------------------------------------------------------------------
Init ==
  /\ status = "idle" /\ stopRequested = FALSE /\ stopper = "none"
  /\ ops = {} /\ active = FALSE /\ run = NoRun
  /\ store = <<>> /\ acquired = <<>>

RunProceeds ==
  \/ PointStarts \/ PointRefused \/ LoopEnds \/ Lingered
  \/ PointRecorded \/ PointFailed \/ PointRaised

Next ==
  \/ Start \/ Resume \/ RunProceeds
  \/ GracePasses \/ \E o \in ops : OperationEnds(o)
  \/ ClientStarts \/ StopAsked \/ StopAnswered \/ Crash

(* The loop runs the sweep's task, every operation ends, the handler        *)
(* answers.                                                                 *)
Fairness ==
  /\ WF_vars(RunProceeds) /\ WF_vars(StopAnswered)
  /\ \A id \in 0..MaxSweeps, p \in 0..N : WF_vars(OperationEnds([id |-> id, point |-> p]))

Spec == Init /\ [][Next]_vars /\ Fairness

-----------------------------------------------------------------------------
(* Properties.                                                              *)

(* The variables have the values the code gives them, and an operation      *)
(* under way, or a run, is of a sweep in the store.                         *)
TypeOK ==
  /\ status \in {"idle", "acquiring", "stopping"}
  /\ stopRequested \in BOOLEAN
  /\ ops \subseteq Op
  /\ active \in BOOLEAN
  /\ run \in Runs
  /\ store \in Seq([done: BOOLEAN, points: SUBSET Points])
  /\ acquired \in Seq(SUBSET Points) /\ DOMAIN acquired = DOMAIN store
  /\ stopper \in {"none", "plain", "sweep"}
  /\ \A o \in ops \ {ClientOp} : o.id \in DOMAIN store /\ o.point \in Points
  /\ run.pc # "none" => active /\ run.id \in DOMAIN store

(* A point in the store was acquired: nobody who resumes the sweep will     *)
(* miss its data (sweep.py:5: each completed point is checkpointed).        *)
RecordedIsAcquired == \A id \in DOMAIN store : store[id].points \subseteq acquired[id]

(* A sweep that counts as done has all its points; one that does not could  *)
(* not be resumed, since resume looks for the incomplete ones only.         *)
DoneIsComplete == \A id \in DOMAIN store : store[id].done => store[id].points = Points

(* A point that is in the store is never acquired again, over any number of *)
(* failures, crashes and resumptions (sweep.py:6).                          *)
NoPointTwice ==
  [][\A o \in ops' \ ops : o # ClientOp => o.point \notin store[o.id].points]_vars

(* While the stop handler waits for a sweep, the sweep begins no new point  *)
(* (acquire.py:110: the stop takes effect at the next boundary).            *)
StopIsHeeded == [][stopper = "sweep" => ops' \subseteq ops]_vars

(* A sweep that is active ends; until then no other sweep can be started or *)
(* resumed.                                                                 *)
SweepEnds == active ~> ~active

(* Whatever happens around it, the store is a ledger of the points.         *)
Ledger == INSTANCE SweepLedger WITH ledger <- store
ImplementsLedger == Ledger!LedgerSpec
=============================================================================
