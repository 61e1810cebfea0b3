------------------------------ MODULE JobQueue ------------------------------
(***************************************************************************)
(* The acquisition queue and the scheduler, on the instrument they share   *)
(* with other clients, the stop handler and auto-protect.                  *)
(*                                                                         *)
(* An operation is seen as its caller sees it: admitted or refused, under  *)
(* way, ended with a result (Acquisition has the inside).  The instrument  *)
(* is idle from there on, while the task of an intensity operation is not  *)
(* yet over and until its caller goes on: a client may begin in between.   *)
(* From there to the start of the next item the queue is not suspended, so *)
(* that is one step.                                                       *)
(***************************************************************************)
EXTENDS Naturals, Sequences

CONSTANTS
  MaxItems,   \* bound: items of a series
  MaxSeries,  \* bound: series started
  Jobs,       \* scheduled jobs
  Clients,    \* the other requests to the runner: a user's, a sweep's
  Modes,      \* the kinds of item in the instance
  OtherModes, \* the kinds of operation of jobs and clients
  Faults,     \* what may happen in the instance
  None

(* An intensity run has one frame, several in one batch, or several batches;*)
(* parameters may fail to parse.                                            *)
AllModes == {"single", "several", "batched", "gated", "paced", "bad"}
AllFaults == {"error", "timeout", "outlast", "hot", "stop", "impatient", "log"}

(* The callers that are items of the queue: a series and a place in it.     *)
QueuedItems == (1..MaxSeries) \X (1..MaxItems)

ASSUME JobQueueAssumption ==
  /\ MaxItems \in Nat /\ MaxSeries \in Nat
  /\ Modes \cup OtherModes \subseteq AllModes
  /\ Faults \subseteq AllFaults
  /\ None \notin Jobs \cup Clients
  /\ (Jobs \cup Clients) \cap QueuedItems = {}
  /\ None \notin QueuedItems

VARIABLES
  status,         \* InstrumentState._status
  stopRequested,  \* InstrumentState._stop_requested
  op,             \* the operation of each caller of the runner
  current,        \* AcquisitionRunner.current: whose task it is
  mode,           \* AcquisitionQueue._items: each item's mode and parameters
  items,          \* AcquisitionQueue._items: each item's status
  active,         \* AcquisitionQueue._active
  latch,          \* AcquisitionQueue._stop
  run,            \* AcquisitionQueue._run: where the task is
  series,         \* history: how many series were started
  job,            \* ScheduledJob.state
  stopper,        \* the stop handler, the task and the series it waits for
  overtaken       \* history: items whose task lost its place in `current`
                  \* to another operation before it was over

instrumentVars == <<status, stopRequested, op, current, overtaken>>
queueVars == <<mode, items, active, latch, run, series>>
vars == <<instrumentVars, queueVars, job, stopper>>

Item(i) == <<series, i>>
Callers == QueuedItems \cup Jobs \cup Clients

(* Only an intensity operation is a task the runner keeps in `current`.     *)
Tracked(m) == m \in {"single", "several", "batched"}

Results == {"done", "aborted", "error", "timeout"}

(* Admitted, its task still to be created ("announce"); with the camera     *)
(* ("io"); with its data, to be written ("post"); the instrument idle, the  *)
(* task not done ("tail"); the task done, or the caller answered ("over").  *)
Operation == [pc: {"off", "announce", "io", "post", "tail", "over"},
              mode: AllModes \cup {"none"}, result: Results \cup {"none"}]
Off == [pc |-> "off", mode |-> "none", result |-> "none"]

Busy == status # "idle"
SetIdle == status' = "idle" /\ stopRequested' = FALSE
UnderWay(c) == op[c].pc \in {"announce", "io", "post"}
Unfinished(c) == op[c].pc \in {"io", "post", "tail"}

(* The task of the queue: not there, yet to begin, waiting for the runner,  *)
(* or for the task it found in `current` after a "running".                 *)
Runs == [pc: {"none", "new", "runner", "task"}, i: 0..MaxItems, waits: Callers \cup {None}]
NoRun == [pc |-> "none", i |-> 0, waits |-> None]

Stopper == [on: BOOLEAN, task: Callers \cup {None}, series: Nat]
NotStopping == [on |-> FALSE, task |-> None, series |-> 0]

-----------------------------------------------------------------------------
(* Operations.                                                              *)

(* Mutant: the runner keeps the first task it is given.                     *)
MakeCurrentOnce(c) ==
  /\ current' = IF current = None THEN c ELSE current
  /\ overtaken' = IF current \in QueuedItems /\ Unfinished(current) /\ current # c
                   THEN overtaken \cup {current} ELSE overtaken

(* The task of c's intensity operation is created.                          *)
MakeCurrent(c) ==
  /\ current' = c
  /\ overtaken' = IF current \in QueuedItems /\ Unfinished(current) /\ current # c
                   THEN overtaken \cup {current} ELSE overtaken

(* More than one frame is announced, in a broadcast, before the task is     *)
(* created.                                                                 *)
First(m) == IF m \in {"several", "batched"} THEN "announce" ELSE "io"

(* The runner admits an operation of c.                                     *)
Begin(c, m) ==
  /\ status' = "acquiring"
  /\ op' = [op EXCEPT ![c] = [pc |-> First(m), mode |-> m, result |-> "none"]]
  /\ IF m = "single" THEN MakeCurrent(c) ELSE UNCHANGED <<current, overtaken>>
  /\ UNCHANGED stopRequested

CreateTask(c) ==
  /\ op[c].pc = "announce"
  /\ op' = [op EXCEPT ![c].pc = "io"]
  /\ MakeCurrent(c)
  /\ UNCHANGED <<status, stopRequested, queueVars, job, stopper>>

(* A batched run looks for a stop after its last batch as well, a paced     *)
(* sweep only between steps; the other kinds never look.                    *)
Verdicts(m) ==
  (IF m = "batched" /\ stopRequested THEN {"aborted"} ELSE {"done"})
  \cup (IF m = "paced" /\ stopRequested THEN {"aborted"} ELSE {})
  \cup ({"error"} \cap Faults)
  \cup (IF Tracked(m) THEN {"timeout"} \cap Faults ELSE {})

IoEnds(c) ==
  /\ op[c].pc = "io"
  /\ \E r \in Verdicts(op[c].mode) : op' = [op EXCEPT ![c].pc = "post", ![c].result = r]
  /\ UNCHANGED <<status, stopRequested, current, overtaken, queueVars, job, stopper>>

(* The instrument is idle; the task of an intensity operation has its       *)
(* result and state frames still to send.                                   *)
OperationEnds(c) ==
  /\ op[c].pc = "post"
  /\ op' = [op EXCEPT ![c].pc = IF Tracked(op[c].mode) THEN "tail" ELSE "over"]
  /\ SetIdle
  /\ UNCHANGED <<current, overtaken, queueVars, job, stopper>>

TaskEnds(c) ==
  /\ op[c].pc = "tail"
  /\ op' = [op EXCEPT ![c].pc = "over"]
  /\ UNCHANGED <<status, stopRequested, current, overtaken, queueVars, job, stopper>>

(* A poll finds the chip too hot while an operation is under way.           *)
AutoProtect ==
  /\ "hot" \in Faults /\ Busy
  /\ stopRequested' = TRUE /\ status' = "stopping"
  /\ UNCHANGED <<op, current, overtaken, queueVars, job, stopper>>

(* Another request, or a sweep's point, uses the runner; a client here is   *)
(* one such request, that begins one operation.                             *)
ClientBegins(k) ==
  /\ ~Busy /\ op[k].pc = "off"
  /\ \E m \in OtherModes \ {"bad"} : Begin(k, m)
  /\ UNCHANGED <<queueVars, job, stopper>>

-----------------------------------------------------------------------------
(* The queue.                                                               *)

Start ==
  /\ ~active /\ ~Busy
  /\ series < MaxSeries
  /\ \E n \in 1..MaxItems : /\ mode' \in [1..n -> Modes]
                            /\ items' = [i \in 1..n |-> "pending"]
  /\ active' = TRUE
  /\ latch' = FALSE
  /\ series' = series + 1
  /\ run' = [NoRun EXCEPT !.pc = "new"]
  /\ UNCHANGED <<instrumentVars, job, stopper>>

(* Mutant: no `finally`, what was not begun stays as it is.                 *)
EndSeriesUnsettled(its) ==
  /\ items' = its
  /\ active' = FALSE
  /\ run' = NoRun
  /\ UNCHANGED instrumentVars

(* Mutant: the flag is not cleared.                                         *)
EndSeriesActive(its) ==
  /\ items' = [i \in DOMAIN its |-> IF its[i] \in {"pending", "running"} THEN "skipped" ELSE its[i]]
  /\ run' = NoRun
  /\ UNCHANGED <<instrumentVars, active>>

(* However the loop ended, what has not settled is skipped.                 *)
EndSeries(its) ==
  /\ items' = [i \in DOMAIN its |-> IF its[i] \in {"pending", "running"} THEN "skipped" ELSE its[i]]
  /\ active' = FALSE
  /\ run' = NoRun
  /\ UNCHANGED instrumentVars

(* The loop takes the items up from the first pending one.  Parameters that *)
(* do not parse and a refusal by the runner are errors of the item, and the *)
(* loop goes on to the next without a pause.                                *)
Proceed(its) ==
  LET pending == {i \in DOMAIN its : its[i] = "pending"}
      fit == {i \in pending : mode[i] # "bad"}
  IN CASE latch \/ stopRequested -> EndSeries(its)
       [] ~(latch \/ stopRequested) /\ (fit = {} \/ Busy) ->
            EndSeries([i \in DOMAIN its |-> IF i \in pending THEN "error" ELSE its[i]])
       [] OTHER ->
            \E i \in fit :
              /\ \A j \in fit : i <= j
              /\ items' = [j \in DOMAIN its |-> IF j = i THEN "running"
                             ELSE IF j \in pending /\ j < i THEN "error" ELSE its[j]]
              /\ Begin(Item(i), mode[i])
              /\ run' = [pc |-> "runner", i |-> i, waits |-> Item(i)]
              /\ UNCHANGED active

RunBegins ==
  /\ run.pc = "new"
  /\ Proceed(items)
  /\ UNCHANGED <<mode, latch, series, job, stopper>>

(* Mutant: the runner's word is the item's status, a timeout for instance.  *)
OutcomeRaw(r) == r

(* Mutant: an item is done unless the runner calls it an error.             *)
OutcomeUnlessError(r) == IF r = "error" THEN "error" ELSE "done"

Outcome(r) == IF r \in {"done", "aborted"} THEN r ELSE "error"

Settle(r) == [items EXCEPT ![run.i] = Outcome(r)]

(* The runner, or the task the queue waited for, has a result: an abort     *)
(* ends the series.  What did run is logged; when that fails, so does the   *)
(* series.                                                                  *)
ItemReturns ==
  /\ run.pc \in {"runner", "task"} /\ op[run.waits].pc = "over"
  /\ LET r == op[run.waits].result
     IN \/ r # "aborted" /\ Proceed(Settle(r))
        \/ r = "aborted" /\ EndSeries(Settle(r))
        \/ r \in {"done", "aborted"} /\ "log" \in Faults /\ EndSeries(Settle(r))
  /\ UNCHANGED <<mode, latch, series, job, stopper>>

(* Mutant: "running" is taken for the item's result.                        *)
TakesRunning ==
  /\ "outlast" \in Faults
  /\ run.pc = "runner" /\ Tracked(op[run.waits].mode)
  /\ Proceed(Settle("running"))
  /\ UNCHANGED <<mode, latch, series, job, stopper>>

(* The operation outlasts the runner's grace: the queue awaits the task in  *)
(* `current`.                                                               *)
GracePasses ==
  /\ "outlast" \in Faults
  /\ run.pc = "runner" /\ Tracked(op[run.waits].mode) /\ Unfinished(run.waits)
  /\ run' = [run EXCEPT !.pc = "task", !.waits = current]
  /\ UNCHANGED <<instrumentVars, mode, items, active, latch, series, job, stopper>>

-----------------------------------------------------------------------------
(* The scheduler.                                                           *)

Schedule(j) ==
  /\ job[j] = "none"
  /\ job' = [job EXCEPT ![j] = "scheduled"]
  /\ UNCHANGED <<instrumentVars, queueVars, stopper>>

(* Mutant: a job that finds the instrument busy is left to itself.          *)
JobComesUpOnlyWhenFree(j) ==
  /\ job[j] = "scheduled"
  /\ \E m \in OtherModes :
       \/ /\ m # "bad" /\ ~Busy
          /\ Begin(j, m)
          /\ job' = [job EXCEPT ![j] = "running"]
       \/ /\ m = "bad" \/ Busy
          /\ job' = [job EXCEPT ![j] = "running"]
          /\ UNCHANGED instrumentVars
  /\ UNCHANGED <<queueVars, stopper>>

(* Its time has come.                                                       *)
JobComesUp(j) ==
  /\ job[j] = "scheduled"
  /\ \E m \in OtherModes :
       \/ /\ m # "bad" /\ ~Busy
          /\ Begin(j, m)
          /\ job' = [job EXCEPT ![j] = "running"]
       \/ /\ m = "bad" \/ Busy
          /\ job' = [job EXCEPT ![j] = "failed"]
          /\ UNCHANGED instrumentVars
  /\ UNCHANGED <<queueVars, stopper>>

(* Whatever the runner does not call an error completes the job.            *)
JobReturns(j) ==
  /\ job[j] = "running" /\ op[j].pc = "over"
  /\ job' = [job EXCEPT ![j] = IF op[j].result = "error" THEN "failed" ELSE "completed"]
  /\ UNCHANGED <<instrumentVars, queueVars, stopper>>

JobOutlasts(j) ==
  /\ "outlast" \in Faults
  /\ job[j] = "running" /\ Unfinished(j) /\ Tracked(op[j].mode)
  /\ job' = [job EXCEPT ![j] = "completed"]
  /\ UNCHANGED <<instrumentVars, queueVars, stopper>>

-----------------------------------------------------------------------------
(* The stop handler: it asks, waits for the runner's task and then for the  *)
(* queue, each for STOP_WAIT_S at most, and makes a busy instrument idle.   *)

(* What the handler finds to wait for.                                      *)
FoundTask == IF current # None /\ Unfinished(current) THEN current ELSE None

(* With nothing to wait for it goes on at once.                             *)
Ask ==
  \/ /\ FoundTask # None \/ active
     /\ stopRequested' = TRUE
     /\ status' = IF Busy THEN "stopping" ELSE status
     /\ stopper' = [on |-> TRUE, series |-> IF active THEN series ELSE 0, task |-> FoundTask]
  \/ /\ FoundTask = None /\ ~active
     /\ status' = "idle" /\ stopRequested' = ~Busy
     /\ UNCHANGED stopper

(* Mutant: the queue is left to the instrument's flag.                      *)
StopAskedInstrumentOnly ==
  /\ "stop" \in Faults /\ ~stopper.on
  /\ Ask
  /\ UNCHANGED <<op, current, overtaken, queueVars, job>>

StopAsked ==
  /\ "stop" \in Faults /\ ~stopper.on
  /\ latch' = (latch \/ active)
  /\ Ask
  /\ UNCHANGED <<op, current, overtaken, mode, items, active, run, series, job>>

StopAnswered ==
  /\ stopper.on
  /\ \/ "impatient" \in Faults
     \/ ~active /\ (stopper.task # None => op[stopper.task].pc = "over")
  /\ stopper' = NotStopping
  /\ IF Busy THEN SetIdle ELSE UNCHANGED <<status, stopRequested>>
  /\ UNCHANGED <<op, current, overtaken, queueVars, job>>

-----------------------------------------------------------------------------
Init ==
  /\ status = "idle" /\ stopRequested = FALSE
  /\ op = [c \in Callers |-> Off]
  /\ current = None
  /\ mode = <<>> /\ items = <<>>
  /\ active = FALSE /\ latch = FALSE /\ run = NoRun /\ series = 0
  /\ job = [j \in Jobs |-> "none"]
  /\ stopper = NotStopping /\ overtaken = {}

Operate(c) == CreateTask(c) \/ IoEnds(c) \/ OperationEnds(c) \/ TaskEnds(c)
Queue == RunBegins \/ ItemReturns
Scheduler(j) == JobComesUp(j) \/ JobReturns(j)

Next ==
  \/ Start \/ Queue \/ GracePasses
  \/ \E c \in Callers : Operate(c)
  \/ \E j \in Jobs : Schedule(j) \/ Scheduler(j) \/ JobOutlasts(j)
  \/ \E k \in Clients : ClientBegins(k)
  \/ AutoProtect \/ StopAsked \/ StopAnswered

(* Operations end, the loop runs the tasks that are ready, a job's time     *)
(* comes.                                                                   *)
Fairness ==
  /\ WF_vars(Queue) /\ WF_vars(StopAnswered)
  /\ \A c \in Callers : WF_vars(Operate(c))
  /\ \A j \in Jobs : WF_vars(Scheduler(j))

Spec == Init /\ [][Next]_vars /\ Fairness

-----------------------------------------------------------------------------
(* Properties.                                                              *)

(* The variables have the values the code gives them.                       *)
TypeOK ==
  /\ status \in {"idle", "acquiring", "stopping"}
  /\ stopRequested \in BOOLEAN
  /\ op \in [Callers -> Operation]
  /\ current \in Callers \cup {None}
  /\ items \in Seq({"pending", "running", "done", "aborted", "error", "skipped"})
  /\ mode \in Seq(Modes) /\ Len(mode) = Len(items) /\ Len(items) <= MaxItems
  /\ active \in BOOLEAN /\ latch \in BOOLEAN
  /\ run \in Runs
  /\ series \in 0..MaxSeries
  /\ job \in [Jobs -> {"none", "scheduled", "running", "completed", "failed"}]
  /\ stopper \in Stopper /\ overtaken \subseteq QueuedItems

(* While the stop handler waits for a series it found active, no further    *)
(* item of that series begins, although the end of the item under way       *)
(* clears the instrument's own request (queue.py:45-47).                    *)
StopEndsSeries ==
  [][\A i \in DOMAIN items :
       stopper.on /\ stopper.series = series /\ items[i] = "pending"
         => items'[i] # "running"]_vars

(* An item is refused as busy only because of somebody else's operation,    *)
(* never because of the series' own previous item (queue.py:104-106).       *)
RefusedByOthers ==
  [][\A i \in DOMAIN items :
       items[i] = "pending" /\ items'[i] = "error" /\ mode[i] # "bad"
         => \E c \in Jobs \cup Clients : UnderWay(c)]_vars

(* An item that is done or aborted is so by its own operation, which has    *)
(* ended, although the queue awaits whatever task it finds in `current`     *)
(* when an item outlasts the runner's grace.  The exception is an item      *)
(* another intensity operation was admitted behind before its task was      *)
(* over: while that sends its last frames, or once a stop handler has given *)
(* up on it; the queue may then take the other's result (queue.py:106).     *)
OutcomeIsOwn ==
  \A i \in DOMAIN items :
    Item(i) \notin overtaken /\ items[i] \in {"done", "aborted"}
      => op[Item(i)].pc = "over" /\ op[Item(i)].result = items[i]

(* An item is skipped because its series was asked to stop, was aborted, or *)
(* failed to log, not because of an earlier request (queue.py:84).          *)
SkippedWasStopped ==
  \A i \in DOMAIN items :
    items[i] = "skipped" => latch \/ \E j \in DOMAIN items : items[j] \in {"aborted", "done"}

(* A job that counts as completed has ended (PRD.md:81).                    *)
CompletedHasEnded == \A j \in Jobs : job[j] = "completed" => op[j].pc = "over"

(* A series that is under way ends.                                         *)
SeriesEnds == active ~> ~active

(* A scheduled job completes or fails.                                      *)
JobsEnd == \A j \in Jobs : job[j] = "scheduled" ~> job[j] \in {"completed", "failed"}

(* Items settle in order and one at a time, and all of them by the end.     *)
Promise == INSTANCE Series WITH underway <- active
ImplementsSeries == Promise!SeriesSpec
=============================================================================
