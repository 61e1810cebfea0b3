--------------------------- MODULE JobQueueProofs ---------------------------
(***************************************************************************)
(* Proofs about the queue, for every number of items, series, jobs and     *)
(* clients, every kind of operation and every choice of faults.            *)
(*                                                                         *)
(* Where the queue's task is fits what became of the items (RunFits): the  *)
(* one it waits for is running, those before have settled, those after are *)
(* pending.  A step of the loop settles the items up to a cut and either   *)
(* begins one behind it or ends the series (QueueStep); everything about   *)
(* series follows from that.                                               *)
(***************************************************************************)
EXTENDS JobQueue, TLAPS

States == {"pending", "running", "done", "aborted", "error", "skipped"}
Outcomes == {"done", "aborted", "error"}

(* The first k items have an outcome, the others are to come.               *)
Cut(its, k) ==
  \A j \in DOMAIN its : IF j <= k THEN its[j] \in Outcomes ELSE its[j] = "pending"

RunFits ==
  /\ active <=> run.pc # "none"
  /\ ~active => \A i \in DOMAIN items : items[i] \in Outcomes \cup {"skipped"}
  /\ run.pc = "new" => Cut(items, 0)
  /\ run.pc \in {"runner", "task"} =>
       /\ run.i \in DOMAIN items
       /\ items[run.i] = "running"
       /\ \A j \in DOMAIN items :
            /\ j < run.i => items[j] \in Outcomes
            /\ j > run.i => items[j] = "pending"

SeriesOver(k) ==
  /\ active' = FALSE /\ run' = NoRun
  /\ UNCHANGED instrumentVars
  /\ \E w \in {"skipped", "error"} : \A j \in DOMAIN items : j > k => items'[j] = w

ItemBegins(k) ==
  /\ active' = active /\ ~latch /\ ~Busy
  /\ \E i \in DOMAIN items :
       /\ k < i
       /\ \A j \in DOMAIN items :
            items'[j] = IF j > i THEN "pending" ELSE IF j = i THEN "running"
                        ELSE IF j > k THEN "error" ELSE items'[j]
       /\ mode[i] \in AllModes
       /\ Begin(Item(i), mode[i])
       /\ run' = [pc |-> "runner", i |-> i, waits |-> Item(i)]

(* What the loop does with items of which the first k have settled.         *)
QueueStep(its, k) ==
  /\ items' \in Seq(States) /\ Len(items') = Len(items)
  /\ \A j \in DOMAIN items : j <= k => items'[j] = its[j]
  /\ SeriesOver(k) \/ ItemBegins(k)

-----------------------------------------------------------------------------
LEMMA SeqByIndex ==
  ASSUME NEW S, NEW n \in Nat, NEW f \in [1..n -> S]
  PROVE  f \in Seq(S) /\ Len(f) = n /\ DOMAIN f = 1..n
OBVIOUS

LEMMA EndSeriesStep ==
  ASSUME NEW its \in Seq(States), NEW k \in Nat, Len(its) = Len(items), TypeOK,
         NEW w \in {"skipped", "error"},
         \A j \in DOMAIN its : IF j <= k THEN its[j] \in Outcomes ELSE its[j] \in {"pending", w},
         \/ \A j \in DOMAIN its : j > k => its[j] = w
         \/ w = "skipped",
         EndSeries(its)
  PROVE  QueueStep(its, k)
<1>n. /\ Len(items) \in Nat /\ DOMAIN items = 1..Len(items) /\ DOMAIN its = 1..Len(items)
  BY DEF TypeOK
<1>1. /\ items' = [i \in DOMAIN its |->
                     IF its[i] \in {"pending", "running"} THEN "skipped" ELSE its[i]]
      /\ active' = FALSE /\ run' = NoRun /\ UNCHANGED instrumentVars
  BY DEF EndSeries
<1>2. \A j \in 1..Len(items) : its[j] \in States
  BY <1>n
<1>3. items' \in [1..Len(items) -> States]
  BY <1>1, <1>2, <1>n DEF States
<1>4. items' \in Seq(States) /\ Len(items') = Len(items)
  BY <1>3, <1>n, SeqByIndex
<1>5. \A j \in DOMAIN items : j <= k => items'[j] = its[j]
  BY <1>1, <1>n DEF Outcomes
<1>6. \A j \in DOMAIN items : j > k => items'[j] = w
  <2>1. SUFFICES ASSUME NEW j \in DOMAIN items, j > k PROVE items'[j] = w
    OBVIOUS
  <2>2. its[j] \in {"pending", w} /\ (its[j] = w \/ w = "skipped")
    BY <2>1, <1>n
  <2> QED BY <2>1, <2>2, <1>1, <1>n
<1>7. SeriesOver(k)
  BY <1>1, <1>6 DEF SeriesOver
<1> QED BY <1>4, <1>5, <1>7 DEF QueueStep

(* The loop, taking up the items behind the cut.                            *)
LEMMA ProceedStep ==
  ASSUME NEW its \in Seq(States), NEW k \in Nat, Len(its) = Len(items), TypeOK,
         Cut(its, k), Proceed(its)
  PROVE  QueueStep(its, k)
<1> DEFINE pending == {i \in DOMAIN its : its[i] = "pending"}
           fit == {i \in pending : mode[i] # "bad"}
<1>n. /\ Len(items) \in Nat /\ DOMAIN items = 1..Len(items) /\ DOMAIN its = 1..Len(items)
      /\ DOMAIN mode = 1..Len(items) /\ mode \in [1..Len(items) -> Modes]
  BY DEF TypeOK
<1>p. \A j \in DOMAIN its : (j \in pending <=> j > k) /\ (j <= k => its[j] \in Outcomes)
  BY <1>n DEF Cut, Outcomes
<1>1. CASE latch \/ stopRequested
  <2>1. EndSeries(its)
    BY <1>1 DEF Proceed
  <2> QED BY <2>1, <1>n, EndSeriesStep DEF Cut
<1>2. CASE ~(latch \/ stopRequested) /\ (fit = {} \/ Busy)
  <2> DEFINE new == [i \in DOMAIN its |-> IF i \in pending THEN "error" ELSE its[i]]
  <2>1. EndSeries(new)
    BY <1>2 DEF Proceed
  <2>2. new \in [1..Len(items) -> States]
    BY <1>n DEF States
  <2>3. new \in Seq(States) /\ Len(new) = Len(items) /\ DOMAIN new = 1..Len(items)
    BY <2>2, <1>n, SeqByIndex
  <2>4. \A j \in DOMAIN new : IF j <= k THEN new[j] \in Outcomes /\ new[j] = its[j]
                                        ELSE new[j] = "error"
    BY <1>n, <1>p
  <2>5. QueueStep(new, k)
    <3> HIDE DEF new
    <3>1. \A j \in DOMAIN new :
            IF j <= k THEN new[j] \in Outcomes ELSE new[j] \in {"pending", "error"}
      BY <2>4
    <3>2. \A j \in DOMAIN new : j > k => new[j] = "error"
      BY <2>3, <2>4, <1>n
    <3> QED BY <2>1, <2>3, <3>1, <3>2, EndSeriesStep
  <2> QED BY <2>5, <2>4, <2>3, <1>n DEF QueueStep
<1>3. CASE ~(latch \/ stopRequested) /\ ~(fit = {} \/ Busy)
  <2>1. PICK i \in fit :
          /\ \A j \in fit : i <= j
          /\ items' = [j \in DOMAIN its |-> IF j = i THEN "running"
                         ELSE IF j \in pending /\ j < i THEN "error" ELSE its[j]]
          /\ Begin(Item(i), mode[i])
          /\ run' = [pc |-> "runner", i |-> i, waits |-> Item(i)]
          /\ UNCHANGED active
    BY <1>3 DEF Proceed
  <2>2. i \in DOMAIN items /\ k < i /\ mode[i] \in AllModes
    BY <1>n, <1>p, JobQueueAssumption
  <2>3. items' \in [1..Len(items) -> States]
    BY <2>1, <1>n DEF States
  <2>4. items' \in Seq(States) /\ Len(items') = Len(items)
    BY <2>3, <1>n, SeqByIndex
  <2>5. \A j \in DOMAIN items : j <= k => items'[j] = its[j]
    BY <2>1, <2>2, <1>n, <1>p
  <2>6. \A j \in DOMAIN items :
          items'[j] = IF j > i THEN "pending" ELSE IF j = i THEN "running"
                      ELSE IF j > k THEN "error" ELSE items'[j]
    <3>1. SUFFICES ASSUME NEW j \in DOMAIN items
                   PROVE  items'[j] = IF j > i THEN "pending" ELSE IF j = i THEN "running"
                                      ELSE IF j > k THEN "error" ELSE items'[j]
      OBVIOUS
    <3>2. i \in Nat /\ j \in Nat /\ k \in Nat
      BY <1>n, <2>2
    <3>3. CASE j > i
      BY <2>1, <2>2, <3>2, <3>3, <1>n, <1>p
    <3>4. CASE j = i
      BY <2>1, <3>2, <3>4, <1>n
    <3>5. CASE j < i /\ j > k
      BY <2>1, <3>2, <3>5, <1>n, <1>p
    <3> QED BY <3>2, <3>3, <3>4, <3>5
  <2> QED BY <1>3, <2>1, <2>2, <2>4, <2>5, <2>6 DEF QueueStep, ItemBegins
<1> QED BY <1>1, <1>2, <1>3

LEMMA RunBeginsStep ==
  ASSUME TypeOK, RunFits, RunBegins
  PROVE  QueueStep(items, 0)
<1>1. items \in Seq(States) /\ Cut(items, 0) /\ Proceed(items)
  BY DEF TypeOK, States, RunFits, RunBegins
<1> QED BY <1>1, ProceedStep

(* A result settles the item the queue waited for.                          *)
LEMMA SettleCuts ==
  ASSUME TypeOK, RunFits, run.pc \in {"runner", "task"}, NEW r
  PROVE  /\ Settle(r) \in Seq(States) /\ Len(Settle(r)) = Len(items)
         /\ Cut(Settle(r), run.i) /\ run.i \in Nat
         /\ Settle(r)[run.i] = Outcome(r) /\ Outcome(r) \in Outcomes
         /\ \A j \in DOMAIN items : j # run.i => Settle(r)[j] = items[j]
<1>n. /\ items \in Seq(States) /\ Len(items) \in Nat /\ DOMAIN items = 1..Len(items)
      /\ items \in [1..Len(items) -> States]
  BY DEF TypeOK, States
<1>1. Outcome(r) \in Outcomes /\ Outcomes \subseteq States
  BY DEF Outcome, Outcomes, States
<1>2. /\ Settle(r) = [items EXCEPT ![run.i] = Outcome(r)]
      /\ run.i \in DOMAIN items /\ run.i \in Nat
  BY <1>n DEF Settle, RunFits
<1>3. Settle(r) \in [1..Len(items) -> States]
  BY <1>1, <1>2, <1>n
<1>4. Settle(r) \in Seq(States) /\ Len(Settle(r)) = Len(items) /\ DOMAIN Settle(r) = 1..Len(items)
  BY <1>3, <1>n, SeqByIndex
<1>5. /\ Settle(r)[run.i] = Outcome(r)
      /\ \A j \in DOMAIN items : j # run.i => Settle(r)[j] = items[j]
  BY <1>2, <1>n
<1>6. Cut(Settle(r), run.i)
  <2>1. SUFFICES ASSUME NEW j \in 1..Len(items)
                 PROVE  IF j <= run.i THEN Settle(r)[j] \in Outcomes ELSE Settle(r)[j] = "pending"
    BY <1>4 DEF Cut
  <2>2. j = run.i \/ j < run.i \/ j > run.i
    BY <1>2, <1>n
  <2> QED BY <2>2, <1>5, <1>1, <1>2, <1>n DEF RunFits
<1> QED BY <1>1, <1>2, <1>4, <1>5, <1>6

LEMMA ItemReturnsStep ==
  ASSUME TypeOK, RunFits, ItemReturns
  PROVE  /\ QueueStep(Settle(op[run.waits].result), run.i)
         /\ run.pc \in {"runner", "task"} /\ op[run.waits].pc = "over"
<1> DEFINE r == op[run.waits].result
           its == Settle(r)
<1>1. /\ run.pc \in {"runner", "task"} /\ op[run.waits].pc = "over"
      /\ Proceed(its) \/ EndSeries(its)
  BY DEF ItemReturns
<1>2. /\ its \in Seq(States) /\ Len(its) = Len(items)
      /\ Cut(its, run.i) /\ run.i \in Nat
  BY <1>1, SettleCuts
<1>3. QueueStep(its, run.i)
  <2> HIDE DEF its
  <2>1. CASE Proceed(its) BY <1>2, <2>1, ProceedStep
  <2>2. CASE EndSeries(its)
    <3>1. \A j \in DOMAIN its :
            IF j <= run.i THEN its[j] \in Outcomes ELSE its[j] \in {"pending", "skipped"}
      BY <1>2 DEF Cut
    <3> QED BY <1>2, <2>2, <3>1, EndSeriesStep
  <2> QED BY <1>1, <2>1, <2>2
<1> QED BY <1>1, <1>3

-----------------------------------------------------------------------------
(* Types.                                                                   *)

LEMMA ItemIsCaller ==
  ASSUME TypeOK, NEW i \in DOMAIN items, series \in 1..MaxSeries
  PROVE  Item(i) \in Callers
<1>1. i \in 1..MaxItems
  BY JobQueueAssumption DEF TypeOK
<1> QED BY <1>1 DEF Item, Callers, QueuedItems

LEMMA BeginTypes ==
  ASSUME TypeOK, NEW c \in Callers, NEW m \in AllModes, Begin(c, m)
  PROVE  /\ status' \in {"idle", "acquiring", "stopping"} /\ stopRequested' \in BOOLEAN
         /\ op' \in [Callers -> Operation] /\ current' \in Callers \cup {None}
         /\ overtaken' \subseteq QueuedItems
<1>1. [pc |-> First(m), mode |-> m, result |-> "none"] \in Operation
  BY DEF Operation, First
<1> QED BY <1>1 DEF TypeOK, Begin, MakeCurrent

(* The types, and that a series under way has been counted.                 *)
Types == TypeOK /\ (active => series \in 1..MaxSeries)

LEMMA QueueStepTypes ==
  ASSUME Types, RunFits, NEW its, NEW k, QueueStep(its, k), active,
         UNCHANGED <<mode, latch, series, job, stopper>>
  PROVE  Types'
<1>1. items' \in Seq(States) /\ Len(items') = Len(items)
  BY DEF QueueStep
<1>2. CASE SeriesOver(k)
  <2>1. run' \in Runs
    BY <1>2, JobQueueAssumption DEF SeriesOver, NoRun, Runs
  <2> QED BY <1>1, <1>2, <2>1 DEF Types, TypeOK, SeriesOver, instrumentVars, States
<1>3. CASE ItemBegins(k)
  <2>1. PICK i \in DOMAIN items : /\ Begin(Item(i), mode[i]) /\ mode[i] \in AllModes
                                 /\ run' = [pc |-> "runner", i |-> i, waits |-> Item(i)]
    BY <1>3 DEF ItemBegins
  <2>2. Item(i) \in Callers /\ i \in 0..MaxItems
    BY ItemIsCaller, JobQueueAssumption DEF Types, TypeOK
  <2>3. run' \in Runs
    BY <2>1, <2>2 DEF Runs
  <2>4. /\ status' \in {"idle", "acquiring", "stopping"} /\ stopRequested' \in BOOLEAN
        /\ op' \in [Callers -> Operation] /\ current' \in Callers \cup {None}
        /\ overtaken' \subseteq QueuedItems
    BY <2>1, <2>2, BeginTypes DEF Types
  <2> QED BY <1>1, <1>3, <2>3, <2>4 DEF Types, TypeOK, ItemBegins, States
<1> QED BY <1>2, <1>3 DEF QueueStep

(* The steps that leave the queue alone.                                    *)
LEMMA OthersTypes ==
  ASSUME Types, UNCHANGED queueVars,
         status' \in {"idle", "acquiring", "stopping"}, stopRequested' \in BOOLEAN,
         op' \in [Callers -> Operation], current' \in Callers \cup {None},
         job' \in [Jobs -> {"none", "scheduled", "running", "completed", "failed"}],
         stopper' \in Stopper, overtaken' \subseteq QueuedItems
  PROVE  Types'
BY DEF Types, TypeOK, queueVars

LEMMA StopTypes ==
  ASSUME Types, Ask
  PROVE  /\ status' \in {"idle", "acquiring", "stopping"} /\ stopRequested' \in BOOLEAN
         /\ stopper' \in Stopper
<1>1. status' \in {"idle", "acquiring", "stopping"} /\ stopRequested' \in BOOLEAN
  BY DEF Ask, Busy, Types, TypeOK
<1>2. FoundTask \in Callers \cup {None} /\ series \in Nat
  BY JobQueueAssumption DEF FoundTask, Types, TypeOK
<1>3. stopper' \in Stopper
  <2>1. CASE stopper' = stopper
    BY <2>1 DEF Types, TypeOK
  <2>2. CASE stopper' = [on |-> TRUE, series |-> IF active THEN series ELSE 0, task |-> FoundTask]
    <3>1. (IF active THEN series ELSE 0) \in Nat
      BY <1>2
    <3> QED BY <2>2, <1>2, <3>1 DEF Stopper
  <2> QED BY <2>1, <2>2 DEF Ask
<1> QED BY <1>1, <1>3

LEMMA TypesKept == Types /\ RunFits /\ [Next]_vars => Types'
<1> SUFFICES ASSUME Types, RunFits, [Next]_vars PROVE Types'
  OBVIOUS
<1>t. /\ status \in {"idle", "acquiring", "stopping"} /\ stopRequested \in BOOLEAN
      /\ op \in [Callers -> Operation] /\ current \in Callers \cup {None}
      /\ job \in [Jobs -> {"none", "scheduled", "running", "completed", "failed"}]
      /\ stopper \in Stopper /\ overtaken \subseteq QueuedItems
  BY DEF Types, TypeOK
<1>1. CASE Start
  <2>1. PICK n \in 1..MaxItems : /\ mode' \in [1..n -> Modes]
                                 /\ items' = [i \in 1..n |-> "pending"]
    BY <1>1 DEF Start
  <2>2. n \in Nat /\ n <= MaxItems
    BY JobQueueAssumption
  <2>3. mode' \in Seq(Modes) /\ Len(mode') = n
    BY <2>1, <2>2, SeqByIndex
  <2>4. items' \in Seq(States) /\ Len(items') = n
    <3>1. items' \in [1..n -> States]
      BY <2>1 DEF States
    <3> QED BY <3>1, <2>2, SeqByIndex
  <2>5. /\ active' = TRUE /\ latch' = FALSE /\ series' \in 1..MaxSeries
        /\ UNCHANGED <<instrumentVars, job, stopper>>
    BY <1>1, JobQueueAssumption DEF Start, Types, TypeOK
  <2>6. run' \in Runs
    BY <1>1, JobQueueAssumption DEF Start, NoRun, Runs
  <2>7. /\ status' = status /\ stopRequested' = stopRequested /\ op' = op /\ current' = current
        /\ job' = job /\ stopper' = stopper /\ overtaken' = overtaken
    BY <2>5 DEF instrumentVars
  <2>8. /\ items' \in Seq({"pending", "running", "done", "aborted", "error", "skipped"})
        /\ mode' \in Seq(Modes) /\ Len(mode') = Len(items') /\ Len(items') <= MaxItems
    BY <2>2, <2>3, <2>4 DEF States
  <2>9. active' \in BOOLEAN /\ latch' \in BOOLEAN
    BY <2>5
  <2>10. series' \in 0..MaxSeries
    BY <2>5, JobQueueAssumption
  <2> QED BY <1>t, <2>5, <2>6, <2>7, <2>8, <2>9, <2>10 DEF Types, TypeOK
<1>2. CASE RunBegins
  <2>1. active /\ UNCHANGED <<mode, latch, series, job, stopper>>
    BY <1>2 DEF RunBegins, RunFits
  <2>2. QueueStep(items, 0)
    BY <1>2, RunBeginsStep DEF Types
  <2> QED BY <2>1, <2>2, QueueStepTypes
<1>3. CASE ItemReturns
  <2>1. active /\ UNCHANGED <<mode, latch, series, job, stopper>>
    BY <1>3 DEF ItemReturns, RunFits
  <2>2. QueueStep(Settle(op[run.waits].result), run.i)
    BY <1>3, ItemReturnsStep DEF Types
  <2> QED BY <2>1, <2>2, QueueStepTypes
<1>4. CASE GracePasses
  <2>1. /\ run' = [run EXCEPT !.pc = "task", !.waits = current]
        /\ UNCHANGED <<instrumentVars, mode, items, active, latch, series, job, stopper>>
    BY <1>4 DEF GracePasses
  <2>2. run' \in Runs
    BY <2>1, <1>t DEF Types, TypeOK, Runs
  <2> QED BY <2>1, <2>2 DEF Types, TypeOK, instrumentVars
<1>5. CASE \E c \in Callers : Operate(c)
  <2>1. PICK c \in Callers : CreateTask(c) \/ IoEnds(c) \/ OperationEnds(c) \/ TaskEnds(c)
    BY <1>5 DEF Operate
  <2>2. CASE IoEnds(c)
    <3>1. PICK r \in Verdicts(op[c].mode) : op' = [op EXCEPT ![c].pc = "post", ![c].result = r]
      BY <2>2 DEF IoEnds
    <3>2. r \in Results \cup {"none"}
      BY <3>1 DEF Verdicts, Results
    <3>3. op' \in [Callers -> Operation]
      BY <1>t, <3>1, <3>2 DEF Operation
    <3> QED BY <1>t, <2>2, <3>3, OthersTypes DEF IoEnds
  <2>3. CASE OperationEnds(c)
    <3>1. op' \in [Callers -> Operation]
      BY <1>t, <2>3 DEF OperationEnds, Operation
    <3> QED BY <1>t, <2>3, <3>1, OthersTypes DEF OperationEnds, SetIdle
  <2>4. CASE TaskEnds(c)
    <3>1. op' \in [Callers -> Operation]
      BY <1>t, <2>4 DEF TaskEnds, Operation
    <3> QED BY <1>t, <2>4, <3>1, OthersTypes DEF TaskEnds
  <2>5. CASE CreateTask(c)
    <3>1. op' \in [Callers -> Operation]
      BY <1>t, <2>5 DEF CreateTask, Operation
    <3>2. current' \in Callers \cup {None} /\ overtaken' \subseteq QueuedItems
      BY <1>t, <2>5 DEF CreateTask, MakeCurrent
    <3> QED BY <1>t, <2>5, <3>1, <3>2, OthersTypes DEF CreateTask
  <2> QED BY <2>1, <2>2, <2>3, <2>4, <2>5
<1>6. CASE \E j \in Jobs : Schedule(j) \/ Scheduler(j) \/ JobOutlasts(j)
  <2>1. PICK j \in Jobs : Schedule(j) \/ JobComesUp(j) \/ JobReturns(j) \/ JobOutlasts(j)
    BY <1>6 DEF Scheduler
  <2>j. j \in Callers
    BY DEF Callers
  <2>2. CASE Schedule(j)
    BY <1>t, <2>2, OthersTypes DEF Schedule, instrumentVars
  <2>3. CASE JobReturns(j) \/ JobOutlasts(j)
    <3>1. job' \in [Jobs -> {"none", "scheduled", "running", "completed", "failed"}]
      BY <1>t, <2>3 DEF JobReturns, JobOutlasts
    <3> QED BY <1>t, <2>3, <3>1, OthersTypes DEF JobReturns, JobOutlasts, instrumentVars
  <2>4. CASE JobComesUp(j)
    <3>1. /\ UNCHANGED <<queueVars, stopper>>
          /\ job' \in [Jobs -> {"none", "scheduled", "running", "completed", "failed"}]
      BY <1>t, <2>4 DEF JobComesUp
    <3>2. UNCHANGED instrumentVars \/ \E m \in AllModes : Begin(j, m)
      BY <2>4, JobQueueAssumption DEF JobComesUp
    <3>3. /\ status' \in {"idle", "acquiring", "stopping"} /\ stopRequested' \in BOOLEAN
          /\ op' \in [Callers -> Operation] /\ current' \in Callers \cup {None}
          /\ overtaken' \subseteq QueuedItems
      BY <1>t, <2>j, <3>2, BeginTypes DEF Types, instrumentVars
    <3> QED BY <1>t, <3>1, <3>3, OthersTypes
  <2> QED BY <2>1, <2>2, <2>3, <2>4
<1>7. CASE \E k \in Clients : ClientBegins(k)
  <2>1. PICK k \in Clients : \E m \in AllModes : Begin(k, m)
    BY <1>7, JobQueueAssumption DEF ClientBegins
  <2>2. k \in Callers
    BY DEF Callers
  <2>3. /\ status' \in {"idle", "acquiring", "stopping"} /\ stopRequested' \in BOOLEAN
        /\ op' \in [Callers -> Operation] /\ current' \in Callers \cup {None}
        /\ overtaken' \subseteq QueuedItems
    BY <2>1, <2>2, BeginTypes DEF Types
  <2>4. UNCHANGED <<queueVars, job, stopper>>
    BY <1>7 DEF ClientBegins
  <2> QED BY <1>t, <2>3, <2>4, OthersTypes
<1>8. CASE AutoProtect
  BY <1>t, <1>8, OthersTypes DEF AutoProtect
<1>9. CASE StopAsked
  <2>1. /\ latch' \in BOOLEAN
        /\ UNCHANGED <<op, current, overtaken, mode, items, active, run, series, job>>
    BY <1>9 DEF StopAsked, Types, TypeOK
  <2>2. /\ status' \in {"idle", "acquiring", "stopping"} /\ stopRequested' \in BOOLEAN
        /\ stopper' \in Stopper
    BY <1>9, StopTypes DEF StopAsked
  <2> QED BY <2>1, <2>2 DEF Types, TypeOK
<1>10. CASE StopAnswered
  <2>1. stopper' \in Stopper /\ UNCHANGED <<op, current, overtaken, queueVars, job>>
    BY <1>10 DEF StopAnswered, NotStopping, Stopper
  <2>2. status' \in {"idle", "acquiring", "stopping"} /\ stopRequested' \in BOOLEAN
    BY <1>t, <1>10 DEF StopAnswered, SetIdle, Busy
  <2> QED BY <1>t, <2>1, <2>2, OthersTypes
<1>11. CASE UNCHANGED vars
  BY <1>t, <1>11, OthersTypes DEF vars, instrumentVars
<1> QED BY <1>1, <1>2, <1>3, <1>4, <1>5, <1>6, <1>7, <1>8, <1>9, <1>10, <1>11 DEF Next, Queue

-----------------------------------------------------------------------------
(* Where the task is fits what became of the items.                         *)

LEMMA QueueStepFits ==
  ASSUME TypeOK, RunFits, NEW its, NEW k \in Nat, QueueStep(its, k), active,
         \A j \in DOMAIN items : j <= k => its[j] \in Outcomes
  PROVE  RunFits'
<1>n. /\ DOMAIN items' = DOMAIN items /\ DOMAIN items \subseteq Nat
      /\ \A j \in DOMAIN items : j <= k => items'[j] \in Outcomes
  BY DEF TypeOK, QueueStep, States
<1>1. CASE SeriesOver(k)
  <2>1. run'.pc = "none" /\ active' = FALSE
    BY <1>1 DEF SeriesOver, NoRun
  <2>2. \A j \in DOMAIN items : j > k => items'[j] \in {"skipped", "error"}
    BY <1>1 DEF SeriesOver
  <2>3. \A j \in DOMAIN items' : items'[j] \in Outcomes \cup {"skipped"}
    BY <1>n, <2>2 DEF Outcomes
  <2> QED BY <2>1, <2>3 DEF RunFits
<1>2. CASE ItemBegins(k)
  <2>1. PICK i \in DOMAIN items :
          /\ k < i
          /\ \A j \in DOMAIN items :
               items'[j] = IF j > i THEN "pending" ELSE IF j = i THEN "running"
                           ELSE IF j > k THEN "error" ELSE items'[j]
          /\ run' = [pc |-> "runner", i |-> i, waits |-> Item(i)]
    BY <1>2 DEF ItemBegins
  <2>2. active' = active /\ run'.pc = "runner" /\ run'.i = i
    BY <1>2, <2>1 DEF ItemBegins
  <2>3. items'[i] = "running"
    BY <2>1, <1>n
  <2>4. \A j \in DOMAIN items : j > i => items'[j] = "pending"
    BY <2>1, <1>n
  <2>5. \A j \in DOMAIN items : j < i => items'[j] \in Outcomes
    <3>1. SUFFICES ASSUME NEW j \in DOMAIN items, j < i PROVE items'[j] \in Outcomes
      OBVIOUS
    <3>2. CASE j <= k BY <3>2, <1>n
    <3>3. CASE j > k
      <4>1. items'[j] = "error" BY <2>1, <3>1, <3>3, <1>n
      <4> QED BY <4>1 DEF Outcomes
    <3> QED BY <3>2, <3>3, <1>n
  <2> QED BY <1>n, <2>2, <2>3, <2>4, <2>5 DEF RunFits
<1> QED BY <1>1, <1>2 DEF QueueStep

LEMMA RunFitsKept == TypeOK /\ RunFits /\ [Next]_vars => RunFits'
<1> SUFFICES ASSUME TypeOK, RunFits, [Next]_vars PROVE RunFits'
  OBVIOUS
<1>1. CASE Start
  <2>1. PICK n \in 1..MaxItems : items' = [i \in 1..n |-> "pending"]
    BY <1>1 DEF Start
  <2>2. Cut(items', 0)
    BY <2>1 DEF Cut
  <2>3. active' = TRUE /\ run'.pc = "new"
    BY <1>1 DEF Start, NoRun
  <2> QED BY <2>2, <2>3 DEF RunFits, Cut
<1>2. CASE RunBegins
  <2>1. active /\ Cut(items, 0) /\ QueueStep(items, 0)
    BY <1>2, RunBeginsStep DEF RunBegins, RunFits
  <2> QED BY <2>1, QueueStepFits DEF Cut
<1>3. CASE ItemReturns
  <2> DEFINE its == Settle(op[run.waits].result)
  <2>1. active /\ run.pc \in {"runner", "task"} /\ QueueStep(its, run.i)
    BY <1>3, ItemReturnsStep DEF RunFits
  <2>2. Cut(its, run.i) /\ run.i \in Nat /\ DOMAIN its = DOMAIN items
    <3>1. its \in Seq(States) /\ Len(its) = Len(items) /\ Cut(its, run.i) /\ run.i \in Nat
      BY <2>1, SettleCuts
    <3> QED BY <3>1 DEF TypeOK
  <2>3. \A j \in DOMAIN items : j <= run.i => its[j] \in Outcomes
    BY <2>2 DEF Cut
  <2> HIDE DEF its
  <2> QED BY <2>1, <2>2, <2>3, QueueStepFits
<1>4. CASE GracePasses
  <2>1. /\ run.pc = "runner" /\ run'.pc = "task" /\ run'.i = run.i
        /\ items' = items /\ active' = active
    BY <1>4 DEF GracePasses, TypeOK, Runs
  <2> QED BY <2>1 DEF RunFits
<1>5. CASE UNCHANGED <<items, active, run>>
  BY <1>5 DEF RunFits, Cut
<1>6. Start \/ RunBegins \/ ItemReturns \/ GracePasses \/ UNCHANGED <<items, active, run>>
  BY DEF Next, Queue, Operate, CreateTask, IoEnds, OperationEnds, TaskEnds, Scheduler, Schedule, JobComesUp,
         JobReturns, JobOutlasts, ClientBegins, AutoProtect, StopAsked, StopAnswered,
         queueVars, vars
<1> QED BY <1>1, <1>2, <1>3, <1>4, <1>5, <1>6

LEMMA InitFits == Init => Types /\ RunFits
<1> SUFFICES ASSUME Init PROVE Types /\ RunFits
  OBVIOUS
<1>1. run = NoRun /\ NoRun \in Runs /\ NoRun.pc = "none"
  BY JobQueueAssumption DEF Init, NoRun, Runs
<1>2. op \in [Callers -> Operation]
  BY DEF Init, Off, Operation
<1>3. stopper \in Stopper
  BY DEF Init, NotStopping, Stopper
<1>4. series \in 0..MaxSeries /\ Len(items) <= MaxItems
  BY JobQueueAssumption DEF Init
<1>5. items \in Seq(States) /\ mode \in Seq(Modes) /\ Len(mode) = Len(items)
  BY DEF Init
<1>6. Types
  BY <1>1, <1>2, <1>3, <1>4, <1>5 DEF Init, Types, TypeOK, States
<1>7. RunFits
  BY <1>1 DEF Init, RunFits
<1> QED BY <1>6, <1>7

(* The variables keep their types.                                          *)
THEOREM QueueTypes == Spec => []TypeOK
<1>1. Types /\ RunFits /\ [Next]_vars => (Types /\ RunFits)'
  BY TypesKept, RunFitsKept DEF Types
<1>2. Types => TypeOK
  BY DEF Types
<1> QED BY InitFits, <1>1, <1>2, PTL DEF Spec

-----------------------------------------------------------------------------
(* The queue implements Series.                                             *)

LEMMA QueueStepAdvances ==
  ASSUME TypeOK, RunFits, NEW its, NEW k \in Nat, QueueStep(its, k), active, RunFits',
         \A j \in DOMAIN items : j <= k => its[j] \in Outcomes,
         \A j \in DOMAIN items : j < k => its[j] = items[j],
         \A j \in DOMAIN items : j = k => items[j] = "running",
         \A j \in DOMAIN items : j > k => items[j] = "pending"
  PROVE  Promise!Advance
<1>n. /\ DOMAIN items' = DOMAIN items /\ DOMAIN items \subseteq Nat
      /\ items' \in [DOMAIN items -> States]
      /\ \A j \in DOMAIN items : j <= k => items'[j] = its[j]
  BY DEF TypeOK, QueueStep
<1> USE DEF Promise!Settled, Promise!ItemStatus
<1>1. items' \in [DOMAIN items -> Promise!ItemStatus]
  BY <1>n DEF States
<1>2. Promise!Moves(items, items')
  <2>1. SUFFICES ASSUME NEW i \in DOMAIN items
                 PROVE  /\ items[i] \in Promise!Settled => items'[i] = items[i]
                        /\ items[i] = "running" => items'[i] # "pending"
    BY <1>n DEF Promise!Moves
  <2>2. CASE i < k BY <2>2, <1>n DEF Outcomes
  <2>3. CASE i = k BY <2>3, <1>n DEF Outcomes
  <2>4. CASE i > k BY <2>4
  <2> QED BY <2>2, <2>3, <2>4, <1>n
<1>3. CASE SeriesOver(k)
  <2>1. PICK w \in {"skipped", "error"} : \A j \in DOMAIN items : j > k => items'[j] = w
    BY <1>3 DEF SeriesOver
  <2>2. active' = FALSE /\ \A i \in DOMAIN items : items'[i] \in Promise!Settled
    BY <1>3, <1>n DEF SeriesOver, RunFits, Outcomes
  <2>3. Promise!InOrder(items')
    BY <2>2, <1>n DEF Promise!InOrder
  <2>4. Promise!SkippedLast(items')
    <3>1. SUFFICES ASSUME NEW i \in DOMAIN items, NEW j \in DOMAIN items,
                          i < j, items'[i] = "skipped"
                   PROVE  items'[j] = "skipped"
      BY <1>n DEF Promise!SkippedLast
    <3>2. i > k
      BY <3>1, <1>n DEF Outcomes
    <3> QED BY <2>1, <3>1, <3>2, <1>n
  <2> QED BY <1>1, <1>2, <2>2, <2>3, <2>4 DEF Promise!Advance
<1>4. CASE ItemBegins(k)
  <2>1. /\ active' = active /\ run'.pc = "runner"
        /\ run'.i \in DOMAIN items /\ items'[run'.i] = "running"
        /\ \A j \in DOMAIN items : /\ j < run'.i => items'[j] \in Outcomes
                                   /\ j > run'.i => items'[j] = "pending"
    BY <1>4, <1>n DEF ItemBegins, RunFits
  <2>2. \A j \in DOMAIN items : items'[j] # "skipped"
    BY <2>1, <1>n DEF Outcomes
  <2>3. Promise!InOrder(items')
    <3>1. SUFFICES ASSUME NEW i \in DOMAIN items, NEW j \in DOMAIN items,
                          i < j, items'[j] # "pending"
                   PROVE  items'[i] \in Promise!Settled
      BY <1>n DEF Promise!InOrder
    <3>2. i < run'.i
      BY <3>1, <2>1, <1>n
    <3> QED BY <2>1, <3>2 DEF Outcomes
  <2>4. Promise!SkippedLast(items')
    BY <2>2, <1>n DEF Promise!SkippedLast
  <2> QED BY <1>1, <1>2, <2>1, <2>2, <2>3, <2>4 DEF Promise!Advance
<1> QED BY <1>3, <1>4 DEF QueueStep

LEMMA SeriesStep ==
  TypeOK /\ RunFits /\ RunFits' /\ [Next]_vars => [Promise!SeriesNext]_<<items, active>>
<1> SUFFICES ASSUME TypeOK, RunFits, RunFits', [Next]_vars
             PROVE  Promise!SeriesNext \/ UNCHANGED <<items, active>>
  OBVIOUS
<1>1. CASE Start
  <2>1. Promise!Launch
    BY <1>1 DEF Start, Promise!Launch
  <2> QED BY <2>1 DEF Promise!SeriesNext
<1>2. CASE RunBegins
  <2>1. active /\ Cut(items, 0) /\ QueueStep(items, 0) /\ DOMAIN items = 1..Len(items)
    BY <1>2, RunBeginsStep DEF RunBegins, RunFits, TypeOK
  <2>2. Promise!Advance
    BY <2>1, QueueStepAdvances DEF Cut
  <2> QED BY <2>2 DEF Promise!SeriesNext
<1>3. CASE ItemReturns
  <2> DEFINE its == Settle(op[run.waits].result)
  <2>1. active /\ run.pc \in {"runner", "task"} /\ QueueStep(its, run.i)
    BY <1>3, ItemReturnsStep DEF RunFits
  <2>2. /\ Cut(its, run.i) /\ run.i \in Nat /\ DOMAIN its = DOMAIN items
        /\ \A j \in DOMAIN items : j # run.i => its[j] = items[j]
    <3>1. /\ its \in Seq(States) /\ Len(its) = Len(items) /\ Cut(its, run.i) /\ run.i \in Nat
          /\ \A j \in DOMAIN items : j # run.i => its[j] = items[j]
      BY <2>1, SettleCuts
    <3> QED BY <3>1 DEF TypeOK
  <2>3. \A j \in DOMAIN items : j <= run.i => its[j] \in Outcomes
    BY <2>2 DEF Cut
  <2>4. \A j \in DOMAIN items : j < run.i => its[j] = items[j]
    BY <2>2 DEF TypeOK
  <2>5. /\ \A j \in DOMAIN items : j = run.i => items[j] = "running"
        /\ \A j \in DOMAIN items : j > run.i => items[j] = "pending"
    BY <2>1 DEF RunFits
  <2>6. Promise!Advance
    <3> HIDE DEF its
    <3>1. run.i \in Nat /\ QueueStep(its, run.i) /\ active
      BY <2>1, <2>2
    <3> QED BY <3>1, <2>3, <2>4, <2>5, QueueStepAdvances
  <2> QED BY <2>6 DEF Promise!SeriesNext
<1>4. CASE UNCHANGED <<items, active>>
  BY <1>4
<1>5. Start \/ RunBegins \/ ItemReturns \/ UNCHANGED <<items, active>>
  BY DEF Next, Queue, Operate, CreateTask, IoEnds, OperationEnds, TaskEnds, Scheduler, Schedule, JobComesUp,
         JobReturns, JobOutlasts, ClientBegins, AutoProtect, StopAsked, StopAnswered,
         GracePasses, queueVars, vars
<1> QED BY <1>1, <1>2, <1>3, <1>4, <1>5

(* Whatever happens, the items of a series settle in order, one at a time,  *)
(* and all of them by its end: the queue implements Series.                 *)
THEOREM SeriesKept == Spec => ImplementsSeries
<1>1. Init => Promise!SeriesInit
  BY DEF Init, Promise!SeriesInit
<1>2. Types /\ RunFits /\ [Next]_vars => (Types /\ RunFits)'
  BY TypesKept, RunFitsKept DEF Types
<1>3. Types /\ RunFits /\ (Types /\ RunFits)' /\ [Next]_vars
        => [Promise!SeriesNext]_<<items, active>>
  BY SeriesStep DEF Types
<1> QED BY InitFits, <1>1, <1>2, <1>3, PTL
        DEF Spec, ImplementsSeries, Promise!SeriesSpec, Promise!seriesVars

-----------------------------------------------------------------------------
(* A stop ends the series it was meant for.                                 *)

(* A stop handler that waits for the present series has set its latch.      *)
StopFits ==
  stopper.on => /\ stopper.series <= series
                /\ active /\ stopper.series = series => latch

LEMMA StopFitsKept == Types /\ Types' /\ StopFits /\ [Next]_vars => StopFits'
<1> SUFFICES ASSUME Types, Types', StopFits, [Next]_vars PROVE StopFits'
  OBVIOUS
<1>t. series \in Nat /\ stopper.series \in Nat /\ (active => series > 0) /\ active \in BOOLEAN
  BY JobQueueAssumption DEF Types, TypeOK, Stopper
<1>1. CASE Start
  <2>1. stopper' = stopper /\ series' = series + 1
    BY <1>1 DEF Start
  <2> QED BY <2>1, <1>t DEF StopFits
<1>2. CASE StopAsked
  <2>1. /\ UNCHANGED <<active, series>> /\ latch' = (latch \/ active) /\ Ask
    BY <1>2 DEF StopAsked
  <2>2. CASE stopper' = [on |-> TRUE, series |-> IF active THEN series ELSE 0, task |-> FoundTask]
    BY <2>1, <2>2, <1>t DEF StopFits
  <2>3. CASE stopper' = stopper
    BY <1>2, <2>1, <2>3 DEF StopFits, StopAsked
  <2> QED BY <2>1, <2>2, <2>3 DEF Ask
<1>3. CASE StopAnswered
  <2>1. ~stopper'.on
    BY <1>3 DEF StopAnswered, NotStopping
  <2> QED BY <2>1 DEF StopFits
<1>4. CASE /\ UNCHANGED <<latch, series, stopper>>
           /\ active' => active
  BY <1>4 DEF StopFits
<1>5. CASE RunBegins \/ ItemReturns
  <2>1. UNCHANGED <<latch, series, stopper>>
    BY <1>5 DEF RunBegins, ItemReturns
  <2>2. active' => active
    BY <1>5, <1>t DEF RunBegins, ItemReturns, Proceed, EndSeries
  <2> QED BY <1>4, <2>1, <2>2
<1>6. \/ Start \/ StopAsked \/ StopAnswered \/ RunBegins \/ ItemReturns
      \/ UNCHANGED <<latch, series, stopper, active>>
  BY DEF Next, Queue, Operate, CreateTask, IoEnds, OperationEnds, TaskEnds, Scheduler, Schedule, JobComesUp,
         JobReturns, JobOutlasts, ClientBegins, AutoProtect, GracePasses, queueVars, vars
<1> QED BY <1>1, <1>2, <1>3, <1>4, <1>5, <1>6

LEMMA StopHeededStep ==
  Types /\ RunFits /\ StopFits /\ [Next]_vars =>
    \A i \in DOMAIN items :
      stopper.on /\ stopper.series = series /\ items[i] = "pending" => items'[i] # "running"
<1> SUFFICES ASSUME Types, RunFits, StopFits, [Next]_vars, NEW i \in DOMAIN items,
                    stopper.on, stopper.series = series, items[i] = "pending"
             PROVE  items'[i] # "running"
  OBVIOUS
<1>1. active /\ latch
  BY DEF Types, TypeOK, RunFits, StopFits, Outcomes
<1>2. ASSUME NEW its, NEW k, QueueStep(its, k), k \in Nat,
             \A j \in DOMAIN items : j <= k => its[j] \in Outcomes
      PROVE  items'[i] # "running"
  <2>1. SeriesOver(k) /\ i \in Nat
    BY <1>1, <1>2 DEF QueueStep, ItemBegins, Types, TypeOK
  <2>2. CASE i <= k BY <1>2, <2>2 DEF QueueStep, Outcomes
  <2>3. CASE i > k BY <2>1, <2>3 DEF SeriesOver
  <2> QED BY <1>2, <2>1, <2>2, <2>3
<1>3. CASE RunBegins
  <2>1. Cut(items, 0) /\ QueueStep(items, 0)
    BY <1>3, RunBeginsStep DEF RunBegins, RunFits, Types
  <2> QED BY <2>1, <1>2 DEF Cut
<1>4. CASE ItemReturns
  <2> DEFINE its == Settle(op[run.waits].result)
  <2>1. run.pc \in {"runner", "task"} /\ QueueStep(its, run.i)
    BY <1>4, ItemReturnsStep DEF Types
  <2>2. its \in Seq(States) /\ Len(its) = Len(items) /\ Cut(its, run.i) /\ run.i \in Nat
    BY <2>1, SettleCuts DEF Types
  <2>3. \A j \in DOMAIN items : j <= run.i => its[j] \in Outcomes
    BY <2>2 DEF Cut, Types, TypeOK
  <2> QED BY <2>1, <2>2, <2>3, <1>2
<1>5. CASE items' = items
  BY <1>5
<1>6. RunBegins \/ ItemReturns \/ items' = items
  BY <1>1 DEF Next, Queue, Start, Operate, CreateTask, IoEnds, OperationEnds, TaskEnds, Scheduler, Schedule, JobComesUp,
         JobReturns, JobOutlasts, ClientBegins, AutoProtect, StopAsked, StopAnswered,
         GracePasses, queueVars, vars
<1> QED BY <1>3, <1>4, <1>5, <1>6

(* While the stop handler waits for a series, no further item of it begins, *)
(* although the end of each item clears the instrument's request.           *)
THEOREM StopHeeded == Spec => StopEndsSeries
<1>1. Init => StopFits
  BY DEF Init, StopFits, NotStopping
<1>2. Types /\ RunFits /\ [Next]_vars => (Types /\ RunFits)'
  BY TypesKept, RunFitsKept DEF Types
<1>3. Types /\ Types' /\ StopFits /\ [Next]_vars => StopFits'
  BY StopFitsKept
<1>4. Types /\ RunFits /\ StopFits /\ [Next]_vars =>
        [\A i \in DOMAIN items :
           stopper.on /\ stopper.series = series /\ items[i] = "pending"
             => items'[i] # "running"]_vars
  BY StopHeededStep
<1> QED BY InitFits, <1>1, <1>2, <1>3, <1>4, PTL DEF Spec, StopEndsSeries

-----------------------------------------------------------------------------
(* An item's outcome is its own operation's.                                *)

(* The queue waits for its own item's operation, or that lost its place in  *)
(* `current` before it was over.                                            *)
WaitsFit ==
  /\ items # <<>> => series \in 1..MaxSeries
  /\ run.pc = "runner" => run.waits = Item(run.i)
  /\ run.pc = "runner" /\ Tracked(op[run.waits].mode) /\ Unfinished(run.waits)
       => current = run.waits \/ run.waits \in overtaken
  /\ run.pc = "task" => run.waits = Item(run.i) \/ Item(run.i) \in overtaken

(* What a step of an operation does to the runner's record: whoever takes a *)
(* place that was not free yet is noted.                                    *)
TakesPlace(c) ==
  /\ \A e \in Callers \ {c} : op'[e] = op[e]
  /\ \/ UNCHANGED <<current, overtaken>>
     \/ MakeCurrent(c)

(* An operation that begins takes its own place only.                       *)
LEMMA BeginTakesPlace ==
  ASSUME Types, NEW c \in Callers, NEW m, Begin(c, m)
  PROVE  TakesPlace(c)
BY DEF Begin, TakesPlace, Types, TypeOK

(* So does one that goes on.                                                *)
LEMMA OperateTakesPlace ==
  ASSUME Types, NEW c \in Callers, Operate(c)
  PROVE  TakesPlace(c) /\ UNCHANGED queueVars
BY DEF Operate, CreateTask, IoEnds, OperationEnds, TaskEnds, TakesPlace, Types, TypeOK

(* So does the item a step of the loop begins, if it begins one.            *)
LEMMA QueueTakesPlace ==
  ASSUME Types, NEW its, NEW k, QueueStep(its, k), active
  PROVE  \/ UNCHANGED instrumentVars /\ run' = NoRun
         \/ \E i \in DOMAIN items :
              /\ k < i /\ Item(i) \in Callers /\ TakesPlace(Item(i)) /\ Begin(Item(i), mode[i])
              /\ run' = [pc |-> "runner", i |-> i, waits |-> Item(i)]
<1>1. CASE SeriesOver(k)
  BY <1>1 DEF SeriesOver
<1>2. CASE ItemBegins(k)
  <2>1. PICK i \in DOMAIN items :
          /\ k < i /\ Begin(Item(i), mode[i])
          /\ run' = [pc |-> "runner", i |-> i, waits |-> Item(i)]
    BY <1>2 DEF ItemBegins
  <2>2. Item(i) \in Callers
    BY ItemIsCaller DEF Types
  <2> QED BY <2>1, <2>2, BeginTakesPlace
<1> QED BY <1>1, <1>2 DEF QueueStep

(* Every step of the program is one of the queue's, or an operation of a    *)
(* client or a job begins, or an operation goes on, or none does.           *)
LEMMA PlaceStep ==
  ASSUME Types, RunFits, [Next]_vars
  PROVE  \/ Start \/ RunBegins \/ ItemReturns \/ GracePasses
         \/ (\E c \in Callers : Operate(c))
         \/ (\E c \in Jobs \cup Clients, m \in AllModes : Begin(c, m) /\ UNCHANGED queueVars)
         \/ UNCHANGED <<items, series, run, op, current, overtaken>>
<1>1. ASSUME NEW j \in Jobs, Schedule(j) \/ Scheduler(j) \/ JobOutlasts(j)
      PROVE  /\ UNCHANGED queueVars
             /\ UNCHANGED instrumentVars \/ \E m \in AllModes : Begin(j, m)
  BY <1>1, JobQueueAssumption DEF Schedule, Scheduler, JobComesUp, JobReturns, JobOutlasts
<1>2. ASSUME NEW k \in Clients, ClientBegins(k)
      PROVE  UNCHANGED queueVars /\ \E m \in AllModes : Begin(k, m)
  BY <1>2, JobQueueAssumption DEF ClientBegins
<1>3. ASSUME AutoProtect \/ StopAsked \/ StopAnswered \/ UNCHANGED vars
      PROVE  UNCHANGED <<items, series, run, op, current, overtaken>>
  BY <1>3 DEF AutoProtect, StopAsked, StopAnswered, queueVars, instrumentVars, vars
<1> QED BY <1>1, <1>2, <1>3 DEF Next, Queue, queueVars, instrumentVars

(* What was overtaken stays so.                                             *)
LEMMA OvertakenStays == Types /\ RunFits /\ [Next]_vars => overtaken \subseteq overtaken'
<1> SUFFICES ASSUME Types, RunFits, [Next]_vars PROVE overtaken \subseteq overtaken'
  OBVIOUS
<1>1. ASSUME NEW c, TakesPlace(c) PROVE overtaken \subseteq overtaken'
  BY <1>1 DEF TakesPlace, MakeCurrent
<1>2. ASSUME NEW its, NEW k, QueueStep(its, k), active PROVE overtaken \subseteq overtaken'
  BY <1>1, <1>2, QueueTakesPlace DEF instrumentVars
<1>3. CASE RunBegins
  BY <1>3, <1>2, RunBeginsStep DEF RunBegins, RunFits, Types
<1>4. CASE ItemReturns
  BY <1>4, <1>2, ItemReturnsStep DEF ItemReturns, RunFits, Types
<1>5. CASE Start \/ GracePasses
  BY <1>5 DEF Start, GracePasses, instrumentVars
<1>6. CASE \E c \in Callers : Operate(c)
  BY <1>6, <1>1, OperateTakesPlace
<1>7. CASE \E c \in Jobs \cup Clients, m \in AllModes : Begin(c, m) /\ UNCHANGED queueVars
  BY <1>7, <1>1, BeginTakesPlace DEF Callers
<1> QED BY <1>3, <1>4, <1>5, <1>6, <1>7, PlaceStep

(* See WaitsFit.                                                            *)
LEMMA WaitsFitKept == Types /\ RunFits /\ WaitsFit /\ [Next]_vars => WaitsFit'
<1> SUFFICES ASSUME Types, RunFits, WaitsFit, [Next]_vars PROVE WaitsFit'
  OBVIOUS
<1>f. overtaken \subseteq overtaken'
  BY OvertakenStays
<1>o. op \in [Callers -> Operation]
  BY DEF Types, TypeOK
<1>1. CASE Start
  <2>1. run'.pc = "new" /\ series' \in 1..MaxSeries
    BY <1>1, JobQueueAssumption DEF Start, NoRun, Types, TypeOK
  <2> QED BY <2>1 DEF WaitsFit
<1>b. ASSUME NEW its, NEW k, QueueStep(its, k), active, series' = series
      PROVE  WaitsFit'
  <2>1. series' \in 1..MaxSeries
    BY <1>b DEF Types
  <2>2. CASE run' = NoRun
    BY <2>1, <2>2 DEF NoRun, WaitsFit
  <2>3. ASSUME NEW i \in DOMAIN items, Item(i) \in Callers, Begin(Item(i), mode[i]),
               run' = [pc |-> "runner", i |-> i, waits |-> Item(i)]
        PROVE  WaitsFit'
    <3>1. op'[Item(i)].pc = First(mode[i]) /\ op'[Item(i)].mode = mode[i]
      BY <1>o, <2>3 DEF Begin
    <3>2. Tracked(mode[i]) /\ First(mode[i]) = "io" => current' = Item(i)
      BY <2>3 DEF Begin, MakeCurrent, Tracked, First
    <3>3. /\ run'.pc = "runner" /\ run'.waits = Item(i) /\ Item(run.i)' = Item(i)
          /\ Unfinished(run.waits)' => First(mode[i]) = "io"
      BY <1>b, <2>3, <3>1 DEF Item, Unfinished, First
    <3> QED BY <2>1, <3>1, <3>2, <3>3 DEF WaitsFit, Tracked
  <2> QED BY <1>b, <2>2, <2>3, QueueTakesPlace
<1>2. CASE RunBegins
  BY <1>2, <1>b, RunBeginsStep DEF RunBegins, RunFits, Types
<1>3. CASE ItemReturns
  BY <1>3, <1>b, ItemReturnsStep DEF ItemReturns, RunFits, Types
<1>4. CASE GracePasses
  <2>1. /\ run.pc = "runner" /\ Tracked(op[run.waits].mode) /\ Unfinished(run.waits)
        /\ run'.pc = "task" /\ run'.i = run.i /\ run'.waits = current
        /\ UNCHANGED <<items, series, overtaken>>
    BY <1>4 DEF GracePasses, Types, TypeOK, Runs, instrumentVars
  <2> QED BY <2>1 DEF WaitsFit, Item
(* Another operation takes the place of the one the queue waits for.        *)
<1>c. ASSUME NEW c \in Callers, TakesPlace(c), UNCHANGED queueVars,
             \/ current' = c
             \/ /\ UNCHANGED current
                /\ (Unfinished(c)' => Unfinished(c)) /\ op'[c].mode = op[c].mode
             \/ run.waits # c
      PROVE  WaitsFit'
  <2> SUFFICES ASSUME run.pc = "runner", Tracked(op'[run.waits].mode), Unfinished(run.waits)'
               PROVE  current' = run.waits \/ run.waits \in overtaken'
    BY <1>c, <1>f DEF WaitsFit, queueVars, Item
  <2>u. run' = run /\ op'[run.waits].pc \in {"io", "post", "tail"}
    BY <1>c DEF queueVars, Unfinished
  <2>1. run.waits = Item(run.i) /\ run.waits \in QueuedItems /\ run.waits \in Callers
    <3>1. run.waits = Item(run.i) /\ run.i \in DOMAIN items /\ series \in 1..MaxSeries
      BY DEF WaitsFit, RunFits, Types
    <3>2. run.i \in 1..MaxItems
      BY <3>1, JobQueueAssumption DEF Types, TypeOK
    <3> QED BY <3>1, <3>2 DEF Item, QueuedItems, Callers
  <2>2. CASE current' = run.waits
    BY <2>2
  <2>3. CASE current' # run.waits
    <3>1. Tracked(op[run.waits].mode) /\ Unfinished(run.waits)
      <4>1. CASE run.waits # c
        BY <1>c, <2>u, <2>1, <4>1 DEF TakesPlace, Unfinished
      <4>2. CASE run.waits = c
        BY <1>c, <2>u, <2>3, <4>2 DEF Unfinished
      <4> QED BY <4>1, <4>2
    <3>2. current = run.waits \/ run.waits \in overtaken
      BY <3>1 DEF WaitsFit
    <3> QED BY <1>c, <1>f, <2>1, <2>3, <3>1, <3>2 DEF TakesPlace, MakeCurrent
  <2> QED BY <2>2, <2>3
<1>5. CASE \E c \in Callers : Operate(c)
  <2>1. PICK c \in Callers : Operate(c)
    BY <1>5
  <2>2. CASE CreateTask(c)
    BY <2>1, <2>2, <1>c, OperateTakesPlace DEF CreateTask, MakeCurrent
  <2>3. CASE IoEnds(c) \/ OperationEnds(c) \/ TaskEnds(c)
    <3>1. (Unfinished(c)' => Unfinished(c)) /\ op'[c].mode = op[c].mode /\ UNCHANGED current
      BY <1>o, <2>3 DEF IoEnds, OperationEnds, TaskEnds, Unfinished, Operation
    <3> QED BY <2>1, <3>1, <1>c, OperateTakesPlace
  <2> QED BY <2>1, <2>2, <2>3 DEF Operate
<1>6. CASE \E c \in Jobs \cup Clients, m \in AllModes : Begin(c, m) /\ UNCHANGED queueVars
  <2>1. PICK c \in Jobs \cup Clients, m \in AllModes : Begin(c, m) /\ UNCHANGED queueVars
    BY <1>6
  <2>2. c \in Callers /\ TakesPlace(c)
    BY <2>1, BeginTakesPlace DEF Callers
  <2>3. CASE run.waits # c
    BY <2>1, <2>2, <2>3, <1>c
  <2>4. CASE run.waits = c /\ run.pc = "runner"
    <3>1. run.i \in 1..MaxItems /\ series \in 1..MaxSeries /\ c = Item(run.i)
      BY <2>4, JobQueueAssumption DEF WaitsFit, RunFits, Types, TypeOK
    <3> QED BY <3>1, JobQueueAssumption DEF Item, QueuedItems
  <2>5. CASE run.pc # "runner"
    BY <2>1, <2>5, <1>f DEF WaitsFit, queueVars, Item
  <2> QED BY <2>3, <2>4, <2>5
<1>7. CASE UNCHANGED <<items, series, run, op, current, overtaken>>
  BY <1>7 DEF WaitsFit, Unfinished, Item
<1> QED BY <1>1, <1>2, <1>3, <1>4, <1>5, <1>6, <1>7, PlaceStep

(* See OutcomeIsOwn.                                                        *)
LEMMA OutcomeKept ==
  Types /\ RunFits /\ WaitsFit /\ OutcomeIsOwn /\ [Next]_vars => OutcomeIsOwn'
<1> SUFFICES ASSUME Types, RunFits, WaitsFit, OutcomeIsOwn, [Next]_vars
             PROVE  OutcomeIsOwn'
  OBVIOUS
<1>f. overtaken \subseteq overtaken'
  BY OvertakenStays
<1>o. op \in [Callers -> Operation]
  BY DEF Types, TypeOK
<1>n. /\ DOMAIN items = 1..Len(items) /\ Len(items) \in Nat
      /\ \A i \in DOMAIN items : i \in 1..MaxItems
  BY JobQueueAssumption DEF Types, TypeOK
<1>i. \A i \in DOMAIN items : Item(i) \in QueuedItems /\ Item(i) \in Callers
  <2>1. SUFFICES ASSUME NEW i \in DOMAIN items
                 PROVE  Item(i) \in QueuedItems
    BY DEF Callers
  <2>2. series \in 1..MaxSeries
    BY <1>n DEF WaitsFit
  <2> QED BY <1>n, <2>2 DEF Item, QueuedItems
(* What an ended operation came to is not undone while its place is kept.   *)
<1>k. ASSUME UNCHANGED <<items, series>>,
             \A i \in DOMAIN items : op[Item(i)].pc = "over" => op'[Item(i)] = op[Item(i)]
      PROVE  OutcomeIsOwn'
  BY <1>k, <1>f DEF OutcomeIsOwn, Item
<1>q. ASSUME NEW its, NEW k \in Nat, QueueStep(its, k), active, series' = series,
             \A j \in DOMAIN items : j <= k =>
               (Item(j) \notin overtaken /\ its[j] \in {"done", "aborted"}
                  => op[Item(j)].pc = "over" /\ op[Item(j)].result = its[j])
      PROVE  OutcomeIsOwn'
  <2>1. SUFFICES ASSUME NEW j \in DOMAIN items, Item(j) \notin overtaken,
                        items'[j] \in {"done", "aborted"}
                 PROVE  op'[Item(j)].pc = "over" /\ op'[Item(j)].result = items'[j]
    BY <1>f, <1>q, <1>n DEF OutcomeIsOwn, Item, QueueStep
  <2>2. CASE SeriesOver(k)
    <3>1. j <= k /\ items'[j] = its[j]
      BY <1>q, <1>n, <2>1, <2>2 DEF SeriesOver, QueueStep
    <3> QED BY <1>q, <2>1, <2>2, <3>1 DEF SeriesOver, instrumentVars
  <2>3. CASE ItemBegins(k)
    <3>1. PICK i \in DOMAIN items :
            /\ k < i
            /\ \A h \in DOMAIN items :
                 items'[h] = IF h > i THEN "pending" ELSE IF h = i THEN "running"
                             ELSE IF h > k THEN "error" ELSE items'[h]
            /\ Begin(Item(i), mode[i])
      BY <2>3 DEF ItemBegins
    <3>2. j <= k /\ j # i
      BY <1>n, <1>q, <2>1, <3>1
    <3>3. items'[j] = its[j]
      BY <1>q, <3>2 DEF QueueStep
    <3>4. Item(j) # Item(i)
      BY <3>2 DEF Item
    <3>5. op'[Item(j)] = op[Item(j)]
      BY <1>i, <1>o, <3>1, <3>4 DEF Begin
    <3> QED BY <1>q, <2>1, <3>2, <3>3, <3>5
  <2> QED BY <1>q, <2>2, <2>3 DEF QueueStep
<1>1. CASE Start
  <2>1. \A i \in DOMAIN items' : items'[i] = "pending"
    BY <1>1 DEF Start
  <2> QED BY <2>1 DEF OutcomeIsOwn
<1>2. CASE RunBegins
  <2>1. Cut(items, 0) /\ QueueStep(items, 0) /\ series' = series /\ active
    BY <1>2, RunBeginsStep DEF RunBegins, RunFits, Types
  <2>2. \A j \in DOMAIN items : ~(j <= 0)
    BY <1>n
  <2> QED BY <2>1, <2>2, <1>q
<1>3. CASE ItemReturns
  <2> DEFINE its == Settle(op[run.waits].result)
  <2>1. /\ run.pc \in {"runner", "task"} /\ QueueStep(its, run.i) /\ series' = series
        /\ op[run.waits].pc = "over" /\ active
    BY <1>3, ItemReturnsStep DEF ItemReturns, RunFits, Types
  <2>2. /\ run.i \in Nat /\ its[run.i] = Outcome(op[run.waits].result)
        /\ \A j \in DOMAIN items : j # run.i => its[j] = items[j]
    BY <2>1, SettleCuts DEF Types
  <2>3. Item(run.i) \notin overtaken => run.waits = Item(run.i)
    BY <2>1 DEF WaitsFit
  <2>4. ASSUME NEW j \in DOMAIN items, Item(j) \notin overtaken, its[j] \in {"done", "aborted"}
        PROVE  op[Item(j)].pc = "over" /\ op[Item(j)].result = its[j]
    <3>1. CASE j = run.i
      BY <2>1, <2>2, <2>3, <2>4, <3>1 DEF Outcome
    <3>2. CASE j # run.i
      BY <2>2, <2>4, <3>2 DEF OutcomeIsOwn
    <3> QED BY <3>1, <3>2
  <2> HIDE DEF its
  <2> QED BY <2>1, <2>2, <2>4, <1>q
<1>4. CASE \E c \in Callers : Operate(c)
  <2>1. PICK c \in Callers : Operate(c)
    BY <1>4
  <2>2. op[c].pc # "over"
    BY <2>1 DEF Operate, CreateTask, IoEnds, OperationEnds, TaskEnds
  <2>3. (\A e \in Callers : e # c => op'[e] = op[e]) /\ UNCHANGED <<items, series>>
    BY <2>1, OperateTakesPlace DEF TakesPlace, queueVars
  <2> QED BY <2>2, <2>3, <1>i, <1>k
<1>5. CASE \E c \in Jobs \cup Clients, m \in AllModes : Begin(c, m) /\ UNCHANGED queueVars
  <2>1. PICK c \in Jobs \cup Clients, m \in AllModes : Begin(c, m) /\ UNCHANGED queueVars
    BY <1>5
  <2>2. \A i \in DOMAIN items : Item(i) # c
    BY <1>i, JobQueueAssumption
  <2>3. \A i \in DOMAIN items : op'[Item(i)] = op[Item(i)]
    BY <2>1, <1>i, <1>o, <2>2 DEF Begin
  <2> QED BY <2>1, <2>3, <1>k DEF queueVars
<1>6. CASE UNCHANGED <<items, series, op>>
  BY <1>6, <1>k
<1>7. CASE GracePasses
  BY <1>7, <1>6 DEF GracePasses, instrumentVars
<1> QED BY <1>1, <1>2, <1>3, <1>4, <1>5, <1>6, <1>7, PlaceStep

(* An item that is done or aborted is so by its own operation, which has    *)
(* ended, although the queue takes whatever task it finds in `current`,     *)
(* unless another intensity operation took the item's place there before    *)
(* its task was over (acquisition.py:303-312, queue.py:106).                *)
THEOREM OutcomeOwn == Spec => []OutcomeIsOwn
<1>1. Init => WaitsFit /\ OutcomeIsOwn
  BY DEF Init, NoRun, WaitsFit, OutcomeIsOwn
<1>2. Types /\ RunFits /\ [Next]_vars => (Types /\ RunFits)'
  BY TypesKept, RunFitsKept DEF Types
<1>3. Types /\ RunFits /\ WaitsFit /\ [Next]_vars => WaitsFit'
  BY WaitsFitKept
<1>4. Types /\ RunFits /\ WaitsFit /\ OutcomeIsOwn /\ [Next]_vars => OutcomeIsOwn'
  BY OutcomeKept
<1> QED BY InitFits, <1>1, <1>2, <1>3, <1>4, PTL DEF Spec

(* An item whose task is still to be created is the one the queue waits for.*)
Announced ==
  \A c \in QueuedItems : op[c].pc = "announce" => run.pc = "runner" /\ run.waits = c

(* See Announced.                                                           *)
LEMMA AnnouncedKept == Types /\ RunFits /\ Announced /\ [Next]_vars => Announced'
<1> SUFFICES ASSUME Types, RunFits, Announced, [Next]_vars PROVE Announced'
  OBVIOUS
<1>o. op \in [Callers -> Operation] /\ QueuedItems \subseteq Callers
  BY DEF Types, TypeOK, Callers
<1>q. ASSUME NEW its, NEW k, QueueStep(its, k), active,
             \A c \in QueuedItems : op[c].pc # "announce"
      PROVE  Announced'
  <2>1. CASE UNCHANGED instrumentVars
    BY <1>q, <2>1 DEF Announced, instrumentVars
  <2>2. ASSUME NEW i \in DOMAIN items, TakesPlace(Item(i)),
               run' = [pc |-> "runner", i |-> i, waits |-> Item(i)]
        PROVE  Announced'
    BY <1>o, <1>q, <2>2 DEF Announced, TakesPlace
  <2> QED BY <1>q, <2>1, <2>2, QueueTakesPlace
<1>1. CASE Start
  BY <1>1 DEF Start, RunFits, Announced, instrumentVars
<1>2. CASE RunBegins
  <2>1. \A c \in QueuedItems : op[c].pc # "announce"
    BY <1>2 DEF RunBegins, Announced
  <2> QED BY <1>2, <2>1, <1>q, RunBeginsStep DEF RunBegins, RunFits, Types
<1>3. CASE ItemReturns
  <2>1. \A c \in QueuedItems : op[c].pc # "announce"
    BY <1>3 DEF ItemReturns, Announced
  <2> QED BY <1>3, <2>1, <1>q, ItemReturnsStep DEF ItemReturns, RunFits, Types
<1>4. CASE GracePasses
  <2>1. \A c \in QueuedItems : op[c].pc # "announce"
    BY <1>4 DEF GracePasses, Announced, Unfinished
  <2> QED BY <1>4, <2>1 DEF GracePasses, Announced, instrumentVars
<1>5. CASE \E c \in Callers : Operate(c)
  <2>1. PICK c \in Callers : Operate(c)
    BY <1>5
  <2>2. op'[c].pc # "announce"
    BY <1>o, <2>1 DEF Operate, CreateTask, IoEnds, OperationEnds, TaskEnds, Operation
  <2> QED BY <1>o, <2>1, <2>2, OperateTakesPlace DEF Announced, TakesPlace, queueVars
<1>6. CASE \E c \in Jobs \cup Clients, m \in AllModes : Begin(c, m) /\ UNCHANGED queueVars
  <2>1. PICK c \in Jobs \cup Clients, m \in AllModes : Begin(c, m) /\ UNCHANGED queueVars
    BY <1>6
  <2>2. \A e \in QueuedItems : op'[e] = op[e]
    BY <1>o, <2>1, JobQueueAssumption DEF Begin
  <2> QED BY <2>1, <2>2 DEF Announced, queueVars
<1>7. CASE UNCHANGED <<items, series, run, op, current, overtaken>>
  BY <1>7 DEF Announced
<1> QED BY <1>1, <1>2, <1>3, <1>4, <1>5, <1>6, <1>7, PlaceStep

-----------------------------------------------------------------------------
(* Who makes an item fail.                                                  *)

OthersUnderWay == \E c \in Jobs \cup Clients : UnderWay(c)

(* The instrument is busy with an operation of somebody else's, or with the *)
(* item the queue waits for; a stop that gave up changes nothing about it,  *)
(* since whoever begins after it makes the instrument busy himself.         *)
BusyByItem ==
  Busy /\ ~OthersUnderWay =>
    /\ run.pc \in {"runner", "task"}
    /\ run.waits = Item(run.i) /\ UnderWay(run.waits)
    /\ Tracked(op[run.waits].mode) /\ Unfinished(run.waits) => current = run.waits

(* A step of the loop either begins an item or leaves the instrument as it  *)
(* was, which is then not busy with the item that has ended.                *)
LEMMA QueueStepBusy ==
  ASSUME Types, NEW its, NEW k, QueueStep(its, k), active, series' = series,
         Busy => OthersUnderWay
  PROVE  BusyByItem'
<1>1. CASE SeriesOver(k)
  BY <1>1 DEF SeriesOver, instrumentVars, BusyByItem, Busy, OthersUnderWay, UnderWay
<1>2. CASE ItemBegins(k)
  <2>1. PICK i \in DOMAIN items : /\ Begin(Item(i), mode[i])
                                 /\ run' = [pc |-> "runner", i |-> i, waits |-> Item(i)]
    BY <1>2 DEF ItemBegins
  <2>2. Item(i) \in Callers
    BY ItemIsCaller DEF Types
  <2>3. /\ op'[Item(i)] = [pc |-> First(mode[i]), mode |-> mode[i], result |-> "none"]
        /\ mode[i] = "single" => current' = Item(i)
    BY <2>1, <2>2 DEF Begin, MakeCurrent, Types, TypeOK
  <2>4. run'.pc = "runner" /\ run'.waits = Item(i) /\ Item(run.i)' = Item(i)
    BY <2>1 DEF Item
  <2>5. UnderWay(run.waits)' /\ op'[run'.waits].mode = mode[i] /\ run'.waits = Item(run.i)'
    BY <2>3, <2>4 DEF UnderWay, First
  <2>6. (Tracked(op[run.waits].mode) /\ Unfinished(run.waits) => current = run.waits)'
    BY <2>3, <2>4, <2>5 DEF Tracked, Unfinished, First
  <2> QED BY <2>4, <2>5, <2>6 DEF BusyByItem
<1> QED BY <1>1, <1>2 DEF QueueStep

(* See BusyByItem.                                                          *)
LEMMA BusyByItemKept ==
  Types /\ RunFits /\ Announced /\ BusyByItem /\ [Next]_vars => BusyByItem'
<1> SUFFICES ASSUME Types, RunFits, Announced, BusyByItem, [Next]_vars PROVE BusyByItem'
  OBVIOUS
<1>o. op \in [Callers -> Operation]
  BY DEF Types, TypeOK
<1>u. ASSUME UNCHANGED <<op, current, run, series>>, Busy' => Busy
      PROVE  BusyByItem'
  BY <1>u DEF BusyByItem, OthersUnderWay, UnderWay, Unfinished, Tracked, Item
<1>b. ASSUME NEW c \in Jobs \cup Clients, NEW m, Begin(c, m) PROVE BusyByItem'
  <2>1. op'[c].pc \in {"announce", "io"}
    BY <1>b, <1>o DEF Begin, First, Callers
  <2> QED BY <2>1 DEF BusyByItem, OthersUnderWay, UnderWay
<1>1. CASE RunBegins
  <2>1. Busy => OthersUnderWay
    BY <1>1 DEF BusyByItem, RunBegins
  <2> QED BY <1>1, <2>1, QueueStepBusy, RunBeginsStep DEF RunBegins, RunFits, Types
<1>2. CASE ItemReturns
  <2>1. Busy => OthersUnderWay
    BY <1>2, ItemReturnsStep DEF BusyByItem, UnderWay, Types
  <2> QED BY <1>2, <2>1, QueueStepBusy, ItemReturnsStep DEF ItemReturns, RunFits, Types
<1>3. CASE GracePasses
  <2>1. /\ Tracked(op[run.waits].mode) /\ Unfinished(run.waits)
        /\ run'.pc = "task" /\ run'.i = run.i /\ run'.waits = current
        /\ UNCHANGED <<status, op, current, series>>
    BY <1>3 DEF GracePasses, instrumentVars, Types, TypeOK, Runs
  <2> QED BY <2>1 DEF BusyByItem, Busy, OthersUnderWay, UnderWay, Unfinished, Tracked, Item
<1>4. CASE Start
  BY <1>4 DEF Start, BusyByItem, Busy, instrumentVars
<1>5. CASE \E c \in Callers : Operate(c)
  <2>1. PICK c \in Callers : CreateTask(c) \/ IoEnds(c) \/ OperationEnds(c) \/ TaskEnds(c)
    BY <1>5 DEF Operate
  <2>i. run.pc \in {"runner", "task"} => Item(run.i) \in Callers
    BY ItemIsCaller DEF RunFits, Types
  <2>2. CASE IoEnds(c) \/ TaskEnds(c)
    <3>1. /\ UNCHANGED <<status, current, run, series>>
          /\ \A e \in Callers : /\ UnderWay(e)' <=> UnderWay(e)
                                /\ Unfinished(e)' => Unfinished(e)
                                /\ op'[e].mode = op[e].mode
      BY <1>o, <2>2 DEF IoEnds, TaskEnds, UnderWay, Unfinished, Operation, queueVars
    <3>2. OthersUnderWay => OthersUnderWay'
      BY <3>1 DEF OthersUnderWay, Callers
    <3> QED BY <2>i, <3>1, <3>2 DEF BusyByItem, Busy, Tracked, Item
  <2>3. CASE OperationEnds(c)
    BY <2>3 DEF OperationEnds, SetIdle, Busy, BusyByItem
  <2>4. CASE CreateTask(c)
    <3>1. /\ UNCHANGED <<status, run, series>> /\ current' = c
          /\ \A e \in Callers : /\ UnderWay(e)' <=> UnderWay(e)
                                /\ op'[e].mode = op[e].mode
          /\ UnderWay(c) /\ op[c].pc = "announce"
      BY <1>o, <2>4 DEF CreateTask, MakeCurrent, UnderWay, Operation, queueVars
    <3>2. OthersUnderWay => OthersUnderWay'
      BY <3>1 DEF OthersUnderWay, Callers
    <3>3. CASE c \in Jobs \cup Clients
      BY <3>1, <3>3 DEF OthersUnderWay, BusyByItem
    <3>4. CASE c \in QueuedItems
      <4>1. run.waits = c
        BY <3>1, <3>4 DEF Announced
      <4> QED BY <2>i, <3>1, <3>2, <4>1 DEF BusyByItem, Busy, Tracked, Item
    <3> QED BY <3>3, <3>4 DEF Callers
  <2> QED BY <2>1, <2>2, <2>3, <2>4
<1>6. CASE \E j \in Jobs : Schedule(j) \/ Scheduler(j) \/ JobOutlasts(j)
  <2>1. PICK j \in Jobs : Schedule(j) \/ JobReturns(j) \/ JobOutlasts(j) \/ JobComesUp(j)
    BY <1>6 DEF Scheduler
  <2>2. UNCHANGED queueVars /\ (UNCHANGED instrumentVars \/ \E m : Begin(j, m))
    BY <2>1 DEF Schedule, JobReturns, JobOutlasts, JobComesUp
  <2>3. CASE UNCHANGED instrumentVars
    BY <2>2, <2>3, <1>u DEF instrumentVars, queueVars, Busy
  <2>4. CASE \E m : Begin(j, m)
    BY <2>4, <1>b
  <2> QED BY <2>2, <2>3, <2>4
<1>7. CASE \E k \in Clients : ClientBegins(k)
  BY <1>7, <1>b DEF ClientBegins
<1>8. CASE AutoProtect
  BY <1>8, <1>u DEF AutoProtect, queueVars, Busy
<1>9. CASE StopAsked
  <2>1. UNCHANGED <<op, current, run, series>> /\ Ask
    BY <1>9 DEF StopAsked
  <2>2. Busy' => Busy
    BY <2>1 DEF Ask, Busy
  <2> QED BY <2>1, <2>2, <1>u
<1>10. CASE StopAnswered
  <2>1. UNCHANGED <<op, current, run, series>> /\ (Busy' => Busy)
    BY <1>10 DEF StopAnswered, SetIdle, Busy, queueVars
  <2> QED BY <2>1, <1>u
<1>11. CASE UNCHANGED vars
  BY <1>11, <1>u DEF vars, instrumentVars, queueVars, Busy
<1> QED
  BY <1>1, <1>2, <1>3, <1>4, <1>5, <1>6, <1>7, <1>8, <1>9, <1>10, <1>11 DEF Next, Queue

(* The loop makes an error of a pending item that parses only when it finds *)
(* the instrument busy.                                                     *)
LEMMA ProceedErrors ==
  ASSUME NEW its, Proceed(its), NEW i \in DOMAIN its, its[i] = "pending", mode[i] # "bad",
         DOMAIN its \subseteq Nat, items'[i] = "error"
  PROVE  Busy
<1> DEFINE pending == {j \in DOMAIN its : its[j] = "pending"}
           fit == {j \in pending : mode[j] # "bad"}
<1>1. i \in fit
  OBVIOUS
<1>2. CASE latch \/ stopRequested
  <2>1. EndSeries(its)
    BY <1>2 DEF Proceed
  <2> QED BY <2>1 DEF EndSeries
<1>3. CASE ~(latch \/ stopRequested) /\ ~Busy
  <2>1. PICK n \in fit :
          /\ \A j \in fit : n <= j
          /\ items' = [j \in DOMAIN its |-> IF j = n THEN "running"
                         ELSE IF j \in pending /\ j < n THEN "error" ELSE its[j]]
    BY <1>1, <1>3 DEF Proceed
  <2>2. n <= i /\ i \in Nat /\ n \in Nat
    BY <1>1, <2>1
  <2>3. items'[i] \in {"running", "pending"}
    BY <2>1, <2>2
  <2> QED BY <2>3
<1> QED BY <1>2, <1>3

(* See RefusedByOthers.                                                     *)
LEMMA RefusedStep ==
  Types /\ RunFits /\ BusyByItem /\ [Next]_vars =>
    \A i \in DOMAIN items :
      items[i] = "pending" /\ items'[i] = "error" /\ mode[i] # "bad" => OthersUnderWay
<1> SUFFICES ASSUME Types, RunFits, BusyByItem, [Next]_vars, NEW i \in DOMAIN items,
                    items[i] = "pending", items'[i] = "error", mode[i] # "bad"
             PROVE  OthersUnderWay
  OBVIOUS
<1>1. DOMAIN items \subseteq Nat
  BY DEF Types, TypeOK
<1>2. CASE RunBegins
  <2>1. Busy
    BY <1>1, <1>2, ProceedErrors DEF RunBegins
  <2> QED BY <1>2, <2>1 DEF BusyByItem, RunBegins
<1>3. CASE ItemReturns
  <2> DEFINE its == Settle(op[run.waits].result)
  <2>1. run.pc \in {"runner", "task"} /\ op[run.waits].pc = "over" /\ i # run.i
    BY <1>3, ItemReturnsStep DEF RunFits, Types
  <2>2. DOMAIN its = DOMAIN items /\ its[i] = "pending"
    <3>1. DOMAIN its = DOMAIN items
      BY DEF Settle
    <3> QED BY <2>1, <3>1, SettleCuts DEF Types
  <2>3. Proceed(its) \/ EndSeries(its)
    BY <1>3 DEF ItemReturns
  <2> HIDE DEF its
  <2>4. CASE EndSeries(its)
    BY <2>2, <2>4 DEF EndSeries
  <2>5. CASE Proceed(its)
    <3>1. PICK x : x = its
      OBVIOUS
    <3>2. Busy
      BY <1>1, <2>2, <2>5, <3>1, ProceedErrors
    <3> QED BY <2>1, <3>2 DEF BusyByItem, UnderWay
  <2> QED BY <2>3, <2>4, <2>5
<1>4. CASE Start
  <2>1. ~active
    BY <1>4 DEF Start
  <2> QED BY <2>1 DEF RunFits, Outcomes
<1>5. RunBegins \/ ItemReturns \/ Start \/ items' = items
  BY DEF Next, Queue, Operate, CreateTask, IoEnds, OperationEnds, TaskEnds, Scheduler, Schedule, JobComesUp,
         JobReturns, JobOutlasts, ClientBegins, AutoProtect, StopAsked, StopAnswered,
         GracePasses, queueVars, vars
<1> QED BY <1>2, <1>3, <1>4, <1>5

(* An item that parses fails before it begins only because an operation of  *)
(* a client or a scheduled job is under way, never because of the series'   *)
(* own previous item, one that outlasted the runner's grace included, and   *)
(* whatever stop handlers have given up on (queue.py:104-106).              *)
THEOREM RefusedOnlyByOthers == Spec => RefusedByOthers
<1>1. Init => BusyByItem /\ Announced
  BY DEF Init, BusyByItem, Busy, Announced, Off, Callers
<1>2. Types /\ RunFits /\ [Next]_vars => (Types /\ RunFits)'
  BY TypesKept, RunFitsKept DEF Types
<1>3. Types /\ RunFits /\ Announced /\ BusyByItem /\ [Next]_vars => (Announced /\ BusyByItem)'
  BY AnnouncedKept, BusyByItemKept
<1>4. Types /\ RunFits /\ BusyByItem /\ [Next]_vars =>
        [\A i \in DOMAIN items :
           items[i] = "pending" /\ items'[i] = "error" /\ mode[i] # "bad"
             => \E c \in Jobs \cup Clients : UnderWay(c)]_vars
  BY RefusedStep DEF OthersUnderWay
<1> QED BY InitFits, <1>1, <1>2, <1>3, <1>4, PTL DEF Spec, RefusedByOthers
=============================================================================
