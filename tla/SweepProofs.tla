---------------------------- MODULE SweepProofs ----------------------------
(***************************************************************************)
(* Proofs about the sweep runner and its store, for every number of points *)
(* and sweeps and every choice of faults.                                  *)
(*                                                                         *)
(* The run of the sweep's task and the row of its sweep in the store agree *)
(* at every step (RunFits): the sweep is not done, and of its points those *)
(* are in the store that the run has left behind.                          *)
(***************************************************************************)
EXTENDS Sweep, TLAPS

AtWork == run.pc \in {"loop", "point", "ended"}

RunFits ==
  /\ AtWork => /\ ~store[run.id].done
               /\ store[run.id].points = Points \ run.todo
  /\ run.pc \in {"point", "ended"} => run.point \in run.todo

Inv == TypeOK /\ RunFits

Entry == [done: BOOLEAN, points: SUBSET Points]

(* A sweep's entry in the store, changed, leaves a store of as many sweeps. *)
LEMMA EntryChanged ==
  ASSUME store \in Seq(Entry), NEW id \in DOMAIN store, NEW e \in Entry
  PROVE  /\ [store EXCEPT ![id] = e] \in Seq(Entry)
         /\ DOMAIN [store EXCEPT ![id] = e] = DOMAIN store
         /\ [store EXCEPT ![id] = e][id] = e
OBVIOUS

(* An entry with another point.                                             *)
LEMMA EntryGrows ==
  ASSUME NEW r \in Entry, NEW p \in Points
  PROVE  /\ [r EXCEPT !.points = @ \cup {p}] \in Entry
         /\ [r EXCEPT !.points = @ \cup {p}].points = r.points \cup {p}
         /\ [r EXCEPT !.points = @ \cup {p}].done = r.done
BY DEF Entry

LEMMA InitInv == Init => Inv
<1> SUFFICES ASSUME Init PROVE Inv
  OBVIOUS
<1>1. store = <<>> /\ acquired = <<>> /\ ops = {} /\ run = NoRun
  BY DEF Init
<1>2. /\ store \in Seq([done: BOOLEAN, points: SUBSET Points]) /\ acquired \in Seq(SUBSET Points)
      /\ DOMAIN acquired = DOMAIN store
  BY <1>1
<1>3. run \in Runs /\ run.pc = "none"
  BY <1>1 DEF NoRun, Runs
<1>4. TypeOK
  BY <1>1, <1>2, <1>3 DEF Init, TypeOK
<1>5. RunFits
  BY <1>3 DEF RunFits, AtWork
<1> QED BY <1>4, <1>5 DEF Inv

LEMMA StartInv == Inv /\ Start => Inv'
<1> SUFFICES ASSUME Inv, Start PROVE Inv'
  OBVIOUS
<1> USE DEF Inv, TypeOK
<1> DEFINE new == [done |-> FALSE, points |-> {}]
<1>1. store' = Append(store, new) /\ acquired' = Append(acquired, {})
  BY DEF Start
<1>2. /\ store' \in Seq(Entry) /\ acquired' \in Seq(SUBSET Points)
      /\ DOMAIN acquired' = DOMAIN store'
      /\ Len(store) + 1 \in DOMAIN store'
      /\ store'[Len(store) + 1] = new
      /\ \A id \in DOMAIN store : id \in DOMAIN store'
  BY <1>1 DEF Entry
<1>3. /\ active' = TRUE
      /\ run' = [NoRun EXCEPT !.pc = "loop", !.id = Len(store) + 1, !.todo = Points \ {}]
      /\ UNCHANGED <<status, stopRequested, ops, stopper>>
  BY DEF Start, Launch
<1>4. run' = [pc |-> "loop", id |-> Len(store) + 1, todo |-> Points, point |-> 0, outcome |-> "none"]
  BY <1>3 DEF NoRun
<1>5. TypeOK'
  BY <1>2, <1>3, <1>4 DEF Runs, Entry, ClientOp, Op
<1>6. RunFits'
  BY <1>2, <1>4 DEF RunFits, AtWork
<1> QED BY <1>5, <1>6

LEMMA ResumeInv == Inv /\ Resume => Inv'
<1> SUFFICES ASSUME Inv, Resume PROVE Inv'
  OBVIOUS
<1> USE DEF Inv, TypeOK
<1>1. PICK id \in DOMAIN store : LatestIncomplete(id) /\ Launch(id, store[id].points)
  BY DEF Resume
<1>2. /\ active' = TRUE
      /\ run' = [pc |-> "loop", id |-> id, todo |-> Points \ store[id].points, point |-> 0,
                 outcome |-> "none"]
      /\ UNCHANGED <<status, stopRequested, ops, stopper, store, acquired>>
  BY <1>1 DEF Resume, Launch, NoRun
<1>3. id \in Nat /\ ~store[id].done /\ store[id].points \in SUBSET Points
  <2>1. store \in Seq(Entry)
    BY DEF Entry
  <2>2. id \in Nat /\ store[id] \in Entry
    BY <2>1
  <2> QED BY <1>1, <2>2 DEF LatestIncomplete, Entry
<1>4. TypeOK'
  BY <1>2, <1>3 DEF Runs
<1>5. RunFits'
  BY <1>2, <1>3 DEF RunFits, AtWork
<1> QED BY <1>4, <1>5

(* The steps that leave the store alone and move the run, if at all, from   *)
(* one point's beginning to its end, or to nothing.                         *)
LEMMA QuietInv ==
  ASSUME Inv, UNCHANGED <<store>>,
         acquired' \in Seq(SUBSET Points), DOMAIN acquired' = DOMAIN acquired,
         status' \in {"idle", "acquiring", "stopping"}, stopRequested' \in BOOLEAN,
         stopper' \in {"none", "plain", "sweep"},
         ops' \subseteq ops \cup {ClientOp},
         \/ run' = NoRun /\ active' \in BOOLEAN
         \/ run' = run /\ active' = active
         \/ /\ active' = active
            /\ run.pc = "point"
            /\ \E end \in {"done", "running", "failed", "raised"} :
                 run' = [run EXCEPT !.pc = "ended", !.outcome = end]
  PROVE  Inv'
<1> USE DEF Inv, TypeOK
<1>o. /\ ops' \subseteq Op
      /\ \A o \in ops' \ {ClientOp} : o.id \in DOMAIN store' /\ o.point \in Points
  BY DEF Op, ClientOp
<1>a. CASE run' = NoRun /\ active' \in BOOLEAN
  <2>1. run' \in Runs /\ run'.pc = "none"
    BY <1>a DEF Runs, NoRun
  <2> QED BY <1>a, <2>1, <1>o DEF RunFits, AtWork
<1>b. CASE run' = run /\ active' = active
  BY <1>b, <1>o DEF RunFits, AtWork
<1>c. CASE /\ active' = active
           /\ run.pc = "point"
           /\ \E end \in {"done", "running", "failed", "raised"} :
                run' = [run EXCEPT !.pc = "ended", !.outcome = end]
  <2>1. /\ run' \in Runs /\ run'.pc = "ended" /\ run'.id = run.id /\ run'.todo = run.todo
        /\ run'.point = run.point
    BY <1>c DEF Runs
  <2> QED BY <1>c, <2>1, <1>o DEF RunFits, AtWork
<1> QED BY <1>a, <1>b, <1>c

LEMMA PointStartsInv == Inv /\ PointStarts => Inv'
<1> SUFFICES ASSUME Inv, PointStarts PROVE Inv'
  OBVIOUS
<1> USE DEF Inv, TypeOK
<1>1. PICK p \in Points :
        /\ NextPoint(p)
        /\ ops' = ops \cup {[id |-> run.id, point |-> p]}
        /\ run' = [run EXCEPT !.pc = "point", !.point = p]
  BY DEF PointStarts
<1>2. run.pc = "loop" /\ p \in run.todo
  BY <1>1 DEF PointStarts, AtLoop, NextPoint
<1>3. run' \in Runs /\ run'.pc = "point" /\ run'.id = run.id /\ run'.todo = run.todo /\ run'.point = p
  BY <1>1 DEF Runs
<1>4. [id |-> run.id, point |-> p] \in Op /\ run.id \in DOMAIN store
  BY <1>2 DEF Op, Runs
<1>5. UNCHANGED <<stopRequested, active, store, stopper, acquired>> /\ status' = "acquiring"
  BY DEF PointStarts
<1>6. ops' \subseteq Op
  BY <1>1, <1>4
<1>7. \A o \in ops' \ {ClientOp} : o.id \in DOMAIN store' /\ o.point \in Points
  BY <1>1, <1>4, <1>5
<1>8. TypeOK'
  BY <1>2, <1>3, <1>4, <1>5, <1>6, <1>7
<1>9. RunFits'
  BY <1>2, <1>3, <1>5 DEF RunFits, AtWork
<1> QED BY <1>8, <1>9

LEMMA LoopEndsInv == Inv /\ LoopEnds => Inv'
<1> SUFFICES ASSUME Inv, LoopEnds PROVE Inv'
  OBVIOUS
<1> USE DEF Inv, TypeOK
<1>1. /\ run.pc = "loop" /\ run.id \in DOMAIN store /\ active
      /\ run' = [run EXCEPT !.pc = "linger"]
      /\ store' = [store EXCEPT ![run.id].done = TRUE]
      /\ UNCHANGED <<status, stopRequested, ops, active, stopper, acquired>>
  BY DEF LoopEnds, AtLoop
<1>2. store' \in Seq(Entry) /\ DOMAIN store' = DOMAIN store
  <2> DEFINE e == [store[run.id] EXCEPT !.done = TRUE]
  <2>1. store \in Seq(Entry)
    BY DEF Entry
  <2>2. store[run.id] \in Entry
    BY <1>1, <2>1
  <2>3. \A r \in Entry : [r EXCEPT !.done = TRUE] \in Entry
    BY DEF Entry
  <2>4. e \in Entry
    BY <2>2, <2>3
  <2>5. store' = [store EXCEPT ![run.id] = e]
    BY <1>1
  <2> HIDE DEF e
  <2> QED BY <1>1, <2>1, <2>4, <2>5, EntryChanged
<1>3. run' \in Runs /\ run'.pc = "linger" /\ run'.id = run.id
  BY <1>1 DEF Runs
<1>4. TypeOK'
  BY <1>1, <1>2, <1>3 DEF Entry
<1>5. RunFits'
  BY <1>3 DEF RunFits, AtWork
<1> QED BY <1>4, <1>5

LEMMA PointRecordedInv == Inv /\ PointRecorded => Inv'
<1> SUFFICES ASSUME Inv, PointRecorded PROVE Inv'
  OBVIOUS
<1> USE DEF Inv, TypeOK
<1>1. /\ run.pc = "ended" /\ run.id \in DOMAIN store /\ run.id \in Nat /\ active
      /\ run.todo \in SUBSET Points /\ run.point \in run.todo
      /\ store[run.id].points = Points \ run.todo /\ ~store[run.id].done
  BY DEF PointRecorded, RunFits, AtWork, Runs
<1>2. /\ store' = [store EXCEPT ![run.id].points = @ \cup {run.point}]
      /\ UNCHANGED <<status, stopRequested, ops, active, stopper, acquired>>
      /\ run' = [pc |-> "loop", id |-> run.id, todo |-> run.todo \ {run.point}, point |-> 0,
                 outcome |-> "none"]
  BY DEF PointRecorded, NoRun
<1> DEFINE e == [store[run.id] EXCEPT !.points = @ \cup {run.point}]
<1>a. store \in Seq(Entry)
  BY DEF Entry
<1>b. store[run.id] \in Entry
  BY <1>1, <1>a
<1>c. /\ e \in Entry
      /\ e.points = store[run.id].points \cup {run.point}
      /\ e.done = store[run.id].done
  <2>1. run.point \in Points
    BY <1>1
  <2> QED BY <1>b, <2>1, EntryGrows
<1>d. store' = [store EXCEPT ![run.id] = e]
  BY <1>2
<1> HIDE DEF e
<1>e. store' \in Seq(Entry) /\ DOMAIN store' = DOMAIN store /\ store'[run.id] = e
  BY <1>1, <1>a, <1>c, <1>d, EntryChanged
<1>3. store' \in Seq(Entry) /\ DOMAIN store' = DOMAIN store
  BY <1>e
<1>4. /\ store'[run.id].points = store[run.id].points \cup {run.point}
      /\ ~store'[run.id].done
  BY <1>1, <1>c, <1>e
<1>5. run' \in Runs
  BY <1>1, <1>2 DEF Runs
<1>6. TypeOK'
  BY <1>1, <1>2, <1>3, <1>5 DEF Entry
<1>7. RunFits'
  BY <1>1, <1>2, <1>4 DEF RunFits, AtWork
<1> QED BY <1>6, <1>7

LEMMA OperationEndsInv == ASSUME Inv, NEW o \in ops, OperationEnds(o) PROVE Inv'
<1> USE DEF Inv, TypeOK
<1>1. PICK end \in Ends :
        /\ acquired' = IF end = "done" /\ o # ClientOp
                         THEN [acquired EXCEPT ![o.id] = @ \cup {o.point}] ELSE acquired
        /\ run' = IF Awaits(o) THEN [run EXCEPT !.pc = "ended", !.outcome = end] ELSE run
  BY DEF OperationEnds
<1>2. acquired' \in Seq(SUBSET Points) /\ DOMAIN acquired' = DOMAIN acquired
  <2>1. CASE end = "done" /\ o # ClientOp
    <3>1. o.id \in DOMAIN acquired /\ o.point \in Points
      BY <2>1
    <3> QED BY <1>1, <2>1, <3>1
  <2>2. CASE ~(end = "done" /\ o # ClientOp)
    BY <1>1, <2>2
  <2> QED BY <2>1, <2>2
<1>3. end \in {"done", "failed", "raised"}
  BY DEF Ends
<1>4. /\ ops' \subseteq ops \cup {ClientOp}
      /\ status' = "idle" /\ stopRequested' = FALSE
      /\ UNCHANGED <<active, store, stopper>>
  BY DEF OperationEnds, SetIdle
<1>5. CASE Awaits(o)
  <2>1. run.pc = "point" /\ run' = [run EXCEPT !.pc = "ended", !.outcome = end]
    BY <1>1, <1>5 DEF Awaits
  <2> QED BY <1>2, <1>3, <1>4, <2>1, QuietInv
<1>6. CASE ~Awaits(o)
  <2>1. run' = run
    BY <1>1, <1>6
  <2> QED BY <1>2, <1>4, <2>1, QuietInv
<1> QED BY <1>5, <1>6

LEMMA StepInv == Inv /\ [Next]_vars => Inv'
<1> SUFFICES ASSUME Inv, [Next]_vars PROVE Inv'
  OBVIOUS
<1>q. /\ acquired \in Seq(SUBSET Points) /\ status \in {"idle", "acquiring", "stopping"}
      /\ stopRequested \in BOOLEAN /\ stopper \in {"none", "plain", "sweep"}
      /\ active \in BOOLEAN
  BY DEF Inv, TypeOK
<1>1. CASE Start BY <1>1, StartInv
<1>2. CASE Resume BY <1>2, ResumeInv
<1>3. CASE PointStarts BY <1>3, PointStartsInv
<1>4. CASE PointRefused \/ PointFailed \/ PointRaised \/ Lingered
  <2>1. /\ run' = NoRun /\ active' \in BOOLEAN
        /\ UNCHANGED <<status, stopRequested, ops, store, stopper, acquired>>
    BY <1>q, <1>4 DEF PointRefused, PointFailed, PointRaised, Lingered, Fail
  <2> QED BY <1>q, <2>1, QuietInv
<1>5. CASE LoopEnds BY <1>5, LoopEndsInv
<1>6. CASE PointRecorded BY <1>6, PointRecordedInv
<1>7. CASE GracePasses
  <2>1. /\ run.pc = "point" /\ run' = [run EXCEPT !.pc = "ended", !.outcome = "running"]
        /\ UNCHANGED <<status, stopRequested, ops, active, store, stopper, acquired>>
    BY <1>7 DEF GracePasses
  <2> QED BY <1>q, <2>1, QuietInv
<1>8. CASE \E o \in ops : OperationEnds(o) BY <1>8, OperationEndsInv
<1>9. CASE ClientStarts
  <2>1. /\ ops' = ops \cup {ClientOp} /\ status' = "acquiring"
        /\ UNCHANGED <<stopRequested, active, run, store, stopper, acquired>>
    BY <1>9 DEF ClientStarts
  <2> QED BY <1>q, <2>1, QuietInv
<1>10. CASE StopAsked
  <2>1. /\ stopper' \in {"none", "plain", "sweep"} /\ stopRequested' = TRUE
        /\ status' \in {"idle", "acquiring", "stopping"}
        /\ UNCHANGED <<ops, active, run, store, acquired>>
    BY <1>q, <1>10 DEF StopAsked
  <2> QED BY <1>q, <2>1, QuietInv
<1>11. CASE StopAnswered
  <2>1. /\ stopper' = "none" /\ stopRequested' \in BOOLEAN
        /\ status' \in {"idle", "acquiring", "stopping"}
        /\ UNCHANGED <<ops, active, run, store, acquired>>
    BY <1>q, <1>11 DEF StopAnswered, SetIdle
  <2> QED BY <1>q, <2>1, QuietInv
<1>12. CASE Crash
  <2>1. /\ stopper' = "none" /\ stopRequested' = FALSE /\ status' = "idle" /\ ops' = {}
        /\ active' = FALSE /\ run' = NoRun
        /\ UNCHANGED <<store, acquired>>
    BY <1>12 DEF Crash
  <2> QED BY <1>q, <2>1, QuietInv
<1>13. CASE UNCHANGED vars
  BY <1>q, <1>13, QuietInv DEF vars
<1> QED BY <1>1, <1>2, <1>3, <1>4, <1>5, <1>6, <1>7, <1>8, <1>9, <1>10, <1>11, <1>12, <1>13
  DEF Next, RunProceeds

(* Inv holds throughout, whatever happens to the sweep.                     *)
LEMMA Invariant == Spec => []Inv
BY InitInv, StepInv, PTL DEF Spec

(* The sweep runner and its store stay in their states: whatever fails, an  *)
(* operation or a run is always that of a sweep in the store.               *)
THEOREM SweepTypes == Spec => []TypeOK
<1>1. Inv => TypeOK
  BY DEF Inv
<1> QED BY <1>1, Invariant, PTL

-----------------------------------------------------------------------------
(* Which operations a step begins: the client's, or the next point of the   *)
(* run.                                                                     *)
LEMMA Begins ==
  ASSUME Inv, [Next]_vars, NEW o \in ops' \ ops, o # ClientOp
  PROVE  /\ run.pc = "loop"
         /\ \E p \in run.todo : o = [id |-> run.id, point |-> p]
<1>1. CASE PointStarts
  BY <1>1 DEF PointStarts, AtLoop, NextPoint
<1>2. CASE ClientStarts
  BY <1>2 DEF ClientStarts
<1>3. CASE \E q \in ops : OperationEnds(q)
  BY <1>3 DEF OperationEnds
<1>4. CASE Crash
  BY <1>4 DEF Crash
<1>5. CASE ops' = ops
  BY <1>5
<1> QED
  BY <1>1, <1>2, <1>3, <1>4, <1>5
  DEF Next, RunProceeds, vars, Start, Resume, Launch, PointRefused, LoopEnds, Lingered,
      PointRecorded, PointFailed, PointRaised, Fail, GracePasses, StopAsked, StopAnswered

(* A point that is in the store is never acquired again (sweep.py:6),       *)
(* whatever fails, crashes, is stopped or is resumed in between.            *)
THEOREM RecordedOnce == Spec => NoPointTwice
<1>1. ASSUME Inv, [Next]_vars
      PROVE  \A o \in ops' \ ops : o # ClientOp => o.point \notin store[o.id].points
  <2> SUFFICES ASSUME NEW o \in ops' \ ops, o # ClientOp
               PROVE  o.point \notin store[o.id].points
    OBVIOUS
  <2>1. run.pc = "loop"
    BY <1>1, Begins
  <2>2. PICK p \in run.todo : o = [id |-> run.id, point |-> p]
    BY <1>1, Begins
  <2>3. store[run.id].points = Points \ run.todo
    BY <1>1, <2>1 DEF Inv, RunFits, AtWork
  <2> QED BY <2>2, <2>3
<1>2. Inv /\ [Next]_vars
        => [\A o \in ops' \ ops : o # ClientOp => o.point \notin store[o.id].points]_vars
  BY <1>1
<1> QED BY <1>2, Invariant, PTL DEF Spec, NoPointTwice

-----------------------------------------------------------------------------
Unstopped == stopRequested = FALSE

LEMMA UnstoppedStep ==
  ASSUME "stop" \notin Faults, Unstopped, [Next]_vars
  PROVE  Unstopped'
BY DEF Unstopped, Next, RunProceeds, vars, Start, Resume, Launch, PointStarts, PointRefused,
       LoopEnds, Lingered, PointRecorded, PointFailed, PointRaised, Fail, GracePasses,
       OperationEnds, SetIdle, ClientStarts, StopAsked, StopAnswered, Crash

(* Every step that touches the store is a step of the ledger.               *)
LEMMA LedgerStep ==
  ASSUME Inv, Unstopped, [Next]_vars
  PROVE  [Ledger!LedgerNext]_store
<1> USE DEF Inv, TypeOK
<1>1. CASE Start
  BY <1>1 DEF Start, Ledger!LedgerNext, Ledger!Create, Ledger!NewEntry
<1>2. CASE LoopEnds
  <2>1. /\ run.pc = "loop" /\ run.id \in DOMAIN store /\ run.todo = {}
        /\ store' = [store EXCEPT ![run.id].done = TRUE]
    BY <1>2 DEF LoopEnds, AtLoop, Unstopped
  <2>2. ~store[run.id].done /\ store[run.id].points = Points
    BY <2>1 DEF RunFits, AtWork
  <2>3. Ledger!Complete(run.id)
    BY <2>1, <2>2 DEF Ledger!Complete
  <2> QED BY <2>1, <2>3 DEF Ledger!LedgerNext
<1>3. CASE PointRecorded
  <2>1. /\ run.pc = "ended" /\ run.id \in DOMAIN store
        /\ store' = [store EXCEPT ![run.id].points = @ \cup {run.point}]
    BY <1>3 DEF PointRecorded
  <2>2. /\ ~store[run.id].done /\ store[run.id].points = Points \ run.todo
        /\ run.point \in run.todo /\ run.todo \subseteq Points
    BY <2>1 DEF RunFits, AtWork, Runs
  <2>3. run.point \in Points /\ Ledger!Record(run.id, run.point)
    BY <2>1, <2>2 DEF Ledger!Record
  <2> QED BY <2>1, <2>3 DEF Ledger!LedgerNext
<1>4. CASE store' = store
  BY <1>4
<1> QED
  BY <1>1, <1>2, <1>3, <1>4
  DEF Next, RunProceeds, vars, Resume, Launch, PointStarts, PointRefused, Lingered,
      PointFailed, PointRaised, Fail, GracePasses, OperationEnds, ClientStarts, StopAsked,
      StopAnswered, Crash

(* Unless something asks for a stop, the store is a ledger: no point enters *)
(* it twice and a sweep is done only with all its points, over any number   *)
(* of failures, crashes and resumptions.                                    *)
THEOREM StoreIsLedger == "stop" \notin Faults /\ Spec => ImplementsLedger
<1> SUFFICES ASSUME "stop" \notin Faults PROVE Spec => ImplementsLedger
  OBVIOUS
<1>1. Init => Unstopped /\ Ledger!LedgerInit
  BY DEF Init, Unstopped, Ledger!LedgerInit
<1>2. Unstopped /\ [Next]_vars => Unstopped'
  BY UnstoppedStep
<1>3. Inv /\ Unstopped /\ [Next]_vars => [Ledger!LedgerNext]_store
  BY LedgerStep
<1> QED BY <1>1, <1>2, <1>3, Invariant, PTL DEF Spec, ImplementsLedger, Ledger!LedgerSpec

-----------------------------------------------------------------------------
(* A point is about to be recorded only after its acquisition ended well.   *)
Outcomes ==
  /\ RecordedIsAcquired
  /\ run.outcome # "running"
  /\ run.pc = "ended" /\ run.outcome = "done" => run.point \in acquired[run.id]

(* The steps that add nothing to the store, take nothing from the history   *)
(* and end no acquisition.                                                  *)
LEMMA OutcomesKept ==
  ASSUME Inv, Outcomes, UNCHANGED <<store, acquired>>, run' = NoRun \/ run' = run
  PROVE  Outcomes'
BY DEF Outcomes, RecordedIsAcquired, NoRun

LEMMA OutcomesStep ==
  ASSUME "outlast" \notin Faults, Inv, Outcomes, [Next]_vars
  PROVE  Outcomes'
<1> USE DEF Inv, TypeOK
<1>1. CASE Start
  <2>1. /\ store' = Append(store, [done |-> FALSE, points |-> {}])
        /\ acquired' = Append(acquired, {})
        /\ run'.pc = "loop" /\ run'.outcome = "none"
    BY <1>1 DEF Start, Launch, NoRun
  <2>2. \A id \in DOMAIN store' : store'[id].points \subseteq acquired'[id]
    BY <2>1 DEF Outcomes, RecordedIsAcquired
  <2> QED BY <2>1, <2>2 DEF Outcomes, RecordedIsAcquired
<1>2. CASE Resume
  <2>1. run'.pc = "loop" /\ run'.outcome = "none" /\ UNCHANGED <<store, acquired>>
    BY <1>2 DEF Resume, Launch, NoRun
  <2> QED BY <2>1 DEF Outcomes, RecordedIsAcquired
<1>3. CASE PointStarts
  <2>1. run'.pc = "point" /\ run'.outcome = run.outcome /\ UNCHANGED <<store, acquired>>
    BY <1>3 DEF PointStarts, Runs
  <2> QED BY <2>1 DEF Outcomes, RecordedIsAcquired
<1>4. CASE PointRefused \/ PointFailed \/ PointRaised \/ Lingered \/ Crash
  BY <1>4, OutcomesKept DEF PointRefused, PointFailed, PointRaised, Lingered, Fail, Crash
<1>5. CASE LoopEnds
  <2>1. /\ run'.pc = "linger" /\ run'.outcome = run.outcome /\ UNCHANGED acquired
        /\ store' = [store EXCEPT ![run.id].done = TRUE]
    BY <1>5 DEF LoopEnds, Runs
  <2>2. DOMAIN store' = DOMAIN store /\ \A id \in DOMAIN store : store'[id].points = store[id].points
    BY <2>1
  <2> QED BY <2>1, <2>2 DEF Outcomes, RecordedIsAcquired
<1>6. CASE PointRecorded
  <2>1. /\ run'.pc = "loop" /\ run'.outcome = "none" /\ UNCHANGED acquired
        /\ store' = [store EXCEPT ![run.id].points = @ \cup {run.point}]
        /\ run.pc = "ended" /\ run.outcome \in {"done", "running"}
    BY <1>6 DEF PointRecorded, NoRun
  <2>2. run.point \in acquired[run.id]
    BY <2>1 DEF Outcomes
  <2>3. /\ DOMAIN store' = DOMAIN store
        /\ \A id \in DOMAIN store :
             store'[id].points = store[id].points \cup (IF id = run.id THEN {run.point} ELSE {})
    BY <2>1
  <2> QED BY <2>1, <2>2, <2>3 DEF Outcomes, RecordedIsAcquired
<1>7. CASE GracePasses
  BY <1>7 DEF GracePasses
<1>8. CASE \E o \in ops : OperationEnds(o)
  <2>1. PICK o \in ops : OperationEnds(o)
    BY <1>8
  <2>2. PICK end \in Ends :
          /\ acquired' = IF end = "done" /\ o # ClientOp
                           THEN [acquired EXCEPT ![o.id] = @ \cup {o.point}] ELSE acquired
          /\ run' = IF Awaits(o) THEN [run EXCEPT !.pc = "ended", !.outcome = end] ELSE run
    BY <2>1 DEF OperationEnds
  <2>3. /\ UNCHANGED store /\ DOMAIN acquired' = DOMAIN acquired
        /\ \A id \in DOMAIN acquired : acquired[id] \subseteq acquired'[id]
    BY <2>1, <2>2 DEF OperationEnds
  <2>4. RecordedIsAcquired'
    BY <2>3 DEF Outcomes, RecordedIsAcquired
  <2>5. CASE Awaits(o)
    <3>1. /\ run'.pc = "ended" /\ run'.outcome = end /\ run'.id = run.id /\ run'.point = run.point
          /\ o = [id |-> run.id, point |-> run.point] /\ run.id \in DOMAIN store
      BY <2>2, <2>5 DEF Awaits, Runs
    <3>2. o # ClientOp
      BY <3>1 DEF ClientOp
    <3>3. end = "done" => run'.point \in acquired'[run'.id]
      BY <2>2, <3>1, <3>2
    <3>4. end # "running"
      BY DEF Ends
    <3> QED BY <2>4, <3>1, <3>3, <3>4 DEF Outcomes
  <2>6. CASE ~Awaits(o)
    <3>1. run' = run
      BY <2>2, <2>6
    <3>2. run.pc = "ended" => run.id \in DOMAIN acquired
      OBVIOUS
    <3> QED BY <2>3, <2>4, <3>1, <3>2 DEF Outcomes
  <2> QED BY <2>5, <2>6
<1>9. CASE ClientStarts \/ StopAsked \/ StopAnswered \/ UNCHANGED vars
  BY <1>9, OutcomesKept DEF ClientStarts, StopAsked, StopAnswered, vars
<1> QED BY <1>1, <1>2, <1>3, <1>4, <1>5, <1>6, <1>7, <1>8, <1>9 DEF Next, RunProceeds

(* Provided every point ends within the runner's grace, a point in the      *)
(* store has been acquired (sweep.py:5), stops and crashes included.        *)
THEOREM RecordedAcquired == "outlast" \notin Faults /\ Spec => []RecordedIsAcquired
<1> SUFFICES ASSUME "outlast" \notin Faults PROVE Spec => []RecordedIsAcquired
  OBVIOUS
<1>1. Init => Outcomes
  BY DEF Init, Outcomes, RecordedIsAcquired, NoRun
<1>2. Inv /\ Outcomes /\ [Next]_vars => Outcomes'
  BY OutcomesStep
<1>3. Outcomes => RecordedIsAcquired
  BY DEF Outcomes
<1> QED BY <1>1, <1>2, <1>3, Invariant, PTL DEF Spec
=============================================================================
