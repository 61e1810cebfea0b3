------------------------- MODULE AcquisitionProofs -------------------------
(***************************************************************************)
(* Theorems about Acquisition, for any number of operations, polls, stop   *)
(* requests and steps.                                                     *)
(***************************************************************************)
EXTENDS Acquisition, SequenceTheorems, TLAPS

-----------------------------------------------------------------------------
(* The socket lock stays a sequence of those that may wait in it.           *)

Users == Ops \cup Pollers

(* What the lock operators return is again a sequence of users.             *)
LEMMA WireTypes ==
  ASSUME wire \in Seq(Users), NEW u \in Users
  PROVE  /\ Append(wire, u) \in Seq(Users)
         /\ HoldsWire(u) => Tail(wire) \in Seq(Users)
         /\ HoldsWire(u) => Append(Tail(wire), u) \in Seq(Users)
         /\ Without(u) \in Seq(Users)
<1>1. Append(wire, u) \in Seq(Users)
  BY AppendProperties
<1>2. HoldsWire(u) => Tail(wire) \in Seq(Users)
  BY HeadTailProperties DEF HoldsWire
<1>3. HoldsWire(u) => Append(Tail(wire), u) \in Seq(Users)
  BY <1>2, AppendProperties
<1>4. Without(u) \in Seq(Users)
  <2> DEFINE i == CHOOSE i \in 1..Len(wire) : wire[i] = u
  <2>1. CASE \E j \in 1..Len(wire) : wire[j] = u
    <3>1. i \in 1..Len(wire)
      BY <2>1
    <3>2. \A j \in 1..Len(wire) : wire[j] \in Users
      BY ElementOfSeq
    <3>3. Len(wire) \in Nat
      BY LenProperties
    <3> HIDE DEF i
    <3>4. SubSeq(wire, 1, i - 1) \in Seq(Users)
      <4>1. i - 1 \in Int /\ \A j \in 1..(i - 1) : wire[j] \in Users
        BY <3>1, <3>2, <3>3
      <4> QED BY <4>1, SubSeqProperties
    <3>5. SubSeq(wire, i + 1, Len(wire)) \in Seq(Users)
      <4>1. i + 1 \in Int /\ \A j \in (i + 1)..Len(wire) : wire[j] \in Users
        BY <3>1, <3>2, <3>3
      <4> QED BY <3>3, <4>1, SubSeqProperties
    <3>6. RemoveAt(wire, i) \in Seq(Users)
      BY <3>4, <3>5, ConcatProperties DEF RemoveAt
    <3> QED BY <2>1, <3>6 DEF Without, i
  <2>2. CASE ~ \E j \in 1..Len(wire) : wire[j] = u
    BY <2>2 DEF Without
  <2> QED BY <2>1, <2>2
<1> QED BY <1>1, <1>2, <1>3, <1>4

-----------------------------------------------------------------------------
(* Type correctness.                                                        *)

(* A new operation, and one with a stop noted on it, are well formed.       *)
LEMMA OperationTypes ==
  /\ Off \in Operation
  /\ \A k \in AllKinds, pc \in Pcs, pile \in BOOLEAN, n \in 0..MaxSteps :
       Fresh(k, pc, pile, n) \in Operation
  /\ \A f \in [Ops -> Operation] : Asked(f) \in [Ops -> Operation]
  /\ \A f \in [Ops -> Operation], o \in Ops, pc \in Pcs :
       [f EXCEPT ![o].pc = pc] \in [Ops -> Operation]
<1>0. 0 \in 0..MaxSteps
  BY ConstantsAssumption
<1>1. Off \in Operation
  BY <1>0 DEF Off, Fresh, Operation, Pcs, WirePcs
<1>2. \A k \in AllKinds, pc \in Pcs, pile \in BOOLEAN, n \in 0..MaxSteps :
        Fresh(k, pc, pile, n) \in Operation
  BY DEF Fresh, Operation
<1>3. \A e \in Operation : [e EXCEPT !.asked = TRUE] \in Operation
  BY DEF Operation
<1>4. \A f \in [Ops -> Operation] : Asked(f) \in [Ops -> Operation]
  BY <1>3 DEF Asked
<1>5. \A f \in [Ops -> Operation], o \in Ops, pc \in Pcs :
        [f EXCEPT ![o].pc = pc] \in [Ops -> Operation]
  BY DEF Operation
<1> QED BY <1>1, <1>2, <1>4, <1>5

(* What the instrument may do in a step, and that it keeps its type.        *)
LEMMA InstrumentTypes ==
  ASSUME TypeOK,
         \/ SetIdle
         \/ RequestStop(None)
         \/ RequestStop("over_temperature")
         \/ UNCHANGED instrument
         \/ status' \in Statuses /\ UNCHANGED <<stopRequested, abortReason>>
  PROVE  /\ status' \in Statuses
         /\ stopRequested' \in BOOLEAN
         /\ abortReason' \in {None, "over_temperature"}
BY DEF TypeOK, SetIdle, RequestStop, instrument, Statuses

(* The end of an operation, with any result, keeps the types.               *)
LEMMA EndTypes ==
  ASSUME TypeOK, NEW o \in Ops, NEW result \in Results
  PROVE  /\ End(o, result) =>
              /\ op' \in [Ops -> Operation]
              /\ current' \in Current
              /\ stopper' \in [Stoppers -> Ops \cup {"off", "woken"}]
              /\ SetIdle \/ UNCHANGED instrument
         /\ EndTask(o) =>
              /\ current' \in Current
              /\ stopper' \in [Stoppers -> Ops \cup {"off", "woken"}]
<1>1. "tail" \in Pcs
  BY DEF Pcs
<1>2. EndInline(o) => op' \in [Ops -> Operation] /\ (SetIdle \/ UNCHANGED instrument)
  BY OperationTypes DEF EndInline, TypeOK
<1>3. EndIntensity(o, result) =>
        /\ op' \in [Ops -> Operation]
        /\ current' \in Current
        /\ SetIdle
  <2>1. EndIntensity(o, result) => op' \in [Ops -> Operation]
    BY OperationTypes, <1>1 DEF EndIntensity, GoTo, TypeOK
  <2>2. EndIntensity(o, result) =>
          current' \in Current
    <3>1. [status |-> result, reason |-> IF result = "aborted" THEN abortReason ELSE None]
            \in [status: Results, reason: {None, "over_temperature"}]
      BY DEF TypeOK
    <3> QED BY <3>1 DEF EndIntensity, TypeOK, Current
  <2> QED BY <2>1, <2>2 DEF EndIntensity
<1>4. EndTask(o) =>
        /\ current' \in Current
        /\ stopper' \in [Stoppers -> Ops \cup {"off", "woken"}]
  BY DEF EndTask, TypeOK, Current
<1> QED BY <1>2, <1>3, <1>4 DEF End, EndInline, EndIntensity, TypeOK

(* No step of the program leaves the types.                                 *)
LEMMA TypeStep == TypeOK /\ StepsLeft /\ [Next]_vars => TypeOK'
<1> SUFFICES ASSUME TypeOK, StepsLeft, [Next]_vars PROVE TypeOK'
  OBVIOUS
<1>end. ASSUME NEW o \in Ops, NEW r \in Results, End(o, r)
        PROVE  /\ op' \in [Ops -> Operation] /\ current' \in Current
               /\ stopper' \in [Stoppers -> Ops \cup {"off", "woken"}]
               /\ SetIdle \/ UNCHANGED instrument
  BY <1>end, EndTypes, Zenon
<1> USE DEF TypeOK, Users
<1>pc. Pcs = {"off", "announce", "begin", "decode", "check", "cooloff", "post", "timedout",
              "dropping", "tail", "setup", "io", "pollR", "pollV"}
  BY DEF Pcs, WirePcs
<1>1. ASSUME NEW o \in Ops, RunIntensity(o) PROVE TypeOK'
  <2>1. PICK kind \in IntensityKinds, pile \in PileModes, announces \in BOOLEAN :
          \E n \in Steps(kind) : RunIntensity(o)!(kind, pile, announces)!(n)
    BY <1>1 DEF RunIntensity
  <2>2. PICK n \in Steps(kind) : RunIntensity(o)!(kind, pile, announces)!(n)
    BY <2>1
  <2>3. n \in 0..MaxSteps /\ kind \in AllKinds /\ pile \in BOOLEAN
    BY ConstantsAssumption DEF Steps, IntensityKinds, AllKinds, GuardedKinds
  <2>4. op' \in [Ops -> Operation]
    <3>1. \A pc \in {"announce", "begin"} : Fresh(kind, pc, pile, n) \in Operation
      BY <2>3, <1>pc, OperationTypes
    <3> QED BY <2>2, <3>1
  <2>5. current' \in Current
    BY <2>2 DEF Current
  <2> QED BY <2>2, <2>4, <2>5 DEF Admit, Statuses
<1>2. ASSUME NEW o \in Ops, CreateTask(o) PROVE TypeOK'
  BY <1>2, <1>pc, OperationTypes DEF CreateTask, GoTo, instrument, Current
<1>3. ASSUME NEW o \in Ops, BeginIntensity(o) PROVE TypeOK'
  <2>1. {"setup", "tail"} \subseteq Pcs /\ o \in Users /\ "done" \in Results
    BY <1>pc DEF Results
  <2>2. PICK ref \in RefOutcomes : BeginIntensity(o)!2!(ref)
    BY <1>3 DEF BeginIntensity
  <2>3. op' \in [Ops -> Operation]
    BY <2>1, <2>2, OperationTypes DEF ReferenceError, GoTo
  <2>6. wire' \in Seq(Users)
    BY <2>1, <2>2, WireTypes DEF ReferenceError, Enqueue
  <2>4. current' \in Current /\ stopper' \in [Stoppers -> Ops \cup {"off", "woken"}]
    BY <2>1, <2>2, EndTypes DEF ReferenceError
  <2>5. SetIdle \/ UNCHANGED instrument
    BY <2>2 DEF ReferenceError
  <2> QED BY <1>3, <2>3, <2>4, <2>5, <2>6, InstrumentTypes DEF BeginIntensity
<1>4. ASSUME NEW o \in Ops, RunGated(o) PROVE TypeOK'
  <2>1. PICK kind \in {"gated", "paced"}, pile \in PileModes :
          \E n \in Steps(kind) : RunGated(o)!(kind, pile)!(n)
    BY <1>4 DEF RunGated
  <2>2. PICK n \in Steps(kind) : RunGated(o)!(kind, pile)!(n)
    BY <2>1
  <2>3. n \in 0..MaxSteps /\ kind \in AllKinds /\ pile \in BOOLEAN
    BY ConstantsAssumption DEF Steps, AllKinds, GuardedKinds
  <2> QED BY <2>2, <2>3, <1>pc, OperationTypes DEF Admit, Statuses
<1>5. ASSUME NEW o \in Ops, BeginGated(o) PROVE TypeOK'
  <2>1. "setup" \in Pcs /\ o \in Users
    BY <1>pc
  <2>2. /\ op' \in [Ops -> Operation] /\ (SetIdle \/ UNCHANGED instrument)
        /\ UNCHANGED <<current, stopper>>
    BY <1>5, <2>1, OperationTypes DEF BeginGated, EndInline, GoTo
  <2>3. wire' \in Seq(Users)
    BY <1>5, <2>1, WireTypes DEF BeginGated, Enqueue
  <2> QED BY <1>5, <2>2, <2>3, InstrumentTypes DEF BeginGated
<1>6. ASSUME NEW o \in Ops, CaptureLiveFrame(o) \/ Calibrate(o) \/ AcquireFlim(o) \/ DcrCurve(o)
      PROVE  TypeOK'
  <2>1. {"live", "calib", "flim", "dcr"} \subseteq AllKinds /\ {"setup", "io"} \subseteq Pcs
        /\ 1 \in 0..MaxSteps /\ o \in Users
    BY <1>pc, ConstantsAssumption DEF AllKinds, GuardedKinds
  <2>2. \A k \in {"live", "calib", "flim", "dcr"}, pc \in {"setup", "io"} :
          Fresh(k, pc, FALSE, 1) \in Operation
    BY <2>1, OperationTypes
  <2>3. op' \in [Ops -> Operation]
    BY <1>6, <2>2 DEF CaptureLiveFrame, Calibrate, AcquireFlim, DcrCurve
  <2>4. wire' \in Seq(Users)
    BY <1>6, <2>1, WireTypes DEF CaptureLiveFrame, Calibrate, AcquireFlim, DcrCurve, Enqueue
  <2> QED
    BY <1>6, <2>3, <2>4
       DEF CaptureLiveFrame, Calibrate, AcquireFlim, DcrCurve, Admit, instrument, Statuses
<1>7. ASSUME NEW o \in Ops, SetupDone(o) PROVE TypeOK'
  <2>1. "io" \in Pcs /\ o \in Users
    BY <1>pc
  <2>2. op' \in [Ops -> Operation]
    BY <1>7, <2>1, OperationTypes DEF SetupDone, GoTo
  <2>3. wire' \in Seq(Users)
    BY <1>7, <2>1, WireTypes DEF SetupDone, Requeue
  <2>4. pileup' \in BOOLEAN
    BY <1>7 DEF SetupDone, Operation
  <2> QED BY <1>7, <2>2, <2>3, <2>4 DEF SetupDone, instrument
<1>8. ASSUME NEW o \in Ops, StepDone(o) PROVE TypeOK'
  <2>1. {"pollR", "decode", "post"} \subseteq Pcs /\ o \in Users
    BY <1>pc
  <2>2. /\ op' \in [Ops -> Operation] /\ (SetIdle \/ UNCHANGED instrument)
        /\ UNCHANGED <<current, stopper>>
    <3>1. CASE op[o].kind = "calib"
      BY <1>8, <3>1, OperationTypes DEF StepDone, EndInline
    <3>2. CASE op[o].kind # "calib"
      <4>1. op[o] \in Operation /\ op[o].left - 1 \in 0..MaxSteps /\ Later(op[o].late) \in 0..2
        BY <1>8, ConstantsAssumption DEF Operation, StepsLeft, StepDone, At, Later
      <4>2. AfterStep(o) \in Pcs
        BY <2>1 DEF AfterStep
      <4>3. [op[o] EXCEPT !.left = op[o].left - 1, !.pc = AfterStep(o),
                          !.late = IF op[o].asked THEN Later(op[o].late) ELSE op[o].late]
              \in Operation
        BY <4>1, <4>2 DEF Operation
      <4> QED BY <1>8, <3>2, <4>3 DEF StepDone
    <3> QED BY <3>1, <3>2
  <2>3. wire' \in Seq(Users)
    BY <1>8, <2>1, WireTypes DEF StepDone, Requeue, ReleaseWire
  <2> QED BY <1>8, <2>2, <2>3, InstrumentTypes DEF StepDone
<1>9. ASSUME NEW o \in Ops, StepDecoded(o) PROVE TypeOK'
  <2>1. {"pollR", "check"} \subseteq Pcs /\ o \in Users
    BY <1>pc
  <2>2. op' \in [Ops -> Operation]
    BY <1>9, <2>1, OperationTypes DEF StepDecoded, GoTo
  <2>3. wire' \in Seq(Users)
    BY <1>9, <2>1, WireTypes DEF StepDecoded, Enqueue
  <2> QED BY <1>9, <2>2, <2>3 DEF StepDecoded, instrument
<1>10. ASSUME NEW o \in Ops, ExchangeFailed(o) PROVE TypeOK'
  <2>1. o \in Users /\ "error" \in Results
    BY DEF Results
  <2>2. wire' \in Seq(Users)
    BY <1>10, <2>1, WireTypes DEF ExchangeFailed, ReleaseWire
  <2>3. End(o, "error") /\ connected' \in BOOLEAN
    BY <1>10 DEF ExchangeFailed
  <2>4. /\ op' \in [Ops -> Operation] /\ current' \in Current
        /\ stopper' \in [Stoppers -> Ops \cup {"off", "woken"}]
        /\ SetIdle \/ UNCHANGED instrument
    BY <2>1, <2>3, <1>end
  <2> QED BY <1>10, <2>2, <2>3, <2>4, InstrumentTypes DEF ExchangeFailed
<1>11. ASSUME NEW o \in Ops, TimeoutExpires(o) \/ Reset(o) PROVE TypeOK'
  <2>1. {"timedout", "dropping"} \subseteq Pcs /\ o \in Users
    BY <1>pc
  <2>2. op' \in [Ops -> Operation]
    BY <1>11, <2>1, OperationTypes DEF TimeoutExpires, Reset, GoTo
  <2>3. wire' \in Seq(Users)
    BY <1>11, <2>1, WireTypes DEF TimeoutExpires, Reset
  <2> QED BY <1>11, <2>2, <2>3 DEF TimeoutExpires, Reset, instrument
<1>12. ASSUME NEW o \in Ops,
              TimeoutReported(o) \/ Postprocessed(o) \/ CorrectionFailed(o)
       PROVE  TypeOK'
  <2>1. {"timeout", "error", "aborted", "done"} \subseteq Results
    BY DEF Results
  <2>2. (\E r \in Results : End(o, r)) /\ UNCHANGED <<wire, pileup, connected, reading, poller>>
    BY <1>12, <2>1 DEF TimeoutReported, Postprocessed, CorrectionFailed, End
  <2>3. PICK r \in Results : End(o, r)
    BY <2>2
  <2>4. /\ op' \in [Ops -> Operation] /\ current' \in Current
        /\ stopper' \in [Stoppers -> Ops \cup {"off", "woken"}]
        /\ SetIdle \/ UNCHANGED instrument
    BY <2>3, <1>end
  <2> QED BY <2>2, <2>4, InstrumentTypes
<1>13. ASSUME NEW o \in Ops, WriteRaised(o) \/ TaskDone(o) PROVE TypeOK'
  <2>1. op' \in [Ops -> Operation]
    BY <1>13, OperationTypes DEF WriteRaised, TaskDone
  <2>2. (SetIdle \/ UNCHANGED instrument) /\ EndTask(o)
        /\ UNCHANGED <<wire, pileup, connected, reading, poller>>
    BY <1>13 DEF WriteRaised, TaskDone
  <2>3. "done" \in Results
    BY DEF Results
  <2> QED BY <2>1, <2>2, <2>3, EndTypes, InstrumentTypes
<1>14. ASSUME NEW r \in {"invalid", "cool", "hot"}, NEW f \in [Ops -> Operation],
              AutoProtect(r, f)
       PROVE  /\ op' \in [Ops -> Operation]
              /\ RequestStop("over_temperature") \/ UNCHANGED instrument
  BY <1>14, OperationTypes DEF AutoProtect
<1>15. ASSUME NEW o \in Ops, PollTemperature(o) PROVE TypeOK'
  <2>1. {"pollV", "check"} \subseteq Pcs /\ o \in Users
    BY <1>pc
  <2>2. [op EXCEPT ![o].pc = "check"] \in [Ops -> Operation]
    BY <2>1, OperationTypes
  <2>3. op' \in [Ops -> Operation] /\ (RequestStop("over_temperature") \/ UNCHANGED instrument)
    <3>1. CASE GoTo(o, "pollV") /\ UNCHANGED instrument
      BY <2>1, <3>1, OperationTypes DEF GoTo
    <3>2. CASE AutoProtect(reading, [op EXCEPT ![o].pc = "check"])
      BY <2>2, <3>2, <1>14
    <3> QED BY <1>15, <3>1, <3>2 DEF PollTemperature, instrument
  <2>4. wire' \in Seq(Users)
    BY <1>15, <2>1, WireTypes DEF PollTemperature, Requeue, ReleaseWire
  <2>5. connected' \in BOOLEAN
    BY <1>15 DEF PollTemperature
  <2> QED BY <1>15, <2>3, <2>4, <2>5, InstrumentTypes DEF PollTemperature
<1>16. ASSUME NEW o \in Ops, PollVoltage(o) PROVE TypeOK'
  <2>1. "check" \in Pcs /\ o \in Users
    BY <1>pc
  <2>2. [op EXCEPT ![o].pc = "check"] \in [Ops -> Operation]
    BY <2>1, OperationTypes
  <2>3. reading' \in {"invalid", "cool", "hot"} /\ connected' \in BOOLEAN
    BY <1>16 DEF PollVoltage
  <2>4. op' \in [Ops -> Operation] /\ (RequestStop("over_temperature") \/ UNCHANGED instrument)
    BY <1>16, <2>2, <2>3, <1>14 DEF PollVoltage
  <2>5. wire' \in Seq(Users)
    BY <1>16, <2>1, WireTypes DEF PollVoltage, ReleaseWire
  <2> QED BY <1>16, <2>3, <2>4, <2>5, InstrumentTypes DEF PollVoltage
<1>17. ASSUME NEW o \in Ops, Boundary(o) PROVE TypeOK'
  <2>1. {"post", "setup", "cooloff"} \subseteq Pcs /\ o \in Users
    BY <1>pc
  <2>2. op' \in [Ops -> Operation]
    <3>1. CASE stopRequested
      <4>1. op' = [op EXCEPT ![o] = [op[o] EXCEPT !.pc = "post", !.aborted = TRUE]]
        BY <1>17, <3>1 DEF Boundary
      <4>2. [op[o] EXCEPT !.pc = "post", !.aborted = TRUE] \in Operation
        BY <2>1 DEF Operation
      <4> QED BY <4>1, <4>2
    <3>2. CASE ~stopRequested
      BY <1>17, <2>1, <3>2, OperationTypes DEF Boundary, GoTo
    <3> QED BY <3>1, <3>2
  <2>3. wire' \in Seq(Users)
    BY <1>17, <2>1, WireTypes DEF Boundary, Enqueue
  <2> QED BY <1>17, <2>2, <2>3 DEF Boundary, instrument
<1>18. ASSUME NEW o \in Ops, CooledOff(o) PROVE TypeOK'
  <2>1. "io" \in Pcs /\ o \in Users
    BY <1>pc
  <2>2. op' \in [Ops -> Operation]
    BY <1>18, <2>1, OperationTypes DEF CooledOff, GoTo
  <2>3. wire' \in Seq(Users)
    BY <1>18, <2>1, WireTypes DEF CooledOff, Enqueue
  <2> QED BY <1>18, <2>2, <2>3 DEF CooledOff, instrument
<1>19. ASSUME NEW p \in Pollers, PollTick(p) PROVE TypeOK'
  <2>1. p \in Users
    OBVIOUS
  <2>2. wire' \in Seq(Users)
    BY <1>19, <2>1, WireTypes DEF PollTick, Enqueue
  <2>3. op' \in [Ops -> Operation] /\ (RequestStop("over_temperature") \/ UNCHANGED instrument)
    BY <1>19, <1>14 DEF PollTick
  <2>4. reading' \in {"invalid", "cool", "hot"}
    BY <1>19 DEF PollTick
  <2>5. poller' \in [Pollers -> {"sleep", "readR", "readV"}]
    BY <1>19 DEF PollTick
  <2> QED BY <1>19, <2>2, <2>3, <2>4, <2>5, InstrumentTypes DEF PollTick
<1>20. ASSUME NEW p \in Pollers, PollReply(p) PROVE TypeOK'
  <2>1. p \in Users
    OBVIOUS
  <2>2. wire' \in Seq(Users)
    BY <1>20, <2>1, WireTypes DEF PollReply, Requeue, ReleaseWire
  <2>3. reading' \in {"invalid", "cool", "hot"} /\ connected' \in BOOLEAN
    BY <1>20 DEF PollReply
  <2>4. op' \in [Ops -> Operation] /\ (RequestStop("over_temperature") \/ UNCHANGED instrument)
    BY <1>20, <2>3, <1>14 DEF PollReply
  <2>5. poller' \in [Pollers -> {"sleep", "readR", "readV"}]
    BY <1>20 DEF PollReply
  <2> QED BY <1>20, <2>2, <2>3, <2>4, <2>5, InstrumentTypes DEF PollReply
<1>21. ASSUME NEW s \in Stoppers, Stop(s) \/ StopReturns(s) PROVE TypeOK'
  <2>1. op' \in [Ops -> Operation]
    BY <1>21, OperationTypes DEF Stop, StopReturns
  <2>2. SetIdle \/ RequestStop(None) \/ UNCHANGED instrument
    BY <1>21 DEF Stop, StopReturns
  <2>3. stopper' \in [Stoppers -> Ops \cup {"off", "woken"}]
    BY <1>21 DEF Stop, StopReturns, Current
  <2> QED BY <1>21, <2>1, <2>2, <2>3, InstrumentTypes DEF Stop, StopReturns
<1>22. ASSUME LinkLost \/ Reconnect PROVE TypeOK'
  BY <1>22 DEF LinkLost, Reconnect, instrument
<1>23. CASE UNCHANGED vars
  BY <1>23 DEF vars, instrument
<1> QED
  BY <1>1, <1>2, <1>3, <1>4, <1>5, <1>6, <1>7, <1>8, <1>9, <1>10, <1>11, <1>12, <1>13, <1>15,
     <1>16, <1>17, <1>18, <1>19, <1>20, <1>21, <1>22, <1>23, Zenon
     DEF Next, Operate, Begin, Proceed

-----------------------------------------------------------------------------
(* What a step does to each operation.                                      *)

(* An operation keeps its kind, place and progress, a stop may be noted.    *)
Stays(x) == /\ op'[x].kind = op[x].kind /\ op'[x].pc = op[x].pc
            /\ op'[x].left = op[x].left /\ op'[x].pile = op[x].pile

(* Noting a stop moves nothing.                                             *)
LEMMA AskedMoves ==
  ASSUME NEW f \in [Ops -> Operation], NEW x \in Ops
  PROVE  /\ Asked(f)[x].kind = f[x].kind /\ Asked(f)[x].pc = f[x].pc
         /\ Asked(f)[x].left = f[x].left /\ Asked(f)[x].pile = f[x].pile
BY DEF Asked, Operation

(* GoTo moves one operation.                                                *)
LEMMA GoToMoves ==
  ASSUME TypeOK, NEW o \in Ops, NEW pc, GoTo(o, pc), NEW x \in Ops
  PROVE  /\ op'[x].pc = IF x = o THEN pc ELSE op[x].pc
         /\ op'[x].kind = op[x].kind /\ op'[x].left = op[x].left
         /\ op'[x].pile = op[x].pile
BY DEF TypeOK, Operation, GoTo

(* The end of an operation takes that operation out, and only it.           *)
LEMMA EndMoves ==
  ASSUME TypeOK, NEW o \in Ops, NEW r \in Results, End(o, r), NEW x \in Ops
  PROVE  /\ x # o => op'[x] = op[x]
         /\ x = o => op'[x].pc \in {"off", "tail"}
         /\ IF op[o].kind = "dcr" THEN UNCHANGED instrument ELSE SetIdle
<1>1. CASE op[o].kind \in IntensityKinds
  <2>1. GoTo(o, "tail") /\ SetIdle
    BY <1>1 DEF End, EndIntensity
  <2> QED BY <1>1, <2>1, GoToMoves DEF IntensityKinds, GoTo, TypeOK
<1>2. CASE op[o].kind \notin IntensityKinds
  BY <1>2 DEF End, EndInline, TypeOK, Off, Fresh
<1> QED BY <1>1, <1>2

(* Protection keeps every operation where f has it.                         *)
LEMMA ProtectMoves ==
  ASSUME TypeOK, NEW r, NEW f \in [Ops -> Operation], AutoProtect(r, f), NEW x \in Ops
  PROVE  /\ op'[x].kind = f[x].kind /\ op'[x].pc = f[x].pc
         /\ op'[x].left = f[x].left /\ op'[x].pile = f[x].pile
BY AskedMoves DEF AutoProtect

-----------------------------------------------------------------------------
(* Steps left, and the kinds of operation that each place is for.           *)

KindFits ==
  \A o \in Ops :
    /\ op[o].pc # "off" => op[o].kind \in AllKinds
    /\ op[o].pc \in {"begin", "tail"} => op[o].kind \in IntensityKinds

(* The strengthening of TypeOK that the steps of Next preserve.             *)
Inv == TypeOK /\ StepsLeft /\ KindFits

(* The part of Inv that concerns one operation.                             *)
Fits(e) ==
  /\ e.pc \in {"announce", "begin", "setup", "io", "decode", "cooloff"} => e.left >= 1
  /\ e.pc # "off" => e.kind \in AllKinds
  /\ e.pc \in {"begin", "tail"} => e.kind \in IntensityKinds

(* An operation that keeps its kind and progress, and its place or one that *)
(* asks for no more, goes on fitting.                                       *)
LEMMA FitsStep == Inv /\ [Next]_vars => StepsLeft' /\ KindFits'
<1> SUFFICES ASSUME Inv, [Next]_vars, NEW x \in Ops PROVE Fits(op'[x])
  BY DEF StepsLeft, KindFits, Fits
<1>0. TypeOK /\ Fits(op[x])
  BY DEF Inv, StepsLeft, KindFits, Fits
<1>a. ASSUME Stays(x) PROVE Fits(op'[x])
  BY <1>0, <1>a DEF Stays, Fits
<1>b. ASSUME op' = op PROVE Fits(op'[x])
  BY <1>0, <1>b
<1>c. Fits(Off)
  BY DEF Off, Fresh, Fits
<1>d. ASSUME NEW o \in Ops, NEW e \in Operation, op' = [op EXCEPT ![o] = e], Fits(e)
      PROVE  Fits(op'[x])
  BY <1>0, <1>d DEF TypeOK
<1>e. ASSUME NEW o \in Ops, NEW r \in Results, End(o, r) PROVE Fits(op'[x])
  <2>1. CASE op[o].kind \in IntensityKinds
    <3>1. GoTo(o, "tail")
      BY <1>e, <2>1 DEF End, EndIntensity
    <3> QED BY <1>0, <2>1, <3>1, GoToMoves DEF Fits, IntensityKinds, AllKinds, GuardedKinds
  <2>2. CASE op[o].kind \notin IntensityKinds
    <3>1. op' = [op EXCEPT ![o] = Off]
      BY <1>e, <2>2 DEF End, EndInline
    <3> QED BY <3>1, <1>c, <1>d, OperationTypes
  <2> QED BY <2>1, <2>2
<1>f. ASSUME NEW o \in Ops, NEW pc, GoTo(o, pc),
             o = x => \/ pc \notin {"announce", "begin", "setup", "io", "decode", "cooloff", "tail"}
                      \/ /\ op[o].pc \in {"announce", "begin", "setup", "io", "decode", "cooloff"}
                         /\ pc \in {"begin", "tail"} => op[o].kind \in IntensityKinds
                      \/ MoreSteps(o) /\ pc \notin {"begin", "tail"}
             , op[o].pc # "off"
      PROVE  Fits(op'[x])
  <2>1. CASE x = o
    <3>1. op[x].left \in 0..MaxSteps
      BY <1>0 DEF TypeOK, Operation
    <3> QED BY <1>0, <1>f, <2>1, <3>1, GoToMoves, ConstantsAssumption DEF Fits, MoreSteps
  <2>2. CASE x # o
    BY <1>0, <1>f, <2>2, GoToMoves DEF Fits
  <2> QED BY <2>1, <2>2
<1>1. ASSUME NEW o \in Ops, Begin(o) PROVE Fits(op'[x])
  <2>1. PICK k \in AllKinds, pc \in {"announce", "begin", "setup", "io"}, pile \in BOOLEAN,
             n \in 1..MaxSteps :
          /\ op' = [op EXCEPT ![o] = Fresh(k, pc, pile, n)]
          /\ pc = "begin" => k \in IntensityKinds
    <3>0. 1 \in 1..MaxSteps
      BY ConstantsAssumption
    <3>1. CASE RunIntensity(o)
      <4>1. PICK kind \in IntensityKinds, pile \in PileModes, announces \in BOOLEAN :
              \E n \in Steps(kind) : RunIntensity(o)!(kind, pile, announces)!(n)
        BY <3>1 DEF RunIntensity
      <4>2. PICK n \in Steps(kind) : RunIntensity(o)!(kind, pile, announces)!(n)
        BY <4>1
      <4>3. n \in 1..MaxSteps /\ kind \in AllKinds /\ pile \in BOOLEAN
        BY ConstantsAssumption DEF Steps, IntensityKinds, AllKinds, GuardedKinds
      <4> QED BY <4>2, <4>3
    <3>2. CASE RunGated(o)
      <4>1. PICK kind \in {"gated", "paced"}, pile \in PileModes :
              \E n \in Steps(kind) : RunGated(o)!(kind, pile)!(n)
        BY <3>2 DEF RunGated
      <4>2. PICK n \in Steps(kind) : RunGated(o)!(kind, pile)!(n)
        BY <4>1
      <4>3. n \in 1..MaxSteps /\ kind \in AllKinds /\ pile \in BOOLEAN
        BY ConstantsAssumption DEF Steps, AllKinds, GuardedKinds
      <4> QED BY <4>2, <4>3
    <3>3. CASE CaptureLiveFrame(o) \/ Calibrate(o) \/ AcquireFlim(o) \/ DcrCurve(o)
      <4>1. {"live", "calib", "flim", "dcr"} \subseteq AllKinds
        BY DEF AllKinds, GuardedKinds
      <4> QED
        BY <3>0, <3>3, <4>1 DEF CaptureLiveFrame, Calibrate, AcquireFlim, DcrCurve
    <3> QED BY <1>1, <3>1, <3>2, <3>3 DEF Begin
  <2>2. Fresh(k, pc, pile, n) \in Operation
    <3>1. n \in 0..MaxSteps /\ pc \in Pcs
      BY ConstantsAssumption DEF Pcs, WirePcs
    <3> QED BY <3>1, OperationTypes
  <2>3. Fits(Fresh(k, pc, pile, n))
    BY <2>1, ConstantsAssumption DEF Fits, Fresh
  <2> QED BY <2>1, <2>2, <2>3, <1>d
<1>2. ASSUME NEW o \in Ops, CreateTask(o) PROVE Fits(op'[x])
  BY <1>2, <1>f DEF CreateTask, At
<1>3. ASSUME NEW o \in Ops, BeginIntensity(o) PROVE Fits(op'[x])
  <2>1. op[o].pc = "begin" /\ op[o].kind \in IntensityKinds
    BY <1>3 DEF BeginIntensity, At, Inv, KindFits
  <2>2. \/ GoTo(o, "setup") \/ GoTo(o, "tail") \/ op' = [op EXCEPT ![o] = Off]
    BY <1>3 DEF BeginIntensity, ReferenceError
  <2> QED BY <2>1, <2>2, <1>c, <1>d, <1>f, OperationTypes
<1>4. ASSUME NEW o \in Ops, BeginGated(o) PROVE Fits(op'[x])
  <2>1. op[o].pc = "announce" /\ (GoTo(o, "setup") \/ op' = [op EXCEPT ![o] = Off])
    BY <1>4 DEF BeginGated, At, EndInline
  <2> QED BY <2>1, <1>c, <1>d, <1>f, OperationTypes
<1>5. ASSUME NEW o \in Ops, SetupDone(o) \/ CooledOff(o) PROVE Fits(op'[x])
  BY <1>5, <1>f DEF SetupDone, CooledOff, At
<1>6. ASSUME NEW o \in Ops, StepDone(o) PROVE Fits(op'[x])
  <2>1. CASE op[o].kind = "calib"
    BY <1>6, <2>1, <1>c, <1>d, OperationTypes DEF StepDone, EndInline
  <2>2. CASE op[o].kind # "calib"
    <3>1. CASE x = o
      <4>1. /\ op'[o].kind = op[o].kind /\ op'[o].pc = AfterStep(o)
            /\ op'[o].left = op[o].left - 1
        <5> DEFINE late == IF op[o].asked THEN Later(op[o].late) ELSE op[o].late
                   e == [op[o] EXCEPT !.left = op[o].left - 1, !.pc = AfterStep(o),
                                      !.late = late]
        <5>1. op' = [op EXCEPT ![o] = e]
          BY <1>6, <2>2 DEF StepDone
        <5> HIDE DEF late
        <5>2. op[o] \in Operation /\ op'[o] = e
          BY <1>0, <5>1 DEF TypeOK
        <5>3. op[o].kind = e.kind /\ e.pc = AfterStep(o) /\ e.left = op[o].left - 1
          BY <5>2 DEF Operation
        <5> QED BY <5>2, <5>3
      <4>2. op[o].left \in 0..MaxSteps /\ op[o].pc = "io"
        BY <1>0, <1>6 DEF StepDone, TypeOK, Operation, At
      <4> QED BY <1>0, <3>1, <4>1, <4>2, ConstantsAssumption DEF AfterStep, Fits
    <3>2. CASE x # o
      BY <1>0, <1>6, <2>2, <3>2 DEF StepDone, TypeOK
    <3> QED BY <3>1, <3>2
  <2> QED BY <2>1, <2>2
<1>7. ASSUME NEW o \in Ops, StepDecoded(o) \/ TimeoutExpires(o) \/ Reset(o) PROVE Fits(op'[x])
  BY <1>7, <1>f DEF StepDecoded, TimeoutExpires, Reset, At
<1>8. ASSUME NEW o \in Ops,
             ExchangeFailed(o) \/ TimeoutReported(o) \/ Postprocessed(o) \/ CorrectionFailed(o)
      PROVE  Fits(op'[x])
  <2>1. \E r \in Results : End(o, r)
    BY <1>8 DEF ExchangeFailed, TimeoutReported, Postprocessed, CorrectionFailed, End, Results
  <2> QED BY <2>1, <1>e
<1>9. ASSUME NEW o \in Ops, WriteRaised(o) \/ TaskDone(o) PROVE Fits(op'[x])
  BY <1>9, <1>c, <1>d, OperationTypes DEF WriteRaised, TaskDone
<1>10. ASSUME NEW r \in {"invalid", "cool", "hot"}, NEW f \in [Ops -> Operation],
              AutoProtect(r, f), Fits(f[x])
       PROVE  Fits(op'[x])
  BY <1>0, <1>10, ProtectMoves DEF Fits
<1>11. ASSUME NEW o \in Ops, PollTemperature(o) \/ PollVoltage(o) PROVE Fits(op'[x])
  <2>1. op[o].pc \in {"pollR", "pollV"} /\ "check" \in Pcs
    BY <1>11 DEF PollTemperature, PollVoltage, At, Pcs
  <2>2. [op EXCEPT ![o].pc = "check"] \in [Ops -> Operation]
    BY <1>0, <2>1, OperationTypes DEF TypeOK
  <2>3. Fits([op EXCEPT ![o].pc = "check"][x])
    BY <1>0, <2>1 DEF Fits, TypeOK, Operation
  <2>4. \/ GoTo(o, "pollV")
        \/ \E r \in {"invalid", "cool", "hot"} : AutoProtect(r, [op EXCEPT ![o].pc = "check"])
    BY <1>0, <1>11 DEF PollTemperature, PollVoltage, TypeOK
  <2> QED BY <2>1, <2>2, <2>3, <2>4, <1>10, <1>f
<1>12. ASSUME NEW o \in Ops, Boundary(o) PROVE Fits(op'[x])
  <2>1. CASE stopRequested
    <3>1. op' = [op EXCEPT ![o] = [op[o] EXCEPT !.pc = "post", !.aborted = TRUE]]
      BY <1>12, <2>1 DEF Boundary
    <3>2. [op[o] EXCEPT !.pc = "post", !.aborted = TRUE] \in Operation
      BY <1>0 DEF TypeOK, Operation, Pcs
    <3>3. op[o].pc = "check" /\ op[o] \in Operation /\ op[o].kind \in AllKinds
      BY <1>0, <1>12 DEF Boundary, At, TypeOK, Inv, KindFits
    <3>4. Fits([op[o] EXCEPT !.pc = "post", !.aborted = TRUE])
      BY <3>3 DEF Fits, Operation
    <3> QED BY <3>1, <3>2, <3>4, <1>d
  <2>2. CASE ~stopRequested
    BY <1>12, <2>2, <1>f DEF Boundary, At
  <2> QED BY <2>1, <2>2
<1>13. ASSUME NEW p \in Pollers, PollTick(p) \/ PollReply(p) PROVE Fits(op'[x])
  <2>1. op' = op \/ \E r \in {"invalid", "cool", "hot"} : AutoProtect(r, op)
    BY <1>0, <1>13 DEF PollTick, PollReply, TypeOK
  <2> QED BY <1>0, <2>1, <1>10 DEF TypeOK
<1>14. ASSUME NEW s \in Stoppers, Stop(s) \/ StopReturns(s) PROVE Fits(op'[x])
  <2>1. op' = op \/ op' = Asked(op)
    BY <1>14 DEF Stop, StopReturns
  <2>2. op \in [Ops -> Operation]
    BY <1>0 DEF TypeOK
  <2> QED BY <1>0, <2>1, <2>2, AskedMoves DEF Fits
<1>15. ASSUME LinkLost \/ Reconnect \/ UNCHANGED vars PROVE Fits(op'[x])
  BY <1>0, <1>15 DEF LinkLost, Reconnect, vars
<1> QED
  BY <1>1, <1>2, <1>3, <1>4, <1>5, <1>6, <1>7, <1>8, <1>9, <1>11, <1>12, <1>13, <1>14, <1>15,
     Zenon
     DEF Next, Operate, Proceed

(* The initial states.                                                      *)
LEMMA InitInv == Init => Inv
<1> SUFFICES ASSUME Init PROVE Inv
  OBVIOUS
<1>1. TypeOK
  <2>1. op \in [Ops -> Operation]
    BY OperationTypes DEF Init
  <2>2. current \in Current
    BY DEF Init, Current
  <2>3. wire \in Seq(Ops \cup Pollers)
    BY EmptySeq DEF Init
  <2>4. poller \in [Pollers -> {"sleep", "readR", "readV"}]
    BY DEF Init
  <2>5. stopper \in [Stoppers -> Ops \cup {"off", "woken"}]
    BY DEF Init
  <2> QED BY <2>1, <2>2, <2>3, <2>4, <2>5 DEF Init, TypeOK, Statuses
<1>2. StepsLeft /\ KindFits
  BY DEF Init, StepsLeft, KindFits, Off, Fresh
<1> QED BY <1>1, <1>2 DEF Inv

(* Every step preserves the strengthened invariant.                         *)
LEMMA NextInv == Inv /\ [Next]_vars => Inv'
BY TypeStep, FitsStep DEF Inv

(* The program stays in its states, and a run that is to issue another      *)
(* acquisition has a step left to acquire: with stop requests and without.  *)
THEOREM TypeCorrect == Spec => [](TypeOK /\ StepsLeft)
<1>1. Inv => TypeOK /\ StepsLeft
  BY DEF Inv
<1> QED BY <1>1, InitInv, NextInv, PTL DEF Spec

(* The same of the program when nobody calls /stop.                         *)
LEMMA UnattendedInv == UnattendedSpec => []Inv
<1>1. [Operate]_vars => [Next]_vars
  BY DEF Next
<1> QED BY <1>1, InitInv, NextInv, PTL DEF UnattendedSpec

-----------------------------------------------------------------------------
(* The lease.                                                               *)

(* An operation is admitted: the guard was down, and now it is up.          *)
Admits(o) ==
  /\ ~IsBusy /\ IsBusy' /\ status' # "stopping"
  /\ ~Holds(o) /\ Holds(o)'
  /\ \A x \in Ops \ {o} : op'[x] = op[x]
  /\ UNCHANGED <<stopRequested, abortReason>>

(* Nobody takes or gives up the instrument; a stop may be requested.        *)
Keeps ==
  /\ \A x \in Ops : Holds(x)' <=> Holds(x)
  /\ IsBusy' <=> IsBusy
  /\ UNCHANGED instrument \/ (RequestStop("over_temperature") /\ IsBusy)

(* An operation returns the instrument in its `finally`.                    *)
Returns(o) ==
  /\ Holds(o) /\ ~Holds(o)'
  /\ \A x \in Ops \ {o} : op'[x] = op[x]
  /\ SetIdle

(* An operation ends and leaves the instrument as it is.                    *)
Dies(o) ==
  /\ Holds(o) /\ ~Holds(o)'
  /\ \A x \in Ops \ {o} : op'[x] = op[x]
  /\ "raise" \in RefOutcomes
  /\ UNCHANGED instrument

(* Every step of an operation or a poll is one of these four.               *)
LEMMA LeaseEffect ==
  Inv /\ [Operate]_vars => Keeps \/ \E o \in Ops : Admits(o) \/ Returns(o) \/ Dies(o)
<1> SUFFICES ASSUME Inv, [Operate]_vars
             PROVE  Keeps \/ \E o \in Ops : Admits(o) \/ Returns(o) \/ Dies(o)
  OBVIOUS
<1>0. /\ TypeOK /\ op \in [Ops -> Operation]
      /\ \A o \in Ops : Fits(op[o])
  BY DEF Inv, TypeOK, StepsLeft, KindFits, Fits
<1>a. ASSUME UNCHANGED instrument, op' = op PROVE Keeps
  BY <1>a DEF Keeps, Holds, IsBusy, instrument
<1>b. ASSUME NEW o \in Ops, NEW pc, GoTo(o, pc), UNCHANGED instrument,
             pc \notin {"off", "tail"}, op[o].pc \notin {"off", "tail"}
      PROVE  Keeps
  BY <1>0, <1>b, GoToMoves DEF Keeps, Holds, Holding, IsBusy, instrument
<1>c. ASSUME NEW o \in Ops, NEW e \in Operation, op' = [op EXCEPT ![o] = e], UNCHANGED instrument,
             Holding(e) <=> Holds(o)
      PROVE  Keeps
  BY <1>0, <1>c DEF Keeps, Holds, IsBusy, instrument
<1>d. ASSUME NEW o \in Ops, NEW r \in Results, End(o, r), op[o].pc \notin {"off", "tail"}
      PROVE  Keeps \/ Returns(o)
  <2>1. CASE op[o].kind = "dcr"
    <3>1. op' = [op EXCEPT ![o] = Off] /\ UNCHANGED instrument
      BY <1>d, <2>1 DEF End, EndInline, IntensityKinds
    <3>2. ~Holding(Off) /\ ~Holds(o)
      BY <2>1 DEF Holds, Holding, Off, Fresh, GuardedKinds
    <3> QED BY <3>1, <3>2, <1>c, OperationTypes
  <2>2. CASE op[o].kind # "dcr"
    <3>1. Holds(o)
      BY <1>0, <1>d, <2>2 DEF Holds, Holding, Fits, AllKinds
    <3>2. op'[o].pc \in {"off", "tail"} /\ SetIdle /\ \A x \in Ops \ {o} : op'[x] = op[x]
      BY <1>0, <1>d, <2>2, EndMoves
    <3> QED BY <3>1, <3>2 DEF Returns, Holds, Holding
  <2> QED BY <2>1, <2>2
<1>e. ASSUME NEW r \in {"invalid", "cool", "hot"}, NEW f \in [Ops -> Operation],
             AutoProtect(r, f), \A x \in Ops : Holding(f[x]) <=> Holds(x)
      PROVE  Keeps
  <2>1. \A x \in Ops : Holds(x)' <=> Holds(x)
    BY <1>0, <1>e, ProtectMoves DEF Holds, Holding
  <2>2. UNCHANGED instrument \/ (RequestStop("over_temperature") /\ IsBusy)
    BY <1>e DEF AutoProtect
  <2>3. IsBusy' <=> IsBusy
    BY <2>2 DEF IsBusy, RequestStop, instrument
  <2> QED BY <2>1, <2>2, <2>3 DEF Keeps
<1>1. ASSUME NEW o \in Ops, RunIntensity(o) \/ RunGated(o) \/ CaptureLiveFrame(o)
                            \/ Calibrate(o) \/ AcquireFlim(o)
      PROVE  Admits(o)
  <2>1. \E k \in GuardedKinds, pc \in {"announce", "begin", "setup", "io"} :
          Admit(o, k) /\ \E pile, n : op' = [op EXCEPT ![o] = Fresh(k, pc, pile, n)]
    <3>1. CASE RunIntensity(o)
      <4>1. PICK kind \in IntensityKinds, pile \in PileModes, announces \in BOOLEAN :
              \E n \in Steps(kind) : RunIntensity(o)!(kind, pile, announces)!(n)
        BY <3>1 DEF RunIntensity
      <4>2. PICK n \in Steps(kind) : RunIntensity(o)!(kind, pile, announces)!(n)
        BY <4>1
      <4>3. kind \in GuardedKinds /\ Admit(o, kind)
        BY <4>2 DEF IntensityKinds, GuardedKinds
      <4>4. PICK pc \in {"announce", "begin"} : op' = [op EXCEPT ![o] = Fresh(kind, pc, pile, n)]
        BY <4>2
      <4> QED BY <4>3, <4>4
    <3>2. CASE RunGated(o)
      <4>1. PICK kind \in {"gated", "paced"}, pile \in PileModes :
              \E n \in Steps(kind) : RunGated(o)!(kind, pile)!(n)
        BY <3>2 DEF RunGated
      <4>2. PICK n \in Steps(kind) : RunGated(o)!(kind, pile)!(n)
        BY <4>1
      <4>3. kind \in GuardedKinds /\ "announce" \in {"announce", "begin", "setup", "io"}
        BY DEF GuardedKinds
      <4> QED BY <4>2, <4>3, Zenon
    <3>3. CASE CaptureLiveFrame(o) \/ Calibrate(o) \/ AcquireFlim(o)
      BY <3>3 DEF CaptureLiveFrame, Calibrate, AcquireFlim, GuardedKinds
    <3> QED BY <1>1, <3>1, <3>2, <3>3
  <2>2. Holds(o)' /\ ~Holds(o) /\ \A x \in Ops \ {o} : op'[x] = op[x]
    BY <1>0, <2>1 DEF Holds, Holding, Fresh, Admit, At
  <2>3. /\ ~IsBusy /\ IsBusy' /\ status' # "stopping"
        /\ UNCHANGED <<stopRequested, abortReason>>
    BY <2>1 DEF Admit, IsBusy
  <2> QED BY <2>2, <2>3 DEF Admits
<1>2. ASSUME NEW o \in Ops, DcrCurve(o) PROVE Keeps
  <2>1. Fresh("dcr", "setup", FALSE, 1) \in Operation
    <3>1. "dcr" \in AllKinds /\ "setup" \in Pcs /\ 1 \in 0..MaxSteps
      BY ConstantsAssumption DEF AllKinds, Pcs, WirePcs
    <3> QED BY <3>1, OperationTypes
  <2>2. ~Holding(Fresh("dcr", "setup", FALSE, 1)) /\ ~Holds(o)
    BY <1>2 DEF DcrCurve, Holds, Holding, Fresh, At, GuardedKinds
  <2> QED BY <1>2, <2>1, <2>2, <1>c DEF DcrCurve
<1>3. ASSUME NEW o \in Ops, CreateTask(o) \/ SetupDone(o) \/ StepDecoded(o) \/ CooledOff(o)
                            \/ TimeoutExpires(o) \/ Reset(o)
      PROVE  Keeps
  BY <1>3, <1>b DEF CreateTask, SetupDone, StepDecoded, CooledOff, TimeoutExpires, Reset, At
<1>4. ASSUME NEW o \in Ops, BeginIntensity(o) PROVE Keeps \/ Returns(o) \/ Dies(o)
  <2>1. PICK ref \in RefOutcomes : BeginIntensity(o)!2!(ref)
    BY <1>4 DEF BeginIntensity
  <2>2. op[o].pc = "begin" /\ Holds(o)
    BY <1>0, <1>4 DEF BeginIntensity, At, Fits, IntensityKinds, Holds, Holding, GuardedKinds
  <2>3. CASE ref = "ok"
    BY <2>1, <2>2, <2>3, <1>b
  <2>4. CASE ref = "error"
    <3>1. GoTo(o, "tail") /\ SetIdle
      BY <2>1, <2>4 DEF ReferenceError
    <3> QED BY <1>0, <2>2, <3>1 DEF Returns, GoTo, Holds, Holding, Operation
  <2>5. CASE ref = "raise"
    <3>1. op' = [op EXCEPT ![o] = Off] /\ UNCHANGED instrument
      BY <2>1, <2>5
    <3> QED BY <1>0, <2>2, <2>5, <3>1 DEF Dies, Holds, Holding, Off, Fresh
  <2> QED BY <2>1, <2>3, <2>4, <2>5
<1>5. ASSUME NEW o \in Ops, BeginGated(o) PROVE Keeps \/ Returns(o)
  <2>1. op[o].pc = "announce" /\ Holds(o) /\ op[o].kind # "dcr"
    BY <1>5 DEF BeginGated, At, Holds, Holding, GuardedKinds
  <2>2. CASE GoTo(o, "setup") /\ UNCHANGED instrument
    BY <2>1, <2>2, <1>b
  <2>3. CASE EndInline(o)
    BY <1>0, <2>1, <2>3 DEF EndInline, Returns, Holds, Holding, Off, Fresh
  <2> QED BY <1>5, <2>2, <2>3 DEF BeginGated, instrument
<1>6. ASSUME NEW o \in Ops, StepDone(o) PROVE Keeps \/ Returns(o)
  <2>1. op[o].pc = "io"
    BY <1>6 DEF StepDone, At
  <2>2. CASE op[o].kind = "calib"
    <3>1. End(o, "done")
      BY <1>6, <2>2 DEF StepDone, End, IntensityKinds
    <3> QED BY <2>1, <3>1, <1>d DEF Results
  <2>3. CASE op[o].kind # "calib"
    <3> DEFINE late == IF op[o].asked THEN Later(op[o].late) ELSE op[o].late
               e == [op[o] EXCEPT !.left = op[o].left - 1, !.pc = AfterStep(o), !.late = late]
    <3>1. op' = [op EXCEPT ![o] = e] /\ UNCHANGED instrument
      BY <1>6, <2>3 DEF StepDone
    <3> HIDE DEF late
    <3>2. e.kind = op[o].kind /\ e.pc = AfterStep(o)
      BY <1>0 DEF Operation
    <3>3. AfterStep(o) \notin {"off", "tail"}
      BY DEF AfterStep
    <3>4. Holding(e) <=> Holds(o)
      BY <2>1, <3>2, <3>3 DEF Holding, Holds
    <3> HIDE DEF e
    <3>5. op'[o] = e /\ \A x \in Ops \ {o} : op'[x] = op[x]
      BY <1>0, <3>1
    <3> QED BY <3>1, <3>4, <3>5 DEF Keeps, Holds, IsBusy, instrument
  <2> QED BY <2>2, <2>3
<1>7. ASSUME NEW o \in Ops,
             ExchangeFailed(o) \/ TimeoutReported(o) \/ Postprocessed(o) \/ CorrectionFailed(o)
      PROVE  Keeps \/ Returns(o)
  <2>1. op[o].pc \notin {"off", "tail"}
    BY <1>7 DEF ExchangeFailed, TimeoutReported, Postprocessed, CorrectionFailed, At
  <2>2. \E r \in Results : End(o, r)
    BY <1>7 DEF ExchangeFailed, TimeoutReported, Postprocessed, CorrectionFailed, End, Results
  <2> QED BY <2>1, <2>2, <1>d
<1>8. ASSUME NEW o \in Ops, WriteRaised(o) PROVE Returns(o)
  BY <1>0, <1>8 DEF WriteRaised, Returns, Holds, Holding, Off, Fresh, At, IntensityKinds, GuardedKinds
<1>9. ASSUME NEW o \in Ops, TaskDone(o) PROVE Keeps
  <2>1. ~Holding(Off) /\ ~Holds(o)
    BY <1>9 DEF TaskDone, At, Holds, Holding, Off, Fresh
  <2> QED BY <1>9, <2>1, <1>c, OperationTypes DEF TaskDone
<1>10. ASSUME NEW o \in Ops, PollTemperature(o) \/ PollVoltage(o) PROVE Keeps
  <2>1. op[o].pc \in {"pollR", "pollV"} /\ "check" \in Pcs
    BY <1>10 DEF PollTemperature, PollVoltage, At, Pcs
  <2>2. [op EXCEPT ![o].pc = "check"] \in [Ops -> Operation]
    BY <1>0, <2>1, OperationTypes
  <2>3. \A x \in Ops : Holding([op EXCEPT ![o].pc = "check"][x]) <=> Holds(x)
    BY <1>0, <2>1 DEF Holding, Holds, Operation
  <2>4. \/ GoTo(o, "pollV") /\ UNCHANGED instrument
        \/ \E r \in {"invalid", "cool", "hot"} : AutoProtect(r, [op EXCEPT ![o].pc = "check"])
    BY <1>0, <1>10 DEF PollTemperature, PollVoltage, TypeOK, instrument
  <2> QED BY <2>1, <2>2, <2>3, <2>4, <1>b, <1>e
<1>11. ASSUME NEW o \in Ops, Boundary(o) PROVE Keeps
  <2>1. CASE stopRequested
    <3>1. op' = [op EXCEPT ![o] = [op[o] EXCEPT !.pc = "post", !.aborted = TRUE]]
      BY <1>11, <2>1 DEF Boundary
    <3>2. [op[o] EXCEPT !.pc = "post", !.aborted = TRUE] \in Operation
      BY <1>0 DEF Operation, Pcs
    <3>3. op[o].pc = "check" /\ op[o] \in Operation
      BY <1>0, <1>11 DEF Boundary, At
    <3>4. Holding([op[o] EXCEPT !.pc = "post", !.aborted = TRUE]) <=> Holds(o)
      BY <3>3 DEF Holding, Holds, Operation
    <3> QED BY <1>11, <3>1, <3>2, <3>4, <1>c DEF Boundary
  <2>2. CASE ~stopRequested
    BY <1>11, <2>2, <1>b DEF Boundary, At
  <2> QED BY <2>1, <2>2
<1>12. ASSUME NEW p \in Pollers, PollTick(p) \/ PollReply(p) PROVE Keeps
  <2>1. \/ op' = op /\ UNCHANGED instrument
        \/ \E r \in {"invalid", "cool", "hot"} : AutoProtect(r, op)
    BY <1>0, <1>12 DEF PollTick, PollReply, TypeOK, instrument
  <2> QED BY <1>0, <2>1, <1>a, <1>e DEF Holds
<1>13. ASSUME LinkLost \/ Reconnect \/ UNCHANGED vars PROVE Keeps
  BY <1>13, <1>a DEF LinkLost, Reconnect, vars
<1> QED
  BY <1>1, <1>2, <1>3, <1>4, <1>5, <1>6, <1>7, <1>8, <1>9, <1>10, <1>11, <1>12, <1>13, Zenon
     DEF Operate, Begin, Proceed

(* Nobody else holds the instrument after a step that others do not notice. *)
LEMMA LeaseStep == OneOperation /\ Inv /\ [Operate]_vars => OneOperation'
<1> SUFFICES ASSUME OneOperation, Inv, [Operate]_vars PROVE OneOperation'
  OBVIOUS
<1> USE DEF OneOperation, SingleHolder, HolderIsBusy
<1>1. CASE Keeps
  BY <1>1 DEF Keeps
<1>2. ASSUME NEW o \in Ops, Admits(o) PROVE OneOperation'
  BY <1>2 DEF Admits, Holds
<1>3. ASSUME NEW o \in Ops, Returns(o) \/ Dies(o) PROVE OneOperation'
  BY <1>3 DEF Returns, Dies, Holds
<1> QED BY <1>1, <1>2, <1>3, LeaseEffect

(* The busy guard of docs/constraints.md:21: unless /stop is used, at most  *)
(* one operation holds the instrument, and the guard is up while one does.  *)
THEOREM MutualExclusion == UnattendedSpec => []OneOperation
<1>1. Init => OneOperation
  BY DEF Init, OneOperation, SingleHolder, HolderIsBusy, Holds, Holding, Off, Fresh
<1> QED BY <1>1, LeaseStep, UnattendedInv, PTL DEF UnattendedSpec

(* Unless /stop is used, no stop request and no abort reason outlive the    *)
(* operation they were meant for (InstrumentState.set clears both).         *)
THEOREM StopDoesNotLeak == UnattendedSpec => []IdleIsClean
<1>1. Init => IdleIsClean
  BY DEF Init, IdleIsClean
<1>2. IdleIsClean /\ Inv /\ [Operate]_vars => IdleIsClean'
  <2> SUFFICES ASSUME IdleIsClean, Inv, [Operate]_vars PROVE IdleIsClean'
    OBVIOUS
  <2>1. CASE Keeps
    BY <2>1 DEF Keeps, IdleIsClean, instrument
  <2>2. ASSUME NEW o \in Ops, Admits(o) \/ Returns(o) \/ Dies(o) PROVE IdleIsClean'
    BY <2>2 DEF Admits, Returns, Dies, SetIdle, IdleIsClean, IsBusy, instrument
  <2> QED BY <2>1, <2>2, LeaseEffect
<1> QED BY <1>1, <1>2, UnattendedInv, PTL DEF UnattendedSpec

(* Stop requests included, a busy instrument is held by an operation, as    *)
(* long as no dark reference lookup raises (acquisition.py:267 is outside   *)
(* the try): the flag is never left up by nobody.                           *)
THEOREM BusyHasOwner == "raise" \notin RefOutcomes /\ Spec => []BusyIsHeld
<1> SUFFICES ASSUME "raise" \notin RefOutcomes PROVE Spec => []BusyIsHeld
  OBVIOUS
<1>1. Init => BusyIsHeld
  BY DEF Init, BusyIsHeld, IsBusy
<1>2. BusyIsHeld /\ Inv /\ [Next]_vars => BusyIsHeld'
  <2> SUFFICES ASSUME BusyIsHeld, Inv, [Next]_vars PROVE BusyIsHeld'
    OBVIOUS
  <2>1. CASE Keeps
    BY <2>1 DEF Keeps, BusyIsHeld
  <2>2. ASSUME NEW o \in Ops, Admits(o) \/ Returns(o) \/ Dies(o) PROVE BusyIsHeld'
    BY <2>2 DEF Admits, Returns, Dies, SetIdle, BusyIsHeld, IsBusy
  <2>3. ASSUME NEW s \in Stoppers, Stop(s) \/ StopReturns(s) PROVE BusyIsHeld'
    <3>1. op \in [Ops -> Operation] /\ (op' = op \/ op' = Asked(op))
      BY <2>3 DEF Stop, StopReturns, Inv, TypeOK
    <3>2. \A x \in Ops : Holds(x)' <=> Holds(x)
      BY <3>1, AskedMoves DEF Holds, Holding
    <3>3. IsBusy' => IsBusy
      BY <2>3 DEF Stop, StopReturns, SetIdle, RequestStop, IsBusy, instrument
    <3> QED BY <3>2, <3>3 DEF BusyIsHeld
  <2> QED BY <2>1, <2>2, <2>3, LeaseEffect DEF Next
<1> QED BY <1>1, <1>2, InitInv, NextInv, PTL DEF Spec

(* Unless /stop is used, every step of the runner is a step of the abstract *)
(* lease, or changes nothing of it.                                         *)
THEOREM RunnerImplementsLease == UnattendedSpec => ImplementsLease
<1>1. Init => Lease!LeaseInit
  BY DEF Init, Lease!LeaseInit, Owner, IsBusy, Holds, Holding, Off, Fresh
<1>2. Inv /\ OneOperation /\ OneOperation' /\ [Operate]_vars
        => [Lease!LeaseNext]_(Lease!leaseVars)
  <2> SUFFICES ASSUME Inv, OneOperation, OneOperation', [Operate]_vars
               PROVE  [Lease!LeaseNext]_(Lease!leaseVars)
    OBVIOUS
  <2> DEFINE Talking == {o \in Ops : Holds(o) /\ op[o].pc \in WirePcs}
  <2>0. \A o \in Ops : o # None
    BY ConstantsAssumption
  <2>1. \A o \in Ops : Holds(o) => Owner = o /\ Talking \in {{}, {o}}
    BY DEF Owner, OneOperation, SingleHolder
  <2>2. (\A o \in Ops : ~Holds(o)) => Owner = None /\ Talking = {}
    BY DEF Owner
  <2>3. \A o \in Ops : Holds(o)' => Owner' = o /\ Talking' \in {{}, {o}}
    BY DEF Owner, OneOperation, SingleHolder
  <2>4. (\A o \in Ops : ~Holds(o)') => Owner' = None /\ Talking' = {}
    BY DEF Owner
  <2>5. CASE Keeps
    <3>1. CASE \E o \in Ops : Holds(o)
      <4>1. PICK o \in Ops : Holds(o)
        BY <3>1
      <4>2. Owner = o /\ Owner' = o /\ Talking' \in {{}, {o}} /\ (IsBusy' <=> IsBusy)
        BY <2>1, <2>3, <2>5, <4>1 DEF Keeps
      <4>3. Lease!Talk(o) \/ Lease!Rest(o)
        BY <4>2 DEF Lease!Talk, Lease!Rest
      <4> QED BY <4>3 DEF Lease!LeaseNext
    <3>2. CASE ~ \E o \in Ops : Holds(o)
      <4>1. Owner' = Owner /\ Talking' = Talking /\ (IsBusy' <=> IsBusy)
        BY <2>2, <2>4, <2>5, <3>2 DEF Keeps
      <4> QED BY <4>1 DEF Lease!leaseVars
    <3> QED BY <3>1, <3>2
  <2>6. ASSUME NEW o \in Ops, Admits(o) PROVE Lease!Take(o)
    <3>1. \A x \in Ops : ~Holds(x)
      BY <2>6 DEF Admits, OneOperation, HolderIsBusy
    <3>2. Owner' = o /\ Talking' \in {{}, {o}} /\ Owner = None
      BY <2>2, <2>3, <2>6, <3>1 DEF Admits
    <3> QED BY <2>6, <3>2 DEF Admits, Lease!Take
  <2>7. ASSUME NEW o \in Ops, Returns(o) \/ Dies(o) PROVE Lease!Return(o) \/ Lease!Die(o)
    <3>1. \A x \in Ops : ~Holds(x)'
      BY <2>7 DEF Returns, Dies, OneOperation, SingleHolder, Holds
    <3>2. Owner = o /\ Owner' = None /\ Talking' = {}
      BY <2>1, <2>4, <2>7, <3>1 DEF Returns, Dies
    <3> QED
      BY <2>7, <3>2 DEF Returns, Dies, SetIdle, IsBusy, instrument, Lease!Return, Lease!Die
  <2> QED BY <2>5, <2>6, <2>7, LeaseEffect DEF Lease!LeaseNext
<1> QED BY <1>1, <1>2, UnattendedInv, MutualExclusion, PTL DEF UnattendedSpec, ImplementsLease, Lease!LeaseSpec

-----------------------------------------------------------------------------
(* The way of an operation, step by step: what a stop reaches, what the     *)
(* status reports, which pile-up mode the camera is in, and whose result is *)
(* noted depend on it.                                                      *)

Goes(x, from, to) == op[x].pc \in from /\ op'[x].pc \in to

(* A created task becomes the current one.                                  *)
Tracks(o) ==
  /\ current' = [task |-> o, result |-> None]
  /\ op'[o].pc = "begin" /\ op'[o].kind \in IntensityKinds

(* What an intensity run may come to.                                       *)
Ends(o) ==
  IF op[o].pc = "post" THEN {IF op[o].aborted THEN "aborted" ELSE "done", "error"}
                       ELSE {"error", "timeout"}

(* Its result is noted, and a stopped run has the reason it was stopped for.*)
Notes(o) ==
  /\ op[o].kind \in IntensityKinds /\ op[o].pc \in {"setup", "io", "dropping", "post"}
  /\ op'[o].pc = "tail" /\ SetIdle
  /\ \E r \in Ends(o) :
       current' = [current EXCEPT !.result =
                     [status |-> r, reason |-> IF r = "aborted" THEN abortReason ELSE None]]

(* Kind and pile-up mode stay; a stop that was noted is not forgotten, and  *)
(* it is noted only when one is requested.                                  *)
Carries(x) ==
  /\ op'[x].kind = op[x].kind /\ op'[x].pile = op[x].pile
  /\ op[x].asked => op'[x].asked
  /\ op'[x].asked => op[x].asked \/ stopRequested'

CarriesAll(x) ==
  Carries(x) /\ op'[x].late = op[x].late /\ op'[x].aborted = op[x].aborted

Rests(x) == CarriesAll(x) /\ op'[x].pc = op[x].pc

Moves(x) ==
  /\ CarriesAll(x)
  /\ \/ Goes(x, {"announce"}, {"begin"}) /\ current' = [task |-> x, result |-> None]
     \/ Goes(x, {"announce"}, {"setup"}) /\ op[x].kind \in {"gated", "paced"}
     \/ Goes(x, {"begin"}, {"setup"})
     \/ Goes(x, {"setup"}, {"io"}) /\ pileup' = op[x].pile
     \/ Goes(x, {"decode"}, {"pollR", "check"})
     \/ Goes(x, {"pollR"}, {"pollV", "check"})
     \/ Goes(x, {"pollV"}, {"check"})
     \/ /\ Goes(x, {"check"}, {"setup", "cooloff"})
        /\ ~stopRequested /\ op[x].kind \in {"batched", "paced"}
     \/ Goes(x, {"check"}, {"post"})
     \/ Goes(x, {"cooloff"}, {"io"})
     \/ Goes(x, {"setup", "io"}, {"timedout"})
     \/ Goes(x, {"timedout"}, {"dropping"})
     \/ Goes(x, {"begin"}, {"tail"}) /\ SetIdle /\ UNCHANGED current
     \/ Goes(x, {"setup", "io", "dropping", "post"}, {"tail"}) /\ Notes(x)

(* The boundary finds a stop request.                                       *)
Aborts(x) ==
  /\ Carries(x) /\ op'[x].late = op[x].late
  /\ Goes(x, {"check"}, {"post"})
  /\ stopRequested /\ UNCHANGED instrument

(* A step's data is complete.                                               *)
Completes(x) ==
  /\ Carries(x) /\ op'[x].aborted = op[x].aborted
  /\ Goes(x, {"io"}, {"pollR", "decode", "post"})
  /\ op'[x].late = IF op[x].asked THEN Later(op[x].late) ELSE op[x].late

Enters(x) ==
  /\ op[x].pc = "off" /\ op'[x].kind \in Kinds
  /\ op'[x].late = 0 /\ ~op'[x].asked /\ ~op'[x].aborted
  /\ \/ op'[x].pc = "announce"
     \/ op'[x].pc = "begin" /\ current' = [task |-> x, result |-> None]
     \/ op'[x].pc = "setup" /\ op'[x].kind \in {"live", "dcr"}
     \/ op'[x].pc = "io" /\ op'[x].kind \in {"calib", "flim"}

Leaves(x) == op'[x] = Off

Follows(x) == Rests(x) \/ Moves(x) \/ Aborts(x) \/ Completes(x) \/ Enters(x) \/ Leaves(x)

(* GoTo carries everything but the place.                                   *)
LEMMA GoToCarries ==
  ASSUME TypeOK, NEW o \in Ops, NEW pc, GoTo(o, pc), NEW x \in Ops
  PROVE  CarriesAll(x) /\ op'[x].pc = IF x = o THEN pc ELSE op[x].pc
BY DEF TypeOK, Operation, GoTo, CarriesAll, Carries

(* Protection notes a stop when it requests one, and changes nothing else.  *)
LEMMA ProtectCarries ==
  ASSUME TypeOK, NEW r, NEW f \in [Ops -> Operation], AutoProtect(r, f), NEW x \in Ops
  PROVE  /\ op'[x].kind = f[x].kind /\ op'[x].pc = f[x].pc /\ op'[x].pile = f[x].pile
         /\ op'[x].late = f[x].late /\ op'[x].aborted = f[x].aborted
         /\ f[x].asked => op'[x].asked
         /\ op'[x].asked => f[x].asked \/ stopRequested'
<1>1. CASE op' = f
  BY <1>1
<1>2. CASE op' = Asked(f) /\ stopRequested' = TRUE
  BY <1>2 DEF Asked, Operation
<1> QED BY <1>1, <1>2 DEF AutoProtect, RequestStop

(* What ends or enters concerns one operation.                              *)
LEMMA OthersRest ==
  ASSUME TypeOK, NEW o \in Ops, NEW e, op' = [op EXCEPT ![o] = e], NEW x \in Ops, x # o
  PROVE  Rests(x)
BY DEF TypeOK, Rests, CarriesAll, Carries

(* The end of an operation.                                                 *)
LEMMA EndFollows ==
  ASSUME TypeOK, NEW o \in Ops, NEW r \in Ends(o), End(o, r), NEW x \in Ops,
         op[o].pc \in {"setup", "io", "dropping", "post"}
  PROVE  Follows(x)
<1>1. CASE op[o].kind \in IntensityKinds
  <2>1. GoTo(o, "tail") /\ EndIntensity(o, r)
    BY <1>1 DEF End, EndIntensity
  <2>2. CarriesAll(x) /\ op'[x].pc = IF x = o THEN "tail" ELSE op[x].pc
    BY <2>1, GoToCarries
  <2>3. x = o => Notes(x)
    BY <1>1, <2>1, <2>2 DEF EndIntensity, Notes
  <2> QED BY <2>2, <2>3 DEF Follows, Rests, Moves, Goes
<1>2. CASE op[o].kind \notin IntensityKinds
  <2>1. op' = [op EXCEPT ![o] = Off]
    BY <1>2 DEF End, EndInline
  <2> QED BY <2>1, OthersRest DEF Follows, Leaves, TypeOK
<1> QED BY <1>1, <1>2

(* Who begins.                                                              *)
LEMMA BeginFollows ==
  ASSUME TypeOK, NEW o \in Ops, Begin(o), NEW x \in Ops
  PROVE  Follows(x)
<1>0. op \in [Ops -> Operation]
  BY DEF TypeOK
<1>a. ASSUME NEW kind \in Kinds, NEW pc, NEW pile, NEW n, op[o].pc = "off",
             op' = [op EXCEPT ![o] = Fresh(kind, pc, pile, n)],
             \/ pc = "announce"
             \/ pc = "begin" /\ current' = [task |-> o, result |-> None]
             \/ pc = "setup" /\ kind \in {"live", "dcr"}
             \/ pc = "io" /\ kind \in {"calib", "flim"}
      PROVE  Follows(x)
  <2>1. op'[o] = Fresh(kind, pc, pile, n)
    BY <1>0, <1>a
  <2>2. Enters(o)
    BY <1>a, <2>1 DEF Enters, Fresh
  <2> QED BY <1>a, <2>2, OthersRest DEF Follows
<1>1. CASE RunIntensity(o)
  <2>1. PICK kind \in IntensityKinds, pile \in PileModes, announces \in BOOLEAN :
          \E n \in Steps(kind) : RunIntensity(o)!(kind, pile, announces)!(n)
    BY <1>1 DEF RunIntensity
  <2>2. PICK n \in Steps(kind) : RunIntensity(o)!(kind, pile, announces)!(n)
    BY <2>1
  <2>3. kind \in Kinds /\ op[o].pc = "off"
    BY <2>2 DEF Admit, At
  <2>4. CASE announces
    BY <2>2, <2>3, <2>4, <1>a
  <2>5. CASE ~announces
    <3>1. /\ op' = [op EXCEPT ![o] = Fresh(kind, "begin", pile, n)]
          /\ current' = [task |-> o, result |-> None]
      BY <2>2, <2>5
    <3> QED BY <2>3, <3>1, <1>a
  <2> QED BY <2>4, <2>5
<1>2. CASE RunGated(o)
  <2>1. PICK kind \in {"gated", "paced"}, pile \in PileModes :
          \E n \in Steps(kind) : RunGated(o)!(kind, pile)!(n)
    BY <1>2 DEF RunGated
  <2>2. PICK n \in Steps(kind) : RunGated(o)!(kind, pile)!(n)
    BY <2>1
  <2>3. kind \in Kinds /\ op[o].pc = "off"
    BY <2>2 DEF Admit, At
  <2> QED BY <2>2, <2>3, <1>a
<1>3. CASE CaptureLiveFrame(o)
  BY <1>3, <1>a DEF CaptureLiveFrame, Admit, At
<1>4. CASE Calibrate(o)
  BY <1>4, <1>a DEF Calibrate, Admit, At
<1>5. CASE AcquireFlim(o)
  BY <1>5, <1>a DEF AcquireFlim, Admit, At
<1>6. CASE DcrCurve(o)
  BY <1>6, <1>a DEF DcrCurve, At
<1> QED BY <1>1, <1>2, <1>3, <1>4, <1>5, <1>6 DEF Begin

(* Every step of the program follows the way of every operation.            *)
LEMMA OperateFollows ==
  ASSUME Inv, [Operate]_vars, NEW x \in Ops
  PROVE  Follows(x)
<1>0. TypeOK /\ op \in [Ops -> Operation]
  BY DEF Inv, TypeOK
<1>a. ASSUME op' = op PROVE Follows(x)
  BY <1>a DEF Follows, Rests, CarriesAll, Carries
<1>b. ASSUME NEW o \in Ops, op' = [op EXCEPT ![o] = Off] PROVE Follows(x)
  BY <1>0, <1>b, OthersRest DEF Follows, Leaves
<1>1. ASSUME NEW o \in Ops, Begin(o) PROVE Follows(x)
  BY <1>0, <1>1, BeginFollows
<1>2. ASSUME NEW o \in Ops,
             \/ CreateTask(o) \/ SetupDone(o) \/ StepDecoded(o) \/ CooledOff(o)
             \/ TimeoutExpires(o) \/ Reset(o)
      PROVE  Follows(x)
  <2>1. \A pc : GoTo(o, pc) => CarriesAll(x) /\ op'[x].pc = IF x = o THEN pc ELSE op[x].pc
    BY <1>0, GoToCarries
  <2>2. CASE CreateTask(o)
    BY <2>1, <2>2 DEF CreateTask, At, Follows, Rests, Moves, Goes
  <2>3. CASE SetupDone(o)
    BY <2>1, <2>3 DEF SetupDone, At, Follows, Rests, Moves, Goes
  <2>4. CASE StepDecoded(o)
    BY <2>1, <2>4 DEF StepDecoded, At, Follows, Rests, Moves, Goes
  <2>5. CASE CooledOff(o) \/ TimeoutExpires(o) \/ Reset(o)
    BY <2>1, <2>5 DEF CooledOff, TimeoutExpires, Reset, At, Follows, Rests, Moves, Goes
  <2> QED BY <1>2, <2>2, <2>3, <2>4, <2>5
<1>3. ASSUME NEW o \in Ops, BeginIntensity(o) PROVE Follows(x)
  <2>1. op[o].pc = "begin"
    BY <1>3 DEF BeginIntensity, At
  <2>2. \/ GoTo(o, "setup")
        \/ op' = [op EXCEPT ![o] = Off]
        \/ GoTo(o, "tail") /\ SetIdle /\ UNCHANGED current
    BY <1>3 DEF BeginIntensity, ReferenceError
  <2>3. CASE GoTo(o, "setup") \/ (GoTo(o, "tail") /\ SetIdle /\ UNCHANGED current)
    BY <1>0, <2>1, <2>3, GoToCarries DEF Follows, Rests, Moves, Goes
  <2> QED BY <2>2, <2>3, <1>b
<1>4. ASSUME NEW o \in Ops, BeginGated(o) PROVE Follows(x)
  <2>1. op[o].pc = "announce" /\ op[o].kind \in {"gated", "paced"}
    BY <1>4 DEF BeginGated, At
  <2>2. GoTo(o, "setup") \/ op' = [op EXCEPT ![o] = Off]
    BY <1>4 DEF BeginGated, EndInline
  <2>3. CASE GoTo(o, "setup")
    BY <1>0, <2>1, <2>3, GoToCarries DEF Follows, Rests, Moves, Goes
  <2> QED BY <2>2, <2>3, <1>b
<1>5. ASSUME NEW o \in Ops, StepDone(o) PROVE Follows(x)
  <2>1. CASE op[o].kind = "calib"
    BY <1>5, <2>1, <1>b DEF StepDone, EndInline
  <2>2. CASE op[o].kind # "calib"
    <3> DEFINE late == IF op[o].asked THEN Later(op[o].late) ELSE op[o].late
               e == [op[o] EXCEPT !.left = op[o].left - 1, !.pc = AfterStep(o), !.late = late]
    <3>1. op' = [op EXCEPT ![o] = e] /\ op[o].pc = "io"
      BY <1>5, <2>2 DEF StepDone, At
    <3>2. AfterStep(o) \in {"pollR", "decode", "post"}
      BY DEF AfterStep
    <3>3. op'[o] = e
      BY <1>0, <3>1
    <3>4. Completes(o)
      BY <1>0, <3>1, <3>2, <3>3 DEF Completes, Carries, Goes, Operation
    <3> HIDE DEF e
    <3> QED BY <1>0, <3>1, <3>4, OthersRest DEF Follows
  <2> QED BY <2>1, <2>2
<1>6. ASSUME NEW o \in Ops,
             ExchangeFailed(o) \/ TimeoutReported(o) \/ Postprocessed(o) \/ CorrectionFailed(o)
      PROVE  Follows(x)
  <2>1. op[o].pc \in {"setup", "io", "dropping", "post"}
    BY <1>6 DEF ExchangeFailed, TimeoutReported, Postprocessed, CorrectionFailed, At
  <2>2. \E r \in Ends(o) : End(o, r)
    BY <1>6 DEF ExchangeFailed, TimeoutReported, Postprocessed, CorrectionFailed, At, End, Ends
  <2> QED BY <1>0, <2>1, <2>2, EndFollows
<1>7. ASSUME NEW o \in Ops, WriteRaised(o) \/ TaskDone(o) PROVE Follows(x)
  BY <1>7, <1>b DEF WriteRaised, TaskDone
<1>8. ASSUME NEW o \in Ops, PollTemperature(o) \/ PollVoltage(o) PROVE Follows(x)
  <2>1. op[o].pc = "pollR" \/ op[o].pc = "pollV"
    BY <1>8 DEF PollTemperature, PollVoltage, At
  <2>2. CASE GoTo(o, "pollV") /\ op[o].pc = "pollR"
    BY <1>0, <2>2, GoToCarries DEF Follows, Rests, Moves, Goes
  <2>3. ASSUME NEW r, AutoProtect(r, [op EXCEPT ![o].pc = "check"])
        PROVE  Follows(x)
    <3> DEFINE f == [op EXCEPT ![o].pc = "check"]
    <3>1. f \in [Ops -> Operation]
      BY <1>0, OperationTypes DEF Pcs
    <3>2. /\ f[x].kind = op[x].kind /\ f[x].pile = op[x].pile /\ f[x].late = op[x].late
          /\ f[x].aborted = op[x].aborted /\ f[x].asked = op[x].asked
          /\ f[x].pc = IF x = o THEN "check" ELSE op[x].pc
      BY <1>0 DEF Operation
    <3> HIDE DEF f
    <3>3. AutoProtect(r, f)
      BY <2>3 DEF f
    <3>4. CarriesAll(x) /\ op'[x].pc = IF x = o THEN "check" ELSE op[x].pc
      BY <1>0, <3>1, <3>2, <3>3, ProtectCarries DEF CarriesAll, Carries
    <3> QED BY <2>1, <3>4 DEF Follows, Rests, Moves, Goes
  <2>4. \/ GoTo(o, "pollV") /\ op[o].pc = "pollR"
        \/ \E r : AutoProtect(r, [op EXCEPT ![o].pc = "check"])
    BY <1>8 DEF PollTemperature, PollVoltage, At
  <2> QED BY <2>2, <2>3, <2>4
<1>9. ASSUME NEW o \in Ops, Boundary(o) PROVE Follows(x)
  <2>1. op[o].pc = "check" /\ UNCHANGED instrument
    BY <1>9 DEF Boundary, At
  <2>2. CASE stopRequested
    <3> DEFINE e == [op[o] EXCEPT !.pc = "post", !.aborted = TRUE]
    <3>1. op' = [op EXCEPT ![o] = e]
      BY <1>9, <2>2 DEF Boundary
    <3>2. op'[o] = e
      BY <1>0, <3>1
    <3>3. Aborts(o)
      BY <1>0, <2>1, <2>2, <3>2 DEF Aborts, Carries, Goes, Operation
    <3> HIDE DEF e
    <3> QED BY <1>0, <3>1, <3>3, OthersRest DEF Follows
  <2>3. CASE ~stopRequested
    <3>1. \/ GoTo(o, "post")
          \/ GoTo(o, "setup") /\ op[o].kind = "batched"
          \/ GoTo(o, "cooloff") /\ op[o].kind = "paced"
      BY <1>9, <2>3 DEF Boundary
    <3> QED BY <1>0, <2>1, <2>3, <3>1, GoToCarries DEF Follows, Rests, Moves, Goes
  <2> QED BY <2>2, <2>3
<1>10. ASSUME NEW p \in Pollers, PollTick(p) \/ PollReply(p) PROVE Follows(x)
  <2>1. op' = op \/ \E r : AutoProtect(r, op)
    BY <1>10 DEF PollTick, PollReply
  <2>2. ASSUME NEW r, AutoProtect(r, op) PROVE Follows(x)
    BY <1>0, <2>2, ProtectCarries DEF Follows, Rests, CarriesAll, Carries
  <2> QED BY <2>1, <2>2, <1>a
<1>11. ASSUME LinkLost \/ Reconnect \/ UNCHANGED vars PROVE Follows(x)
  BY <1>11, <1>a DEF LinkLost, Reconnect, vars
<1> QED
  BY <1>1, <1>2, <1>3, <1>4, <1>5, <1>6, <1>7, <1>8, <1>9, <1>10, <1>11, Zenon
     DEF Operate, Proceed

-----------------------------------------------------------------------------
(* The pile-up mode.                                                        *)

(* Between the setting of the mode and the end of the run.                  *)
Tuned == {"io", "decode", "pollR", "pollV", "check", "cooloff"}

TunedFits ==
  \A o \in Ops : op[o].pc \in Tuned /\ op[o].kind \notin {"calib", "flim"}
                   => pileup = op[o].pile

NoDcr == \A o \in Ops : op[o].pc # "off" => op[o].kind # "dcr"

(* Only the setting of the mode changes it.                                 *)
LEMMA PileStep ==
  ASSUME [Operate]_vars
  PROVE  UNCHANGED pileup \/ \E o \in Ops : SetupDone(o)
<1>1. ASSUME NEW o \in Ops, Begin(o) PROVE UNCHANGED pileup
  <2>1. CASE RunIntensity(o)
    BY <2>1 DEF RunIntensity
  <2>2. CASE RunGated(o)
    BY <2>2 DEF RunGated
  <2> QED
    BY <1>1, <2>1, <2>2 DEF Begin, CaptureLiveFrame, Calibrate, AcquireFlim, DcrCurve
<1>2. ASSUME NEW o \in Ops, Proceed(o), ~SetupDone(o) PROVE UNCHANGED pileup
  BY <1>2, Zenon
     DEF Proceed, CreateTask, BeginIntensity, BeginGated, StepDone, StepDecoded, ExchangeFailed,
         Reset, TimeoutReported, PollTemperature, PollVoltage, Boundary, CooledOff,
         Postprocessed, CorrectionFailed, WriteRaised, TaskDone
<1>3. ASSUME NEW o \in Ops, TimeoutExpires(o) PROVE UNCHANGED pileup
  BY <1>3 DEF TimeoutExpires
<1>4. ASSUME NEW p \in Pollers, PollTick(p) \/ PollReply(p) PROVE UNCHANGED pileup
  BY <1>4 DEF PollTick, PollReply
<1>5. ASSUME LinkLost \/ Reconnect \/ UNCHANGED vars PROVE UNCHANGED pileup
  BY <1>5 DEF LinkLost, Reconnect, vars
<1> QED BY <1>1, <1>2, <1>3, <1>4, <1>5, Zenon DEF Operate

(* The mode is that of the operation that set it: nobody else sets it while *)
(* that one holds the instrument.                                           *)
LEMMA TunedStep ==
  ASSUME "dcr" \notin Kinds, Inv, OneOperation, TunedFits, NoDcr, [Operate]_vars
  PROVE  TunedFits' /\ NoDcr'
<1>0. op \in [Ops -> Operation] /\ \A x \in Ops : Follows(x)
  BY OperateFollows DEF Inv, TypeOK
<1>1. ASSUME NEW x \in Ops, op'[x].pc # "off" PROVE op'[x].kind # "dcr"
  BY <1>0, <1>1 DEF NoDcr, Goes, Follows, Rests, Moves, Aborts, Completes, Enters, Leaves, CarriesAll,
                    Carries, Off, Fresh
<1>2. ASSUME NEW x \in Ops, op'[x].pc \in Tuned, op'[x].kind \notin {"calib", "flim"}
      PROVE  pileup' = op'[x].pile
  <2>1. CASE UNCHANGED pileup
    <3>1. \/ op[x].pc \in Tuned /\ op'[x].kind = op[x].kind /\ op'[x].pile = op[x].pile
          \/ pileup' = op[x].pile /\ op'[x].pile = op[x].pile
      BY <1>0, <1>2 DEF Tuned, Follows, Rests, Moves, Aborts, Completes, Enters, Leaves,
                        CarriesAll, Carries, Goes, Off, Fresh
    <3> QED BY <1>2, <2>1, <3>1 DEF TunedFits
  <2>2. ASSUME NEW o \in Ops, SetupDone(o) PROVE pileup' = op'[x].pile
    <3>1. /\ op[o].pc = "setup" /\ pileup' = op[o].pile
          /\ op'[x].kind = op[x].kind /\ op'[x].pile = op[x].pile
          /\ x # o => op'[x].pc = op[x].pc
      BY <1>0, <2>2 DEF SetupDone, At, GoTo, Operation
    <3>2. CASE x # o
      <4>1. op[x].pc \in Tuned /\ op[x].pc # "off" /\ op[o].pc # "off"
        BY <1>2, <3>1, <3>2 DEF Tuned
      <4>2. op[x].kind \in GuardedKinds /\ op[o].kind \in GuardedKinds
        BY <4>1 DEF Inv, KindFits, NoDcr, AllKinds
      <4>3. Holds(x) /\ Holds(o)
        BY <3>1, <4>1, <4>2 DEF Holds, Holding, Tuned
      <4> QED BY <3>2, <4>3 DEF OneOperation, SingleHolder
    <3> QED BY <3>1, <3>2
  <2> QED BY <2>1, <2>2, PileStep
<1> QED BY <1>1, <1>2 DEF TunedFits, NoDcr

(* The frame size the bridge expects depends on the pile-up mode: while an  *)
(* acquisition command is answered, the camera is in the mode of the        *)
(* operation that sent it, unless /stop is used or a dark count curve is    *)
(* taken, which looks at no busy flag (dcr_curve, calibration.py:376).      *)
THEOREM ModeMatches == "dcr" \notin Kinds /\ UnattendedSpec => []PileupMatches
<1> SUFFICES ASSUME "dcr" \notin Kinds PROVE UnattendedSpec => []PileupMatches
  OBVIOUS
<1>1. Init => TunedFits /\ NoDcr
  BY ConstantsAssumption DEF Init, TunedFits, NoDcr, Tuned, Off, Fresh
<1>2. Inv /\ OneOperation /\ TunedFits /\ NoDcr /\ [Operate]_vars => TunedFits' /\ NoDcr'
  BY TunedStep
<1>3. TunedFits => PileupMatches
  BY DEF TunedFits, PileupMatches, Tuned, At
<1> QED BY <1>1, <1>2, <1>3, UnattendedInv, MutualExclusion, PTL DEF UnattendedSpec

-----------------------------------------------------------------------------
(* What a stop reaches.                                                     *)

(* A stop noted on the operation that holds the instrument is still         *)
(* requested: only the end of that operation clears the request.            *)
Marked == \A o \in Ops : Holds(o) /\ (op[o].asked \/ op[o].aborted) => stopRequested

LateFits ==
  \A o \in Ops :
    /\ op[o].late <= 1
    /\ op[o].late = 1
         => op[o].asked /\ op[o].pc \in {"decode", "pollR", "pollV", "check", "post", "tail"}

(* Who comes to hold the instrument has just begun.                         *)
LEMMA HoldersEnter ==
  ASSUME Inv, NEW x \in Ops, Follows(x), Holds(x)', ~Holds(x)
  PROVE  Enters(x)
BY ConstantsAssumption
   DEF Inv, KindFits, Holds, Holding, Follows, Rests, Moves, Aborts, Completes, Leaves,
       CarriesAll, Carries, Goes, Off, Fresh

(* A stop is noted on the holder with the request, and cleared when the     *)
(* holder is done.                                                          *)
LEMMA MarkedStep ==
  ASSUME Inv, OneOperation, Marked, [Operate]_vars
  PROVE  Marked'
<1> SUFFICES ASSUME NEW x \in Ops, Holds(x)', op'[x].asked \/ op'[x].aborted
             PROVE  stopRequested'
  BY DEF Marked, Holds
<1>0. Follows(x)
  BY OperateFollows
<1>1. Holds(x)
  BY <1>0, HoldersEnter DEF Enters
<1>2. \/ stopRequested' \/ op[x].asked \/ op[x].aborted
      \/ stopRequested /\ UNCHANGED instrument
  BY <1>0, <1>1 DEF Follows, Rests, Moves, Aborts, Completes, Enters, Leaves, CarriesAll, Carries,
                    Off, Fresh, Holds, Holding
<1>3. stopRequested' \/ stopRequested
  BY <1>1, <1>2 DEF Marked
<1>4. CASE Keeps
  BY <1>3, <1>4 DEF Keeps, RequestStop, instrument
<1>5. ASSUME NEW o \in Ops, Admits(o) PROVE FALSE
  BY <1>1, <1>5 DEF Admits, OneOperation, HolderIsBusy
<1>6. ASSUME NEW o \in Ops, Returns(o) \/ Dies(o) PROVE FALSE
  BY <1>1, <1>6 DEF Returns, Dies, OneOperation, SingleHolder, Holds
<1> QED BY <1>4, <1>5, <1>6, LeaseEffect

(* The step in flight is the last: the boundary after it sees the request.  *)
LEMMA LateStep ==
  ASSUME Inv, Marked, LateFits, [Operate]_vars
  PROVE  LateFits'
<1> DEFINE After == {"decode", "pollR", "pollV", "check", "post", "tail"}
<1> SUFFICES ASSUME NEW x \in Ops
             PROVE  op'[x].late <= 1 /\ (op'[x].late = 1 => op'[x].asked /\ op'[x].pc \in After)
  BY DEF LateFits
<1>0. /\ Follows(x) /\ op[x].late \in 0..2 /\ op[x].late <= 1
      /\ op[x].late = 1 => op[x].asked /\ op[x].pc \in After
  BY OperateFollows DEF Inv, TypeOK, Operation, LateFits
<1>1. CASE Rests(x) \/ Aborts(x)
  BY <1>0, <1>1 DEF Rests, Aborts, CarriesAll, Carries, Goes
<1>2. CASE Moves(x)
  <2>1. op'[x].late = op[x].late /\ (op[x].asked => op'[x].asked)
    BY <1>2 DEF Moves, CarriesAll, Carries
  <2>2. ASSUME op[x].late = 1 PROVE op'[x].pc \in After
    <3>1. CASE op[x].pc = "check" /\ ~stopRequested /\ op[x].kind \in {"batched", "paced"}
      <4>1. Holds(x) /\ op[x].asked
        BY <1>0, <2>2, <3>1 DEF Holds, Holding, GuardedKinds
      <4> QED BY <3>1, <4>1 DEF Marked
    <3>2. CASE ~(op[x].pc = "check" /\ ~stopRequested /\ op[x].kind \in {"batched", "paced"})
      BY <1>0, <1>2, <2>2, <3>2 DEF Moves, Goes
    <3> QED BY <3>1, <3>2
  <2> QED BY <1>0, <2>1, <2>2
<1>3. CASE Completes(x)
  <2>1. op[x].late = 0
    BY <1>0, <1>3 DEF Completes, Goes
  <2> QED BY <1>3, <2>1 DEF Completes, Carries, Goes, Later
<1>4. CASE Enters(x)
  BY <1>4 DEF Enters
<1>5. CASE Leaves(x)
  BY <1>5 DEF Leaves, Off, Fresh
<1> QED BY <1>0, <1>1, <1>2, <1>3, <1>4, <1>5 DEF Follows

(* The safe boundary (docs/constraints.md:35): unless /stop is used, at     *)
(* most one more step completes once auto-protect has asked a run to stop.  *)
THEOREM AtMostOneStep == UnattendedSpec => []StopTakesEffect
<1>1. Init => Marked /\ LateFits
  BY DEF Init, Marked, LateFits, Holds, Holding, Off, Fresh
<1>2. Inv /\ OneOperation /\ Marked /\ LateFits /\ [Operate]_vars => Marked' /\ LateFits'
  BY MarkedStep, LateStep
<1>3. LateFits => StopTakesEffect
  BY DEF LateFits, StopTakesEffect
<1> QED BY <1>1, <1>2, <1>3, UnattendedInv, MutualExclusion, PTL DEF UnattendedSpec

-----------------------------------------------------------------------------
(* The runner's current record.                                             *)

(* A finished task is not the current one.                                  *)
Forgets(o) ==
  /\ op'[o] = Off
  /\ current' = IF current.task = o THEN [current EXCEPT !.task = None] ELSE current

(* Every step leaves the record, or does one of these.                      *)
LEMMA CurrentStep ==
  ASSUME Inv, [Operate]_vars
  PROVE  UNCHANGED current \/ \E o \in Ops : Tracks(o) \/ Notes(o) \/ Forgets(o)
<1>0. TypeOK /\ op \in [Ops -> Operation]
  BY DEF Inv, TypeOK
<1>e. ASSUME NEW o \in Ops, NEW r \in Ends(o), End(o, r),
             op[o].pc \in {"setup", "io", "dropping", "post"}
      PROVE  UNCHANGED current \/ Notes(o)
  <2>1. CASE op[o].kind \in IntensityKinds
    <3>1. EndIntensity(o, r) /\ op'[o].pc = "tail"
      BY <1>0, <1>e, <2>1, GoToMoves DEF End, EndIntensity
    <3> QED BY <1>e, <2>1, <3>1 DEF EndIntensity, Notes
  <2>2. CASE op[o].kind \notin IntensityKinds
    BY <1>e, <2>2 DEF End, EndInline
  <2> QED BY <2>1, <2>2
<1>g. ASSUME NEW o \in Ops, op' = [op EXCEPT ![o] = Off], EndTask(o) PROVE Forgets(o)
  BY <1>0, <1>g DEF EndTask, Forgets
<1>1. ASSUME NEW o \in Ops, RunIntensity(o) PROVE UNCHANGED current \/ Tracks(o)
  <2>1. PICK kind \in IntensityKinds, pile \in PileModes, announces \in BOOLEAN :
          \E n \in Steps(kind) : RunIntensity(o)!(kind, pile, announces)!(n)
    BY <1>1 DEF RunIntensity
  <2>2. PICK n \in Steps(kind) : RunIntensity(o)!(kind, pile, announces)!(n)
    BY <2>1
  <2>3. CASE ~announces
    <3>1. op'[o] = Fresh(kind, "begin", pile, n)
      BY <1>0, <2>2, <2>3
    <3> QED BY <2>2, <2>3, <3>1 DEF Tracks, Fresh
  <2> QED BY <2>2, <2>3
<1>2. ASSUME NEW o \in Ops, CreateTask(o) PROVE Tracks(o)
  BY <1>0, <1>2 DEF CreateTask, Tracks, At, GoTo, Operation
<1>3. ASSUME NEW o \in Ops, BeginIntensity(o) PROVE UNCHANGED current \/ Forgets(o)
  BY <1>3, <1>g DEF BeginIntensity, ReferenceError
<1>4. ASSUME NEW o \in Ops,
             ExchangeFailed(o) \/ TimeoutReported(o) \/ Postprocessed(o) \/ CorrectionFailed(o)
      PROVE  UNCHANGED current \/ Notes(o)
  <2>1. op[o].pc \in {"setup", "io", "dropping", "post"}
    BY <1>4 DEF ExchangeFailed, TimeoutReported, Postprocessed, CorrectionFailed, At
  <2>2. \E r \in Ends(o) : End(o, r)
    BY <1>4 DEF ExchangeFailed, TimeoutReported, Postprocessed, CorrectionFailed, At, End, Ends
  <2> QED BY <1>e, <2>1, <2>2
<1>5. ASSUME NEW o \in Ops, WriteRaised(o) \/ TaskDone(o) PROVE Forgets(o)
  BY <1>5, <1>g DEF WriteRaised, TaskDone
<1>6. ASSUME NEW o \in Ops, RunGated(o) PROVE UNCHANGED current
  BY <1>6 DEF RunGated
<1>7. ASSUME NEW o \in Ops,
             \/ CaptureLiveFrame(o) \/ Calibrate(o) \/ AcquireFlim(o) \/ DcrCurve(o)
             \/ BeginGated(o) \/ SetupDone(o) \/ StepDone(o) \/ StepDecoded(o) \/ Reset(o)
      PROVE  UNCHANGED current
  BY <1>7, Zenon
     DEF CaptureLiveFrame, Calibrate, AcquireFlim, DcrCurve, BeginGated, SetupDone, StepDone,
         StepDecoded, Reset, EndInline
<1>8. ASSUME NEW o \in Ops,
             \/ PollTemperature(o) \/ PollVoltage(o) \/ Boundary(o) \/ CooledOff(o)
             \/ TimeoutExpires(o)
      PROVE  UNCHANGED current
  BY <1>8, Zenon DEF PollTemperature, PollVoltage, Boundary, CooledOff, TimeoutExpires
<1>9. ASSUME NEW p \in Pollers, PollTick(p) \/ PollReply(p) PROVE UNCHANGED current
  BY <1>9 DEF PollTick, PollReply
<1>10. ASSUME LinkLost \/ Reconnect \/ UNCHANGED vars PROVE UNCHANGED current
  BY <1>10 DEF LinkLost, Reconnect, vars
<1> QED
  BY <1>1, <1>2, <1>3, <1>4, <1>5, <1>6, <1>7, <1>8, <1>9, <1>10, Zenon
     DEF Operate, Begin, Proceed

-----------------------------------------------------------------------------
(* What GET /status shows.                                                  *)

ReasonFits == stopRequested \/ status = "stopping" => abortReason = "over_temperature"

(* A run is cut short at a boundary, to write what it has; it begins with   *)
(* a record that has no result.                                             *)
RecordFits ==
  \A o \in Ops :
    /\ op[o].aborted => op[o].pc \in {"post", "tail"}
    /\ op[o].pc = "begin" => current.result = None

(* Nobody requests a stop but auto-protect, which names its reason.         *)
LEMMA ReasonStep == Inv /\ ReasonFits /\ [Operate]_vars => ReasonFits'
<1> SUFFICES ASSUME Inv, ReasonFits, [Operate]_vars PROVE ReasonFits'
  OBVIOUS
<1>1. CASE Keeps
  BY <1>1, ConstantsAssumption DEF Keeps, RequestStop, ReasonFits, instrument
<1>2. ASSUME NEW o \in Ops, Admits(o) \/ Returns(o) \/ Dies(o) PROVE ReasonFits'
  BY <1>2 DEF Admits, Returns, Dies, SetIdle, ReasonFits, IsBusy, instrument
<1> QED BY <1>1, <1>2, LeaseEffect

(* No other run notes its result between the creation of a task and its     *)
(* first step.                                                              *)
LEMMA RecordStep ==
  ASSUME Inv, OneOperation, RecordFits, [Operate]_vars
  PROVE  RecordFits'
<1> SUFFICES ASSUME NEW x \in Ops
             PROVE  /\ op'[x].aborted => op'[x].pc \in {"post", "tail"}
                    /\ op'[x].pc = "begin" => current'.result = None
  BY DEF RecordFits
<1>0. Follows(x) /\ current \in Current /\ op[x] \in Operation
  BY OperateFollows DEF Inv, TypeOK
<1>1. op'[x].aborted => op'[x].pc \in {"post", "tail"}
  <2>1. op[x].aborted => op[x].pc \in {"post", "tail"}
    BY DEF RecordFits
  <2>2. CASE Rests(x)
    BY <2>1, <2>2 DEF Rests, CarriesAll
  <2>3. CASE Aborts(x)
    BY <2>3 DEF Aborts, Goes
  <2>4. CASE Enters(x) \/ Leaves(x)
    BY <2>4 DEF Enters, Leaves, Off, Fresh
  <2>5. CASE Moves(x)
    BY <2>1, <2>5 DEF Moves, CarriesAll, Goes
  <2>6. CASE Completes(x)
    BY <2>1, <2>6 DEF Completes, Goes
  <2> QED BY <1>0, <2>2, <2>3, <2>4, <2>5, <2>6 DEF Follows
<1>2. ASSUME op'[x].pc = "begin" PROVE current'.result = None
  <2>1. \/ current' = [task |-> x, result |-> None]
        \/ op[x].pc = "begin" /\ op'[x].kind = op[x].kind
    BY <1>0, <1>2 DEF Follows, Rests, Moves, Aborts, Completes, Enters, Leaves, CarriesAll,
                      Carries, Goes, Off, Fresh
  <2>2. ASSUME op[x].pc = "begin" PROVE current'.result = None
    <3>1. Holds(x) /\ current.result = None
      BY <2>2 DEF Inv, KindFits, RecordFits, Holds, Holding, IntensityKinds, GuardedKinds
    <3>2. ASSUME NEW o \in Ops, Notes(o) PROVE FALSE
      <4>1. Holds(o) /\ o # x
        BY <2>2, <3>2 DEF Notes, Holds, Holding, IntensityKinds, GuardedKinds
      <4> QED BY <3>1, <4>1 DEF OneOperation, SingleHolder
    <3>3. ASSUME NEW o \in Ops, Tracks(o) \/ Forgets(o) PROVE current'.result = None
      BY <1>0, <3>1, <3>3 DEF Tracks, Forgets, Current
    <3> QED BY <3>1, <3>2, <3>3, CurrentStep
  <2> QED BY <2>1, <2>2
<1> QED BY <1>1, <1>2

(* The end of an intensity run, as it is shown.                             *)
LEMMA EndStep ==
  ASSUME Inv, Marked, ReasonFits, RecordFits, [Operate]_vars, NEW o \in Ops,
         op[o].kind \in IntensityKinds, Holds(o), op'[o].pc = "tail"
  PROVE  acquire_status' \in
           IF op[o].aborted
             THEN {[state |-> "aborted", reason |-> "over_temperature"],
                   [state |-> "error", reason |-> None]}
             ELSE [state : {"idle", "completed", "error", "timeout"}, reason : {None}]
<1>0. current \in Current /\ Follows(o)
  BY OperateFollows DEF Inv, TypeOK
<1>1. SetIdle /\ (Notes(o) \/ (op[o].pc = "begin" /\ UNCHANGED current))
  BY <1>0 DEF Follows, Rests, Moves, Aborts, Completes, Enters, Leaves, Goes, Notes, Off, Fresh,
              Holds, Holding
<1> DEFINE last == current'.result
<1>2. acquire_status' =
        [state |-> IF last = None THEN "idle"
                   ELSE IF last.status = "done" THEN "completed" ELSE last.status,
         reason |-> IF last = None THEN None ELSE last.reason]
  BY <1>1 DEF acquire_status, SetIdle
<1>3. CASE op[o].pc = "begin" /\ UNCHANGED current
  <2>1. last = None /\ ~op[o].aborted
    BY <1>3 DEF RecordFits
  <2> QED BY <1>2, <2>1
<1>4. CASE Notes(o)
  <2>1. PICK r \in Ends(o) :
          current' = [current EXCEPT !.result =
                        [status |-> r, reason |-> IF r = "aborted" THEN abortReason ELSE None]]
    BY <1>4 DEF Notes
  <2>2. last = [status |-> r, reason |-> IF r = "aborted" THEN abortReason ELSE None]
    BY <1>0, <2>1 DEF Current
  <2>3. last.status = r /\ (r # "aborted" => last # None)
    <3>1. r \in Results
      BY <2>1 DEF Ends, Results
    <3> QED BY <2>2, <3>1, ConstantsAssumption
  <2>4. CASE op[o].aborted
    <3>1. abortReason = "over_temperature" /\ r \in {"aborted", "error"}
      BY <1>4, <2>1, <2>4 DEF Marked, ReasonFits, RecordFits, Notes, Ends
    <3>2. last # None
      BY <2>2, <3>1, ConstantsAssumption DEF Results
    <3> QED BY <1>2, <2>2, <2>3, <2>4, <3>1, <3>2
  <2>5. CASE ~op[o].aborted
    <3>1. r \in {"done", "error", "timeout"}
      BY <2>1, <2>5 DEF Ends
    <3> QED BY <1>2, <2>2, <2>3, <2>5, <3>1
  <2> QED BY <2>4, <2>5
<1> QED BY <1>1, <1>3, <1>4

(* Unless /stop is used, GET /status shows every run that auto-protect      *)
(* asked to stop as stopping, with the reason, while it has the instrument, *)
(* and at the end of an intensity run how that one ended (acquire.py:167).  *)
THEOREM StopShown == UnattendedSpec => StopIsShown
<1>1. Init => Marked /\ ReasonFits /\ RecordFits
  BY DEF Init, Marked, ReasonFits, RecordFits, Holds, Holding, Off, Fresh
<1>2. Inv /\ OneOperation /\ Marked /\ ReasonFits /\ RecordFits /\ [Operate]_vars
        => Marked' /\ ReasonFits' /\ RecordFits'
  BY MarkedStep, ReasonStep, RecordStep
<1>3. Marked /\ ReasonFits => AskedIsShown
  BY ConstantsAssumption DEF Marked, ReasonFits, AskedIsShown, acquire_status
<1> DEFINE Shown ==
      \A o \in Ops :
        op[o].kind \in IntensityKinds /\ Holds(o) /\ op'[o].pc = "tail" =>
          acquire_status' \in
            IF op[o].aborted
              THEN {[state |-> "aborted", reason |-> "over_temperature"],
                    [state |-> "error", reason |-> None]}
              ELSE [state : {"idle", "completed", "error", "timeout"}, reason : {None}]
<1>4. Inv /\ Marked /\ ReasonFits /\ RecordFits /\ [Operate]_vars => [Shown]_vars
  BY EndStep
<1>5. UnattendedSpec => []AskedIsShown /\ [][Shown]_vars
  BY <1>1, <1>2, <1>3, <1>4, UnattendedInv, MutualExclusion, PTL DEF UnattendedSpec
<1> QED BY <1>5 DEF StopIsShown, EndIsShown

-----------------------------------------------------------------------------
(* Whose result is noted.                                                   *)

(* While its task runs, an intensity run is the runner's current one.       *)
TaskFits ==
  \A o \in Ops :
    op[o].kind \in IntensityKinds /\ op[o].pc \notin {"off", "announce", "tail"}
      => current.task = o

(* The record changes hands only between tasks.                             *)
LEMMA TaskStep ==
  ASSUME Inv, OneOperation, TaskFits, [Operate]_vars
  PROVE  TaskFits'
<1> SUFFICES ASSUME NEW x \in Ops, op'[x].kind \in IntensityKinds,
                    op'[x].pc \notin {"off", "announce", "tail"}
             PROVE  current'.task = x
  BY DEF TaskFits
<1>0. Follows(x) /\ current \in Current /\ OneOperation'
  BY OperateFollows, LeaseStep DEF Inv, TypeOK
<1>1. current'.task = x \/ current.task = x
  <2>1. CASE op[x].kind \in IntensityKinds /\ op[x].pc \notin {"off", "announce", "tail"}
    BY <2>1 DEF TaskFits
  <2>2. CASE ~(op[x].kind \in IntensityKinds /\ op[x].pc \notin {"off", "announce", "tail"})
    BY <1>0, <2>2 DEF Follows, Rests, Moves, Aborts, Completes, Enters, Leaves, CarriesAll,
                      Carries, Goes, Off, Fresh, IntensityKinds
  <2> QED BY <2>1, <2>2
<1>2. CASE UNCHANGED current
  BY <1>1, <1>2
<1>3. ASSUME NEW o \in Ops, Tracks(o) PROVE current'.task = x
  <2>1. Holds(x)' /\ Holds(o)'
    BY <1>3 DEF Tracks, Holds, Holding, IntensityKinds, GuardedKinds
  <2> QED BY <1>0, <1>3, <2>1 DEF Tracks, OneOperation, SingleHolder
<1>4. ASSUME NEW o \in Ops, Notes(o) PROVE current'.task = x
  <2>1. current'.task = current.task
    BY <1>0, <1>4 DEF Notes, Current
  <2> QED BY <1>1, <2>1
<1>5. ASSUME NEW o \in Ops, Forgets(o) PROVE current'.task = x
  BY <1>0, <1>1, <1>5 DEF Forgets, Current, Off, Fresh
<1> QED BY <1>2, <1>3, <1>4, <1>5, CurrentStep

(* Unless /stop is used, a result is noted on the record of the task that   *)
(* produced it, although the record is shared: no other run has become the  *)
(* current one meanwhile (_intensity_op, acquisition.py:304).               *)
THEOREM NotesItsOwn == UnattendedSpec => ResultIsOwn
<1>1. Init => TaskFits
  BY DEF Init, TaskFits, Off, Fresh
<1>2. Inv /\ OneOperation /\ TaskFits /\ [Operate]_vars => TaskFits'
  BY TaskStep
<1> DEFINE Own ==
      \A o \in Ops :
        /\ op[o].kind \in IntensityKinds /\ op[o].pc # "tail" /\ op'[o].pc = "tail"
        /\ current'.result # current.result
        => current.task = o
<1>3. Inv /\ TaskFits /\ [Operate]_vars => [Own]_vars
  <2> SUFFICES ASSUME Inv, TaskFits, [Operate]_vars, NEW o \in Ops,
                      op[o].kind \in IntensityKinds, op[o].pc # "tail", op'[o].pc = "tail"
               PROVE  current.task = o
    OBVIOUS
  <2>1. op[o].pc \notin {"off", "announce"}
    BY OperateFollows DEF Follows, Rests, Moves, Aborts, Completes, Enters, Leaves, Goes, Off, Fresh
  <2> QED BY <2>1 DEF TaskFits
<1>4. UnattendedSpec => [][Own]_vars
  BY <1>1, <1>2, <1>3, UnattendedInv, MutualExclusion, PTL DEF UnattendedSpec
<1> QED BY <1>4 DEF ResultIsOwn
=============================================================================
