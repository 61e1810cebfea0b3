---------------------------- MODULE HealthProofs ----------------------------
(***************************************************************************)
(* Proofs about the health monitor, for every number of readers, levels    *)
(* and upsets: types, with no bias above the ceiling, that an intervention *)
(* of auto-protect stays shown, and that alarms are announced once.        *)
(***************************************************************************)
EXTENDS HealthMonitor, FiniteSetTheorems, TLAPS

Readings == [valid: BOOLEAN, hot: BOOLEAN, vex: Levels, reduced: BOOLEAN]
Waiters == Pollers \cup {"setter"}
Unheard == [AlarmTypes -> Int]

(* A bias set by hand waits for the socket once, and only while it is asked *)
(* for: what goes to the device is a value somebody gave.                   *)
SetterFits(w, s) ==
  \A i, j \in DOMAIN w : w[i] = "setter" => /\ s # NoBias
                                            /\ w[j] = "setter" => j = i

Inv == TypeOK /\ InterventionIsShown /\ SetterFits(wire, setter)

LEMMA PollerIsNotSetter == "setter" \notin Pollers
BY HealthAssumption DEF Pollers

LEMMA AppendFits ==
  ASSUME NEW w \in Seq(Waiters), NEW s, SetterFits(w, s), NEW p \in Pollers
  PROVE  SetterFits(Append(w, p), s) /\ Append(w, p) \in Seq(Waiters)
<1>1. Append(w, p) \in Seq(Waiters)
  BY DEF Waiters
<1>2. \A i \in DOMAIN Append(w, p) : Append(w, p)[i] = "setter" => i \in DOMAIN w /\ w[i] = "setter"
  BY PollerIsNotSetter
<1> QED BY <1>1, <1>2 DEF SetterFits

LEMMA TailFits ==
  ASSUME NEW w \in Seq(Waiters), NEW s, SetterFits(w, s), w # <<>>
  PROVE  /\ SetterFits(Tail(w), s) /\ Tail(w) \in Seq(Waiters)
         /\ Head(w) = "setter" => s # NoBias /\ SetterFits(Tail(w), NoBias)
<1>1. Tail(w) \in Seq(Waiters)
  OBVIOUS
<1>2. \A i \in DOMAIN Tail(w) : i + 1 \in DOMAIN w /\ Tail(w)[i] = w[i + 1] /\ i \in Nat \ {0}
  OBVIOUS
<1>3. SetterFits(Tail(w), s)
  BY <1>2 DEF SetterFits
<1>4. Head(w) = w[1] /\ 1 \in DOMAIN w
  OBVIOUS
<1>5. Head(w) = "setter" => s # NoBias /\ \A i \in DOMAIN Tail(w) : Tail(w)[i] # "setter"
  BY <1>2, <1>4 DEF SetterFits
<1> QED BY <1>1, <1>3, <1>5 DEF SetterFits

LEMMA SetterJoins ==
  ASSUME NEW w \in Seq(Waiters), SetterFits(w, NoBias), NEW v \in Levels
  PROVE  SetterFits(Append(w, "setter"), v) /\ Append(w, "setter") \in Seq(Waiters)
<1>1. \A i \in DOMAIN w : w[i] # "setter"
  BY DEF SetterFits
<1>2. Append(w, "setter") \in Seq(Waiters)
  BY DEF Waiters
<1>3. \A i \in DOMAIN Append(w, "setter") : Append(w, "setter")[i] = "setter" => i = Len(w) + 1
  BY <1>1
<1>4. v # NoBias
  BY HealthAssumption DEF Levels, NoBias
<1> QED BY <1>2, <1>3, <1>4 DEF SetterFits

LEMMA OffIsPoll == Off \in Poll
BY HealthAssumption DEF Off, Poll, Levels

LEMMA PollMoves ==
  ASSUME NEW h \in BOOLEAN, NEW tell \in SUBSET AlarmTypes
  PROVE  /\ [Off EXCEPT !.pc = "readout"] \in Poll
         /\ [Off EXCEPT !.pc = "voltages", !.hot = h] \in Poll
         /\ [Off EXCEPT !.pc = "tell", !.tell = tell] \in Poll
<1>1. 0 \in Levels /\ {} \in SUBSET AlarmTypes
  BY HealthAssumption DEF Levels
<1>2. [Off EXCEPT !.pc = "readout"] \in Poll
  BY <1>1 DEF Off, Poll
<1>3. [Off EXCEPT !.pc = "voltages", !.hot = h] \in Poll
  BY <1>1 DEF Off, Poll
<1>4. [Off EXCEPT !.pc = "tell", !.tell = tell] \in Poll
  BY <1>1 DEF Off, Poll
<1> QED BY <1>2, <1>3, <1>4

LEMMA EvaluateTypes ==
  ASSUME TypeOK, NEW p \in Pollers, NEW r \in Readings, Evaluate(p, r)
  PROVE  /\ readings' \in Readings /\ alarms' \subseteq AlarmTypes
         /\ poll' \in [Pollers -> Poll] /\ unheard' \in Unheard
         /\ readings' = r
<1>1. readings' = r /\ AlarmsOf(r) \subseteq AlarmTypes /\ alarms' = AlarmsOf(r)
  BY DEF Evaluate, AlarmsOf
<1>2. poll' \in [Pollers -> Poll]
  <2>1. News(r) \subseteq AlarmTypes
    BY <1>1 DEF News
  <2>2. [Off EXCEPT !.pc = "tell", !.tell = News(r)] \in Poll
    BY <2>1, PollMoves
  <2> QED BY <2>2, OffIsPoll DEF Evaluate, TypeOK
<1>3. unheard' \in Unheard
  <2>1. unheard \in [AlarmTypes -> Int]
    BY DEF TypeOK
  <2> QED BY <2>1 DEF Evaluate, Unheard
<1> QED BY <1>1, <1>2, <1>3

LEMMA ProtectTypes ==
  ASSUME TypeOK, NEW p \in Pollers, NEW r \in Readings, NEW queue \in Seq(Waiters),
         SetterFits(queue, setter), Protect(p, r, queue)
  PROVE  /\ readings' \in Readings /\ alarms' \subseteq AlarmTypes
         /\ poll' \in [Pollers -> Poll] /\ unheard' \in Unheard
         /\ stop' \in BOOLEAN /\ wire' \in Seq(Waiters) /\ SetterFits(wire', setter)
         /\ r.reduced => readings'.reduced
<1>1. stop' \in BOOLEAN
  BY DEF Protect, TypeOK
<1>2. CASE Over(r) /\ ~busy /\ link
  <2>1. /\ readings' = r /\ UNCHANGED <<alarms, unheard>> /\ wire' = Append(queue, p)
        /\ poll' = [poll EXCEPT ![p] = [Off EXCEPT !.pc = "bias", !.bias = vexMax]]
    BY <1>2 DEF Protect
  <2>2. [Off EXCEPT !.pc = "bias", !.bias = vexMax] \in Poll
    BY DEF Off, Poll, TypeOK
  <2>3. poll' \in [Pollers -> Poll]
    BY <2>1, <2>2 DEF TypeOK
  <2>4. wire' \in Seq(Waiters) /\ SetterFits(wire', setter)
    BY <2>1, AppendFits
  <2> QED BY <1>1, <2>1, <2>3, <2>4 DEF TypeOK, Unheard
<1>3. CASE ~(Over(r) /\ ~busy /\ link)
  <2> DEFINE s == [r EXCEPT !.reduced = @ \/ Over(r)]
  <2>1. Evaluate(p, s) /\ wire' = queue
    BY <1>3 DEF Protect
  <2>2. s.reduced = (r.reduced \/ Over(r))
    BY DEF Readings
  <2>3. s \in Readings
    BY DEF Readings, Over
  <2> HIDE DEF s
  <2> QED BY <1>1, <2>1, <2>2, <2>3, EvaluateTypes
<1> QED BY <1>2, <1>3

LEMMA UnansweredTypes ==
  ASSUME TypeOK, NEW v \in Levels, Unanswered(v)
  PROVE  vex' \in Levels /\ link' \in BOOLEAN /\ upsets' \in 0..MaxUpsets
<1>1. vex \in Levels /\ link \in BOOLEAN /\ upsets \in 0..MaxUpsets
  BY DEF TypeOK
<1>2. vex' \in {vex, v}
  BY DEF Unanswered
<1>3. link' = link \/ link' = FALSE
  BY DEF Unanswered
<1>4. upsets' = upsets \/ Upset
  BY DEF Unanswered
<1>5. upsets' \in 0..MaxUpsets
  BY <1>1, <1>4, HealthAssumption DEF Upset
<1> QED BY <1>1, <1>2, <1>3, <1>5

(* A poll's exchange that leads to auto-protect and the alarms.             *)
LEMMA ProtectKeeps ==
  ASSUME Inv, NEW p \in Pollers, NEW r \in Readings, readings.reduced => r.reduced,
         NEW queue \in Seq(Waiters), SetterFits(queue, setter), Protect(p, r, queue),
         vex' \in Levels, link' \in BOOLEAN, upsets' \in 0..MaxUpsets,
         UNCHANGED <<hot, busy, vexMax, setter, lowered>>
  PROVE  Inv'
<1>1. /\ readings' \in Readings /\ alarms' \subseteq AlarmTypes
      /\ poll' \in [Pollers -> Poll] /\ unheard' \in Unheard
      /\ stop' \in BOOLEAN /\ wire' \in Seq(Waiters) /\ SetterFits(wire', setter)
      /\ r.reduced => readings'.reduced
  BY ProtectTypes DEF Inv
<1>2. TypeOK'
  BY <1>1 DEF Inv, TypeOK, Readings, Waiters, Unheard
<1>3. InterventionIsShown'
  BY <1>1 DEF Inv, InterventionIsShown
<1> QED BY <1>1, <1>2, <1>3 DEF Inv

LEMMA NextInv == Inv /\ [Next]_vars => Inv'
<1> SUFFICES ASSUME Inv, [Next]_vars PROVE Inv'
  OBVIOUS
<1>t. /\ TypeOK /\ readings \in Readings /\ wire \in Seq(Waiters) /\ unheard \in Unheard
      /\ poll \in [Pollers -> Poll] /\ vex \in Levels /\ link \in BOOLEAN
      /\ upsets \in 0..MaxUpsets /\ MaxUpsets \in Nat /\ SetterFits(wire, setter)
  BY HealthAssumption DEF Inv, TypeOK, Readings, Waiters, Unheard
<1>w. wire # <<>> => Tail(wire) \in Seq(Waiters) /\ SetterFits(Tail(wire), setter)
  BY <1>t, TailFits
<1>1. ASSUME NEW p \in Pollers, PollStarts(p) PROVE Inv'
  <2>1. UNCHANGED <<deviceVars, busy, vexMax, setter, upsets, lowered>>
    BY <1>1 DEF PollStarts
  <2>2. CASE /\ poll' = [poll EXCEPT ![p] = [Off EXCEPT !.pc = "readout"]]
             /\ wire' = Append(wire, p)
             /\ UNCHANGED <<readings, alarms, stop, unheard>>
    <3>1. [Off EXCEPT !.pc = "readout"] \in Poll
      BY PollMoves
    <3>2. poll' \in [Pollers -> Poll] /\ wire' \in Seq(Waiters) /\ SetterFits(wire', setter)
      BY <1>t, <2>2, <3>1, AppendFits
    <3> QED BY <1>t, <2>1, <2>2, <3>2
            DEF Inv, TypeOK, InterventionIsShown, deviceVars, Waiters
  <2>3. CASE Protect(p, [readings EXCEPT !.valid = FALSE], wire)
    <3>1. /\ [readings EXCEPT !.valid = FALSE] \in Readings
          /\ [readings EXCEPT !.valid = FALSE].reduced = readings.reduced
      BY <1>t DEF Readings
    <3> QED BY <1>t, <2>1, <2>3, <3>1, ProtectKeeps DEF deviceVars
  <2>4. CASE Protect(p, readings, wire)
    BY <1>t, <2>1, <2>4, ProtectKeeps DEF deviceVars
  <2> QED BY <1>1, <2>2, <2>3, <2>4 DEF PollStarts
<1>2. ASSUME NEW p \in Pollers, ReadoutEnds(p) PROVE Inv'
  <2>1. UNCHANGED <<hot, busy, vexMax, setter, lowered>> /\ Tail(wire) \in Seq(Waiters)
        /\ SetterFits(Tail(wire), setter)
    BY <1>2, <1>w DEF ReadoutEnds, Turn
  <2>2. CASE /\ Answered
             /\ poll' = [poll EXCEPT ![p] = [Off EXCEPT !.pc = "voltages", !.hot = hot]]
             /\ wire' = Append(Tail(wire), p)
             /\ UNCHANGED <<vex, readings, alarms, stop, unheard>>
    <3>1. [Off EXCEPT !.pc = "voltages", !.hot = hot] \in Poll
      <4>1. hot \in BOOLEAN
        BY <1>t DEF TypeOK
      <4> QED BY <4>1, PollMoves
    <3>2. poll' \in [Pollers -> Poll] /\ wire' \in Seq(Waiters) /\ SetterFits(wire', setter)
      BY <1>t, <2>1, <2>2, <3>1, AppendFits
    <3> QED BY <1>t, <2>1, <2>2, <3>2
            DEF Inv, TypeOK, InterventionIsShown, Answered, Waiters
  <2>3. CASE Unanswered(vex) /\ Protect(p, readings, Tail(wire))
    BY <1>t, <2>1, <2>3, UnansweredTypes, ProtectKeeps
  <2> QED BY <1>2, <2>2, <2>3 DEF ReadoutEnds
<1>3. ASSUME NEW p \in Pollers, VoltagesEnd(p) PROVE Inv'
  <2>1. UNCHANGED <<hot, busy, vexMax, setter, lowered>> /\ Tail(wire) \in Seq(Waiters)
        /\ SetterFits(Tail(wire), setter)
    BY <1>3, <1>w DEF VoltagesEnd, Turn
  <2> DEFINE r == [readings EXCEPT !.valid = TRUE, !.hot = poll[p].hot, !.vex = vex]
  <2>2. CASE Answered /\ UNCHANGED vex /\ Protect(p, r, Tail(wire))
    <3>1. poll[p].hot \in BOOLEAN
      BY <1>t DEF Poll
    <3>2. r \in Readings /\ r.reduced = readings.reduced
      BY <1>t, <3>1 DEF Readings
    <3>3. vex' \in Levels /\ link' \in BOOLEAN /\ upsets' \in 0..MaxUpsets
      BY <1>t, <2>2 DEF Answered
    <3> HIDE DEF r
    <3> QED BY <2>1, <2>2, <3>2, <3>3, ProtectKeeps
  <2>3. CASE Unanswered(vex) /\ Protect(p, readings, Tail(wire))
    BY <1>t, <2>1, <2>3, UnansweredTypes, ProtectKeeps
  <2> QED BY <1>3, <2>2, <2>3 DEF VoltagesEnd
<1>4. ASSUME NEW p \in Pollers, BiasEnds(p) PROVE Inv'
  <2>1. UNCHANGED <<hot, busy, stop, vexMax, setter>> /\ wire' \in Seq(Waiters)
        /\ SetterFits(wire', setter)
    BY <1>4, <1>w DEF BiasEnds, Turn
  <2>2. poll[p].bias \in Levels /\ vexMax \in Levels
    BY <1>t DEF Poll, TypeOK
  <2>3. PICK r \in Readings : Evaluate(p, r) /\ r.reduced
    <3>1. /\ [readings EXCEPT !.vex = vexMax, !.reduced = TRUE] \in Readings
          /\ [readings EXCEPT !.vex = vexMax, !.reduced = TRUE].reduced = TRUE
      BY <1>t, <2>2 DEF Readings
    <3>2. /\ [readings EXCEPT !.reduced = TRUE] \in Readings
          /\ [readings EXCEPT !.reduced = TRUE].reduced = TRUE
      BY <1>t DEF Readings
    <3> QED BY <1>4, <3>1, <3>2 DEF BiasEnds
  <2>4. /\ vex' \in Levels /\ link' \in BOOLEAN /\ upsets' \in 0..MaxUpsets
    BY <1>4, <1>t, <2>2, UnansweredTypes DEF BiasEnds, Answered
  <2>5. lowered' \in BOOLEAN
    BY <1>4 DEF BiasEnds, Inv, TypeOK
  <2>6. /\ readings' = r /\ alarms' \subseteq AlarmTypes
        /\ poll' \in [Pollers -> Poll] /\ unheard' \in Unheard
    BY <1>t, <2>3, EvaluateTypes
  <2>7. TypeOK'
    BY <1>t, <2>1, <2>3, <2>4, <2>5, <2>6 DEF TypeOK, Readings, Waiters, Unheard
  <2> QED BY <2>1, <2>3, <2>6, <2>7 DEF Inv, InterventionIsShown
<1>5. ASSUME NEW p \in Pollers, Announce(p) PROVE Inv'
  <2>1. PICK t \in poll[p].tell :
          /\ poll' = [poll EXCEPT ![p] = IF poll[p].tell = {t} THEN Off
                                         ELSE [poll[p] EXCEPT !.tell = @ \ {t}]]
          /\ unheard' = [unheard EXCEPT ![t] = @ - 1]
    BY <1>5 DEF Announce
  <2>2. poll[p] \in Poll
    BY <1>t
  <2>3. [poll[p] EXCEPT !.tell = @ \ {t}] \in Poll
    BY <2>2 DEF Poll
  <2>4. poll' \in [Pollers -> Poll]
    <3> DEFINE q == IF poll[p].tell = {t} THEN Off ELSE [poll[p] EXCEPT !.tell = @ \ {t}]
    <3>1. q \in Poll
      BY <2>3, OffIsPoll
    <3>2. poll' = [poll EXCEPT ![p] = q]
      BY <2>1
    <3> QED BY <1>t, <3>1, <3>2
  <2>5. unheard' \in Unheard
    <3>1. t \in AlarmTypes
      BY <2>2 DEF Poll
    <3> QED BY <1>t, <2>1, <3>1 DEF Unheard
  <2>6. UNCHANGED <<deviceVars, wire, busy, stop, vexMax, readings, alarms, setter, upsets, lowered>>
    BY <1>5 DEF Announce
  <2> QED BY <2>4, <2>5, <2>6 DEF Inv, TypeOK, InterventionIsShown, deviceVars, Unheard
<1>6. CASE SetVex
  <2>1. /\ upsets' \in 0..MaxUpsets /\ setter' \in Levels
        /\ wire' = Append(wire, "setter") /\ setter = NoBias
        /\ UNCHANGED <<deviceVars, busy, stop, vexMax, readings, alarms, poll, lowered, unheard>>
    BY <1>6, <1>t DEF SetVex, Upset
  <2>2. wire' \in Seq(Waiters) /\ SetterFits(wire', setter')
    BY <1>t, <2>1, SetterJoins
  <2> QED BY <2>1, <2>2 DEF Inv, TypeOK, InterventionIsShown, deviceVars, Waiters
<1>7. CASE SetVexEnds
  <2>1. /\ setter' = NoBias /\ wire # <<>> /\ Head(wire) = "setter" /\ wire' = Tail(wire)
        /\ UNCHANGED <<hot, busy, stop, vexMax, alarms, poll, unheard>>
    BY <1>7 DEF SetVexEnds
  <2>w. /\ wire' \in Seq(Waiters) /\ SetterFits(wire', setter') /\ setter # NoBias
    BY <1>t, <2>1, TailFits
  <2>v. setter \in Levels
    BY <1>t, <2>w DEF TypeOK
  <2>2. CASE /\ Answered /\ vex' = setter /\ lowered' = FALSE
             /\ readings' = [readings EXCEPT !.reduced = FALSE]
    <3>1. readings' \in Readings /\ upsets' \in 0..MaxUpsets /\ link' \in BOOLEAN
      BY <1>t, <2>2 DEF Readings, Answered
    <3>2. TypeOK' /\ ~lowered'
      BY <1>t, <2>1, <2>w, <2>v, <2>2, <3>1 DEF TypeOK, Readings, Waiters
    <3> QED BY <2>w, <3>2 DEF Inv, InterventionIsShown
  <2>3. CASE Unanswered(setter) /\ UNCHANGED <<readings, lowered>>
    <3>1. vex' \in Levels /\ link' \in BOOLEAN /\ upsets' \in 0..MaxUpsets
      BY <1>t, <2>v, <2>3, UnansweredTypes
    <3> QED BY <1>t, <2>1, <2>w, <2>3, <3>1 DEF Inv, TypeOK, InterventionIsShown, Waiters
  <2> QED BY <1>7, <2>2, <2>3 DEF SetVexEnds
<1>8. CASE UpdateConfig
  BY <1>8, <1>t DEF UpdateConfig, Upset, Inv, TypeOK, InterventionIsShown, deviceVars
<1>9. CASE OperationBegins
  BY <1>9, <1>t DEF OperationBegins, Upset, Inv, TypeOK, InterventionIsShown, deviceVars
<1>10. CASE OperationEnds
  BY <1>10, <1>t DEF OperationEnds, Inv, TypeOK, InterventionIsShown, deviceVars
<1>11. CASE Reconnect
  BY <1>11, <1>t DEF Reconnect, Inv, TypeOK, InterventionIsShown
<1>12. CASE ChipWarms
  BY <1>12, <1>t DEF ChipWarms, Inv, TypeOK, InterventionIsShown
<1>13. CASE UNCHANGED vars
  BY <1>13, <1>t DEF vars, deviceVars, Inv, TypeOK, InterventionIsShown
<1> QED BY <1>1, <1>2, <1>3, <1>4, <1>5, <1>6, <1>7, <1>8, <1>9, <1>10, <1>11, <1>12, <1>13
        DEF Next, Exchange

LEMMA InitInv == Init => Inv
<1> SUFFICES ASSUME Init PROVE Inv
  OBVIOUS
<1>1. poll \in [Pollers -> Poll]
  BY OffIsPoll DEF Init
<1>2. readings \in Readings /\ setter \in Levels \cup {NoBias}
  BY HealthAssumption DEF Init, Readings, Levels
<1>3. unheard \in Unheard /\ upsets \in 0..MaxUpsets
  BY HealthAssumption DEF Init, Unheard
<1>4. wire \in Seq(Waiters) /\ SetterFits(wire, setter)
  BY DEF Init, SetterFits
<1> QED BY <1>1, <1>2, <1>3, <1>4
        DEF Init, Inv, TypeOK, InterventionIsShown, Readings, Waiters, Unheard

(* The variables keep their types: whoever commands a bias, and however     *)
(* commands interleave at the socket, none is above the ceiling.            *)
THEOREM HealthTypes == Spec => []TypeOK
<1>1. Inv => TypeOK
  BY DEF Inv
<1> QED BY InitInv, NextInv, <1>1, PTL DEF Spec

(* Once auto-protect has set the bias the readings show it, until somebody  *)
(* sets the bias by hand, whatever else is in flight.                       *)
THEOREM InterventionShown == Spec => []InterventionIsShown
<1>1. Inv => InterventionIsShown
  BY DEF Inv
<1> QED BY InitInv, NextInv, <1>1, PTL DEF Spec

-----------------------------------------------------------------------------
(* Alarms: each was raised by one poll, which has still to announce it.     *)

Telling(t) == {p \in Pollers : t \in poll[p].tell}

TellFits == \A p \in Pollers : poll[p].pc # "tell" => poll[p].tell = {}

(* The alarms raised and not announced are those the polls hold.            *)
Balanced ==
  \A t \in AlarmTypes :
    IsFiniteSet(Telling(t)) /\ unheard[t] = Cardinality(Telling(t))

AlarmInv == TellFits /\ Balanced

(* A poll that holds no alarm takes the new ones.                           *)
LEMMA EvaluateBalances ==
  ASSUME TypeOK, AlarmInv, NEW p \in Pollers, poll[p].pc # "tell", NEW r, Evaluate(p, r)
  PROVE  AlarmInv'
<1>0. poll \in [Pollers -> Poll] /\ unheard \in [AlarmTypes -> Int] /\ poll[p].tell = {}
  BY DEF TypeOK, AlarmInv, TellFits
<1>1. /\ \A q \in Pollers \ {p} : poll'[q] = poll[q]
      /\ poll'[p].tell = News(r) /\ (poll'[p].pc # "tell" => News(r) = {})
  BY <1>0 DEF Evaluate, Off
<1>2. TellFits'
  BY <1>1 DEF AlarmInv, TellFits
<1>3. ASSUME NEW t \in AlarmTypes
      PROVE  IsFiniteSet(Telling(t))' /\ unheard'[t] = Cardinality(Telling(t)')
  <2>1. IsFiniteSet(Telling(t)) /\ unheard[t] = Cardinality(Telling(t)) /\ p \notin Telling(t)
    BY <1>0 DEF AlarmInv, Balanced, Telling
  <2>2. CASE t \in News(r)
    <3>1. Telling(t)' = Telling(t) \cup {p}
      BY <1>1, <2>2 DEF Telling
    <3>2. unheard'[t] = unheard[t] + 1
      BY <1>0, <2>2 DEF Evaluate, News
    <3> QED BY <2>1, <3>1, <3>2, FS_AddElement
  <2>3. CASE t \notin News(r)
    <3>1. Telling(t)' = Telling(t)
      BY <1>0, <1>1, <2>3 DEF Telling
    <3>2. unheard'[t] = unheard[t]
      BY <1>0, <2>3 DEF Evaluate, News
    <3> QED BY <2>1, <3>1, <3>2
  <2> QED BY <2>2, <2>3
<1> QED BY <1>2, <1>3 DEF AlarmInv, Balanced

(* A poll that goes on to its next command holds no alarm, and raises none. *)
LEMMA WaitBalances ==
  ASSUME TypeOK, AlarmInv, NEW p \in Pollers, poll[p].pc # "tell", UNCHANGED unheard,
         NEW e, poll' = [poll EXCEPT ![p] = e], e.tell = {}
  PROVE  AlarmInv'
<1>1. poll \in [Pollers -> Poll] /\ poll[p].tell = {}
  BY DEF TypeOK, AlarmInv, TellFits
<1>2. TellFits' /\ \A t \in AlarmTypes : Telling(t)' = Telling(t)
  BY <1>1 DEF AlarmInv, TellFits, Telling
<1> QED BY <1>2 DEF AlarmInv, Balanced

LEMMA ProtectBalances ==
  ASSUME TypeOK, AlarmInv, NEW p \in Pollers, poll[p].pc # "tell", NEW r, NEW queue,
         Protect(p, r, queue)
  PROVE  AlarmInv'
<1>1. CASE Over(r) /\ ~busy /\ link
  <2> DEFINE e == [Off EXCEPT !.pc = "bias", !.bias = vexMax]
  <2>1. poll' = [poll EXCEPT ![p] = e] /\ UNCHANGED unheard
    BY <1>1 DEF Protect
  <2>2. e.tell = {}
    BY DEF Off
  <2> HIDE DEF e
  <2> QED BY <2>1, <2>2, WaitBalances
<1>2. CASE ~(Over(r) /\ ~busy /\ link)
  BY <1>2, EvaluateBalances DEF Protect
<1> QED BY <1>1, <1>2

(* An alarm that is announced leaves the poll that held it.                 *)
LEMMA AnnounceBalances ==
  ASSUME TypeOK, AlarmInv, NEW p \in Pollers, Announce(p)
  PROVE  AlarmInv'
<1>0. poll \in [Pollers -> Poll] /\ unheard \in [AlarmTypes -> Int] /\ poll[p] \in Poll
  BY DEF TypeOK
<1>1. PICK t \in poll[p].tell :
        /\ poll' = [poll EXCEPT ![p] = IF poll[p].tell = {t} THEN Off
                                       ELSE [poll[p] EXCEPT !.tell = @ \ {t}]]
        /\ unheard' = [unheard EXCEPT ![t] = @ - 1]
  BY DEF Announce
<1>2. /\ \A q \in Pollers \ {p} : poll'[q] = poll[q]
      /\ poll'[p].tell = poll[p].tell \ {t}
      /\ poll'[p].pc # "tell" => poll'[p].tell = {}
  <2>1. CASE poll[p].tell = {t}
    BY <1>0, <1>1, <2>1 DEF Off
  <2>2. CASE poll[p].tell # {t}
    <3>1. poll'[p] = [poll[p] EXCEPT !.tell = @ \ {t}] /\ \A q \in Pollers \ {p} : poll'[q] = poll[q]
      BY <1>0, <1>1, <2>2
    <3>2. poll'[p].tell = poll[p].tell \ {t} /\ poll'[p].pc = poll[p].pc
      BY <1>0, <3>1 DEF Poll
    <3>3. poll[p].pc = "tell"
      BY DEF Announce
    <3> QED BY <3>1, <3>2, <3>3
  <2> QED BY <2>1, <2>2
<1>3. TellFits'
  BY <1>2 DEF AlarmInv, TellFits
<1>4. ASSUME NEW u \in AlarmTypes
      PROVE  IsFiniteSet(Telling(u))' /\ unheard'[u] = Cardinality(Telling(u)')
  <2>1. IsFiniteSet(Telling(u)) /\ unheard[u] = Cardinality(Telling(u))
    BY DEF AlarmInv, Balanced
  <2>2. CASE u = t
    <3>1. Telling(u)' = Telling(u) \ {p} /\ p \in Telling(u)
      BY <1>1, <1>2, <2>2 DEF Telling
    <3>2. unheard'[u] = unheard[u] - 1
      BY <1>0, <1>1, <2>2
    <3> QED BY <2>1, <3>1, <3>2, FS_RemoveElement
  <2>3. CASE u # t
    <3>1. Telling(u)' = Telling(u)
      BY <1>2, <2>3 DEF Telling
    <3>2. unheard'[u] = unheard[u]
      BY <1>0, <1>1, <2>3
    <3> QED BY <2>1, <3>1, <3>2
  <2> QED BY <2>2, <2>3
<1> QED BY <1>3, <1>4 DEF AlarmInv, Balanced

LEMMA AlarmStep == TypeOK /\ AlarmInv /\ [Next]_vars => AlarmInv'
<1> SUFFICES ASSUME TypeOK, AlarmInv, [Next]_vars PROVE AlarmInv'
  OBVIOUS
<1>a. ASSUME UNCHANGED <<poll, unheard>> PROVE AlarmInv'
  BY <1>a DEF AlarmInv, TellFits, Balanced, Telling
<1>1. ASSUME NEW p \in Pollers, PollStarts(p) PROVE AlarmInv'
  <2>1. poll[p].pc # "tell"
    BY <1>1 DEF PollStarts
  <2>2. CASE poll' = [poll EXCEPT ![p] = [Off EXCEPT !.pc = "readout"]] /\ UNCHANGED unheard
    <3>1. [Off EXCEPT !.pc = "readout"].tell = {}
      BY DEF Off
    <3> QED BY <2>1, <2>2, <3>1, WaitBalances
  <2>3. ASSUME NEW r, Protect(p, r, wire) PROVE AlarmInv'
    BY <2>1, <2>3, ProtectBalances
  <2> QED BY <1>1, <2>2, <2>3 DEF PollStarts
<1>2. ASSUME NEW p \in Pollers, ReadoutEnds(p) PROVE AlarmInv'
  <2>1. poll[p].pc # "tell"
    BY <1>2 DEF ReadoutEnds, Turn
  <2> DEFINE e == [Off EXCEPT !.pc = "voltages", !.hot = hot]
  <2>2. e.tell = {}
    BY DEF Off
  <2>3. \/ poll' = [poll EXCEPT ![p] = e] /\ UNCHANGED unheard
        \/ Protect(p, readings, Tail(wire))
    BY <1>2 DEF ReadoutEnds
  <2> HIDE DEF e
  <2> QED BY <2>1, <2>2, <2>3, WaitBalances, ProtectBalances
<1>3. ASSUME NEW p \in Pollers, VoltagesEnd(p) PROVE AlarmInv'
  <2>1. poll[p].pc # "tell" /\ \E r : Protect(p, r, Tail(wire))
    BY <1>3 DEF VoltagesEnd, Turn
  <2> QED BY <2>1, ProtectBalances
<1>4. ASSUME NEW p \in Pollers, BiasEnds(p) PROVE AlarmInv'
  <2>1. poll[p].pc # "tell" /\ \E r : Evaluate(p, r)
    BY <1>4 DEF BiasEnds, Turn
  <2> QED BY <2>1, EvaluateBalances
<1>5. ASSUME NEW p \in Pollers, Announce(p) PROVE AlarmInv'
  BY <1>5, AnnounceBalances
<1>6. ASSUME \/ SetVex \/ SetVexEnds \/ UpdateConfig \/ OperationBegins \/ OperationEnds
             \/ Reconnect \/ ChipWarms \/ UNCHANGED vars
      PROVE  AlarmInv'
  <2>1. UNCHANGED <<poll, unheard>>
    BY <1>6 DEF SetVex, SetVexEnds, UpdateConfig, OperationBegins, OperationEnds, Reconnect,
                ChipWarms, vars
  <2> QED BY <2>1, <1>a
<1> QED BY <1>1, <1>2, <1>3, <1>4, <1>5, <1>6 DEF Next, Exchange

(* However many polls evaluate the alarms while others wait to broadcast    *)
(* theirs, what one poll raised no other announces: an alarm is broadcast   *)
(* at most as often as it was raised (health.py:188).                       *)
THEOREM AlarmsOnce == Spec => []AnnouncedOnce
<1>1. Init => AlarmInv
  <2> SUFFICES ASSUME Init PROVE AlarmInv
    OBVIOUS
  <2>1. \A p \in Pollers : poll[p].tell = {}
    BY DEF Init, Off
  <2>2. \A t \in AlarmTypes : Telling(t) = {} /\ unheard[t] = 0
    BY <2>1 DEF Init, Telling
  <2> QED BY <2>1, <2>2, FS_EmptySet DEF AlarmInv, TellFits, Balanced
<1>2. AlarmInv => AnnouncedOnce
  <2> SUFFICES ASSUME AlarmInv, NEW t \in AlarmTypes PROVE unheard[t] >= 0
    BY DEF AnnouncedOnce
  <2> QED BY FS_CardinalityType DEF AlarmInv, Balanced
<1> QED BY <1>1, <1>2, AlarmStep, HealthTypes, PTL DEF Spec
=============================================================================
