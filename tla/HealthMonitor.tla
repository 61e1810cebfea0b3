---------------------------- MODULE HealthMonitor ----------------------------
(***************************************************************************)
(* The health monitor's polls, auto-protect and alarms, next to the route  *)
(* that sets the bias by hand and the one that changes the limit.          *)
(*                                                                         *)
(* Commands go through one socket in the order they were asked for; the    *)
(* device's answer and what its caller does next, up to its next command,  *)
(* are one step.  A temperature is too hot or not: the threshold stays.    *)
(***************************************************************************)
EXTENDS Integers, Sequences

CONSTANTS
  MaxVex,     \* VEX_HARD_CEILING
  Readers,    \* requests for the readings
  MaxUpsets,  \* bound: what people and faults do
  Faults      \* what may happen in the instance

AllFaults == {"refused", "lost"}
Pollers == {"loop", "boundary"} \cup Readers
Levels == 0..MaxVex
AlarmTypes == {"over_temperature", "vex_reduced"}

ASSUME HealthAssumption ==
  /\ MaxVex \in Nat /\ MaxUpsets \in Nat
  /\ Faults \subseteq AllFaults
  /\ Readers \cap {"loop", "boundary", "setter"} = {}

VARIABLES
  vex, hot,  \* the device: its bias, and whether the chip is too hot
  link,      \* ProtocolClient.connected
  wire,      \* who waits for the socket, in order
  busy,      \* InstrumentState.is_busy
  stop,      \* InstrumentState._stop_requested
  vexMax,    \* HealthConfig.vex_max
  readings,  \* HealthMonitor._readings
  alarms,    \* types of Readings.alarms, and _active_alarm_types
  poll,      \* where each poll is
  setter,    \* the request that sets the bias: its value
  upsets,    \* bound: how many there were
  lowered,   \* history: auto-protect set the bias, nobody has since
  unheard    \* history: alarms raised less alarms announced

deviceVars == <<vex, hot, link>>
vars == <<deviceVars, wire, busy, stop, vexMax, readings, alarms, poll, setter, upsets,
          lowered, unheard>>

NoBias == MaxVex + 1

Off == [pc |-> "off", hot |-> FALSE, bias |-> 0, tell |-> {}]

Upset == upsets < MaxUpsets /\ upsets' = upsets + 1

-----------------------------------------------------------------------------
(* A poll, from its readings to its next command.                           *)

TooHot(r) == r.valid /\ r.hot
Over(r) == r.valid /\ r.vex > vexMax

AlarmsOf(r) == {t \in AlarmTypes : \/ t = "over_temperature" /\ TooHot(r)
                                   \/ t = "vex_reduced" /\ r.reduced}

(* Mutant: an alarm that is known already is news to every poll.            *)
NewsAll(r) == AlarmsOf(r)

News(r) == AlarmsOf(r) \ alarms

(* The alarms are evaluated and the new ones noted before any is announced. *)
Evaluate(p, r) ==
  /\ readings' = r
  /\ alarms' = AlarmsOf(r)
  /\ poll' = [poll EXCEPT ![p] = IF News(r) = {} THEN Off
                                 ELSE [Off EXCEPT !.pc = "tell", !.tell = News(r)]]
  /\ unheard' = [t \in AlarmTypes |-> IF t \in AlarmsOf(r) \ alarms THEN unheard[t] + 1
                                      ELSE unheard[t]]

(* Mutant: the bias is only flagged, nothing is commanded.                  *)
ProtectFlagOnly(p, r, queue) ==
  /\ stop' = (stop \/ (busy /\ TooHot(r)))
  /\ Evaluate(p, [r EXCEPT !.reduced = @ \/ Over(r)])
  /\ wire' = queue

(* The latch is set although the bias is not: while an operation is under   *)
(* way, and without a link.  The bias commanded is the limit of now.        *)
Protect(p, r, queue) ==
  /\ stop' = (stop \/ (busy /\ TooHot(r)))
  /\ \/ /\ Over(r) /\ ~busy /\ link
        /\ readings' = r
        /\ poll' = [poll EXCEPT ![p] = [Off EXCEPT !.pc = "bias", !.bias = vexMax]]
        /\ wire' = Append(queue, p)
        /\ UNCHANGED <<alarms, unheard>>
     \/ /\ ~(Over(r) /\ ~busy /\ link)
        /\ Evaluate(p, [r EXCEPT !.reduced = @ \/ Over(r)])
        /\ wire' = queue

(* Only a boundary's poll asks the device while an operation is under way.  *)
MayRead(p) == p = "boundary" \/ ~busy

PollStarts(p) ==
  /\ poll[p].pc = "off"
  /\ p = "boundary" => busy
  /\ \/ /\ MayRead(p) /\ link
        /\ poll' = [poll EXCEPT ![p] = [Off EXCEPT !.pc = "readout"]]
        /\ wire' = Append(wire, p)
        /\ UNCHANGED <<readings, alarms, stop, unheard>>
     \/ MayRead(p) /\ ~link /\ Protect(p, [readings EXCEPT !.valid = FALSE], wire)
     \/ ~MayRead(p) /\ Protect(p, readings, wire)
  /\ UNCHANGED <<deviceVars, busy, vexMax, setter, upsets, lowered>>

-----------------------------------------------------------------------------
(* Exchanges with the device.                                               *)

Turn(who, pc) == wire # <<>> /\ Head(wire) = who /\ poll[who].pc = pc
Answered == link /\ UNCHANGED <<link, upsets>>

(* No link, an ERROR or a reply that does not parse, a link that is lost    *)
(* while the reply is awaited: the device may have obeyed then.             *)
Unanswered(obeyed) ==
  \/ ~link /\ vex' = vex /\ UNCHANGED <<link, upsets>>
  \/ link /\ "refused" \in Faults /\ Upset /\ vex' = vex /\ UNCHANGED link
  \/ link /\ "lost" \in Faults /\ Upset /\ link' = FALSE /\ vex' \in {vex, obeyed}

ReadoutEnds(p) ==
  /\ Turn(p, "readout")
  /\ \/ /\ Answered
        /\ poll' = [poll EXCEPT ![p] = [Off EXCEPT !.pc = "voltages", !.hot = hot]]
        /\ wire' = Append(Tail(wire), p)
        /\ UNCHANGED <<vex, readings, alarms, stop, unheard>>
     \/ Unanswered(vex) /\ Protect(p, readings, Tail(wire))
  /\ UNCHANGED <<hot, busy, vexMax, setter, lowered>>

VoltagesEnd(p) ==
  /\ Turn(p, "voltages")
  /\ \/ /\ Answered /\ UNCHANGED vex
        /\ Protect(p, [readings EXCEPT !.valid = TRUE, !.hot = poll[p].hot, !.vex = vex], Tail(wire))
     \/ Unanswered(vex) /\ Protect(p, readings, Tail(wire))
  /\ UNCHANGED <<hot, busy, vexMax, setter, lowered>>

(* Mutant: the latch opens once the bias is in range.                       *)
BiasEndsUnlatched(p) ==
  /\ Turn(p, "bias")
  /\ \/ /\ Answered /\ vex' = poll[p].bias /\ lowered' = TRUE
        /\ Evaluate(p, [readings EXCEPT !.vex = vexMax, !.reduced = FALSE])
     \/ /\ Unanswered(poll[p].bias) /\ lowered' = (lowered \/ vex' # vex)
        /\ Evaluate(p, [readings EXCEPT !.reduced = TRUE])
  /\ wire' = Tail(wire)
  /\ UNCHANGED <<hot, busy, stop, vexMax, setter>>

(* The reading is set to the limit as it is when the answer comes.          *)
BiasEnds(p) ==
  /\ Turn(p, "bias")
  /\ \/ /\ Answered /\ vex' = poll[p].bias /\ lowered' = TRUE
        /\ Evaluate(p, [readings EXCEPT !.vex = vexMax, !.reduced = TRUE])
     \/ /\ Unanswered(poll[p].bias) /\ lowered' = (lowered \/ vex' # vex)
        /\ Evaluate(p, [readings EXCEPT !.reduced = TRUE])
  /\ wire' = Tail(wire)
  /\ UNCHANGED <<hot, busy, stop, vexMax, setter>>

(* One alarm after another is broadcast.                                    *)
Announce(p) ==
  /\ poll[p].pc = "tell"
  /\ \E t \in poll[p].tell :
       /\ poll' = [poll EXCEPT ![p] = IF poll[p].tell = {t} THEN Off
                                      ELSE [poll[p] EXCEPT !.tell = @ \ {t}]]
       /\ unheard' = [unheard EXCEPT ![t] = @ - 1]
  /\ UNCHANGED <<deviceVars, wire, busy, stop, vexMax, readings, alarms, setter, upsets, lowered>>

-----------------------------------------------------------------------------
(* The routes, the operations and the device.                               *)

(* Mutant: a confirmation lifts the ceiling as well.                        *)
SetVexAnyValue ==
  /\ setter = NoBias
  /\ Upset
  /\ setter' \in Levels \cup {MaxVex + 2}
  /\ wire' = Append(wire, "setter")
  /\ UNCHANGED <<deviceVars, busy, stop, vexMax, readings, alarms, poll, lowered, unheard>>

(* Any value up to the ceiling, given a confirmation; no guard looks at     *)
(* the instrument.                                                          *)
SetVex ==
  /\ setter = NoBias
  /\ Upset
  /\ setter' \in Levels
  /\ wire' = Append(wire, "setter")
  /\ UNCHANGED <<deviceVars, busy, stop, vexMax, readings, alarms, poll, lowered, unheard>>

SetVexEnds ==
  /\ wire # <<>> /\ Head(wire) = "setter"
  /\ \/ /\ Answered /\ vex' = setter /\ lowered' = FALSE
        /\ readings' = [readings EXCEPT !.reduced = FALSE]
     \/ Unanswered(setter) /\ UNCHANGED <<readings, lowered>>
  /\ setter' = NoBias
  /\ wire' = Tail(wire)
  /\ UNCHANGED <<hot, busy, stop, vexMax, alarms, poll, unheard>>

UpdateConfig ==
  /\ Upset
  /\ vexMax' \in Levels
  /\ UNCHANGED <<deviceVars, wire, busy, stop, readings, alarms, poll, setter, lowered, unheard>>

OperationBegins ==
  /\ ~busy /\ Upset
  /\ busy' = TRUE
  /\ UNCHANGED <<deviceVars, wire, stop, vexMax, readings, alarms, poll, setter, lowered, unheard>>

(* The operation awaits its boundary's poll.                                *)
OperationEnds ==
  /\ busy /\ poll["boundary"].pc = "off"
  /\ busy' = FALSE /\ stop' = FALSE
  /\ UNCHANGED <<deviceVars, wire, vexMax, readings, alarms, poll, setter, upsets, lowered, unheard>>

Reconnect ==
  /\ ~link
  /\ link' = TRUE
  /\ UNCHANGED <<vex, hot, wire, busy, stop, vexMax, readings, alarms, poll, setter, upsets,
                 lowered, unheard>>

ChipWarms ==
  /\ hot' = ~hot
  /\ UNCHANGED <<vex, link, wire, busy, stop, vexMax, readings, alarms, poll, setter, upsets,
                 lowered, unheard>>

-----------------------------------------------------------------------------
Init ==
  /\ vex \in Levels /\ hot \in BOOLEAN /\ link = FALSE
  /\ wire = <<>>
  /\ busy = FALSE /\ stop = FALSE
  /\ vexMax \in Levels
  /\ readings = [valid |-> FALSE, hot |-> FALSE, vex |-> 0, reduced |-> FALSE]
  /\ alarms = {}
  /\ poll = [p \in Pollers |-> Off]
  /\ setter = NoBias
  /\ upsets = 0
  /\ lowered = FALSE /\ unheard = [t \in AlarmTypes |-> 0]

Exchange == SetVexEnds \/ \E p \in Pollers : ReadoutEnds(p) \/ VoltagesEnd(p) \/ BiasEnds(p)

Next ==
  \/ Exchange
  \/ \E p \in Pollers : PollStarts(p) \/ Announce(p)
  \/ SetVex \/ UpdateConfig
  \/ OperationBegins \/ OperationEnds
  \/ Reconnect \/ ChipWarms

(* The socket serves who waits, the background task polls, broadcasts end,  *)
(* the link comes back, and an operation has finitely many boundaries.      *)
Fairness ==
  /\ WF_vars(Exchange) /\ WF_vars(PollStarts("loop"))
  /\ \A p \in Pollers : WF_vars(Announce(p))
  /\ SF_vars(OperationEnds) /\ WF_vars(Reconnect)

Spec == Init /\ [][Next]_vars /\ Fairness

-----------------------------------------------------------------------------
(* Properties.                                                              *)

Poll == [pc: {"off", "readout", "voltages", "bias", "tell"}, hot: BOOLEAN, bias: Levels,
         tell: SUBSET AlarmTypes]

(* The variables have the values the code gives them; no bias is above the  *)
(* ceiling.                                                                 *)
TypeOK ==
  /\ vex \in Levels /\ hot \in BOOLEAN /\ link \in BOOLEAN
  /\ wire \in Seq(Pollers \cup {"setter"})
  /\ busy \in BOOLEAN /\ stop \in BOOLEAN
  /\ vexMax \in Levels
  /\ readings \in [valid: BOOLEAN, hot: BOOLEAN, vex: Levels, reduced: BOOLEAN]
  /\ alarms \subseteq AlarmTypes
  /\ poll \in [Pollers -> Poll]
  /\ setter \in Levels \cup {NoBias}
  /\ upsets \in 0..MaxUpsets
  /\ lowered \in BOOLEAN /\ unheard \in [AlarmTypes -> Int]

(* Since auto-protect set the bias, and until somebody sets it by hand, the *)
(* readings say so, whatever is in flight at the time (health.py:179-184).  *)
InterventionIsShown == lowered => readings.reduced

(* No alarm is announced more often than it was raised, however many polls  *)
(* are under way (health.py:188).                                           *)
AnnouncedOnce == \A t \in AlarmTypes : unheard[t] >= 0

(* A bias above the limit does not stay.                                    *)
OverBiasEnds == vex > vexMax ~> vex <= vexMax

(* Auto-protect never raises the bias (health.py:173-178).                  *)
OnlyLowers == [][(\E p \in Pollers : BiasEnds(p)) => vex' <= vex]_vars

(* The latch means that auto-protect set the bias (health.py:181).          *)
ReducedMeansLowered == readings.reduced => lowered

=============================================================================
