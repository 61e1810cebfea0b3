------------------------------ MODULE Requests ------------------------------
(***************************************************************************)
(* From the body of a request to the parameters of an acquisition: the     *)
(* defaults and the checks of the routes, and the readings of a parameter  *)
(* dictionary that a dark measurement and a rerun share with sweeps, the   *)
(* queue and the scheduler.                                                *)
(*                                                                         *)
(* A body is a function from keys to values; a key whose value is None is  *)
(* not in its domain.  Overlap stands for what the bridge only passes on:  *)
(* the gate width, the trigger and the stream flag are treated as it is.   *)
(***************************************************************************)
EXTENDS Payload

CONSTANT Widths   \* the ROI widths of the sensor

ASSUME WidthsAssumption == Rows \in Widths /\ Widths \subseteq 1..Rows

Get(body, key, default) == IF key \in DOMAIN body THEN body[key] ELSE default

(* A record with these fields, the others as they are.                      *)
With(record, fields) ==
  [k \in DOMAIN record \cup DOMAIN fields |-> IF k \in DOMAIN fields THEN fields[k] ELSE record[k]]

(* A dark measurement takes what an acquisition takes, but for the name,    *)
(* the reducer and the reference.                                           *)
IntensityReferenceBody(body) ==
  With([bit_depth |-> 8, iterations |-> 1, roi_width |-> Rows, overlap |-> FALSE,
        pileup_correction |-> FALSE], body)

IntensityBody(body) == With([run_reducer |-> FALSE], IntensityReferenceBody(body))

Raw1BitBody(body) ==
  With([integration_time_us |-> 100, iterations |-> 1, roi_width |-> Rows, overlap |-> FALSE], body)

GatedReferenceBody(body) ==
  With([bit_depth |-> 8, iterations |-> 1, gate_steps |-> 10, gate_step_size_ps |-> 18,
        gate_offset |-> 0, gate_direction |-> "forward", overlap |-> FALSE,
        pileup_correction |-> FALSE, cooloff_s |-> 0], body)

GatedBody(body) == With([run_reducer |-> FALSE], GatedReferenceBody(body))

-----------------------------------------------------------------------------
(* What the routes let through.                                             *)

WidthAndIterationsValid(body) == body.roi_width \in Widths /\ body.iterations >= 1
IntensityValid(body) == body.bit_depth \in IntBitDepths /\ WidthAndIterationsValid(body)
GatedValid(body) ==
  /\ body.bit_depth \in GatedBitDepths
  /\ body.gate_direction \in {"forward", "reverse"}
GatedReferenceValid(body) == GatedValid(body) /\ body.iterations >= 1

-----------------------------------------------------------------------------
(* The parameters.  The reading of a dictionary knows no names and no       *)
(* reducer, and prefers milliseconds where the intensity route does not.    *)

Arbitrary(body) == Get(body, "arbitrary_steps", <<>>)

(* Mutant: one of the two keys for the integration time is not known.       *)
MillisecondsUnnamed(body) == Get(body, "integration_time", 100)

Milliseconds(body) == Get(body, "integration_time_ms", Get(body, "integration_time", 100))

IntensityParamsOf(body) ==
  [mode |-> "intensity", depth |-> Get(body, "bit_depth", 8), time |-> Milliseconds(body),
   iterations |-> Get(body, "iterations", 1), width |-> Get(body, "roi_width", Rows),
   overlap |-> Get(body, "overlap", FALSE), pileup |-> Get(body, "pileup_correction", FALSE),
   dark |-> Get(body, "dark_reference_id", 0), name |-> "", reducer |-> FALSE]

GatedParamsOf(body) ==
  [mode |-> "gated", depth |-> Get(body, "bit_depth", 8), time |-> Milliseconds(body),
   iterations |-> Get(body, "iterations", 1), steps |-> Get(body, "gate_steps", 10),
   size |-> Get(body, "gate_step_size_ps", 18), offset |-> Get(body, "gate_offset", 0),
   dir |-> Get(body, "gate_direction", "forward"), overlap |-> Get(body, "overlap", FALSE),
   pileup |-> Get(body, "pileup_correction", FALSE), arbitrary |-> Arbitrary(body),
   cooloff |-> Get(body, "cooloff_s", 0), width |-> Rows,
   dark |-> Get(body, "dark_reference_id", 0), name |-> "", reducer |-> FALSE]

IntensityParams(body) ==
  [IntensityParamsOf(body) EXCEPT
     !.time = Get(body, "integration_time", Get(body, "integration_time_ms", 100)),
     !.name = Get(body, "sample_name", ""), !.reducer = body.run_reducer]

Raw1BitParams(body) ==
  [IntensityParamsOf(body) EXCEPT
     !.depth = 1, !.time = body.integration_time_us, !.pileup = FALSE, !.dark = 0]

GatedParams(body) ==
  [GatedParamsOf(body) EXCEPT
     !.name = Get(body, "sample_name", ""), !.reducer = body.run_reducer]

(* A live frame is one shot.                                                *)
LiveParams(body) ==
  [IntensityParamsOf(body) EXCEPT
     !.time = Get(body, "integration_time", 20), !.iterations = 1, !.overlap = FALSE,
     !.pileup = FALSE, !.dark = 0]

Subsampling(body) ==
  LET asked == Get(body, "gate_subsampling", 1) IN IF asked < 1 THEN 1 ELSE asked

(* What the sidecar says of the parameters.                                 *)
IntensitySidecar(p) == [k \in DOMAIN p \ {"reducer"} |-> p[k]]
GatedSidecar(p) ==
  [k \in DOMAIN p \ {"reducer", "width"} |->
     IF k # "steps" THEN p[k] ELSE IF p.arbitrary # <<>> THEN Len(p.arbitrary) ELSE p.steps]
SidecarParams(p) == IF p.mode = "gated" THEN GatedSidecar(p) ELSE IntensitySidecar(p)

(* The gate offsets of a gated run, in the order they are taken.            *)
Offsets(p) ==
  IF p.arbitrary # <<>> THEN p.arbitrary
  ELSE [s \in 1..p.steps |->
          IF p.dir = "reverse" THEN p.offset + (p.steps - s) * p.size
                               ELSE p.offset + (s - 1) * p.size]
=============================================================================
