--------------------------- MODULE MCMeasurement ---------------------------
(***************************************************************************)
(* The instance TLC checks: a sensor of 4 rows, and requests of each kind  *)
(* (1, 8 and 10 bits, pile-up correction, narrow and full frames, batches, *)
(* one sweep, paced steps, backwards and along a list, with and without a  *)
(* reference, an unusable request).                                        *)
(***************************************************************************)
EXTENDS Measurement

(* Counts above and below a byte and a bit, different for each exposure.    *)
MCLight(r, i, offset, px) ==
  (r * 331 + i * 97 + offset * 41 + (px * px + 7 * px + r * i * px) * 13) % 700

MCRows == 4
MCWidths == {2, 4}
MCDataRoot == <<"data">>
MCLocal == <<"lab">>
MCVirtual == <<"D", "lab">>
MCSavePaths == {MCLocal, MCVirtual}
MCLocalPaths == {MCLocal}

Batches == [iterations |-> 3, integration_time_ms |-> 20, run_reducer |-> TRUE]
Sweep == [iterations |-> 2, gate_steps |-> 2, gate_step_size_ps |-> 3, gate_offset |-> 1]
Again == [iterations |-> 1] @@ Sweep
PacedSweep == [cooloff_s |-> 1, gate_direction |-> "reverse"] @@ Sweep

MCIntensityBodies ==
  {[bit_depth |-> 10, roi_width |-> 2, sample_name |-> "cell"] @@ Batches,
   [pileup_correction |-> TRUE, integration_time |-> 20,
    dark_reference_id |-> 1]}
MCRaw1BitBodies == {[roi_width |-> 2]}
MCGatedBodies ==
  {[run_reducer |-> TRUE, dark_reference_id |-> 1] @@ Sweep,
   [run_reducer |-> TRUE, dark_reference_id |-> 1] @@ PacedSweep,
   [bit_depth |-> 12, arbitrary_steps |-> <<5, 0>>, iterations |-> 1],
   [gate_steps |-> 0, cooloff_s |-> 1]}
MCIntensityReferenceBodies ==
  {[pileup_correction |-> TRUE, iterations |-> 3, integration_time |-> 20]}
MCGatedReferenceBodies == {[gate_direction |-> "reverse", cooloff_s |-> 1] @@ Again, Sweep}
MCFlimBodies == {[gate_subsampling |-> 4]}
MCLiveBodies == {[bit_depth |-> 4]}
MCScheduledJobs == {[mode |-> "intensity", params |-> [roi_width |-> 2]]}
MCCalibrationKinds == {"breakdown", "noise"}

(* No change to most entries, a tweak to those that are corrected.          *)
MCOverrides == {[pileup_correction |-> FALSE]}
=============================================================================
