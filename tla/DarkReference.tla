--------------------------- MODULE DarkReference ---------------------------
(***************************************************************************)
(* Dark references: the map of dark counts a measurement under a cap       *)
(* gives, what it is valid for, and what is left of a signal once it is    *)
(* subtracted.                                                             *)
(*                                                                         *)
(* A reference has one frame per gate step (one for an intensity           *)
(* measurement).  Its values are halves of integers, a mean of two counts  *)
(* or the median of an even number: the model keeps their doubles.         *)
(***************************************************************************)
EXTENDS Integers, Sequences, SequencesExt

MIN_MEDIAN_REPEATS == 3

NoReference == <<>>

(* An arbitrary list of gate offsets, when there is one, is the sweep.      *)
EffectiveSteps(p) == IF p.arbitrary # <<>> THEN Len(p.arbitrary) ELSE p.steps

(* What a reference is valid for.  The iterations are not a part of it, the *)
(* cool-off time between the steps is.  The keys tell the modes apart.      *)
GatedFingerprint(p) ==
  [depth |-> p.depth, time |-> p.time, steps |-> EffectiveSteps(p), size |-> p.size,
   offset |-> p.offset, dir |-> p.dir, overlap |-> p.overlap, pileup |-> p.pileup,
   arbitrary |-> p.arbitrary, cooloff |-> p.cooloff]

IntensityFingerprint(p) ==
  [depth |-> p.depth, time |-> p.time, width |-> p.width, overlap |-> p.overlap,
   pileup |-> p.pileup]

Fingerprint(p) == IF p.mode = "gated" THEN GatedFingerprint(p) ELSE IntensityFingerprint(p)

-----------------------------------------------------------------------------
(* Building.                                                                *)

(* The k-th smallest of the values, those that are equal counted apart.     *)
Smallest(values, k) ==
  CHOOSE v \in {values[i] : i \in DOMAIN values} :
    /\ Cardinality({i \in DOMAIN values : values[i] < v}) < k
    /\ Cardinality({i \in DOMAIN values : values[i] <= v}) >= k

Median2(values) ==
  Smallest(values, (Len(values) + 1) \div 2) + Smallest(values, Len(values) \div 2 + 1)

Mean2(values) == (2 * FoldSeq(LAMBDA a, b : a + b, 0, values)) \div Len(values)

(* The repeats of a gate step are one sweep apart.                          *)
build_reference(stack, iterations, steps) ==
  [s \in 1..steps |->
     [px \in DOMAIN stack[1] |->
        LET repeats == [i \in 1..iterations |-> stack[(i - 1) * steps + s][px]]
        IN  IF iterations >= MIN_MEDIAN_REPEATS THEN Median2(repeats) ELSE Mean2(repeats)]]

-----------------------------------------------------------------------------
(* Correcting.                                                              *)

(* Whole sweeps, of frames as large as those of the reference.              *)
Correctable(stack, reference) ==
  /\ Len(stack) % Len(reference) = 0
  /\ \A k \in DOMAIN stack : Len(stack[k]) = Len(reference[1])

(* np.rint of half of a doubled number: a half goes to the even neighbour.  *)
Rint(doubled) ==
  LET low == doubled \div 2
  IN  IF doubled % 2 = 1 /\ low % 2 = 1 THEN low + 1 ELSE low

Clip(n) == IF n < 0 THEN 0 ELSE n

apply_dark_correction(stack, reference) ==
  [k \in DOMAIN stack |->
     [px \in DOMAIN stack[k] |->
        Rint(Clip(2 * stack[k][px] - reference[((k - 1) % Len(reference)) + 1][px]))]]

-----------------------------------------------------------------------------
(* The store.  A reference is known by its place; 0 asks for none.          *)

Save(refs, p, reference, path) ==
  Append(refs, [fingerprint |-> Fingerprint(p), reference |-> reference,
                iterations |-> p.iterations, path |-> path])

(* Nothing is asked for, or what is asked for exists and was measured with  *)
(* the configuration of the acquisition.                                    *)
Resolvable(refs, p) ==
  \/ p.dark = 0
  \/ p.dark \in DOMAIN refs /\ refs[p.dark].fingerprint = Fingerprint(p)

ResolveDarkReference(refs, p) == IF p.dark = 0 THEN NoReference ELSE refs[p.dark].reference
=============================================================================
