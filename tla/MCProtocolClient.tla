-------------------------- MODULE MCProtocolClient --------------------------
(* Instances of ProtocolClient for TLC.                                     *)
EXTENDS ProtocolClient, TLC

(* The callers of a kind are interchangeable.                               *)
Symmetry == Permutations(Acquirers) \cup Permutations(Callers \ Acquirers)
=============================================================================
