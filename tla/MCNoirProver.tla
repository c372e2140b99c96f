---------------------------- MODULE MCNoirProver ----------------------------
(* Instances of NoirProver for TLC.  Calls, like witnesses, are          *)
(* interchangeable: no property tells one from another.                      *)
EXTENDS NoirProver, TLC

Symmetry == Permutations(Calls) \cup Permutations(Witnesses)
=============================================================================
