---------------------------- MODULE MCEffectLease ----------------------------
(* Instances of EffectLease: a family of a primary runtime and its pair.   *)
EXTENDS EffectLease, TLC

Symmetry == Permutations(Runtime) \cup Permutations(Request)
=============================================================================
