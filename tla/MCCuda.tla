------------------------------- MODULE MCCuda -------------------------------
(* Instances of CudaSessions. *)
EXTENDS CudaSessions, TLC

CONSTANTS s1, s2

ShortPrompts == {<<1>>, <<1, 2, 1>>}
Symmetric == Permutations(Sessions)
=============================================================================
