------------------------------- MODULE MCEnv --------------------------------
(***************************************************************************)
(* Two frames, three names in arrays that start with one entry and grow    *)
(* twice.                                                                  *)
(***************************************************************************)
EXTENDS Env, TLC

NameSymmetry == Permutations(Name) \cup Permutations(Value)
=============================================================================
