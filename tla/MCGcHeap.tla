------------------------------ MODULE MCGcHeap ------------------------------
(***************************************************************************)
(* GcHeap on a handful of addresses.                                       *)
(***************************************************************************)
EXTENDS GcHeap, TLC

ObjSymmetry == Permutations(Obj)
=============================================================================
