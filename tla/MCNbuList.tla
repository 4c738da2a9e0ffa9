----------------------------- MODULE MCNbuList -----------------------------
(* An instance of NbuList for TLC.  Nodes are not symmetric: calloc takes  *)
(* the first free one.                                                     *)
EXTENDS NbuList

DataSymmetry == Permutations(Datum)
=============================================================================
