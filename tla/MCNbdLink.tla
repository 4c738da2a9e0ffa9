----------------------------- MODULE MCNbdLink -----------------------------
(* Instances of NbdLink for TLC.                                           *)
EXTENDS NbdLink, TLC

ThreadSymmetry == Permutations(Threads)
=============================================================================
