------------------------------- MODULE MCFifo -------------------------------
(* Instances of Fifo for TLC.                                              *)
EXTENDS Fifo, TLC

ByteSymmetry == Permutations(Bytes)
=============================================================================
