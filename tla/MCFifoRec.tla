----------------------------- MODULE MCFifoRec -----------------------------
(* Instances of FifoRec for TLC.                                           *)
EXTENDS FifoRec
=============================================================================
