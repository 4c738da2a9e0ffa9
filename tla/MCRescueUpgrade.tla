-------------------------- MODULE MCRescueUpgrade --------------------------
(* TLC instance of RescueUpgrade; the constants are given in the .cfg files. *)
EXTENDS RescueUpgrade
============================================================================
