--------------------------- MODULE MCHotplugMount ---------------------------
(* An instance of HotplugMount for TLC: a stick, sda, that the kernel      *)
(* announces as a whole and as its partition sda1, and a second disk with  *)
(* one partition.                                                          *)
EXTENDS HotplugMount, TLC

CONSTANTS sda, sdb, sda1, sdb1

TwoDisks == (sda :> sda) @@ (sda1 :> sda) @@ (sdb1 :> sdb)

Names == (sda :> {sda, sda1}) @@ (sda1 :> {sda1}) @@ (sdb1 :> {sdb1})
=============================================================================
