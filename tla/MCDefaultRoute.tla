--------------------------- MODULE MCDefaultRoute ---------------------------
(* Instances of DefaultRoute for TLC.                                        *)
EXTENDS DefaultRoute, TLC

Symmetry == Permutations(Scripts) \cup Permutations(Gateways)
=============================================================================
