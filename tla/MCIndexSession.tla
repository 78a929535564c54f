--------------------------- MODULE MCIndexSession ---------------------------
(* Three labels over two slots, the second with a list above the base      *)
(* layer.  The index has two slots, or none when an empty file is loaded   *)
(* without max_elements, so that a call can fail at its first row and at   *)
(* its second.                                                             *)
EXTENDS IndexSession, TLC

MCLabels == 0..2
MCOffset == [i \in 0..2 |-> IF i = 2 THEN 3 ELSE i]
MCSymmetry == Permutations(Values)
=============================================================================
