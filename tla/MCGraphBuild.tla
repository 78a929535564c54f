--------------------------- MODULE MCGraphBuild ---------------------------
(* Places on a line between which no two distances are the same.           *)
EXTENDS GraphBuild

MCThree == [e \in 0..2 |-> <<0, 5, 7>>[e + 1]]
MCFour  == [e \in 0..3 |-> <<0, 5, 7, 1>>[e + 1]]
=============================================================================
