------------------------- MODULE MCBestFirstSearch -------------------------
(* Five elements.  The rings differ in where the near elements lie on the   *)
(* way around, the chords in which far elements open a short cut; a graph   *)
(* has one-way links as well, as pruning leaves them.                       *)
EXTENDS BestFirstSearch

Ring(s)  == [n \in Nodes |-> {1 + ((n - 1 + s) % NumNodes)}]
Chord(t) == [n \in Nodes |-> {IF n = 1 THEN t ELSE 1} \ {n}]
MCGraphs == {[n \in Nodes |-> Ring(s)[n] \cup Chord(t)[n]] : s \in 1..2, t \in {3, 5}}
              \cup {Ring(s) : s \in 2..3}
              \cup {[n \in Nodes |-> {n - 1, n + 1} \cap Nodes]}
=============================================================================
