---------------------------- MODULE MCBruteForce ----------------------------
(* Four labels, three slots and points on a line at three places: the array *)
(* fills up, elements move, and queries meet ties and points of both sides. *)
EXTENDS BruteForce

MCPoints == {-1, 0, 2}
=============================================================================
