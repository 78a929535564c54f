-------------------------- MODULE MCVisitedListPool --------------------------
(* Two searches, two elements and tags 0..2, so that a tag wraps around on  *)
(* every second search of a list; one search may lose its list.             *)
EXTENDS VisitedListPool, TLC

MCSymmetry ==
  Permutations(Threads) \cup Permutations(Elements) \cup Permutations(Lists)
=============================================================================
