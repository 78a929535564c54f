------------------------------ MODULE PointMap ------------------------------
(***************************************************************************)
(* What an exact index promises: a map from labels to points.  Adding a    *)
(* label sets its point, removing it makes the label absent, and a query   *)
(* sees the labels that are present.  An index that is full may refuse a   *)
(* new label.                                                              *)
(***************************************************************************)
CONSTANTS Labels, Points, None

VARIABLE store  \* store[x]: the point of label x, or None

Init == store = [x \in Labels |-> None]

Add(x, p) == store' = [store EXCEPT ![x] = p]
Remove(x) == store' = [store EXCEPT ![x] = None]

Next == \E x \in Labels : Remove(x) \/ \E p \in Points : Add(x, p)

Spec == Init /\ [][Next]_store
=============================================================================
