---------------------------- MODULE MCLabelSlots ----------------------------
(* Three labels and two slots: the labels outnumber the slots, so that the  *)
(* index fills up and deleted slots are taken over by labels that were      *)
(* never in the index.  The index is one that replaces deleted elements and *)
(* has a mutex for every label, or one that does not and in which two labels*)
(* share a mutex.                                                           *)
EXTENDS LabelSlots, TLC

CONSTANTS a, b, c

MCLabels == {a, b, c}
MCOwnLock == [x \in MCLabels |-> x]
MCSharedLock == [x \in MCLabels |-> IF x = a THEN a ELSE b]
MCSymmetry ==
  Permutations(Threads) \cup Permutations(Values) \cup Permutations({b, c})

(* The index without replacement, constructed with allow_replace_deleted    *)
(* false: elements are revived by unmarkDelete and by addPoint.             *)
Reviving == INSTANCE LabelSlots WITH AllowReplace <- FALSE, LockOf <- MCSharedLock

VARIABLE replacing    \* allow_replace_deleted_ of this index

MCInit == Init /\ replacing \in BOOLEAN
MCNext ==
  /\ replacing' = replacing
  /\ \/ replacing /\ Next
     \/ ~replacing /\ Reviving!Next
MCSpec == MCInit /\ [][MCNext]_<<vars, replacing>>

(* Without replacement the index implements the store that forgets no label *)
(* and refuses a point only for a label that is not in it: a deleted element*)
(* is revived by addPoint, with the new vector, and by unmarkDelete, with   *)
(* the old one, also while another thread waits for the same mutex.         *)
RevivesInPlace ==
  [][~replacing => Reviving!Store!Next]_<<[x \in Labels |-> Element(x)], call, result>>
=============================================================================
