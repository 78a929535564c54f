----------------------------- MODULE BruteForce -----------------------------
(***************************************************************************)
(* BruteforceSearch (hnswlib/bruteforce.h): an array of points, searched   *)
(* from end to end, and a dictionary from labels to slots of the array.    *)
(* An operation is one step.  BFIndex calls it with the interpreter lock   *)
(* held.  compute_ground_truth adds from several threads, each a label of  *)
(* its own: addPoint claims a slot of its own under index_lock and copies  *)
(* the point into that slot only, and the searches begin when every add    *)
(* has ended, so that they find what adds in the order of the claims leave.*)
(***************************************************************************)
EXTENDS Integers, FiniteSets, SequencesExt

CONSTANTS
  Labels,      \* a set of integers: results of one distance come in label order
  Points,      \* points on a line; queries are points too
  MaxElements, \* maxelements_
  RemoveLast,  \* callers remove the element in the last slot
  None         \* an absent label, an unused slot

ASSUME SizeAssumption == MaxElements \in Nat
ASSUME DataAssumption == Labels \subseteq Int /\ Points \subseteq Int
ASSUME NoneAssumption == None \notin Labels \cup Points \cup Nat

VARIABLES
  slotLabel,  \* the label stored in each slot of data_
  point,      \* the point stored in each slot of data_
  count,      \* cur_element_count
  dict        \* dict_external_to_internal: the slot of a label, or None

vars == <<slotLabel, point, count, dict>>

Slots == 0..(MaxElements - 1)
Used  == 0..(count - 1)

Init ==
  /\ slotLabel = [s \in Slots |-> None]
  /\ point = [s \in Slots |-> None]
  /\ count = 0
  /\ dict = [x \in Labels |-> None]

Store(s, x, p) ==
  /\ slotLabel' = [slotLabel EXCEPT ![s] = x]
  /\ point' = [point EXCEPT ![s] = p]

\* Mutant: the label is not looked up.
AddPointAgain(x, p) ==
  /\ count < MaxElements
  /\ Store(count, x, p)
  /\ dict' = [dict EXCEPT ![x] = count]
  /\ count' = count + 1

(* An index that is full throws on a new label.                            *)
AddPoint(x, p) ==
  \/ /\ dict[x] # None
     /\ Store(dict[x], x, p)
     /\ UNCHANGED <<count, dict>>
  \/ /\ dict[x] = None
     /\ count < MaxElements
     /\ Store(count, x, p)
     /\ dict' = [dict EXCEPT ![x] = count]
     /\ count' = count + 1

\* Mutant: the dictionary still leads to the last slot.
RemovePointUnbound(x) ==
  /\ dict[x] # None
  /\ RemoveLast \/ dict[x] # count - 1
  /\ Store(dict[x], slotLabel[count - 1], point[count - 1])
  /\ dict' = [dict EXCEPT ![x] = None]
  /\ count' = count - 1

(* The element in the last slot moves to the slot of the removed one, which*)
(* is read through the erased iterator (its node is intact in the build).  *)
(* Removing an absent label does nothing; removing from an empty array     *)
(* would read in front of it.                                              *)
RemovePoint(x) ==
  /\ dict[x] # None
  /\ count > 0
  /\ RemoveLast \/ dict[x] # count - 1
  /\ Store(dict[x], slotLabel[count - 1], point[count - 1])
  /\ dict' = [dict EXCEPT ![x] = None, ![slotLabel[count - 1]] = dict[x]]
  /\ count' = count - 1

Next == \E x \in Labels : RemovePoint(x) \/ \E p \in Points : AddPoint(x, p)

Spec == Init /\ [][Next]_vars

-----------------------------------------------------------------------------
(* searchKnn: a scan that keeps the k best results met so far.             *)
Abs(n) == IF n < 0 THEN -n ELSE n
Result(q, s) == <<Abs(point[s] - q), slotLabel[s]>>
Worse(a, b) == a[1] > b[1] \/ (a[1] = b[1] /\ a[2] > b[2])
Top(results) == CHOOSE a \in results : \A b \in results \ {a} : Worse(a, b)

\* Mutant: a better point is never let in once the queue is full.
OfferUnswapped(results, r, k) ==
  IF Cardinality(results) < k THEN results \cup {r} ELSE results

(* The second loop of the scan: lastdist is the distance of the top.       *)
Offer(results, r, k) ==
  IF results # {} /\ r[1] > Top(results)[1] THEN results
  ELSE LET more == results \cup {r} IN
       IF Cardinality(more) > k THEN more \ {Top(more)} ELSE more

SearchKnn(q, k, allowed) ==
  FoldLeft(LAMBDA results, s :
             IF slotLabel[s] \notin allowed THEN results
             ELSE IF s < k THEN results \cup {Result(q, s)}
             ELSE Offer(results, Result(q, s), k),
           {}, [i \in 1..count |-> i - 1])

(* The allowed elements that are present.                                  *)
Candidates(q, allowed) ==
  {Result(q, s) : s \in {u \in Used : slotLabel[u] \in allowed}}

(* At most k of the candidates, and none of the others is closer than one  *)
(* of them; if there are candidates, one at least.                         *)
Closest(results, candidates, k) ==
  /\ results \subseteq candidates
  /\ Cardinality(results) <= k
  /\ \A r \in results, c \in candidates \ results : r[1] <= c[1]
  /\ candidates # {} => results # {}

-----------------------------------------------------------------------------
TypeOK ==
  /\ slotLabel \in [Slots -> Labels \cup {None}]
  /\ point \in [Slots -> Points \cup {None}]
  /\ count \in 0..MaxElements
  /\ dict \in [Labels -> Slots \cup {None}]

(* The dictionary leads to every element a search can return, and to       *)
(* nothing else: no element is out of reach of removePoint.                *)
DictAgrees ==
  /\ \A s \in Used : dict[slotLabel[s]] = s
  /\ \A x \in Labels : dict[x] # None => dict[x] \in Used

(* A search for k of at most count elements returns the closest of those   *)
(* the filter allows, and as many as there are among the first k slots, so *)
(* k of them without a filter.  With one there may be fewer though more are*)
(* allowed: the distance of the worst result bounds the scan before there  *)
(* are k of them.                                                          *)
SearchExact ==
  \A q \in Points, k \in 1..count, allowed \in SUBSET Labels :
    LET found == SearchKnn(q, k, allowed) IN
    /\ Closest(found, Candidates(q, allowed), k)
    /\ Cardinality(found) >= Cardinality({s \in 0..(k - 1) : slotLabel[s] \in allowed})

(* What a search sees is the label map: a removed label is omitted, and an *)
(* added one is there.                                                     *)
Stored(x) ==
  IF \E s \in Used : slotLabel[s] = x
  THEN point[CHOOSE s \in Used : slotLabel[s] = x] ELSE None

Map == INSTANCE PointMap WITH store <- [x \in Labels |-> Stored(x)]
ImplementsMap == Map!Spec
=============================================================================
