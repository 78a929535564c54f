----------------------- MODULE BestFirstSearchProofs -----------------------
(***************************************************************************)
(* The search for any number of elements, any graphs, any ef, k, patience, *)
(* epsilon and limit of statistics, and any number of marks changed.       *)
(***************************************************************************)
EXTENDS BestFirstSearch, FiniteSetTheorems, TLAPS

(* The number of elements of S nearer than x decides whether x is nearest. *)
Nearer(S, x) == {y \in S : y < x}

-----------------------------------------------------------------------------
(* A set of elements is finite, and so is the set of the nearer ones.      *)
LEMMA NodeSets ==
  ASSUME NEW S \in SUBSET Nodes
  PROVE  /\ IsFiniteSet(S) /\ Cardinality(S) \in Nat
         /\ Cardinality(S) <= NumNodes
         /\ \A T \in SUBSET S : Cardinality(T) \in Nat /\ Cardinality(T) <= Cardinality(S)
<1>1. IsFiniteSet(Nodes) /\ Cardinality(Nodes) = NumNodes
  <2>1. NumNodes \in Nat
    BY SizeAssumption
  <2>2. 1 \in Int /\ NumNodes \in Int
    BY <2>1
  <2>3. IsFiniteSet(1..NumNodes)
        /\ Cardinality(1..NumNodes) = IF 1 > NumNodes THEN 0 ELSE NumNodes - 1 + 1
    BY <2>2, FS_Interval
  <2> QED
    BY <2>1, <2>3 DEF Nodes
<1>2. IsFiniteSet(S) /\ Cardinality(S) <= Cardinality(Nodes)
  BY <1>1, FS_Subset
<1>3. \A T \in SUBSET S : IsFiniteSet(T) /\ Cardinality(T) <= Cardinality(S)
  BY <1>2, FS_Subset
<1> QED
  BY <1>1, <1>2, <1>3, FS_CardinalityType

LEMMA NodesAreNat == NumNodes \in Nat /\ \A x \in Nodes : x \in Nat
<1>1. NumNodes \in Nat
  BY SizeAssumption
<1> QED
  BY <1>1 DEF Nodes

(* A set of elements that is not empty has a nearest one.                  *)
LEMMA Least ==
  ASSUME NEW S \in SUBSET Nat, S # {}
  PROVE  \E x \in S : \A y \in S : x <= y
<1> DEFINE Below == {Nearer(S, x) : x \in S}
           R == StrictSubsetOrdering(Nat)
<1>1. \A x \in S : Nearer(S, x) \in FiniteSubsetsOf(Nat)
  <2> TAKE x \in S
  <2>0. \A y \in Nearer(S, x) : y \in S /\ y < x
    BY DEF Nearer
  <2>1. x \in Nat /\ \A y \in S : y \in Nat /\ (y < x => y <= x)
    OBVIOUS
  <2>2. Nearer(S, x) \in SUBSET Nat /\ \A y \in Nearer(S, x) : y <= x
    BY <2>0, <2>1
  <2>3. IsFiniteSet(Nearer(S, x))
    BY <2>1, <2>2, FS_BoundedSetOfNaturals
  <2> QED
    BY <2>2, <2>3 DEF FiniteSubsetsOf
<1>2. Below \subseteq FiniteSubsetsOf(Nat) /\ Below # {}
  BY <1>1
<1>3. IsWellFoundedOn(R, FiniteSubsetsOf(Nat))
  BY FS_StrictSubsetOrderingWellFounded
<1> HIDE DEF Below, R
<1>4. PICK B \in Below : \A C \in Below : ~ (<<C, B>> \in R)
  BY <1>2, <1>3, WFMin
<1>5. PICK x \in S : B = Nearer(S, x)
  BY <1>4 DEF Below
<1>6. ASSUME NEW y \in S, y < x PROVE FALSE
  <2>1. Nearer(S, y) \subseteq Nearer(S, x) /\ y \in Nearer(S, x) /\ y \notin Nearer(S, y)
    <3>1. \A z : z \in Nearer(S, y) <=> z \in S /\ z < y
      BY DEF Nearer
    <3>2. \A z : z \in Nearer(S, x) <=> z \in S /\ z < x
      BY DEF Nearer
    <3>3. \A z \in S : z \in Nat /\ (z < y => z < x) /\ ~(y < y)
      BY <1>6
    <3> QED
      BY <1>6, <3>1, <3>2, <3>3
  <2>2. Nearer(S, y) \in Below
    BY DEF Below
  <2>3. <<Nearer(S, y), B>> \in R
    BY <2>1, <1>5 DEF R, StrictSubsetOrdering, Nearer
  <2> QED
    BY <2>2, <2>3, <1>4
<1> QED
  BY <1>6

(* A set of elements that is not empty has a farthest one, and Max is it.  *)
LEMMA Most ==
  ASSUME NEW S \in SUBSET Nodes, S # {}
  PROVE  Max(S) \in S /\ \A y \in S : y <= Max(S)
<1> DEFINE U == {u \in Nat : \A y \in S : y <= u}
<1>0. NumNodes \in Nat
  BY SizeAssumption
<1>1. U \in SUBSET Nat /\ NumNodes \in U
  BY <1>0 DEF Nodes
<1>2. PICK u \in U : \A w \in U : u <= w
  BY <1>1, Least
<1>3. u \in S
  <2> SUFFICES ASSUME u \notin S PROVE FALSE
    OBVIOUS
  <2>1. \A y \in S : y \in Int /\ y >= 1 /\ y < u
    BY <1>0, <1>2 DEF Nodes
  <2>2. u - 1 \in U
    BY <2>1, <1>2
  <2> QED
    BY <2>2, <1>2
<1>4. \E m \in S : \A y \in S : m >= y
  BY <1>0, <1>2, <1>3 DEF Nodes
<1>5. Max(S) \in S /\ \A y \in S : Max(S) >= y
  BY <1>4 DEF Max
<1> QED
  BY <1>5, <1>0 DEF Nodes

LEMMA MinOfTwo ==
  ASSUME NEW a \in Int, NEW b \in Int
  PROVE  Min({a, b}) = IF a <= b THEN a ELSE b
<1>1. \E m \in {a, b} : \A y \in {a, b} : m <= y
  OBVIOUS
<1>2. Min({a, b}) \in {a, b} /\ \A y \in {a, b} : Min({a, b}) <= y
  BY <1>1 DEF Min
<1> QED
  BY <1>2

-----------------------------------------------------------------------------
(* What trimming a heap leaves is closed towards the query: an element     *)
(* nearer than one that is left is left too.                               *)
LEMMA NearestClosed ==
  ASSUME NEW S \in SUBSET Nodes, NEW m \in Int, NEW x \in Nearest(S, m)
  PROVE  Nearer(Nearest(S, m), x) = Nearer(S, x)
<1>1. NumNodes \in Nat
  BY SizeAssumption
<1>2. ASSUME NEW y \in Nearer(S, x) PROVE y \in Nearest(S, m)
  <2>1. y \in S /\ x \in S /\ y < x /\ x \in Int /\ y \in Int
    BY <1>1, <1>2 DEF Nearer, Nearest, Nodes
  <2>2. Nearer(S, y) \in SUBSET Nearer(S, x) /\ Nearer(S, x) \in SUBSET Nodes
    <3>1. \A z : z \in Nearer(S, y) <=> z \in S /\ z < y
      BY DEF Nearer
    <3>2. \A z : z \in Nearer(S, x) <=> z \in S /\ z < x
      BY DEF Nearer
    <3>3. \A z \in S : z \in Nat /\ (z < y => z < x)
      BY <2>1, NodesAreNat
    <3> QED
      BY <3>1, <3>2, <3>3
  <2>3. Cardinality(Nearer(S, y)) <= Cardinality(Nearer(S, x))
        /\ Cardinality(Nearer(S, y)) \in Nat /\ Cardinality(Nearer(S, x)) \in Nat
    BY <2>2, NodeSets
  <2>4. Cardinality(Nearer(S, x)) < m
    BY DEF Nearest, Nearer
  <2>5. Cardinality(Nearer(S, y)) < m
    BY <2>3, <2>4
  <2> QED
    BY <2>1, <2>5 DEF Nearest, Nearer
<1>3. Nearer(Nearest(S, m), x) \subseteq Nearer(S, x)
  BY DEF Nearer, Nearest
<1>4. Nearer(S, x) \subseteq Nearer(Nearest(S, m), x)
  BY <1>2 DEF Nearer
<1> QED
  BY <1>3, <1>4

(* Trimming twice is trimming to the smaller size.                         *)
LEMMA TrimTwice ==
  ASSUME NEW S \in SUBSET Nodes, NEW m \in Int, NEW k \in Int
  PROVE  Nearest(Nearest(S, m), k) = Nearest(S, IF k <= m THEN k ELSE m)
<1> DEFINE N == Nearest(S, m)
           j == IF k <= m THEN k ELSE m
<1>1. N \in SUBSET S
  BY DEF Nearest
<1>2. \A x \in S : Nearer(S, x) \in SUBSET Nodes
  BY DEF Nearer
<1>3. \A x \in S : Cardinality(Nearer(S, x)) \in Nat
  BY <1>2, NodeSets
<1>4. \A x \in N : Nearer(N, x) = Nearer(S, x)
  BY NearestClosed
<1>5. \A x : x \in N <=> x \in S /\ Cardinality(Nearer(S, x)) < m
  BY DEF Nearest, Nearer
<1>6. \A x : x \in Nearest(N, k) <=> x \in N /\ Cardinality(Nearer(N, x)) < k
  BY DEF Nearest, Nearer
<1>7. \A x : x \in Nearest(S, j) <=> x \in S /\ Cardinality(Nearer(S, x)) < j
  BY DEF Nearest, Nearer
<1>8. \A x : x \in Nearest(N, k) <=> x \in Nearest(S, j)
  <2> HIDE DEF N
  <2>1. \A x : x \in Nearest(N, k) <=> x \in N /\ Cardinality(Nearer(S, x)) < k
    BY <1>4, <1>6
  <2>2. \A x : x \in Nearest(N, k) <=> x \in S /\ Cardinality(Nearer(S, x)) < m
                                       /\ Cardinality(Nearer(S, x)) < k
    BY <2>1, <1>5
  <2>3. \A x \in S : Cardinality(Nearer(S, x)) < j <=>
          Cardinality(Nearer(S, x)) < m /\ Cardinality(Nearer(S, x)) < k
    BY <1>3
  <2> QED
    BY <2>2, <2>3, <1>7
<1> QED
  BY <1>8 DEF Nearest

(* An element that is farther than m kept ones changes nothing.            *)
LEMMA RefuseFar ==
  ASSUME NEW S \in SUBSET Nodes, NEW m \in Int, NEW n \in Nodes \ S,
         Cardinality(Nearest(S, m)) >= m,
         \A x \in Nearest(S, m) : x < n
  PROVE  Nearest(S \cup {n}, m) = Nearest(S, m)
<1> DEFINE T == S \cup {n}
<1>1. NumNodes \in Nat /\ T \in SUBSET Nodes
  BY SizeAssumption
<1>2. \A x \in T : Nearer(T, x) \in SUBSET Nodes /\ Nearer(S, x) \in SUBSET Nearer(T, x)
  BY <1>1 DEF Nearer
<1>3. \A x \in T : /\ Cardinality(Nearer(T, x)) \in Nat
                   /\ Cardinality(Nearer(S, x)) \in Nat
                   /\ Cardinality(Nearer(S, x)) <= Cardinality(Nearer(T, x))
  BY <1>2, NodeSets
<1>4. \A x : x \in Nearest(S, m) <=> x \in S /\ Cardinality(Nearer(S, x)) < m
  BY DEF Nearest, Nearer
<1>5. \A x : x \in Nearest(T, m) <=> x \in T /\ Cardinality(Nearer(T, x)) < m
  BY DEF Nearest, Nearer
<1>6. n \notin Nearest(T, m)
  <2>1. Nearest(S, m) \in SUBSET Nearer(T, n)
    BY <1>1, <1>4 DEF Nearer
  <2>2. Cardinality(Nearest(S, m)) <= Cardinality(Nearer(T, n))
        /\ Cardinality(Nearest(S, m)) \in Nat
    BY <2>1, <1>2, NodeSets
  <2> QED
    BY <2>2, <1>3, <1>5
<1>7. ASSUME NEW x \in Nearest(S, m) PROVE x \in Nearest(T, m)
  <2>1. Nearer(T, x) = Nearer(S, x)
    <3>1. x < n /\ x \in Nat /\ n \in Nat
      BY <1>4, <1>7, NodesAreNat
    <3>2. ~(n < x)
      BY <3>1
    <3> QED
      BY <3>2 DEF Nearer
  <2> QED
    BY <2>1, <1>4, <1>5, <1>7
<1>8. ASSUME NEW x \in Nearest(T, m) PROVE x \in Nearest(S, m)
  BY <1>3, <1>4, <1>5, <1>6, <1>8
<1> QED
  BY <1>7, <1>8

(* A heap that was trimmed before an element entered and is trimmed again  *)
(* holds what one trimmed only now would hold.                             *)
LEMMA AdmitNew ==
  ASSUME NEW S \in SUBSET Nodes, NEW m \in Int, NEW n \in Nodes \ S
  PROVE  Nearest(Nearest(S, m) \cup {n}, m) = Nearest(S \cup {n}, m)
<1> DEFINE N == Nearest(S, m)
           A == N \cup {n}
           T == S \cup {n}
<1>1. NumNodes \in Nat /\ T \in SUBSET Nodes /\ A \in SUBSET T /\ N \in SUBSET S
  BY SizeAssumption DEF Nearest
<1>2. \A x \in T : /\ Nearer(T, x) \in SUBSET Nodes /\ Nearer(A, x) \in SUBSET Nearer(T, x)
                   /\ Nearer(S, x) \in SUBSET Nearer(T, x)
  BY <1>1 DEF Nearer
<1>3. \A x \in T : /\ Cardinality(Nearer(T, x)) \in Nat
                   /\ Cardinality(Nearer(A, x)) \in Nat
                   /\ Cardinality(Nearer(S, x)) \in Nat
                   /\ Cardinality(Nearer(A, x)) <= Cardinality(Nearer(T, x))
                   /\ Cardinality(Nearer(S, x)) <= Cardinality(Nearer(T, x))
  BY <1>2, NodeSets
<1>4. \A x : x \in N <=> x \in S /\ Cardinality(Nearer(S, x)) < m
  BY DEF Nearest, Nearer
<1>5. \A x : x \in Nearest(A, m) <=> x \in A /\ Cardinality(Nearer(A, x)) < m
  BY DEF Nearest, Nearer
<1>6. \A x : x \in Nearest(T, m) <=> x \in T /\ Cardinality(Nearer(T, x)) < m
  BY DEF Nearest, Nearer
<1>7. \A x \in N : Nearer(N, x) = Nearer(S, x)
  BY NearestClosed
<1> HIDE DEF N
<1>8. ASSUME NEW x \in Nearest(T, m) PROVE x \in Nearest(A, m)
  <2>1. x \in T /\ Cardinality(Nearer(T, x)) < m
    BY <1>6, <1>8
  <2>2. x \in A
    BY <2>1, <1>3, <1>4
  <2> QED
    BY <2>1, <2>2, <1>3, <1>5
<1>9. ASSUME NEW x \in Nearest(A, m) PROVE x \in Nearest(T, m)
  <2>1. x \in A /\ Cardinality(Nearer(A, x)) < m
    BY <1>5, <1>9
  <2>2. CASE x \in N
    <3>1. Nearer(A, x) = Nearer(T, x)
      BY <2>2, <1>7 DEF Nearer
    <3> QED
      BY <2>1, <3>1, <1>1, <1>6
  <2>3. CASE x = n
    <3>1. Nearer(S, n) \subseteq N
      <4> SUFFICES ASSUME Nearer(S, n) \ N # {} PROVE FALSE
        OBVIOUS
      <4>1. Nearer(S, n) \ N \in SUBSET Nat
        BY <1>1, NodesAreNat DEF Nearer
      <4>2. PICK y \in Nearer(S, n) \ N : \A z \in Nearer(S, n) \ N : y <= z
        BY <4>1, Least
      <4>3. y \in S /\ y < n /\ y \in Nat /\ n \in Nat
        BY <1>1, <4>2 DEF Nearer, Nodes
      <4>4. Nearer(S, y) \in SUBSET Nearer(A, n)
        <5> SUFFICES ASSUME NEW z \in Nearer(S, y) PROVE z \in N /\ z < n
          BY DEF Nearer
        <5>1. z \in S /\ z \in Nat /\ z < y /\ z < n
          BY <4>3, <1>1, NodesAreNat DEF Nearer
        <5>2. z \in Nearer(S, n)
          BY <5>1 DEF Nearer
        <5>3. ~(y <= z)
          BY <5>1, <4>3
        <5> QED
          BY <5>1, <5>2, <5>3, <4>2
      <4>5. Nearer(A, n) \in SUBSET Nodes
        BY <1>1 DEF Nearer
      <4>6. Cardinality(Nearer(S, y)) <= Cardinality(Nearer(A, n))
        BY <4>4, <4>5, NodeSets
      <4>7. Cardinality(Nearer(S, y)) \in Nat /\ y \notin N
        BY <4>2, <4>3, <1>3
      <4> QED
        BY <4>3, <4>6, <4>7, <1>3, <1>4, <2>1, <2>3
    <3>2. Nearer(A, n) = Nearer(T, n)
      BY <3>1, <1>1 DEF Nearer, Nodes
    <3> QED
      BY <2>1, <2>3, <3>2, <1>6
  <2> QED
    BY <2>1, <2>2, <2>3
<1>10. Nearest(A, m) = Nearest(T, m)
  BY <1>8, <1>9
<1> QED
  BY <1>10 DEF N
-----------------------------------------------------------------------------
(* While statistics are collected nothing is trimmed; an element is seen   *)
(* only when it is visited; no result is farther than the bound.           *)
CollectInv == collecting => ef = Unlimited
SeenInv    == seen \subseteq visited
BoundInv   == pc # "done" => \A x \in top : x <= bound

(* A search that goes on has not been stable for long enough.              *)
StableInv  == pc # "done" => stable < Patience

(* What was found admissible had been shown by then.                       *)
ShownInv   == Nodes \ hidden \subseteq everShown /\ (bare \/ seen \subseteq everShown)

IInv == TypeOK /\ BestSeen /\ CollectInv /\ SeenInv /\ BoundInv /\ StableInv /\ ShownInv

LEMMA Constants ==
  /\ NumNodes \in Nat /\ K \in Nat /\ K >= 1 /\ MaxMarks \in Nat /\ MinItems \in Nat
  /\ Patience \in Nat /\ Patience >= 1 /\ Epsilon \in Int
  /\ Unlimited \in Nat /\ Infinity \in Nat
  /\ Unlimited = NumNodes + 1 /\ Infinity = NumNodes + 1
  /\ Efs \subseteq 1..Unlimited
<1>1. NumNodes \in Nat /\ K \in Nat /\ MaxMarks \in Nat /\ MinItems \in Nat
  BY SizeAssumption
<1>2. Patience \in Nat /\ Patience >= 1 /\ Epsilon \in Int
  BY PatienceAssumption
<1>3. K >= 1 /\ Efs \subseteq 1..NumNodes
  BY EfAssumption
<1> QED
  BY <1>1, <1>2, <1>3 DEF Unlimited, Infinity

LEMMA NearestType ==
  ASSUME NEW S \in SUBSET Nodes, NEW m
  PROVE  Nearest(S, m) \in SUBSET Nodes /\ Nearest(S, m) \subseteq S
BY DEF Nearest

(* The bound taken from the results is an element or the bound before.     *)
LEMMA FarthestBounds ==
  ASSUME NEW S \in SUBSET Nodes, NEW b \in 1..Infinity
  PROVE  Farthest(S, b) \in 1..Infinity /\ \A x \in S : x <= Farthest(S, b)
<1>1. CASE S = {}
  BY <1>1 DEF Farthest
<1>2. CASE S # {}
  <2>1. Max(S) \in Nodes /\ \A x \in S : x <= Max(S)
    BY <1>2, Most
  <2>2. Nodes \subseteq 1..Infinity
    BY Constants DEF Nodes
  <2> QED
    BY <1>2, <2>1, <2>2 DEF Farthest
<1> QED
  BY <1>1, <1>2

(* The invariant before the end, for the steps that only hand it on.       *)
LEMMA Running ==
  ASSUME IInv, pc # "done"
  PROVE  /\ top = Nearest(seen, ef) /\ ef \in Int /\ ef >= 1
         /\ {top, cand, visited, rest, prev, seen, everHidden, everShown} \subseteq SUBSET Nodes
<1>1. top = Nearest(seen, ef) \cap Nodes /\ seen \in SUBSET Nodes
  BY DEF IInv, BestSeen, Wanted, InScope, TypeOK
<1>2. Nearest(seen, ef) \in SUBSET Nodes
  BY <1>1, NearestType
<1>3. ef \in Int /\ ef >= 1
  BY Constants DEF IInv, TypeOK
<1> QED
  BY <1>1, <1>2, <1>3 DEF IInv, TypeOK

-----------------------------------------------------------------------------
THEOREM Initially == Init => IInv
<1> SUFFICES ASSUME Init PROVE IInv
  OBVIOUS
<1> USE DEF Init
<1>1. ef \in 1..Unlimited /\ bound \in 1..Infinity /\ stable \in 0..Patience /\ marks \in 0..MaxMarks
  BY Constants
<1>2. TypeOK
  BY <1>1 DEF TypeOK
<1>3. BestSeen
  BY DEF BestSeen, Wanted, InScope, Nearest
<1>4. CollectInv /\ SeenInv /\ BoundInv /\ StableInv /\ ShownInv
  BY Constants DEF CollectInv, SeenInv, BoundInv, StableInv, ShownInv
<1> QED
  BY <1>2, <1>3, <1>4 DEF IInv

LEMMA StartStep == ASSUME IInv, Start PROVE IInv'
<1> USE DEF Start, request, history
<1> DEFINE A == {entry} \cap {n \in Nodes : Admissible(n)}
<1>0. entry \in Nodes /\ A \in SUBSET Nodes /\ A = (IF Admissible(entry) THEN {entry} ELSE {})
  BY DEF IInv, TypeOK
<1>1. TypeOK'
  <2>1. bound' \in 1..Infinity /\ ef' \in 1..Unlimited
    BY <1>0, Constants DEF IInv, TypeOK, Nodes
  <2>2. evals' \in Nat
    <3>1. Cardinality(A) \in Nat
      BY <1>0, NodeSets
    <3> QED
      BY <3>1
  <2> QED
    BY <1>0, <2>1, <2>2 DEF IInv, TypeOK
<1>2. BestSeen'
  <2>1. ef' \in Int /\ ef' >= 1
    BY Constants DEF IInv, TypeOK
  <2>2. \A x \in A : Nearer(A, x) = {}
    BY <1>0, NodesAreNat DEF Nearer
  <2>3. \A x \in A : Cardinality(Nearer(A, x)) < ef'
    BY <2>1, <2>2, FS_EmptySet
  <2>4. Nearest(A, ef') = A
    BY <2>3 DEF Nearest, Nearer
  <2>5. Wanted' = ef' /\ InScope' = Nodes
    BY DEF Wanted, InScope
  <2>6. BestSeen' <=> top' = Nearest(seen', Wanted') \cap InScope'
    BY DEF BestSeen, Nearest
  <2> QED
    BY <1>0, <2>4, <2>5, <2>6
<1>3. CollectInv' /\ SeenInv' /\ StableInv'
  BY DEF IInv, CollectInv, SeenInv, StableInv
<1>4. BoundInv'
  BY <1>0, NodesAreNat DEF BoundInv
<1>5. ShownInv'
  BY <1>0 DEF IInv, ShownInv, Admissible
<1> QED
  BY <1>1, <1>2, <1>3, <1>4, <1>5 DEF IInv

LEMMA MarkStep == ASSUME IInv, NEW n \in Nodes, Mark(n) PROVE IInv'
<1> USE DEF Mark, request
<1>1. TypeOK'
  <2>1. marks' \in 0..MaxMarks
    BY Constants DEF IInv, TypeOK
  <2> QED
    BY <2>1 DEF IInv, TypeOK
<1>2. BestSeen'
  BY DEF IInv, BestSeen, Wanted, InScope, Nearest
<1>3. CollectInv' /\ SeenInv' /\ BoundInv' /\ StableInv'
  BY DEF IInv, CollectInv, SeenInv, BoundInv, StableInv
<1>4. ShownInv'
  BY DEF IInv, ShownInv
<1> QED
  BY <1>1, <1>2, <1>3, <1>4 DEF IInv

LEMMA ExpandStep == ASSUME IInv, Expand PROVE IInv'
<1> USE DEF Expand, request, history
<1>1. PICK c \in cand : rest' = links[c] /\ cand' = cand \ {c}
  <2>1. cand \in SUBSET Nodes /\ cand # {}
    BY DEF IInv, TypeOK
  <2>2. Min(cand) \in cand
    <3>1. cand \in SUBSET Nat
      BY <2>1, NodesAreNat
    <3>2. \E m \in cand : \A y \in cand : m <= y
      BY <2>1, <3>1, Least
    <3> QED
      BY <3>2 DEF Min
  <2> QED
    BY <2>2
<1>2. TypeOK'
  <2>1. c \in Nodes /\ links \in [Nodes -> SUBSET Nodes]
    BY <1>1, GraphAssumption DEF IInv, TypeOK
  <2>2. rest' \in SUBSET Nodes
    BY <1>1, <2>1
  <2> QED
    BY <1>1, <2>2 DEF IInv, TypeOK
<1>3. BestSeen'
  BY DEF IInv, BestSeen, Wanted, InScope, Nearest
<1>4. CollectInv' /\ SeenInv' /\ BoundInv' /\ StableInv' /\ ShownInv'
  BY DEF IInv, CollectInv, SeenInv, BoundInv, StableInv, ShownInv
<1> QED
  BY <1>2, <1>3, <1>4 DEF IInv

LEMMA EndExpansionStep == ASSUME IInv, EndExpansion PROVE IInv'
<1> USE DEF EndExpansion, request, history
<1>1. TypeOK'
  BY DEF IInv, TypeOK
<1>2. BestSeen'
  BY DEF IInv, BestSeen, Wanted, InScope, Nearest
<1>3. CollectInv' /\ SeenInv' /\ BoundInv' /\ StableInv' /\ ShownInv'
  BY DEF IInv, CollectInv, SeenInv, BoundInv, StableInv, ShownInv
<1> QED
  BY <1>1, <1>2, <1>3 DEF IInv

(* The results handed to the caller are the best of what was seen.         *)
LEMMA Handed ==
  ASSUME IInv, pc # "done", top' = Result, pc' = "done",
         UNCHANGED <<mode, ef, seen, visited>>
  PROVE  BestSeen' /\ top' \in SUBSET Nodes /\ top' \subseteq top
<1>1. top = Nearest(seen, ef) /\ top \in SUBSET Nodes /\ seen \in SUBSET Nodes
      /\ ef \in Int
  BY Running
<1>2. BestSeen' <=> top' = Nearest(seen, Wanted') \cap InScope'
  BY DEF BestSeen, Nearest
<1>3. CASE mode = "epsilon"
  <2>1. Wanted' = ef /\ InScope' = Nodes \cap 1..Epsilon
    BY <1>3 DEF Wanted, InScope
  <2>2. top' = {n \in top : n <= Epsilon}
    BY <1>3 DEF Result
  <2>3. \A n \in Nodes : n \in 1..Epsilon <=> n <= Epsilon
    BY Constants DEF Nodes
  <2> QED
    BY <1>1, <1>2, <2>1, <2>2, <2>3
<1>4. CASE mode # "epsilon"
  <2>1. Wanted' = (IF K <= ef THEN K ELSE ef)
    BY <1>1, <1>4, MinOfTwo, Constants DEF Wanted
  <2>2. InScope' = Nodes
    BY <1>4 DEF InScope
  <2>3. top' = Nearest(Nearest(seen, ef), K)
    BY <1>1, <1>4 DEF Result
  <2>4. top' = Nearest(seen, IF K <= ef THEN K ELSE ef)
    BY <1>1, <2>3, TrimTwice, Constants
  <2>5. top' \in SUBSET Nodes /\ top' \subseteq top
    BY <1>1, <1>4, NearestType DEF Result
  <2> QED
    BY <1>2, <2>1, <2>2, <2>4, <2>5
<1> QED
  BY <1>3, <1>4

LEMMA CompareTopKStep == ASSUME IInv, CompareTopK PROVE IInv'
<1> USE DEF CompareTopK, request, history
<1> DEFINE current == Nearest(top, K)
<1>1. current \in SUBSET Nodes /\ pc # "done"
  BY NearestType DEF IInv, TypeOK
<1>2. CASE pc' = "done"
  <2>1. top' = Result /\ prev' = prev
    BY <1>2
  <2>2. BestSeen' /\ top' \in SUBSET Nodes
    BY <1>1, <1>2, <2>1, Handed
  <2>3. stable' \in 0..Patience
    BY <1>1, Constants DEF IInv, TypeOK, StableInv
  <2>4. TypeOK'
    BY <1>2, <2>1, <2>2, <2>3 DEF IInv, TypeOK
  <2>5. CollectInv' /\ SeenInv' /\ BoundInv' /\ StableInv' /\ ShownInv'
    BY <1>2 DEF IInv, CollectInv, SeenInv, BoundInv, StableInv, ShownInv
  <2> QED
    BY <2>2, <2>4, <2>5 DEF IInv
<1>3. CASE pc' # "done"
  <2>1. pc' = "loop" /\ top' = top /\ prev' = current /\ ~(stable' >= Patience)
    BY <1>3
  <2>2. stable' \in 0..Patience /\ stable' < Patience
    BY <2>1, Constants DEF IInv, TypeOK
  <2>3. TypeOK'
    BY <1>1, <2>1, <2>2 DEF IInv, TypeOK
  <2>4. BestSeen'
    BY <2>1, <1>1 DEF IInv, BestSeen, Wanted, InScope, Nearest
  <2>5. CollectInv' /\ SeenInv' /\ BoundInv' /\ StableInv' /\ ShownInv'
    BY <2>1, <2>2, <1>1 DEF IInv, CollectInv, SeenInv, BoundInv, StableInv, ShownInv
  <2> QED
    BY <2>3, <2>4, <2>5 DEF IInv
<1> QED
  BY <1>2, <1>3

LEMMA FinishStep == ASSUME IInv, Finish PROVE IInv'
<1> USE DEF Finish, request, history
<1>1. BestSeen' /\ top' \in SUBSET Nodes
  BY Handed
<1>2. TypeOK'
  BY <1>1 DEF IInv, TypeOK
<1>3. CollectInv' /\ SeenInv' /\ BoundInv' /\ StableInv' /\ ShownInv'
  BY DEF IInv, CollectInv, SeenInv, BoundInv, StableInv, ShownInv
<1> QED
  BY <1>1, <1>2, <1>3 DEF IInv

(* Visiting a new element keeps the results the best of what was seen.     *)
LEMMA VisitStep ==
  ASSUME IInv, pc = "scan", NEW n \in Nodes \ visited, NEW e \in 1..Unlimited,
         NEW b \in 1..Infinity, NEW t,
         t = Nearest(seen, e), \A x \in t : x <= b,
         collecting => evals + 1 \in Nat,
         Visit(n, t, b, e)
  PROVE  /\ top' = Nearest(seen', e)
         /\ {top', seen', cand', visited'} \subseteq SUBSET Nodes
         /\ bound' \in 1..Infinity /\ \A x \in top' : x <= bound'
         /\ seen' \subseteq visited'
         /\ bare \/ seen' \subseteq seen \cup (Nodes \ hidden)
<1> USE DEF Visit
<1>0. /\ {seen, cand, visited} \subseteq SUBSET Nodes /\ n \notin seen /\ seen \subseteq visited
      /\ e \in Int
  BY Constants DEF IInv, TypeOK, SeenInv
<1>1. t \in SUBSET Nodes
  BY <1>0, NearestType
<1>2. /\ {seen', visited'} \subseteq SUBSET Nodes /\ seen' \subseteq visited'
      /\ bare \/ seen' \subseteq seen \cup (Nodes \ hidden)
      /\ seen' = seen \cup {n} \/ seen' = seen
  BY <1>0 DEF Admissible
<1>3. CASE Considered(n, t, b, e)
  <2>1. /\ cand' = cand \cup {n} /\ top' = Nearest(t \cup (seen' \cap {n}), e)
        /\ bound' = Farthest(top', b)
    BY <1>3
  <2>2. top' = Nearest(seen', e)
    <3>1. CASE seen' = seen
      <4>1. t \cup (seen' \cap {n}) = Nearest(seen, e)
        BY <1>0, <3>1
      <4>2. Nearest(Nearest(seen, e), e) = Nearest(seen, IF e <= e THEN e ELSE e)
        BY <1>0, TrimTwice
      <4> QED
        BY <2>1, <3>1, <4>1, <4>2
    <3>2. CASE seen' = seen \cup {n}
      <4>1. t \cup (seen' \cap {n}) = Nearest(seen, e) \cup {n}
        BY <3>2
      <4>2. n \in Nodes \ seen /\ seen \in SUBSET Nodes
        BY <1>0
      <4>3. Nearest(Nearest(seen, e) \cup {n}, e) = Nearest(seen \cup {n}, e)
        BY <1>0, <4>2, AdmitNew
      <4> QED
        BY <2>1, <3>2, <4>1, <4>3
    <3> QED
      BY <1>2, <3>1, <3>2
  <2>3. top' \in SUBSET Nodes
    BY <1>2, <2>2, NearestType
  <2>4. bound' \in 1..Infinity /\ \A x \in top' : x <= bound'
    BY <2>1, <2>3, FarthestBounds
  <2> QED
    BY <1>0, <1>2, <2>1, <2>2, <2>3, <2>4
<1>4. CASE ~Considered(n, t, b, e)
  <2>1. cand' = cand /\ top' = t /\ bound' = b
    BY <1>4
  <2>2. ~(Cardinality(t) < e) /\ ~(b > n)
    BY <1>4 DEF Considered
  <2>3. Cardinality(t) >= e
    BY <1>0, <1>1, <2>2, NodeSets
  <2>4. \A x \in t : x < n
    <3> TAKE x \in t
    <3>1. x \in seen /\ x \in Int /\ n \in Int /\ b \in Int /\ x # n /\ x <= b
      BY <1>0, <1>1, NodesAreNat, NearestType
    <3> QED
      BY <2>2, <3>1
  <2>5. Nearest(seen \cup {n}, e) = Nearest(seen, e)
    BY <1>0, <2>3, <2>4, RefuseFar
  <2>6. top' = Nearest(seen', e)
    BY <1>2, <2>1, <2>5
  <2> QED
    BY <1>0, <1>1, <1>2, <2>1, <2>6
<1> QED
  BY <1>3, <1>4

LEMMA ScanStep == ASSUME IInv, NEW n \in Nodes, Scan(n) PROVE IInv'
<1> DEFINE t == IF CompletesStats THEN Nearest(top, ef') ELSE top
           b == IF CompletesStats THEN Farthest(t, bound) ELSE bound
<1>0. /\ pc = "scan" /\ n \in rest /\ rest' = rest \ {n}
      /\ evals' = (IF collecting THEN evals + 1 ELSE evals)
      /\ collecting' = (collecting /\ ~CompletesStats)
      /\ ef' \in (IF CompletesStats THEN Efs ELSE {ef})
      /\ IF n \in visited
         THEN top' = t /\ bound' = b /\ UNCHANGED <<cand, visited, seen>>
         ELSE Visit(n, t, b, ef')
      /\ UNCHANGED <<request, hidden, prev, stable, pc, history>>
  BY DEF Scan
<1>1. /\ top = Nearest(seen, ef) /\ ef \in Int
      /\ {top, cand, visited, rest, prev, seen, everHidden, everShown} \subseteq SUBSET Nodes
  BY <1>0, Running
<1>2. ef' \in 1..Unlimited /\ ef' \in Int
  BY <1>0, Constants DEF IInv, TypeOK
<1>3. t = Nearest(seen, ef')
  <2>1. CASE ~CompletesStats
    BY <1>0, <1>1, <2>1
  <2>2. CASE CompletesStats
    <3>1. ef = Unlimited /\ ef' <= ef
      BY <1>2, <2>2, Constants DEF IInv, CollectInv, CompletesStats
    <3>2. Nearest(Nearest(seen, ef), ef') = Nearest(seen, IF ef' <= ef THEN ef' ELSE ef)
      BY <1>1, <1>2, TrimTwice
    <3> QED
      BY <1>1, <2>2, <3>1, <3>2
  <2> QED
    BY <2>1, <2>2
<1>4. t \in SUBSET Nodes
  BY <1>1, <1>3, NearestType
<1>5. b \in 1..Infinity /\ \A x \in t : x <= b
  <2>1. bound \in 1..Infinity /\ \A x \in top : x <= bound
    BY <1>0 DEF IInv, TypeOK, BoundInv
  <2> QED
    BY <2>1, <1>4, FarthestBounds
<1>6. evals' \in Nat /\ (collecting => evals + 1 \in Nat) /\ collecting' \in BOOLEAN
  BY <1>0 DEF IInv, TypeOK
<1> HIDE DEF t, b
<1>7. /\ top' = Nearest(seen', ef')
      /\ {top', seen', cand', visited'} \subseteq SUBSET Nodes
      /\ bound' \in 1..Infinity /\ \A x \in top' : x <= bound'
      /\ seen' \subseteq visited'
      /\ bare \/ seen' \subseteq seen \cup (Nodes \ hidden)
  <2>1. CASE n \in visited
    BY <1>0, <1>1, <1>3, <1>4, <1>5, <2>1 DEF IInv, SeenInv
  <2>2. CASE n \notin visited
    <3>1. n \in Nodes \ visited /\ Visit(n, t, b, ef')
      BY <1>0, <2>2
    <3> QED
      BY <1>0, <1>2, <1>3, <1>5, <1>6, <3>1, VisitStep
  <2> QED
    BY <2>1, <2>2
<1> USE DEF request, history
<1>8. TypeOK'
  BY <1>0, <1>1, <1>2, <1>6, <1>7 DEF IInv, TypeOK
<1>9. BestSeen'
  <2>1. BestSeen' <=> top' = Nearest(seen', Wanted') \cap InScope'
    BY DEF BestSeen, Nearest
  <2>2. Wanted' = ef' /\ InScope' = Nodes
    BY <1>0 DEF Wanted, InScope
  <2> QED
    BY <1>7, <2>1, <2>2
<1>10. CollectInv'
  BY <1>0 DEF IInv, CollectInv
<1>11. SeenInv' /\ BoundInv' /\ StableInv'
  BY <1>0, <1>7 DEF IInv, SeenInv, BoundInv, StableInv
<1>12. ShownInv'
  BY <1>0, <1>7 DEF IInv, ShownInv
<1> QED
  BY <1>8, <1>9, <1>10, <1>11, <1>12 DEF IInv

-----------------------------------------------------------------------------
(* Every reachable state satisfies the inductive invariant.                *)
THEOREM Invariance == Spec => []IInv
<1>1. ASSUME IInv, [Next]_vars PROVE IInv'
  <2>1. CASE UNCHANGED vars
    <3> USE <1>1, <2>1 DEF vars, request, history
    <3>1. TypeOK'
      BY DEF IInv, TypeOK
    <3>2. BestSeen'
      BY DEF IInv, BestSeen, Wanted, InScope, Nearest
    <3>3. CollectInv' /\ SeenInv' /\ BoundInv' /\ StableInv' /\ ShownInv'
      BY DEF IInv, CollectInv, SeenInv, BoundInv, StableInv, ShownInv
    <3> QED
      BY <3>1, <3>2, <3>3 DEF IInv
  <2> QED
    BY <1>1, <2>1, StartStep, ExpandStep, ScanStep, EndExpansionStep, CompareTopKStep,
       FinishStep, MarkStep DEF Next, Search
<1> QED
  BY Initially, <1>1, PTL DEF Spec

(* Type correctness: ef stays between one and unlimited, and the patience  *)
(* counter never passes the patience.                                      *)
THEOREM TypeCorrect == Spec => []TypeOK
<1>1. IInv => TypeOK
  BY DEF IInv
<1> QED
  BY Invariance, <1>1, PTL

(* At every time of every search, plain, epsilon, adaptive or patience, on *)
(* any graph, the results are the nearest of the admissible elements seen. *)
THEOREM BestSeenHolds == Spec => []BestSeen
<1>1. IInv => BestSeen
  BY DEF IInv
<1> QED
  BY Invariance, <1>1, PTL

(* No search returns an element that was deleted, or rejected by the       *)
(* filter, all the time it ran, unless it began when nothing was deleted.  *)
THEOREM NeverDeletedHolds == Spec => []NeverDeleted
<1>1. ASSUME IInv PROVE NeverDeleted
  <2>1. top \subseteq seen
    BY <1>1 DEF IInv, BestSeen, Nearest
  <2> QED
    BY <1>1, <2>1 DEF IInv, ShownInv, NeverDeleted
<1> QED
  BY Invariance, <1>1, PTL

-----------------------------------------------------------------------------
(* How many a trimmed heap holds: m, or all there are; and what was left   *)
(* out is farther than everything kept.                                    *)
LEMMA NearestAll ==
  ASSUME NEW S \in SUBSET Nodes, NEW m \in Int, Cardinality(S) <= m
  PROVE  Nearest(S, m) = S
<1>1. ASSUME NEW x \in S PROVE Cardinality(Nearer(S, x)) < m
  <2>1. Nearer(S, x) \in SUBSET (S \ {x}) /\ S \ {x} \in SUBSET Nodes
    BY NodesAreNat DEF Nearer
  <2>2. IsFiniteSet(S) /\ Cardinality(S \ {x}) = Cardinality(S) - 1 /\ Cardinality(S) \in Nat
    BY NodeSets, FS_RemoveElement
  <2>3. Cardinality(Nearer(S, x)) \in Nat /\ Cardinality(Nearer(S, x)) <= Cardinality(S \ {x})
    BY <2>1, NodeSets
  <2> QED
    BY <2>2, <2>3
<1> QED
  BY <1>1 DEF Nearest, Nearer

LEMMA NearestAtMost ==
  ASSUME NEW S \in SUBSET Nodes, NEW m \in Nat
  PROVE  Cardinality(Nearest(S, m)) <= m
<1> DEFINE N == Nearest(S, m)
<1>1. N \in SUBSET Nodes /\ N \subseteq S
  BY NearestType
<1>2. CASE N = {}
  BY <1>2, FS_EmptySet
<1>3. CASE N # {}
  <2>1. Max(N) \in N /\ \A y \in N : y <= Max(N)
    BY <1>1, <1>3, Most
  <2>2. PICK x \in N : x = Max(N)
    BY <2>1
  <2>3. Nearer(N, x) = Nearer(S, x)
    BY NearestClosed
  <2>4. Cardinality(Nearer(S, x)) < m
    BY DEF Nearest, Nearer
  <2> HIDE DEF N
  <2>5. N = Nearer(N, x) \cup {x} /\ x \notin Nearer(N, x)
    <3>1. \A y \in N : y \in Nat /\ y <= x
      BY <1>1, <2>1, <2>2, NodesAreNat
    <3> QED
      BY <2>2, <3>1 DEF Nearer
  <2>6. IsFiniteSet(Nearer(N, x)) /\ Cardinality(Nearer(N, x)) \in Nat
    <3>1. Nearer(N, x) \in SUBSET Nodes
      BY <1>1 DEF Nearer
    <3> QED
      BY <3>1, NodeSets
  <2>7. Cardinality(N) = Cardinality(Nearer(N, x)) + 1
    BY <2>5, <2>6, FS_AddElement
  <2>8. Cardinality(N) <= m
    BY <2>3, <2>4, <2>6, <2>7
  <2> QED
    BY <2>8 DEF N
<1> QED
  BY <1>2, <1>3

LEMMA NearestFull ==
  ASSUME NEW S \in SUBSET Nodes, NEW m \in Nat, NEW n \in S, n \notin Nearest(S, m)
  PROVE  Cardinality(Nearest(S, m)) = m /\ \A x \in Nearest(S, m) : x < n
<1> DEFINE N == Nearest(S, m)
           Out == S \ N
<1>1. N \in SUBSET Nodes /\ N \subseteq S /\ Out \in SUBSET Nat /\ Out # {}
  BY NearestType, NodesAreNat
<1>2. PICK y \in Out : \A z \in Out : y <= z
  <2> HIDE DEF Out
  <2> QED
    BY <1>1, Least
<1>3. Nearer(S, y) \in SUBSET N
  <2>1. \A z \in Nearer(S, y) : z \in S /\ z \in Nat /\ y \in Nat /\ z < y
    BY NodesAreNat DEF Nearer
  <2>2. \A z \in Nearer(S, y) : ~(y <= z)
    BY <2>1
  <2> QED
    BY <1>2, <2>1, <2>2
<1>4. Cardinality(N) \in Nat /\ Cardinality(Nearer(S, y)) \in Nat
      /\ Cardinality(Nearer(S, y)) <= Cardinality(N)
  BY <1>1, <1>3, NodeSets
<1>5. ~(Cardinality(Nearer(S, y)) < m)
  BY DEF Nearest, Nearer
<1>6. Cardinality(N) = m
  BY <1>4, <1>5, NearestAtMost
<1>7. ASSUME NEW x \in N PROVE x < n
  <2>1. Nearer(N, x) = Nearer(S, x)
    BY NearestClosed
  <2>2. ~(n < x)
    BY <2>1 DEF Nearer
  <2>3. x \in Nat /\ n \in Nat /\ x # n
    BY <1>1, NodesAreNat
  <2> QED
    BY <2>2, <2>3
<1> QED
  BY <1>6, <1>7

LEMMA NearestSize ==
  ASSUME NEW S \in SUBSET Nodes, NEW m \in Nat
  PROVE  Cardinality(Nearest(S, m)) = IF Cardinality(S) <= m THEN Cardinality(S) ELSE m
<1>1. CASE Cardinality(S) <= m
  BY <1>1, NearestAll
<1>2. CASE ~(Cardinality(S) <= m)
  <2>1. Nearest(S, m) # S
    <3>1. Cardinality(Nearest(S, m)) <= m
      BY NearestAtMost
    <3> QED
      BY <1>2, <3>1
  <2>2. PICK n \in S : n \notin Nearest(S, m)
    BY <2>1, NearestType
  <2> QED
    BY <1>2, <2>2, NearestFull
<1> QED
  BY <1>1, <1>2

LEMMA MinOfThree ==
  ASSUME NEW a \in Int, NEW b \in Int, NEW c \in Int
  PROVE  Min({a, b, c}) \in {a, b, c} /\ Min({a, b, c}) <= a /\ Min({a, b, c}) <= b
         /\ Min({a, b, c}) <= c
<1>1. \E m \in {a, b, c} : \A y \in {a, b, c} : m <= y
  <2>1. CASE a <= b /\ a <= c
    BY <2>1
  <2>2. CASE b <= a /\ b <= c
    BY <2>2
  <2>3. CASE c <= a /\ c <= b
    BY <2>3
  <2> QED
    BY <2>1, <2>2, <2>3
<1>2. Min({a, b, c}) \in {a, b, c} /\ \A y \in {a, b, c} : Min({a, b, c}) <= y
  BY <1>1 DEF Min
<1> QED
  BY <1>2

-----------------------------------------------------------------------------
(* What a search that goes on has done with the elements it has visited.   *)
(* A result that is no candidate has been expanded; and while there are    *)
(* fewer results than ef, so has every visited element.                    *)
Expanded(v)  == links[v] \subseteq visited \cup rest
ExpandedInv  == \A v \in top \ cand : Expanded(v)
AllInv       == Cardinality(seen) < ef => \A v \in visited \ cand : Expanded(v)
RestInv      == pc \in {"start", "loop"} => rest = {}

(* What has been visited and was never hidden has been seen.               *)
VisitedInv   == /\ visited \ everHidden \subseteq seen /\ hidden \subseteq everHidden
                /\ bare => visited \subseteq seen

(* The entry point is the first candidate, and alone as long as it is one. *)
CandInv      == /\ cand \subseteq visited
                /\ IF pc = "start" THEN visited = {} ELSE entry \in visited
EntryInv     == entry \in cand => /\ pc = "loop" /\ cand = {entry}
                                  /\ entry \in top => bound = entry

LInv == ExpandedInv /\ AllInv /\ RestInv /\ VisitedInv /\ CandInv /\ EntryInv

JInv == IF pc = "done" THEN LocallyBest /\ EnoughResults ELSE LInv

LEMMA InitLocal == ASSUME Init PROVE JInv
BY DEF Init, JInv, LInv, ExpandedInv, AllInv, RestInv, VisitedInv, CandInv, EntryInv

LEMMA StartLocal == ASSUME IInv, JInv, Start PROVE JInv'
<1> USE DEF Start, request, history
<1>1. pc = "start" /\ pc' = "loop" /\ LInv /\ rest' = {} /\ cand' = {entry} /\ visited' = {entry}
  BY DEF JInv, LInv, RestInv
<1>2. ExpandedInv' /\ AllInv' /\ RestInv' /\ CandInv'
  BY <1>1 DEF ExpandedInv, AllInv, RestInv, CandInv
<1>3. VisitedInv'
  BY <1>1 DEF LInv, VisitedInv, Admissible, IInv, TypeOK
<1>4. EntryInv'
  BY <1>1 DEF EntryInv
<1> QED
  BY <1>1, <1>2, <1>3, <1>4 DEF JInv, LInv

LEMMA MarkLocal == ASSUME IInv, JInv, NEW n \in Nodes, Mark(n) PROVE JInv'
<1> USE DEF Mark, request
<1>1. pc # "done" /\ LInv
  BY DEF JInv
<1>2. ExpandedInv' /\ AllInv' /\ RestInv' /\ VisitedInv' /\ CandInv' /\ EntryInv'
  BY <1>1 DEF LInv, ExpandedInv, Expanded, AllInv, RestInv, VisitedInv, CandInv, EntryInv
<1> QED
  BY <1>1, <1>2 DEF JInv, LInv

LEMMA ExpandLocal == ASSUME IInv, JInv, Expand PROVE JInv'
<1> USE DEF Expand, request, history
<1>1. pc = "loop" /\ pc' = "scan" /\ LInv /\ rest = {} /\ visited' = visited /\ top' = top
  BY DEF JInv, LInv, RestInv
<1>2. PICK c \in cand : c = Min(cand) /\ cand' = cand \ {c} /\ rest' = links[c]
  <2>1. cand \in SUBSET Nat /\ cand # {}
    BY <1>1, NodesAreNat DEF IInv, TypeOK
  <2>2. \E x \in cand : \A y \in cand : x <= y
    BY <2>1, Least
  <2>3. Min(cand) \in cand
    BY <2>2 DEF Min
  <2> QED
    BY <2>3
<1>3. ExpandedInv' /\ AllInv'
  BY <1>1, <1>2 DEF LInv, ExpandedInv, Expanded, AllInv
<1>4. RestInv' /\ VisitedInv' /\ CandInv'
  BY <1>1, <1>2 DEF LInv, RestInv, VisitedInv, CandInv
<1>5. EntryInv'
  BY <1>1, <1>2 DEF LInv, EntryInv
<1> QED
  BY <1>1, <1>3, <1>4, <1>5 DEF JInv, LInv

LEMMA EndExpansionLocal == ASSUME IInv, JInv, EndExpansion PROVE JInv'
<1> USE DEF EndExpansion, request, history
<1>1. pc = "scan" /\ pc' = "loop" /\ LInv /\ rest = {}
  BY DEF JInv
<1>2. ExpandedInv' /\ AllInv' /\ RestInv' /\ VisitedInv' /\ CandInv'
  BY <1>1 DEF LInv, ExpandedInv, Expanded, AllInv, RestInv, VisitedInv, CandInv
<1>3. EntryInv'
  BY <1>1 DEF LInv, EntryInv
<1> QED
  BY <1>1, <1>2, <1>3 DEF JInv, LInv

LEMMA ScanLocal == ASSUME IInv, IInv', JInv, NEW n \in Nodes, Scan(n) PROVE JInv'
<1> DEFINE t == IF CompletesStats THEN Nearest(top, ef') ELSE top
           b == IF CompletesStats THEN Farthest(t, bound) ELSE bound
<1>0. /\ pc = "scan" /\ pc' = "scan" /\ n \in rest /\ rest' = rest \ {n}
      /\ ef' \in (IF CompletesStats THEN Efs ELSE {ef})
      /\ IF n \in visited
         THEN top' = t /\ bound' = b /\ UNCHANGED <<cand, visited, seen>>
         ELSE Visit(n, t, b, ef')
      /\ UNCHANGED <<links, entry, bare, hidden, everHidden>>
  BY DEF Scan, request, history
<1>1. LInv
  BY <1>0 DEF JInv
<1>2. /\ {seen, top, visited, cand} \subseteq SUBSET Nodes /\ seen' \in SUBSET Nodes
      /\ ef \in Nat /\ ef' \in Nat /\ ef' <= ef
      /\ top = Nearest(seen, ef) /\ top' = Nearest(seen', ef')
  <2>1. ef' \in Nat /\ ef \in Nat /\ ef' <= ef
    BY <1>0, Constants DEF IInv, TypeOK, CompletesStats, CollectInv
  <2>2. top' = Nearest(seen', ef') \cap Nodes /\ seen' \in SUBSET Nodes
    BY <1>0 DEF IInv, TypeOK, BestSeen, Wanted, InScope, Nearest
  <2> QED
    BY <1>0, <2>1, <2>2, Running, NearestType
<1>3. t \subseteq top
  BY DEF Nearest
<1> HIDE DEF t, b
<1>4. /\ visited' = visited \cup {n} /\ seen \subseteq seen' /\ top' \subseteq t \cup {n}
      /\ n \in visited => cand' = cand
      /\ n \notin visited /\ Considered(n, t, b, ef') => cand' = cand \cup {n}
      /\ n \notin visited /\ ~Considered(n, t, b, ef') => cand' = cand /\ top' = t
      /\ n \notin visited => seen' = seen \cup ({n} \cap {x \in Nodes : Admissible(x)})
  <2>1. CASE n \in visited
    BY <1>0, <2>1
  <2>2. CASE n \notin visited
    BY <1>0, <2>2 DEF Visit, Nearest
  <2> QED
    BY <2>1, <2>2
<1>5. ASSUME NEW v, Expanded(v) PROVE Expanded(v)'
  BY <1>0, <1>4, <1>5 DEF Expanded
<1>6. ExpandedInv'
  <2> SUFFICES ASSUME NEW v \in top' \ cand' PROVE Expanded(v)'
    BY DEF ExpandedInv
  <2>1. v \in top /\ v \notin cand
    <3>1. CASE v \in t
      BY <1>3, <1>4, <3>1
    <3>2. CASE v = n /\ n \notin t
      <4>1. n \in visited
        BY <1>4, <3>2
      <4>2. top' = t
        BY <1>0, <4>1
      <4> QED
        BY <3>2, <4>2
    <3> QED
      BY <1>4, <3>1, <3>2
  <2> QED
    BY <1>1, <1>5, <2>1 DEF LInv, ExpandedInv
<1>7. AllInv'
  <2> SUFFICES ASSUME Cardinality(seen') < ef', NEW v \in visited' \ cand' PROVE Expanded(v)'
    BY DEF AllInv
  <2>1. /\ Cardinality(seen) <= Cardinality(seen')
        /\ Cardinality(seen) \in Nat /\ Cardinality(seen') \in Nat
    BY <1>2, <1>4, NodeSets
  <2>2. Cardinality(seen) < ef
    BY <1>2, <2>1
  <2>3. n \notin visited => Considered(n, t, b, ef')
    <3> SUFFICES ASSUME n \notin visited, ~Considered(n, t, b, ef') PROVE FALSE
      OBVIOUS
    <3>1. top' = t /\ ~(Cardinality(t) < ef')
      BY <1>4 DEF Considered
    <3>2. top' \in SUBSET seen'
      BY <1>2, NearestType
    <3>3. Cardinality(top') \in Nat /\ Cardinality(top') <= Cardinality(seen')
      BY <1>2, <3>2, NodeSets
    <3>4. Cardinality(top') < ef' /\ ~(Cardinality(top') < ef')
      BY <1>2, <2>1, <3>1, <3>3
    <3> QED
      BY <3>4
  <2>4. v \in visited \ cand
    BY <1>4, <2>3
  <2> QED
    BY <1>1, <1>5, <2>2, <2>4 DEF LInv, AllInv
<1>8. RestInv' /\ CandInv'
  BY <1>0, <1>1, <1>4 DEF LInv, RestInv, CandInv
<1>9. VisitedInv'
  <2>1. n \notin visited /\ n \notin hidden => n \in seen'
    BY <1>4 DEF Admissible
  <2>2. n \notin visited /\ bare => n \in seen'
    BY <1>4 DEF Admissible
  <2> QED
    BY <1>0, <1>1, <1>4, <2>1, <2>2 DEF LInv, VisitedInv
<1>10. EntryInv'
  BY <1>0, <1>1, <1>4 DEF LInv, EntryInv, CandInv
<1> QED
  BY <1>0, <1>6, <1>7, <1>8, <1>9, <1>10 DEF JInv, LInv

(* An element that can be reached has been visited, if every visited       *)
(* element has been expanded.                                              *)
LEMMA ReachedVisited ==
  ASSUME entry \in visited, visited \in SUBSET Nodes,
         \A v \in visited : links[v] \subseteq visited
  PROVE  Reachable \subseteq visited
BY DEF Reachable

LEMMA ReachableSize ==
  LET R == Reachable \ everHidden IN
  R \in SUBSET Nodes /\ IsFiniteSet(R) /\ Cardinality(R) \in Nat
<1>1. Reachable \ everHidden \in SUBSET Nodes
  BY DEF Reachable
<1> QED
  BY <1>1, NodeSets

(* A search cut short by patience has its k results.                       *)
LEMMA CompareTopKLocal == ASSUME IInv, IInv', JInv, CompareTopK PROVE JInv'
<1> USE DEF CompareTopK, request, history
<1>1. pc = "scan" /\ LInv /\ rest = {} /\ mode = "patience" /\ Cardinality(top) >= K
      /\ top \in SUBSET Nodes
  BY DEF JInv, IInv, TypeOK
<1>2. CASE pc' = "done"
  <2>1. top' = Nearest(top, K) /\ mode' = "patience"
    BY <1>1, <1>2 DEF Result
  <2>2. Cardinality(top') = K
    <3>1. Cardinality(top) \in Nat
      BY <1>1, NodeSets
    <3>2. Cardinality(top') = IF Cardinality(top) <= K THEN Cardinality(top) ELSE K
      BY <1>1, <2>1, Constants, NearestSize
    <3> QED
      BY <1>1, <3>1, <3>2, Constants
  <2>3. EnoughResults'
    <3>1. Cardinality(Reachable \ everHidden) \in Int /\ ef \in Int /\ K \in Int
      BY ReachableSize, Constants DEF IInv, TypeOK
    <3>2. Min({K, ef, Cardinality(Reachable \ everHidden)}) <= K
      BY <3>1, MinOfThree
    <3>3. Reachable' = Reachable
      BY DEF Reachable
    <3> QED
      BY <2>2, <3>2, <3>3 DEF EnoughResults
  <2> QED
    BY <1>2, <2>1, <2>3 DEF JInv, LocallyBest
<1>3. CASE pc' # "done"
  <2>1. pc' = "loop" /\ top' = top
    BY <1>3
  <2>2. ExpandedInv' /\ AllInv' /\ RestInv' /\ VisitedInv' /\ CandInv'
    BY <1>1, <2>1 DEF LInv, ExpandedInv, Expanded, AllInv, RestInv, VisitedInv, CandInv
  <2>3. EntryInv'
    BY <1>1, <2>1 DEF LInv, EntryInv
  <2> QED
    BY <1>3, <2>2, <2>3 DEF JInv, LInv
<1> QED
  BY <1>2, <1>3

(* A search stops at a candidate that is farther than every result that    *)
(* is handed to the caller.                                                *)
LEMMA StopsFar ==
  ASSUME IInv, LInv, pc = "loop", cand = {} \/ StopSearch(Min(cand)),
         NEW r \in top, mode = "epsilon" => r <= Epsilon
  PROVE  r \notin cand
<1> SUFFICES ASSUME r \in cand PROVE FALSE
  OBVIOUS
<1>1. /\ top \in SUBSET Nodes /\ cand \in SUBSET Nodes /\ r \in Nat /\ r <= bound
      /\ bound \in Nat /\ Epsilon \in Int
  BY NodesAreNat, Constants DEF IInv, TypeOK, BoundInv
<1>2. PICK c \in cand : c = Min(cand) /\ \A y \in cand : c <= y
  <2>1. cand \in SUBSET Nat /\ cand # {}
    BY <1>1, NodesAreNat
  <2>2. \E x \in cand : \A y \in cand : x <= y
    BY <2>1, Least
  <2>3. Min(cand) \in cand /\ \A y \in cand : Min(cand) <= y
    BY <2>2 DEF Min
  <2> QED
    BY <2>3
<1>3. c \in Nat /\ c <= r /\ StopSearch(c)
  BY <1>1, <1>2, NodesAreNat
<1>4. CASE c = entry
  <2>1. bound = r
    BY <1>2, <1>4 DEF LInv, EntryInv
  <2> QED
    BY <1>1, <1>3, <1>4, <2>1 DEF StopSearch, Distance
<1>5. CASE c # entry
  BY <1>1, <1>3, <1>5 DEF StopSearch, Distance
<1> QED
  BY <1>4, <1>5

(* The results handed over are a local optimum ...                         *)
LEMMA FinishBest == ASSUME IInv, IInv', LInv, Finish PROVE LocallyBest'
<1> USE DEF Finish, request, history
<1>1. /\ pc = "loop" /\ pc' = "done" /\ rest = {} /\ top' = Result
      /\ UNCHANGED <<mode, links, entry, ef, seen, visited, everHidden>>
      /\ cand = {} \/ StopSearch(Min(cand))
  BY DEF LInv, RestInv
<1>2. /\ top = Nearest(seen, ef) /\ ef \in Nat /\ top' \subseteq top
      /\ {top, seen, visited} \subseteq SUBSET Nodes
      /\ links \in [Nodes -> SUBSET Nodes]
  <2>1. top' \subseteq top
    BY <1>1 DEF Result, Nearest
  <2>2. ef \in Nat
    BY Constants DEF IInv, TypeOK
  <2>3. links \in [Nodes -> SUBSET Nodes]
    BY GraphAssumption DEF IInv, TypeOK
  <2> QED
    BY <1>1, <2>1, <2>2, <2>3, Running DEF IInv, TypeOK
<1>3. ASSUME NEW r \in top', NEW n \in links[r] \ everHidden PROVE n \in seen /\ n \in Nodes
  <2>1. mode = "epsilon" => r <= Epsilon
    BY <1>1, <1>3 DEF Result
  <2>2. r \in top /\ r \notin cand
    BY <1>1, <1>2, <1>3, <2>1, StopsFar
  <2>3. n \in visited
    BY <1>1, <1>3, <2>2 DEF LInv, ExpandedInv, Expanded
  <2> QED
    BY <1>2, <1>3, <2>3 DEF LInv, VisitedInv
<1>4. ASSUME NEW n \in seen, n \in Nodes
      PROVE  \/ n \in top'
             \/ n \notin InScope'
             \/ Cardinality(top') = Wanted' /\ \A x \in top' : x < n
  <2>1. n \in Nat /\ Epsilon \in Int /\ K \in Nat
    BY <1>4, NodesAreNat, Constants
  <2>2. CASE mode = "epsilon"
    <3>1. top' = {x \in top : x <= Epsilon} /\ InScope' = Nodes \cap 1..Epsilon /\ Wanted' = ef
      BY <1>1, <2>2 DEF Result, InScope, Wanted
    <3>2. CASE n \in top
      BY <1>4, <2>1, <3>1, <3>2
    <3>3. CASE n \notin top /\ n <= Epsilon
      <4>1. Cardinality(top) = ef /\ \A x \in top : x < n
        BY <1>2, <1>4, <3>3, NearestFull
      <4>2. \A x \in top : x \in Nat
        BY <1>2, NodesAreNat
      <4>3. top' = top
        BY <2>1, <3>1, <3>3, <4>1, <4>2
      <4> QED
        BY <3>1, <4>1, <4>3
    <3>4. CASE ~(n <= Epsilon)
      BY <2>1, <3>1, <3>4
    <3> QED
      BY <3>2, <3>3, <3>4
  <2>3. CASE mode # "epsilon"
    <3>1. Wanted' \in Nat /\ top' = Nearest(seen, Wanted')
      <4>1. Wanted' = IF K <= ef THEN K ELSE ef
        BY <1>1, <1>2, <2>1, <2>3, MinOfTwo DEF Wanted
      <4>2. top' = Nearest(Nearest(seen, ef), K)
        BY <1>1, <1>2, <2>3 DEF Result
      <4> QED
        BY <1>2, <2>1, <4>1, <4>2, TrimTwice
    <3>2. PICK w \in Nat : w = Wanted'
      BY <3>1
    <3> QED
      BY <1>2, <1>4, <3>1, <3>2, NearestFull
  <2> QED
    BY <2>2, <2>3
<1> QED
  BY <1>1, <1>3, <1>4 DEF LocallyBest

(* ... and enough of them.                                                 *)
LEMMA FinishEnough == ASSUME IInv, IInv', LInv, Finish PROVE EnoughResults'
<1> USE DEF Finish, request, history
<1> DEFINE size == Cardinality(Reachable \ everHidden)
<1>1. /\ pc = "loop" /\ pc' = "done" /\ rest = {} /\ top' = Result
      /\ UNCHANGED <<mode, links, entry, ef, everHidden>>
      /\ cand = {} \/ (cand # {} /\ StopSearch(Min(cand)))
  BY DEF LInv, RestInv
<1>2. /\ top = Nearest(seen, ef) /\ ef \in Nat /\ K \in Nat /\ bound \in Nat
      /\ {top, seen, visited, cand} \subseteq SUBSET Nodes
      /\ \A x \in top : x <= bound
  BY <1>1, Running, Constants DEF IInv, TypeOK, BoundInv
<1>3. Reachable' = Reachable /\ size \in Nat
  BY <1>1, ReachableSize DEF Reachable
<1> HIDE DEF size
<1>4. /\ Min({K, ef, size}) \in {K, ef, size}
      /\ Min({K, ef, size}) <= K /\ Min({K, ef, size}) <= ef /\ Min({K, ef, size}) <= size
  <2>1. K \in Int /\ ef \in Int /\ size \in Int
    BY <1>2, <1>3
  <2> QED
    BY <2>1, MinOfThree
<1>5. Cardinality(seen) \in Nat /\ Cardinality(top) \in Nat
  BY <1>2, NodeSets
<1>6. Cardinality(top) = IF Cardinality(seen) <= ef THEN Cardinality(seen) ELSE ef
  BY <1>2, NearestSize
<1>7. ASSUME mode # "epsilon", Cardinality(seen) < ef PROVE size <= Cardinality(seen)
  <2>1. top = seen
    BY <1>2, <1>5, <1>7, NearestAll
  <2>2. cand = {}
    <3> SUFFICES ASSUME cand # {} PROVE FALSE
      OBVIOUS
    <3>1. \E x \in cand : \A y \in cand : x <= y
      BY <1>2, Least, NodesAreNat
    <3>2. Min(cand) \in cand
      BY <3>1 DEF Min
    <3>3. Distance(Min(cand)) > bound /\ bare
      BY <1>1, <1>5, <1>6, <1>7 DEF StopSearch
    <3>4. Min(cand) > bound
      BY <1>2, <3>3 DEF Distance
    <3>5. Min(cand) \in seen
      BY <3>2, <3>3 DEF LInv, CandInv, VisitedInv
    <3>6. Min(cand) \in Nat /\ Min(cand) <= bound
      BY <1>2, <2>1, <3>5, NodesAreNat
    <3> QED
      BY <1>2, <3>4, <3>6
  <2>3. \A v \in visited : links[v] \subseteq visited
    BY <1>1, <1>7, <2>2 DEF LInv, AllInv, Expanded
  <2>4. Reachable \subseteq visited
    BY <1>1, <1>2, <2>3, ReachedVisited DEF LInv, CandInv
  <2>5. Reachable \ everHidden \in SUBSET seen
    BY <2>4 DEF LInv, VisitedInv
  <2> QED
    BY <1>2, <2>5, NodeSets DEF size
<1>8. ASSUME mode # "epsilon" PROVE Cardinality(top') >= Min({K, ef, size})
  <2>1. top' = Nearest(top, K)
    BY <1>1, <1>8 DEF Result
  <2>2. Cardinality(top') = IF Cardinality(top) <= K THEN Cardinality(top) ELSE K
    BY <1>2, <2>1, NearestSize
  <2>3. Cardinality(top) >= ef \/ Cardinality(top) >= size
    BY <1>2, <1>3, <1>5, <1>6, <1>7, <1>8
  <2> QED
    BY <1>2, <1>3, <1>4, <1>5, <2>2, <2>3
<1> QED
  BY <1>1, <1>3, <1>8 DEF EnoughResults, size

LEMMA StutterLocal == ASSUME JInv, UNCHANGED vars PROVE JInv'
<1> USE DEF vars, request, history
<1>1. LocallyBest' = LocallyBest
  BY DEF LocallyBest, Wanted, InScope
<1>2. EnoughResults' = EnoughResults
  BY DEF EnoughResults, Reachable
<1>3. LInv => LInv'
  BY DEF LInv, ExpandedInv, Expanded, AllInv, RestInv, VisitedInv, CandInv, EntryInv
<1> QED
  BY <1>1, <1>2, <1>3 DEF JInv

LEMMA LocalInvariance == Spec => []JInv
<1>1. ASSUME IInv, IInv', JInv, [Next]_vars PROVE JInv'
  <2>1. Finish => JInv'
    BY <1>1, FinishBest, FinishEnough DEF JInv, Finish
  <2> QED
    BY <1>1, <2>1, StartLocal, ExpandLocal, ScanLocal, EndExpansionLocal, CompareTopKLocal,
       MarkLocal, StutterLocal DEF Next, Search
<1> QED
  BY <1>1, InitLocal, Invariance, PTL DEF Spec

(* What a search that patience did not end returns is a local optimum, on  *)
(* any graph and with any marks changed meanwhile.                         *)
THEOREM LocallyBestHolds == Spec => []LocallyBest
<1>1. JInv => LocallyBest
  BY DEF JInv, LocallyBest
<1> QED
  BY LocalInvariance, <1>1, PTL

(* A search finds as many results as it was asked for, if as many elements *)
(* that were never hidden can be reached, through deleted ones too.        *)
THEOREM EnoughResultsHolds == Spec => []EnoughResults
<1>1. JInv => EnoughResults
  BY DEF JInv, EnoughResults
<1> QED
  BY LocalInvariance, <1>1, PTL

-----------------------------------------------------------------------------
(* What is left to do: an element not yet visited can become a candidate   *)
(* once, a candidate be expanded once, a link be scanned once.             *)
Phase == IF pc = "start" THEN 3 ELSE IF pc = "scan" THEN 2 ELSE IF pc = "loop" THEN 1 ELSE 0
Open == Cardinality(Nodes \ visited) + Cardinality(cand)
Left == Open * (NumNodes + 3) + Cardinality(rest) + Phase

(* The search comes nearer to its end with every step it takes, and marks  *)
(* that other threads change put it no farther off.                        *)
Progress == [][IF Search THEN Left' < Left ELSE Left' = Left]_vars

LEMMA Counts ==
  ASSUME NEW V \in SUBSET Nodes, NEW C \in SUBSET Nodes, NEW R \in SUBSET Nodes
  PROVE  /\ Cardinality(Nodes \ V) \in Nat /\ Cardinality(C) \in Nat /\ Cardinality(R) \in Nat
         /\ Cardinality(R) <= NumNodes /\ NumNodes \in Nat
<1>1. Nodes \ V \in SUBSET Nodes
  OBVIOUS
<1> QED
  BY <1>1, NodeSets, Constants

(* The two parts of what is left, now and after a step.                    *)
LEMMA Measured ==
  ASSUME TypeOK, TypeOK'
  PROVE  /\ Open \in Nat /\ Open' \in Nat /\ NumNodes \in Nat
         /\ Cardinality(rest) \in Nat /\ Cardinality(rest)' \in Nat
         /\ Cardinality(rest)' <= NumNodes
         /\ Phase \in Nat /\ Phase' \in Nat
         /\ Cardinality(cand) \in Nat /\ Cardinality(Nodes \ visited) \in Nat
         /\ Cardinality(cand)' \in Nat /\ Cardinality(Nodes \ visited)' \in Nat
<1>1. /\ visited \in SUBSET Nodes /\ cand \in SUBSET Nodes /\ rest \in SUBSET Nodes
      /\ visited' \in SUBSET Nodes /\ cand' \in SUBSET Nodes /\ rest' \in SUBSET Nodes
  BY DEF TypeOK
<1>2. /\ Cardinality(Nodes \ visited) \in Nat /\ Cardinality(cand) \in Nat
      /\ Cardinality(rest) \in Nat /\ NumNodes \in Nat
  BY <1>1, Counts
<1>3. /\ Cardinality(Nodes \ visited') \in Nat /\ Cardinality(cand') \in Nat
      /\ Cardinality(rest') \in Nat /\ Cardinality(rest') <= NumNodes
  BY <1>1, Counts
<1> QED
  BY <1>2, <1>3 DEF Open, Phase

(* An element taken from a set, or put into it.                            *)
LEMMA TakeOne ==
  ASSUME NEW S \in SUBSET Nodes, NEW x \in S
  PROVE  Cardinality(S \ {x}) = Cardinality(S) - 1
<1>1. IsFiniteSet(S)
  BY NodeSets
<1> QED
  BY <1>1, FS_RemoveElement

LEMMA PutOne ==
  ASSUME NEW S \in SUBSET Nodes, NEW x \in Nodes \ S
  PROVE  Cardinality(S \cup {x}) = Cardinality(S) + 1
<1>1. IsFiniteSet(S)
  BY NodeSets
<1> QED
  BY <1>1, FS_AddElement

(* The steps that leave the elements and candidates alone.                 *)
LEMMA SameOpen ==
  ASSUME TypeOK, TypeOK', Open' = Open,
         Cardinality(rest)' + Phase' < Cardinality(rest) + Phase
  PROVE  Left' < Left
<1> DEFINE m == Open * (NumNodes + 3)
           r == Cardinality(rest)
           s == Cardinality(rest)'
           a == Phase
           b == Phase'
<1>1. m \in Nat /\ r \in Nat /\ s \in Nat /\ a \in Nat /\ b \in Nat
  BY Measured
<1>2. Left = m + r + a
  BY DEF Left
<1>3. Left' = m + s + b
  BY DEF Left
<1>4. s + b < r + a
  OBVIOUS
<1> HIDE DEF m, r, s, a, b
<1>5. m + s + b < m + r + a
  BY <1>1, <1>4
<1> QED
  BY <1>2, <1>3, <1>5

LEMMA StartCounts ==
  ASSUME IInv, IInv', JInv, Start
  PROVE  Left' < Left
<1>1. pc = "start" /\ pc' = "loop" /\ cand' = {entry} /\ visited' = {entry} /\ rest' = rest
  BY DEF Start
<1>2. visited = {} /\ cand = {} /\ entry \in Nodes
  BY <1>1 DEF JInv, LInv, CandInv, IInv, TypeOK
<1>3. Cardinality(Nodes \ {entry}) = Cardinality(Nodes) - 1 /\ Cardinality(Nodes) \in Nat
  BY <1>2, TakeOne, NodeSets
<1>4. Cardinality({entry}) = 1 /\ Cardinality({}) = 0
  BY FS_Singleton, FS_EmptySet
<1>5. Open' = Open
  <2>1. Open = Cardinality(Nodes) /\ Open' = Cardinality(Nodes \ {entry}) + 1
    <3>1. Nodes \ {} = Nodes
      OBVIOUS
    <3> QED
      BY <1>1, <1>2, <1>3, <1>4, <3>1 DEF Open
  <2> QED
    BY <1>3, <2>1
<1>6. Phase = 3 /\ Phase' = 1
  BY <1>1 DEF Phase
<1>7. Cardinality(rest)' = Cardinality(rest) /\ Cardinality(rest) \in Nat
  BY <1>1, Measured DEF IInv
<1>8. Cardinality(rest)' + Phase' < Cardinality(rest) + Phase
  BY <1>6, <1>7
<1> QED
  BY <1>5, <1>8, SameOpen DEF IInv

LEMMA ExpandCounts ==
  ASSUME IInv, IInv', JInv, Expand
  PROVE  Left' < Left
<1>1. pc = "loop" /\ pc' = "scan" /\ rest = {} /\ visited' = visited
  BY DEF Expand, JInv, LInv, RestInv
<1>2. PICK c \in cand : cand' = cand \ {c}
  <2>1. cand \in SUBSET Nat /\ cand # {}
    BY NodesAreNat DEF IInv, TypeOK, Expand
  <2>2. \E x \in cand : \A y \in cand : x <= y
    BY <2>1, Least
  <2>3. Min(cand) \in cand
    BY <2>2 DEF Min
  <2> QED
    BY <2>3 DEF Expand
<1>3. TypeOK /\ TypeOK'
  BY DEF IInv
<1>4. cand \in SUBSET Nodes
  BY <1>3 DEF TypeOK
<1>5. Cardinality(cand)' = Cardinality(cand) - 1
  BY <1>2, <1>4, TakeOne
<1>6. Open' = Open - 1 /\ Open \in Nat /\ Open' \in Nat
  BY <1>1, <1>3, <1>5, Measured DEF Open
<1>7. Cardinality(rest) = 0
  BY <1>1, FS_EmptySet
<1>8. Phase = 1 /\ Phase' = 2
  BY <1>1 DEF Phase
<1>9. Cardinality(rest)' \in Nat /\ Cardinality(rest)' <= NumNodes /\ NumNodes \in Nat
  BY <1>3, Measured
<1> DEFINE o == Open
           N == NumNodes
           r == Cardinality(rest)'
<1>10. Left = o * (N + 3) + 1 /\ Left' = (o - 1) * (N + 3) + r + 2
  <2>1. Left = o * (N + 3) + 0 + 1
    BY <1>7, <1>8 DEF Left
  <2>2. Left' = (o - 1) * (N + 3) + r + 2
    BY <1>6, <1>8 DEF Left
  <2>3. o * (N + 3) \in Nat
    BY <1>6, <1>9
  <2> QED
    BY <2>1, <2>2, <2>3
<1>11. o \in Nat /\ N \in Nat /\ r \in Nat /\ r <= N
  BY <1>6, <1>9
<1> HIDE DEF o, N, r
<1>12. (o - 1) * (N + 3) = o * (N + 3) - (N + 3) /\ o * (N + 3) \in Nat
  BY <1>11
<1> QED
  BY <1>10, <1>11, <1>12

LEMMA ScanCounts ==
  ASSUME IInv, IInv', NEW n \in Nodes, Scan(n)
  PROVE  Left' < Left
<1>1. pc' = pc /\ n \in rest /\ rest' = rest \ {n}
  BY DEF Scan
<1>2. TypeOK /\ TypeOK' /\ {cand, visited, rest} \subseteq SUBSET Nodes
  BY DEF IInv, TypeOK
<1>3. Cardinality(rest)' = Cardinality(rest) - 1
  BY <1>1, <1>2, TakeOne
<1>4. Phase' = Phase
  BY <1>1 DEF Phase
<1>5. Open \in Nat /\ Open' \in Nat
  BY <1>2, Measured
<1>6. CASE UNCHANGED <<cand, visited>>
  <2>1. Open' = Open
    BY <1>6 DEF Open
  <2>2. Cardinality(rest) \in Nat /\ Phase \in Nat
    BY <1>2, Measured
  <2>3. Cardinality(rest)' + Phase' < Cardinality(rest) + Phase
    BY <1>3, <1>4, <2>2
  <2> QED
    BY <1>2, <2>1, <2>3, SameOpen
<1>7. CASE n \notin visited /\ visited' = visited \cup {n} /\ cand' \in {cand, cand \cup {n}}
  <2>1. Nodes \ visited' = (Nodes \ visited) \ {n} /\ n \in Nodes \ visited
    BY <1>7
  <2>2. Cardinality(Nodes \ visited)' = Cardinality(Nodes \ visited) - 1
    <3>1. Cardinality((Nodes \ visited) \ {n}) = Cardinality(Nodes \ visited) - 1
      BY <2>1, TakeOne
    <3> QED
      BY <2>1, <3>1
  <2>3. Cardinality(cand)' <= Cardinality(cand) + 1
    <3>1. CASE cand' = cand \cup {n} /\ n \notin cand
      <4>1. Cardinality(cand \cup {n}) = Cardinality(cand) + 1
        BY <1>2, <3>1, PutOne
      <4> QED
        BY <1>2, <3>1, <4>1, Measured
    <3>2. CASE cand' = cand
      BY <1>2, <3>2, Measured
    <3>3. n \in cand => cand \cup {n} = cand
      OBVIOUS
    <3> QED
      BY <1>7, <3>1, <3>2, <3>3
  <2>4. Open' <= Open
    BY <1>2, <2>2, <2>3, Measured DEF Open
  <2>5. Cardinality(rest) \in Nat /\ Phase \in Nat /\ NumNodes \in Nat
    BY <1>2, Measured
  <2> DEFINE o == Open
             p == Open'
             W == NumNodes + 3
             r == Cardinality(rest)
             s == Cardinality(rest)'
  <2>6. Left = o * W + r + Phase /\ Left' = p * W + s + Phase
    BY <1>4 DEF Left
  <2>7. p <= o /\ o \in Nat /\ p \in Nat /\ W \in Nat /\ s = r - 1 /\ r \in Nat /\ Phase \in Nat
    BY <1>3, <1>5, <2>4, <2>5
  <2> HIDE DEF o, p, W, r, s
  <2>8. p * W <= o * W /\ p * W \in Nat /\ o * W \in Nat
    <3>1. (o - p) * W \in Nat
      <4>1. o - p \in Nat
        BY <2>7
      <4> QED
        BY <2>7, <4>1
    <3> QED
      BY <2>7, <3>1
  <2> QED
    BY <2>6, <2>7, <2>8
<1> QED
  BY <1>6, <1>7 DEF Scan, Visit

LEMMA EndCounts ==
  ASSUME IInv, IInv', EndExpansion \/ CompareTopK \/ Finish
  PROVE  Left' < Left
<1>1. UNCHANGED <<cand, visited, rest>>
  BY DEF EndExpansion, CompareTopK, Finish
<1>2. Open' = Open /\ Cardinality(rest)' = Cardinality(rest)
  BY <1>1 DEF Open
<1>3. Phase' < Phase
  <2>1. \/ pc = "scan" /\ pc' \in {"loop", "done"}
        \/ pc = "loop" /\ pc' = "done"
    BY DEF EndExpansion, CompareTopK, Finish
  <2> QED
    BY <2>1 DEF Phase
<1>4. Cardinality(rest) \in Nat /\ Phase \in Nat /\ Phase' \in Nat
  BY Measured DEF IInv
<1>5. Cardinality(rest)' + Phase' < Cardinality(rest) + Phase
  BY <1>2, <1>3, <1>4
<1> QED
  BY <1>2, <1>5, SameOpen DEF IInv

(* A search is bounded: as every step of it lowers a natural number, which *)
(* no mark raises, it takes no more steps than it began with.              *)
THEOREM ProgressHolds == Spec => [](Left \in Nat) /\ Progress
<1>1. ASSUME IInv PROVE Left \in Nat
  <2>1. /\ Cardinality(Nodes \ visited) \in Nat /\ Cardinality(cand) \in Nat
        /\ Cardinality(rest) \in Nat /\ NumNodes \in Nat
    BY <1>1, Counts DEF IInv, TypeOK
  <2>2. Open \in Nat /\ Phase \in Nat
    BY <2>1 DEF Open, Phase
  <2>3. Open * (NumNodes + 3) \in Nat
    BY <2>1, <2>2
  <2> QED
    BY <2>1, <2>2, <2>3 DEF Left
<1>2. ASSUME IInv, IInv', JInv, [Next]_vars
      PROVE  [IF Search THEN Left' < Left ELSE Left' = Left]_vars
  <2>1. Search => Left' < Left
    BY <1>2, StartCounts, ExpandCounts, ScanCounts, EndCounts DEF Search
  <2>2. ASSUME NEW n \in Nodes, Mark(n) PROVE Left' = Left
    BY <2>2 DEF Mark, Left, Open, Phase
  <2> QED
    BY <1>2, <2>1, <2>2 DEF Next
<1> QED
  BY <1>1, <1>2, Invariance, LocalInvariance, PTL DEF Spec, Progress
=============================================================================
