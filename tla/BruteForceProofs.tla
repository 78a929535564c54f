-------------------------- MODULE BruteForceProofs --------------------------
(***************************************************************************)
(* BruteforceSearch for every capacity and any labels and points, as long  *)
(* as its callers do not remove the element in the last slot: dictionary   *)
(* and array agree, and the index implements a map from labels to points.  *)
(***************************************************************************)
EXTENDS BruteForce, FiniteSetTheorems, TLAPS

(* Dictionary and array are inverse to each other on the used slots.       *)
Inverses ==
  /\ \A s \in Used : slotLabel[s] \in Labels /\ point[s] \in Points
  /\ \A s \in Used : dict[slotLabel[s]] = s
  /\ \A x \in Labels : dict[x] # None => dict[x] \in Used /\ slotLabel[dict[x]] = x

IInv == TypeOK /\ Inverses

-----------------------------------------------------------------------------
LEMMA InitInv == ASSUME Init PROVE IInv
<1>1. count = 0 /\ Used = {}
  BY DEF Init, Used
<1>2. TypeOK
  BY <1>1, SizeAssumption DEF Init, TypeOK
<1>3. Inverses
  BY <1>1 DEF Init, Inverses
<1>4. QED BY <1>2, <1>3 DEF IInv

(* A label that is overwritten keeps its slot.                             *)
LEMMA OverwriteInv ==
  ASSUME IInv, NEW x \in Labels, NEW p \in Points,
         dict[x] # None, Store(dict[x], x, p), UNCHANGED <<count, dict>>
  PROVE  IInv'
<1> DEFINE d == dict[x]
<1>1. d \in Used /\ d \in Slots /\ slotLabel[d] = x
  BY DEF IInv, Inverses, TypeOK
<1>2. slotLabel' = slotLabel
  BY <1>1 DEF Store, IInv, TypeOK
<1>3. point' = [point EXCEPT ![d] = p] /\ point \in [Slots -> Points \cup {None}]
  BY DEF Store, IInv, TypeOK
<1>4. point' \in [Slots -> Points \cup {None}]
  BY <1>3
<1>5. TypeOK'
  BY <1>2, <1>4 DEF IInv, TypeOK, Slots
<1>6. Used \subseteq Slots /\ Used' = Used
  BY SizeAssumption DEF IInv, TypeOK, Used, Slots
<1>7. Inverses'
  BY <1>2, <1>3, <1>6 DEF IInv, Inverses
<1>8. QED BY <1>5, <1>7 DEF IInv

(* A new label takes the next slot.                                        *)
LEMMA AppendInv ==
  ASSUME IInv, NEW x \in Labels, NEW p \in Points,
         dict[x] = None, count < MaxElements, Store(count, x, p),
         dict' = [dict EXCEPT ![x] = count], count' = count + 1
  PROVE  IInv'
<1>1. count \in Nat /\ count \in Slots /\ count \notin Used /\ Used \subseteq Slots
      /\ count + 1 \in 0..MaxElements /\ count # None
  BY SizeAssumption, NoneAssumption DEF IInv, TypeOK, Used, Slots
<1>2. Used' = Used \cup {count}
  BY <1>1 DEF Used
<1>3. /\ slotLabel' = [slotLabel EXCEPT ![count] = x]
      /\ point' = [point EXCEPT ![count] = p]
      /\ slotLabel \in [Slots -> Labels \cup {None}]
      /\ point \in [Slots -> Points \cup {None}]
      /\ dict \in [Labels -> Slots \cup {None}]
  BY DEF Store, IInv, TypeOK
<1>4. /\ slotLabel' \in [Slots -> Labels \cup {None}]
      /\ point' \in [Slots -> Points \cup {None}]
      /\ dict' \in [Labels -> Slots \cup {None}]
  BY <1>1, <1>3
<1>5. TypeOK'
  BY <1>1, <1>4 DEF TypeOK, Slots
<1>6. /\ slotLabel'[count] = x /\ point'[count] = p /\ dict'[x] = count
      /\ \A s \in Used : slotLabel'[s] = slotLabel[s] /\ point'[s] = point[s]
      /\ \A y \in Labels \ {x} : dict'[y] = dict[y]
  BY <1>1, <1>3
<1>7. ASSUME NEW s \in Used PROVE slotLabel[s] # x
  <2>1. s \in Nat /\ dict[slotLabel[s]] = s
    BY <1>1 DEF IInv, Inverses, Used
  <2>2. QED BY <2>1, NoneAssumption
<1>8. ASSUME NEW s \in Used'
      PROVE  slotLabel'[s] \in Labels /\ point'[s] \in Points /\ dict'[slotLabel'[s]] = s
  BY <1>2, <1>6, <1>7 DEF IInv, Inverses
<1>9. ASSUME NEW y \in Labels, dict'[y] # None
      PROVE  dict'[y] \in Used' /\ slotLabel'[dict'[y]] = y
  BY <1>2, <1>6, <1>9 DEF IInv, Inverses
<1>10. Inverses'
  BY <1>8, <1>9 DEF Inverses
<1>11. QED BY <1>5, <1>10 DEF IInv

LEMMA AddInv ==
  ASSUME IInv, NEW x \in Labels, NEW p \in Points, AddPoint(x, p)
  PROVE  IInv'
<1>1. CASE dict[x] # None
  BY <1>1, OverwriteInv DEF AddPoint
<1>2. CASE dict[x] = None
  BY <1>2, AppendInv DEF AddPoint
<1>3. QED BY <1>1, <1>2

(* The last element fills the gap.                                         *)
LEMMA RemoveInv ==
  ASSUME IInv, ~RemoveLast, NEW x \in Labels, RemovePoint(x)
  PROVE  IInv'
<1> DEFINE d == dict[x]
           last == count - 1
           y == slotLabel[last]
<1>1. /\ count \in 1..MaxElements /\ count \in Nat
      /\ last \in Used /\ d \in Used /\ d # last /\ Used \subseteq Slots
      /\ count - 1 \in 0..MaxElements
  BY SizeAssumption DEF RemovePoint, IInv, TypeOK, Inverses, Used, Slots
<1>2. y \in Labels /\ point[last] \in Points /\ dict[y] = last /\ slotLabel[d] = x /\ y # x
  BY <1>1 DEF RemovePoint, IInv, Inverses
<1>3. Used' = Used \ {last}
  BY <1>1 DEF Used, RemovePoint
<1>4. /\ slotLabel' = [slotLabel EXCEPT ![d] = y]
      /\ point' = [point EXCEPT ![d] = point[last]]
      /\ dict' = [dict EXCEPT ![x] = None, ![y] = d]
      /\ slotLabel \in [Slots -> Labels \cup {None}]
      /\ point \in [Slots -> Points \cup {None}]
      /\ dict \in [Labels -> Slots \cup {None}]
  BY DEF RemovePoint, Store, IInv, TypeOK
<1>5. /\ slotLabel' \in [Slots -> Labels \cup {None}]
      /\ point' \in [Slots -> Points \cup {None}]
      /\ dict' \in [Labels -> Slots \cup {None}]
  BY <1>1, <1>2, <1>4
<1>6. TypeOK'
  BY <1>1, <1>5 DEF TypeOK, Slots, RemovePoint
<1>7. /\ slotLabel'[d] = y /\ point'[d] = point[last]
      /\ \A s \in Used \ {d} : slotLabel'[s] = slotLabel[s] /\ point'[s] = point[s]
      /\ dict'[x] = None /\ dict'[y] = d
      /\ \A z \in Labels \ {x, y} : dict'[z] = dict[z]
  BY <1>1, <1>2, <1>4
<1>8. \A s \in Used \ {d, last} : slotLabel[s] \in Labels \ {x, y}
  BY <1>1, <1>2 DEF IInv, Inverses
<1>9. ASSUME NEW s \in Used'
      PROVE  slotLabel'[s] \in Labels /\ point'[s] \in Points /\ dict'[slotLabel'[s]] = s
  <2>1. CASE s = d
    BY <2>1, <1>2, <1>7
  <2>2. CASE s # d
    BY <2>2, <1>3, <1>7, <1>8 DEF IInv, Inverses
  <2>3. QED BY <2>1, <2>2
<1>10. ASSUME NEW z \in Labels, dict'[z] # None
       PROVE  dict'[z] \in Used' /\ slotLabel'[dict'[z]] = z
  <2>1. CASE z = y
    BY <2>1, <1>1, <1>3, <1>7
  <2>2. CASE z # y
    <3>1. z # x /\ dict'[z] = dict[z]
      BY <2>2, <1>7, <1>10
    <3>2. dict[z] \in Used /\ slotLabel[dict[z]] = z
      BY <3>1, <1>10 DEF IInv, Inverses
    <3>3. dict[z] # d /\ dict[z] # last
      BY <3>1, <3>2, <2>2, <1>2
    <3>4. QED BY <3>1, <3>2, <3>3, <1>3, <1>7
  <2>3. QED BY <2>1, <2>2
<1>11. Inverses'
  BY <1>9, <1>10 DEF Inverses
<1>12. QED BY <1>6, <1>11 DEF IInv

LEMMA NextInv ==
  ASSUME IInv, ~RemoveLast, [Next]_vars
  PROVE  IInv'
<1>1. CASE UNCHANGED vars
  BY <1>1 DEF vars, IInv, TypeOK, Inverses, Used
<1>2. CASE Next
  BY <1>2, AddInv, RemoveInv DEF Next
<1>3. QED BY <1>1, <1>2

(* In every reachable state dictionary and array are inverse to each other.*)
THEOREM Invariance ==
  ASSUME ~RemoveLast
  PROVE  Spec => []IInv
BY InitInv, NextInv, PTL DEF Spec

(* Type correctness: addPoint and removePoint never leave the array.       *)
THEOREM TypeCorrect ==
  ASSUME ~RemoveLast
  PROVE  Spec => []TypeOK
<1>1. IInv => TypeOK
  BY DEF IInv
<1>2. QED BY <1>1, Invariance, PTL

(* The dictionary of addPoint and removePoint leads to every stored element*)
(* and to nothing else.                                                    *)
THEOREM DictAgreesHolds ==
  ASSUME ~RemoveLast
  PROVE  Spec => []DictAgrees
<1>1. IInv => DictAgrees
  BY DEF IInv, Inverses, DictAgrees
<1>2. QED BY <1>1, Invariance, PTL

-----------------------------------------------------------------------------
(* The index implements the label map.                                     *)
Abstract == [x \in Labels |-> Stored(x)]

(* A search sees the point in the slot the dictionary names.               *)
DictPoint(x) == IF dict[x] # None THEN point[dict[x]] ELSE None

SeenByDict == \A x \in Labels : Stored(x) = DictPoint(x)

LEMMA StoredByDict == IInv => SeenByDict
<1> SUFFICES ASSUME IInv, NEW x \in Labels PROVE Stored(x) = DictPoint(x)
  BY DEF SeenByDict
<1>1. CASE dict[x] # None
  <2>1. dict[x] \in Used /\ slotLabel[dict[x]] = x
    BY <1>1 DEF IInv, Inverses
  <2>2. \A s \in Used : slotLabel[s] = x => s = dict[x]
    BY DEF IInv, Inverses
  <2>3. QED BY <1>1, <2>1, <2>2 DEF Stored, DictPoint
<1>2. CASE dict[x] = None
  <2>1. \A s \in Used : slotLabel[s] = x => s = None /\ s \in Nat
    BY <1>2, SizeAssumption DEF IInv, Inverses, Used, TypeOK
  <2>2. QED BY <1>2, <2>1, NoneAssumption DEF Stored, DictPoint
<1>3. QED BY <1>1, <1>2

LEMMA StoredByDictAfter == IInv' => SeenByDict'
BY StoredByDict, PTL

(* addPoint is Add.                                                        *)
LEMMA AddImplements ==
  ASSUME IInv, IInv', NEW x \in Labels, NEW p \in Points, AddPoint(x, p)
  PROVE  Abstract' = [Abstract EXCEPT ![x] = p]
<1> DEFINE s == IF dict[x] # None THEN dict[x] ELSE count
<1>1. /\ s \in Slots /\ dict' \in [Labels -> Slots \cup {None}]
      /\ dict'[x] = s /\ dict'[x] # None
      /\ \A y \in Labels \ {x} : dict'[y] = dict[y] /\ (dict[y] # None => dict[y] # s)
      /\ Store(s, x, p)
  <2>1. CASE dict[x] # None
    BY <2>1 DEF AddPoint, IInv, Inverses, TypeOK
  <2>2. CASE dict[x] = None
    <3>1. count \in Slots /\ count \notin Used /\ count # None
      BY <2>2, SizeAssumption, NoneAssumption DEF AddPoint, IInv, TypeOK, Slots, Used
    <3>2. dict \in [Labels -> Slots \cup {None}] /\ dict' = [dict EXCEPT ![x] = count]
      BY <2>2 DEF AddPoint, IInv, TypeOK
    <3>3. Store(count, x, p)
      BY <2>2 DEF AddPoint
    <3>4. \A y \in Labels : dict[y] # None => dict[y] \in Used
      BY DEF IInv, Inverses
    <3>5. QED BY <2>2, <3>1, <3>2, <3>3, <3>4
  <2>3. QED BY <2>1, <2>2
<1>2. point'[s] = p /\ \A u \in Slots \ {s} : point'[u] = point[u]
  BY <1>1 DEF Store, IInv, TypeOK
<1>3. DictPoint(x)' = p
  BY <1>1, <1>2 DEF DictPoint
<1>4. ASSUME NEW y \in Labels, y # x PROVE DictPoint(y)' = DictPoint(y)
  BY <1>1, <1>2, <1>4 DEF DictPoint, IInv, TypeOK
<1>5. QED BY <1>3, <1>4, StoredByDict, StoredByDictAfter DEF Abstract, SeenByDict

(* removePoint of an element that is not the last one is Remove.           *)
LEMMA RemoveImplements ==
  ASSUME IInv, IInv', ~RemoveLast, NEW x \in Labels, RemovePoint(x)
  PROVE  Abstract' = [Abstract EXCEPT ![x] = None]
<1> DEFINE d == dict[x]
           last == count - 1
           y == slotLabel[last]
<1>1. d \in Used /\ last \in Used /\ d # last /\ Used \subseteq Slots /\ d # None
  BY SizeAssumption DEF RemovePoint, IInv, TypeOK, Inverses, Used, Slots
<1>2. y \in Labels /\ dict[y] = last /\ slotLabel[d] = x /\ y # x
  BY <1>1 DEF RemovePoint, IInv, Inverses
<1>3. /\ point' = [point EXCEPT ![d] = point[last]]
      /\ dict' = [dict EXCEPT ![x] = None, ![y] = d]
      /\ point \in [Slots -> Points \cup {None}]
      /\ dict \in [Labels -> Slots \cup {None}]
  BY DEF RemovePoint, Store, IInv, TypeOK
<1>4. DictPoint(x)' = None
  BY <1>2, <1>3 DEF DictPoint
<1>5. ASSUME NEW z \in Labels, z # x PROVE DictPoint(z)' = DictPoint(z)
  <2>1. CASE z = y
    <3>1. dict'[z] = d /\ point'[d] = point[last] /\ dict[z] = last /\ last # None
      BY <2>1, <1>1, <1>2, <1>3, SizeAssumption, NoneAssumption DEF IInv, TypeOK, Used
    <3>2. QED BY <3>1, <1>1 DEF DictPoint
  <2>2. CASE z # y
    <3>1. dict'[z] = dict[z]
      BY <2>2, <1>2, <1>3, <1>5
    <3>2. dict[z] # None => dict[z] # d /\ dict[z] \in Slots
      BY <1>1, <1>2, <1>5 DEF IInv, Inverses
    <3>3. QED BY <3>1, <3>2, <1>1, <1>3 DEF DictPoint
  <2>3. QED BY <2>1, <2>2
<1>6. QED BY <1>4, <1>5, StoredByDict, StoredByDictAfter DEF Abstract, SeenByDict

(* Every step of the index is a step of the map, or changes nothing in it. *)
LEMMA StepImplements ==
  ASSUME IInv, IInv', ~RemoveLast, [Next]_vars
  PROVE  [Map!Next]_Abstract
<1>1. CASE UNCHANGED vars
  BY <1>1 DEF vars, Abstract, Stored, Used
<1>2. ASSUME NEW x \in Labels, RemovePoint(x) PROVE Map!Next
  BY <1>2, RemoveImplements DEF Map!Next, Map!Remove, Abstract
<1>3. ASSUME NEW x \in Labels, NEW p \in Points, AddPoint(x, p) PROVE Map!Next
  BY <1>3, AddImplements DEF Map!Next, Map!Add, Abstract
<1>4. QED BY <1>1, <1>2, <1>3 DEF Next

LEMMA InitImplements == ASSUME Init PROVE Map!Init
<1>1. Used = {}
  BY DEF Init, Used
<1>2. QED BY <1>1 DEF Stored, Map!Init

(* What a search sees of the index is a map from labels to points, which   *)
(* addPoint sets and removePoint clears.                                   *)
THEOREM Implements ==
  ASSUME ~RemoveLast
  PROVE  Spec => ImplementsMap
<1>1. Init => Map!Init
  BY InitImplements
<1>2. IInv /\ IInv' /\ [Next]_vars => [Map!Next]_Abstract
  BY StepImplements
<1>3. QED BY <1>1, <1>2, Invariance, PTL DEF Spec, ImplementsMap, Map!Spec, Abstract

-----------------------------------------------------------------------------
(* The search.  What the scan keeps is a function of the set of positions   *)
(* scanned, of which the last is the greatest: such a function exists.      *)
Rightmost(S) == Max(S)
Scan(q, k, F, results, s) ==
  IF slotLabel[s] \notin F THEN results
  ELSE IF s < k THEN results \cup {Result(q, s)}
  ELSE Offer(results, Result(q, s), k)

Scans(g, q, k, F, D) ==
  g = [S \in SUBSET D |->
        IF S = {} THEN {} ELSE Scan(q, k, F, g[S \ {Rightmost(S)}], Rightmost(S) - 1)]

Smallest(S, X) == S \in X /\ \A U \in X : U \subseteq S => U = S

LEMMA SmallestSet ==
  ASSUME NEW D, IsFiniteSet(D), NEW X \in SUBSET (SUBSET D), X # {}
  PROVE  \E S : Smallest(S, X)
<1> DEFINE R == StrictSubsetOrdering(D)
<1>1. \A S \in X : S \in FiniteSubsetsOf(D)
  BY FS_Subset DEF FiniteSubsetsOf
<1>2. IsWellFoundedOn(R, FiniteSubsetsOf(D))
  BY FS_StrictSubsetOrderingWellFounded
<1> HIDE DEF R
<1>3. PICK S \in X : \A U \in X : ~ (<<U, S>> \in R)
  BY <1>1, <1>2, WFMin
<1>4. ASSUME NEW U \in X, U \subseteq S PROVE U = S
  BY <1>3, <1>4 DEF R, StrictSubsetOrdering
<1>5. QED BY <1>4 DEF Smallest

(* What holds of the empty set, and of a set if it holds without one of its*)
(* members, holds of all subsets.                                          *)
LEMMA BySubsets ==
  ASSUME NEW D, IsFiniteSet(D), NEW X \in SUBSET (SUBSET D), {} \in X,
         \A S \in SUBSET D : S # {} /\ (\E x \in S : S \ {x} \in X) => S \in X
  PROVE  X = SUBSET D
<1> DEFINE Y == (SUBSET D) \ X
<1>1. SUFFICES ASSUME Y # {} PROVE FALSE
  OBVIOUS
<1>2. PICK S : Smallest(S, Y)
  <2>1. Y \in SUBSET (SUBSET D)
    OBVIOUS
  <2> HIDE DEF Y
  <2>2. QED BY <1>1, <2>1, SmallestSet
<1>3. S \in SUBSET D /\ S \notin X /\ S # {}
  BY <1>2 DEF Smallest
<1>4. PICK x \in S : TRUE
  BY <1>3
<1>5. S \ {x} \in SUBSET D /\ S \ {x} # S
  BY <1>3
<1>6. S \ {x} \in X
  BY <1>2, <1>5 DEF Smallest
<1>7. QED BY <1>3, <1>6

LEMMA LastIn ==
  ASSUME NEW S, IsFiniteSet(S), S \subseteq Int, S # {}
  PROVE  Rightmost(S) \in S /\ \A y \in S : Rightmost(S) >= y
<1> DEFINE Has(U) == \E x \in U : \A y \in U : x >= y
           X == {U \in SUBSET S : U # {} => Has(U)}
<1>1. ASSUME NEW U \in SUBSET S, NEW a \in U, U \ {a} \in X PROVE U \in X
  <2>1. a \in Int /\ U = (U \ {a}) \cup {a} /\ U \subseteq Int
    OBVIOUS
  <2>2. CASE U \ {a} = {}
    <3>1. \A y \in U : y = a
      BY <2>2
    <3>2. QED BY <2>1, <3>1
  <2>3. CASE U \ {a} # {}
    <3>1. PICK x \in U \ {a} : \A y \in U \ {a} : x >= y
      BY <1>1, <2>3
    <3>2. x \in Int /\ x \in U
      BY <2>1
    <3>3. CASE a >= x
      BY <2>1, <3>1, <3>2, <3>3
    <3>4. CASE ~(a >= x)
      BY <2>1, <3>1, <3>2, <3>4
    <3>5. QED BY <3>3, <3>4
  <2>4. QED BY <2>2, <2>3
<1>2. X \in SUBSET (SUBSET S) /\ {} \in X
  OBVIOUS
<1> HIDE DEF X
<1>3. \A U \in SUBSET S : U # {} /\ (\E x \in U : U \ {x} \in X) => U \in X
  BY <1>1
<1>4. X = SUBSET S
  BY <1>2, <1>3, BySubsets, Zenon
<1>5. Has(S)
  BY <1>4 DEF X
<1>6. QED BY <1>5 DEF Rightmost, Max

Same(g, h, C) == \A S \in SUBSET C : g[S] = h[S]

LEMMA ScansAgree ==
  ASSUME NEW D, IsFiniteSet(D), D \subseteq Int, NEW C, C \subseteq D, NEW q, NEW k, NEW F,
         NEW g, Scans(g, q, k, F, D), NEW h, Scans(h, q, k, F, C)
  PROVE  Same(g, h, C)
<1> DEFINE Y == {S \in SUBSET C : g[S] # h[S]}
<1>1. SUFFICES ASSUME Y # {} PROVE FALSE
  BY DEF Same
<1>2. PICK S : Smallest(S, Y)
  <2>1. Y \in SUBSET (SUBSET C)
    OBVIOUS
  <2>2. IsFiniteSet(C)
    BY FS_Subset
  <2> HIDE DEF Y
  <2>3. QED BY <1>1, <2>1, <2>2, SmallestSet
<1>3. S \in SUBSET C /\ S \in SUBSET D /\ g[S] # h[S]
  BY <1>2 DEF Smallest
<1>4. /\ g[S] = IF S = {} THEN {} ELSE Scan(q, k, F, g[S \ {Rightmost(S)}], Rightmost(S) - 1)
      /\ h[S] = IF S = {} THEN {} ELSE Scan(q, k, F, h[S \ {Rightmost(S)}], Rightmost(S) - 1)
  BY <1>3 DEF Scans
<1>5. S # {}
  BY <1>3, <1>4
<1>6. Rightmost(S) \in S
  <2>1. IsFiniteSet(S) /\ S \subseteq Int
    BY <1>3, FS_Subset
  <2>2. QED BY <1>5, <2>1, LastIn
<1>7. S \ {Rightmost(S)} \in SUBSET C /\ S \ {Rightmost(S)} # S /\ S \ {Rightmost(S)} \subseteq S
  BY <1>3, <1>6
<1>8. g[S \ {Rightmost(S)}] = h[S \ {Rightmost(S)}]
  BY <1>2, <1>7 DEF Smallest
<1>9. QED BY <1>3, <1>4, <1>8

LEMMA ScansExist ==
  ASSUME NEW D, IsFiniteSet(D), D \subseteq Int, NEW q, NEW k, NEW F
  PROVE  \E g : Scans(g, q, k, F, D)
<1> DEFINE X == {S \in SUBSET D : ~ \E g : Scans(g, q, k, F, S)}
<1>1. SUFFICES ASSUME X # {} PROVE FALSE
  OBVIOUS
<1>2. PICK T : Smallest(T, X)
  <2>1. X \in SUBSET (SUBSET D)
    OBVIOUS
  <2> HIDE DEF X
  <2>2. QED BY <1>1, <2>1, SmallestSet
<1>3. T \in SUBSET D /\ IsFiniteSet(T) /\ T \subseteq Int /\ ~ \E g : Scans(g, q, k, F, T)
  BY <1>2, FS_Subset DEF Smallest
<1> DEFINE Of(U) == CHOOSE g : Scans(g, q, k, F, U)
           Less(U) == U \ {Rightmost(U)}
           G == [U \in SUBSET T |->
                  IF U = {} THEN {} ELSE Scan(q, k, F, Of(Less(U))[Less(U)], Rightmost(U) - 1)]
<1>4. ASSUME NEW U \in SUBSET T, U # T PROVE Scans(Of(U), q, k, F, U)
  <2>1. U \notin X
    BY <1>2, <1>4 DEF Smallest
  <2>2. \E g : Scans(g, q, k, F, U)
    BY <1>3, <2>1
  <2>3. QED BY <2>2
<1>5. ASSUME NEW U \in SUBSET T, U # {}
      PROVE  Less(U) \in SUBSET U /\ Less(U) \in SUBSET T /\ Less(U) # T
  <2>1. Rightmost(U) \in U
    <3>1. IsFiniteSet(U) /\ U \subseteq Int
      BY <1>3, FS_Subset
    <3>2. QED BY <1>5, <3>1, LastIn
  <2>2. QED BY <2>1
<1> HIDE DEF Less
<1>6. ASSUME NEW U \in SUBSET T, U # T PROVE G[U] = Of(U)[U]
  <2>1. Scans(Of(U), q, k, F, U)
    BY <1>4, <1>6
  <2> HIDE DEF Of
  <2>2. Of(U)[U] = IF U = {} THEN {} ELSE Scan(q, k, F, Of(U)[Less(U)], Rightmost(U) - 1)
    BY <2>1 DEF Scans, Less
  <2>3. CASE U = {}
    BY <2>2, <2>3
  <2>4. CASE U # {}
    <3>1. Less(U) \in SUBSET U /\ Less(U) \in SUBSET T /\ Less(U) # T
      BY <1>5, <2>4
    <3>2. Scans(Of(Less(U)), q, k, F, Less(U))
      BY <1>4, <3>1
    <3>3. IsFiniteSet(U) /\ U \subseteq Int
      BY <1>3, FS_Subset
    <3>4. Less(U) \subseteq U
      BY <3>1
    <3>5. Same(Of(U), Of(Less(U)), Less(U))
      BY <2>1, <3>2, <3>3, <3>4, ScansAgree
    <3>6. Of(U)[Less(U)] = Of(Less(U))[Less(U)]
      BY <3>5 DEF Same
    <3>7. QED BY <2>2, <2>4, <3>6
  <2>5. QED BY <2>3, <2>4
<1>7. \A U \in SUBSET T : G[U] = IF U = {} THEN {} ELSE Scan(q, k, F, G[Less(U)], Rightmost(U) - 1)
  <2> TAKE U \in SUBSET T
  <2>1. CASE U = {}
    BY <2>1
  <2>2. CASE U # {}
    <3>1. G[Less(U)] = Of(Less(U))[Less(U)]
      BY <1>5, <1>6, <2>2
    <3>2. G[U] = Scan(q, k, F, Of(Less(U))[Less(U)], Rightmost(U) - 1)
      BY <2>2
    <3>3. QED BY <2>2, <3>1, <3>2
  <2>3. QED BY <2>1, <2>2
<1>8. G = [U \in SUBSET T |-> G[U]]
  OBVIOUS
<1> HIDE DEF G
<1>9. Scans(G, q, k, F, T)
  BY <1>7, <1>8 DEF Scans, Less
<1>10. QED BY <1>3, <1>9

LEMMA SearchScans ==
  ASSUME count \in Nat, NEW q, NEW k, NEW F
  PROVE  \E g : Scans(g, q, k, F, 1..count) /\ SearchKnn(q, k, F) = g[1..count]
<1> DEFINE seq == [i \in 1..count |-> i - 1]
           D == 1..count
<1>1. DOMAIN seq = D
  OBVIOUS
<1>2. D \subseteq Int /\ IsFiniteSet(D)
  <2>1. 1 \in Int /\ count \in Int
    OBVIOUS
  <2>2. QED BY <2>1, FS_Interval
<1>3. PICK g : Scans(g, q, k, F, D)
  <2> HIDE DEF D
  <2>1. QED BY <1>2, ScansExist
<1> DEFINE Body(g1) == [S \in SUBSET D |->
             IF S = {} THEN {} ELSE Scan(q, k, F, g1[S \ {Rightmost(S)}], seq[Rightmost(S)])]
<1>4. SearchKnn(q, k, F) = (CHOOSE g1 : g1 = Body(g1))[D]
  BY <1>1 DEF SearchKnn, FoldLeft, MapThenFoldSet, Scan, Rightmost
<1>5. \A g1 : g1 = Body(g1) <=> Scans(g1, q, k, F, D)
  <2> TAKE g1
  <2>1. \A S \in SUBSET D : S # {} => seq[Rightmost(S)] = Rightmost(S) - 1
    <3>1. \A S \in SUBSET D : S # {} => Rightmost(S) \in D
      <4> HIDE DEF D
      <4>1. ASSUME NEW S \in SUBSET D, S # {} PROVE Rightmost(S) \in S
        <5>1. IsFiniteSet(S) /\ S \subseteq Int
          BY <1>2, FS_Subset
        <5>2. QED BY <4>1, <5>1, LastIn
      <4>2. QED BY <4>1
    <3>2. QED BY <3>1
  <2> HIDE DEF seq, D
  <2>2. Body(g1) = [S \in SUBSET D |->
          IF S = {} THEN {} ELSE Scan(q, k, F, g1[S \ {Rightmost(S)}], Rightmost(S) - 1)]
    BY <2>1
  <2> HIDE DEF Body
  <2>3. QED BY <2>2 DEF Scans
<1>6. QED
  <2> HIDE DEF Body, D
  <2>1. PICK h : h = Body(h) /\ SearchKnn(q, k, F) = h[D]
    BY <1>3, <1>4, <1>5
  <2>2. QED BY <1>5, <2>1 DEF D

-----------------------------------------------------------------------------
(* What the scan keeps of the slots before i.                              *)
Allowed(F, i) == {s \in 0 .. (i - 1) : slotLabel[s] \in F}
Before(q, F, i) == {Result(q, s) : s \in Allowed(F, i)}

Kept(results, q, k, F, i) ==
  /\ IsFiniteSet(Allowed(F, i)) /\ IsFiniteSet(Before(q, F, i))
  /\ results \subseteq Before(q, F, i)
  /\ \A r \in results, c \in Before(q, F, i) \ results : r[1] <= c[1]
  /\ Before(q, F, i) # {} => results # {}
  /\ i < k => /\ results = Before(q, F, i)
              /\ Cardinality(results) = Cardinality(Allowed(F, i))
              /\ Cardinality(results) <= i
  /\ i >= k => /\ Cardinality(results) >= Cardinality(Allowed(F, k))
               /\ Cardinality(results) <= k

LEMMA ResultsDiffer ==
  ASSUME IInv, NEW q \in Points
  PROVE  /\ \A s \in Used : Result(q, s) \in Int \X Int /\ slotLabel[s] \in Labels
         /\ \A s, u \in Used : s # u => Result(q, s) # Result(q, u)
<1>1. \A s \in Used : /\ slotLabel[s] \in Labels /\ slotLabel[s] \in Int
                      /\ point[s] \in Int /\ q \in Int
  BY DataAssumption DEF IInv, Inverses
<1>2. \A s, u \in Used : slotLabel[s] = slotLabel[u] => s = u
  BY DEF IInv, Inverses
<1>3. \A x, y \in Int : Abs(x - y) \in Int
  BY DEF Abs
<1>4. \A s \in Used : Abs(point[s] - q) \in Int
  BY <1>1, <1>3
<1>5. \A s \in Used : Result(q, s) = <<Abs(point[s] - q), slotLabel[s]>>
  BY DEF Result
<1>6. \A s, u \in Used : Result(q, s) = Result(q, u) => slotLabel[s] = slotLabel[u]
  BY <1>5
<1>7. QED BY <1>1, <1>2, <1>4, <1>5, <1>6

(* A queue that is not empty has a top.                                    *)
LEMMA TopExists ==
  ASSUME NEW R, IsFiniteSet(R), R \subseteq Int \X Int, R # {}
  PROVE  Top(R) \in R /\ \A b \in R : b[1] <= Top(R)[1]
<1> DEFINE Has(U) == \E a \in U : \A b \in U \ {a} : Worse(a, b)
           X == {U \in SUBSET R : U # {} => Has(U)}
<1>1. ASSUME NEW U \in SUBSET R, NEW a \in U, U \ {a} \in X PROVE U \in X
  <2>1. a \in Int \X Int /\ U \subseteq Int \X Int
    OBVIOUS
  <2>2. CASE U \ {a} = {}
    <3>1. \A b \in U \ {a} : Worse(a, b)
      BY <2>2
    <3>2. QED BY <3>1
  <2>3. CASE U \ {a} # {}
    <3>1. PICK w \in U \ {a} : \A b \in (U \ {a}) \ {w} : Worse(w, b)
      BY <1>1, <2>3
    <3>2. /\ \A c, d \in Int \X Int : c # d => Worse(c, d) \/ Worse(d, c)
          /\ \A c, d, e \in Int \X Int : Worse(c, d) /\ Worse(d, e) => Worse(c, e)
      BY DEF Worse
    <3>3. w \in Int \X Int /\ w # a /\ w \in U
      BY <2>1
    <3>4. CASE Worse(w, a)
      <4>1. \A b \in U \ {w} : Worse(w, b)
        BY <3>1, <3>4
      <4>2. QED BY <3>3, <4>1
    <3>5. CASE Worse(a, w)
      <4>1. \A b \in U \ {a} : Worse(a, b)
        BY <2>1, <3>1, <3>2, <3>3, <3>5
      <4>2. QED BY <4>1
    <3>6. QED BY <2>1, <3>2, <3>3, <3>4, <3>5
  <2>4. QED BY <2>2, <2>3
<1>2. X \in SUBSET (SUBSET R) /\ {} \in X
  OBVIOUS
<1> HIDE DEF X
<1>3. \A U \in SUBSET R : U # {} /\ (\E x \in U : U \ {x} \in X) => U \in X
  BY <1>1
<1>4. X = SUBSET R
  BY <1>2, <1>3, BySubsets, Zenon
<1>5. Has(R)
  BY <1>4 DEF X
<1>6. Top(R) \in R /\ \A b \in R \ {Top(R)} : Worse(Top(R), b)
  BY <1>5 DEF Top
<1>7. \A c, d \in Int \X Int : Worse(c, d) => d[1] <= c[1]
  BY DEF Worse
<1>8. ASSUME NEW b \in R PROVE b[1] <= Top(R)[1]
  <2>1. b \in Int \X Int /\ Top(R) \in Int \X Int /\ b[1] \in Int
    BY <1>6
  <2>2. CASE b = Top(R)
    BY <2>1, <2>2
  <2>3. CASE b # Top(R)
    BY <1>6, <1>7, <2>1, <2>3
  <2>4. QED BY <2>2, <2>3
<1>9. QED BY <1>6, <1>8

(* One more slot.                                                          *)
LEMMA KeepsScanning ==
  ASSUME IInv, NEW q \in Points, NEW k \in Nat, 1 <= k, NEW F,
         NEW s \in Used, NEW results, Kept(results, q, k, F, s)
  PROVE  Kept(Scan(q, k, F, results, s), q, k, F, s + 1)
<1> DEFINE r == Result(q, s)
           old == Before(q, F, s)
           new == Before(q, F, s + 1)
           were == Allowed(F, s)
           are == Allowed(F, s + 1)
           after == Scan(q, k, F, results, s)
<1>1. /\ count \in Nat /\ s \in Nat /\ s < count
      /\ \A u \in 0 .. (s - 1) : u \in Used
  BY SizeAssumption DEF IInv, TypeOK, Used
<1>2. 0 .. (s + 1 - 1) = 0 .. (s - 1) \cup {s}
  BY <1>1
<1>3. r \in Int \X Int /\ old \subseteq Int \X Int /\ r \notin old /\ s \notin were
  <2>1. \A u \in 0 .. (s - 1) : u \in Used /\ u # s
    BY <1>1
  <2>2. QED BY <2>1, ResultsDiffer DEF Before, Allowed
<1>4. /\ IsFiniteSet(were) /\ IsFiniteSet(old) /\ results \subseteq old
      /\ \A a \in results, c \in old \ results : a[1] <= c[1]
      /\ old # {} => results # {}
      /\ s < k => /\ results = old /\ Cardinality(results) = Cardinality(were)
                  /\ Cardinality(results) <= s
      /\ s >= k => /\ Cardinality(results) >= Cardinality(Allowed(F, k))
                   /\ Cardinality(results) <= k
  BY DEF Kept
<1>5. SUFFICES /\ IsFiniteSet(are) /\ IsFiniteSet(new) /\ after \subseteq new
               /\ \A a \in after, c \in new \ after : a[1] <= c[1]
               /\ new # {} => after # {}
               /\ s + 1 < k => /\ after = new /\ Cardinality(after) = Cardinality(are)
                               /\ Cardinality(after) <= s + 1
               /\ s + 1 >= k => /\ Cardinality(after) >= Cardinality(Allowed(F, k))
                                /\ Cardinality(after) <= k
  BY DEF Kept
<1>6. s + 1 >= k /\ s < k => k = s + 1
  BY <1>1
<1>7. CASE slotLabel[s] \notin F
  <2>1. after = results
    BY <1>7 DEF Scan
  <2>2. are = were
    BY <1>2, <1>7 DEF Allowed
  <2>3. new = old
    BY <2>2 DEF Before
  <2>4. s < k /\ s + 1 >= k => Allowed(F, k) = are
    BY <1>6
  <2>5. /\ IsFiniteSet(results) /\ Cardinality(results) \in Nat
        /\ Cardinality(were) \in Nat
    BY <1>4, FS_Subset, FS_CardinalityType
  <2> HIDE DEF after, are, were, new, old
  <2>6. s + 1 < k => /\ after = new /\ Cardinality(after) = Cardinality(are)
                     /\ Cardinality(after) <= s + 1
    BY <1>1, <1>4, <2>1, <2>2, <2>3, <2>5
  <2>7. s + 1 >= k => /\ Cardinality(after) >= Cardinality(Allowed(F, k))
                      /\ Cardinality(after) <= k
    <3>1. CASE s >= k
      BY <1>4, <2>1, <3>1
    <3>2. CASE s < k
      BY <1>1, <1>4, <2>1, <2>2, <2>4, <2>5, <3>2
    <3>3. QED BY <1>1, <3>1, <3>2
  <2>8. QED BY <1>4, <2>1, <2>2, <2>3, <2>6, <2>7
<1>8. CASE slotLabel[s] \in F
  <2>1. are = were \cup {s} /\ new = old \cup {r}
    <3>1. are = were \cup {s}
      BY <1>2, <1>8 DEF Allowed
    <3>2. QED BY <3>1 DEF Before
  <2>2. after = IF s < k THEN results \cup {r} ELSE Offer(results, r, k)
    BY <1>8 DEF Scan
  <2>3. \A a \in new : a[1] \in Int
    BY <1>3, <2>1
  <2>4. s < k /\ s + 1 >= k => Allowed(F, k) = are
    BY <1>6
  <2> HIDE DEF after, are, were, new, old, r
  <2>5. /\ IsFiniteSet(results) /\ Cardinality(results) \in Nat
        /\ IsFiniteSet(results \cup {r})
        /\ Cardinality(results \cup {r}) = Cardinality(results) + 1
        /\ IsFiniteSet(are) /\ Cardinality(are) = Cardinality(were) + 1
        /\ Cardinality(were) \in Nat
        /\ IsFiniteSet(new)
    <3>1. IsFiniteSet(results) /\ r \notin results
      BY <1>3, <1>4, FS_Subset
    <3>2. QED BY <1>3, <1>4, <2>1, <3>1, FS_AddElement, FS_CardinalityType
  <2>6. CASE s < k
    <3>1. after = new /\ Cardinality(after) = Cardinality(are)
      BY <1>4, <2>1, <2>2, <2>5, <2>6
    <3>2. Cardinality(after) = Cardinality(results) + 1
      BY <2>2, <2>5, <2>6
    <3>3. Cardinality(after) <= s + 1
      BY <1>1, <1>4, <2>5, <2>6, <3>2
    <3>4. s + 1 >= k => /\ Cardinality(after) >= Cardinality(Allowed(F, k))
                        /\ Cardinality(after) <= k
      BY <1>1, <2>4, <2>5, <2>6, <3>1, <3>2, <3>3
    <3>5. QED BY <2>5, <3>1, <3>3, <3>4
  <2>7. CASE ~(s < k)
    <3> DEFINE more == results \cup {r}
               t == Top(more)
    <3>1. after = Offer(results, r, k) /\ s >= k /\ ~(s + 1 < k)
      BY <1>1, <2>2, <2>7
    <3>2. SUFFICES /\ after \subseteq new /\ after # {}
                   /\ \A a \in after, c \in new \ after : a[1] <= c[1]
                   /\ Cardinality(after) >= Cardinality(results)
                   /\ Cardinality(after) <= k
      <4>1. Allowed(F, k) \subseteq are
        BY <1>1, <3>1 DEF Allowed, are
      <4>2. Cardinality(Allowed(F, k)) \in Nat
        BY <2>5, <4>1, FS_Subset, FS_CardinalityType
      <4>3. after \subseteq new => Cardinality(after) \in Nat
        BY <2>5, FS_Subset, FS_CardinalityType
      <4>4. QED BY <1>4, <2>5, <3>1, <4>2, <4>3
    <3>3. results # {} => /\ Top(results) \in results
                          /\ \A b \in results : b[1] <= Top(results)[1]
      <4>1. results \subseteq Int \X Int
        BY <1>3, <1>4
      <4>2. QED BY <2>5, <4>1, TopExists
    <3>4. CASE results # {} /\ r[1] > Top(results)[1]
      <4>1. after = results
        BY <3>1, <3>4 DEF Offer
      <4>2. \A a \in results : a[1] <= r[1]
        <5> TAKE a \in results
        <5>1. a[1] <= Top(results)[1] /\ a[1] \in Int /\ Top(results)[1] \in Int /\ r[1] \in Int
          BY <1>4, <2>1, <2>3, <3>3
        <5>2. QED BY <3>4, <5>1
      <4>3. QED BY <1>4, <2>1, <2>5, <3>1, <3>4, <4>1, <4>2
    <3>5. CASE ~(results # {} /\ r[1] > Top(results)[1])
      <4>1. after = IF Cardinality(more) > k THEN more \ {t} ELSE more
        BY <3>1, <3>5 DEF Offer
      <4>2. t \in more /\ \A b \in more : b[1] <= t[1]
        <5>1. more # {} /\ more \subseteq Int \X Int
          BY <1>3, <1>4
        <5> HIDE DEF more
        <5>2. QED BY <2>5, <5>1, TopExists DEF more
      <4>3. \A c \in old \ results : r[1] <= c[1]
        <5> TAKE c \in old \ results
        <5>1. results # {}
          BY <1>4
        <5>2. Top(results)[1] <= c[1] /\ ~(r[1] > Top(results)[1])
          BY <1>4, <3>3, <3>5, <5>1
        <5>3. r[1] \in Int /\ c[1] \in Int /\ Top(results)[1] \in Int
          BY <1>4, <2>1, <2>3, <3>3, <5>1
        <5>4. QED BY <5>2, <5>3
      <4>4. \A a \in more, c \in old \ results : a[1] <= c[1]
        BY <1>4, <4>3
      <4>5. Cardinality(more) = Cardinality(results) + 1
        BY <2>5
      <4>6. CASE Cardinality(more) > k
        <5>1. after = more \ {t}
          BY <4>1, <4>6
        <5>2. Cardinality(after) = Cardinality(results)
          <6> HIDE DEF t, more
          <6>1. Cardinality(more \ {t}) = Cardinality(more) - 1
            BY <2>5, <4>2, FS_RemoveElement DEF more
          <6>2. QED BY <2>5, <4>5, <5>1, <6>1
        <5>3. Cardinality(results) = k
          BY <1>4, <2>5, <3>1, <4>5, <4>6
        <5> HIDE DEF t
        <5>4. new \ after = (old \ results) \cup {t}
          BY <1>3, <1>4, <2>1, <4>2, <5>1
        <5>5. \A a \in after, c \in new \ after : a[1] <= c[1]
          BY <4>2, <4>4, <5>1, <5>4
        <5>6. after # {} /\ after \subseteq new
          <6>1. after # {}
            BY <5>2, <5>3, FS_EmptySet
          <6>2. QED BY <1>4, <2>1, <5>1, <6>1
        <5>7. QED BY <5>2, <5>3, <5>5, <5>6
      <4>7. CASE ~(Cardinality(more) > k)
        <5>1. after = more /\ Cardinality(after) = Cardinality(results) + 1
          BY <4>1, <4>5, <4>7
        <5>2. new \ after = old \ results
          BY <1>3, <1>4, <2>1, <5>1
        <5>3. QED BY <1>4, <2>1, <2>5, <4>4, <4>7, <5>1, <5>2
      <4>8. QED BY <4>6, <4>7
    <3>6. QED BY <3>4, <3>5
  <2>8. QED BY <2>6, <2>7
<1>9. QED BY <1>7, <1>8

LEMMA SearchesExactly ==
  ASSUME IInv, NEW q \in Points, NEW k \in 1..count, NEW F \in SUBSET Labels
  PROVE  LET found == SearchKnn(q, k, F) IN
         /\ Closest(found, Candidates(q, F), k)
         /\ Cardinality(found) >= Cardinality({s \in 0..(k - 1) : slotLabel[s] \in F})
<1>1. count \in Nat /\ k \in Nat /\ 1 <= k /\ k <= count
  BY SizeAssumption DEF IInv, TypeOK
<1>2. PICK g : Scans(g, q, k, F, 1..count) /\ SearchKnn(q, k, F) = g[1..count]
  BY <1>1, SearchScans
<1> DEFINE D == 1..count
<1>3. IsFiniteSet(D) /\ D \subseteq Int
  <2>1. 1 \in Int /\ count \in Int
    BY <1>1
  <2>2. QED BY <2>1, FS_Interval
<1>4. \A S \in SUBSET D :
        g[S] = IF S = {} THEN {} ELSE Scan(q, k, F, g[S \ {Rightmost(S)}], Rightmost(S) - 1)
  BY <1>2 DEF Scans
<1>5. Kept(g[1..0], q, k, F, 0)
  <2>1. 1..0 = {} /\ Allowed(F, 0) = {} /\ Before(q, F, 0) = {}
    BY DEF Before, Allowed
  <2>2. g[{}] = {}
    BY <1>4
  <2>3. IsFiniteSet({}) /\ Cardinality({}) = 0
    BY FS_EmptySet
  <2>4. QED BY <1>1, <2>1, <2>2, <2>3 DEF Kept
<1>6. ASSUME NEW i \in 1..count, Kept(g[1 .. (i - 1)], q, k, F, i - 1)
      PROVE  Kept(g[1..i], q, k, F, i)
  <2>1. i \in Nat /\ 1 <= i /\ 1..i # {} /\ 1..i \in SUBSET D /\ i \in 1..i
    BY <1>1
  <2>2. Rightmost(1..i) = i
    <3>1. IsFiniteSet(1..i) /\ 1..i \subseteq Int
      BY <1>3, <2>1, FS_Subset
    <3>2. Rightmost(1..i) \in 1..i /\ \A y \in 1..i : Rightmost(1..i) >= y
      BY <2>1, <3>1, LastIn
    <3>3. QED BY <2>1, <3>2
  <2>3. (1..i) \ {i} = 1 .. (i - 1)
    BY <2>1
  <2>4. g[1..i] = Scan(q, k, F, g[1 .. (i - 1)], i - 1)
    BY <1>4, <2>1, <2>2, <2>3
  <2>5. i - 1 \in Used /\ (i - 1) + 1 = i
    BY <1>1, <2>1 DEF Used
  <2>6. QED BY <1>1, <1>6, <2>4, <2>5, KeepsScanning
<1>7. Kept(g[1..count], q, k, F, count)
  <2> DEFINE Bad(i) == ~Kept(g[1..i], q, k, F, i)
             Y == {1..i : i \in {j \in 0..count : Bad(j)}}
  <2>1. SUFFICES ASSUME Bad(count) PROVE FALSE
    OBVIOUS
  <2> HIDE DEF Bad
  <2>2. PICK S : Smallest(S, Y)
    <3>1. Y \in SUBSET (SUBSET D)
      BY <1>1
    <3>2. 1..count \in Y
      BY <1>1, <2>1
    <3>3. IsFiniteSet(D) /\ Y # {}
      BY <1>3, <3>2
    <3> HIDE DEF Y
    <3>4. QED BY <3>1, <3>3, SmallestSet
  <2>3. PICK i \in 0..count : Bad(i) /\ S = 1..i
    BY <2>2 DEF Smallest
  <2>4. i # 0
    BY <1>5, <2>3 DEF Bad
  <2>5. i \in 1..count /\ i - 1 \in 0..count /\ 1 .. (i - 1) \subseteq 1..i /\ i \in 1..i
        /\ i \notin 1 .. (i - 1)
    BY <1>1, <2>3, <2>4
  <2>6. ~Bad(i - 1)
    <3>1. 1 .. (i - 1) \notin Y
      BY <2>2, <2>3, <2>5 DEF Smallest
    <3>2. QED BY <2>5, <3>1
  <2>7. Kept(g[1 .. (i - 1)], q, k, F, i - 1)
    BY <2>6 DEF Bad
  <2>8. QED BY <1>6, <2>3, <2>5, <2>7 DEF Bad
<1>8. Before(q, F, count) = Candidates(q, F)
  <2>1. 0 .. (count - 1) = Used
    BY <1>1 DEF Used
  <2>2. QED BY <2>1 DEF Before, Allowed, Candidates
<1>9. QED BY <1>1, <1>2, <1>7, <1>8 DEF Kept, Closest, Allowed

(* searchKnn, for at most as many results as there are elements, returns   *)
(* the closest ones of those the filter allows, and k of them without a    *)
(* filter, after any adds and removals.                                    *)
THEOREM SearchExactHolds ==
  ASSUME ~RemoveLast
  PROVE  Spec => []SearchExact
<1>1. IInv => SearchExact
  BY SearchesExactly DEF SearchExact
<1>2. QED BY <1>1, Invariance, PTL
=============================================================================
