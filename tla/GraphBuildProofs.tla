--------------------------- MODULE GraphBuildProofs ---------------------------
(***************************************************************************)
(* The graph of any number of elements, levels and threads, for any M,     *)
(* ef_construction and places without ties.                                *)
(***************************************************************************)
EXTENDS GraphBuild, FiniteSetTheorems, TLAPS

(* Where a thread may be.                                                  *)
Points ==
  {"idle", "global", "entry", "copy", "first", "descend", "search", "link", "publish",
   "upentry", "onehop", "twohop", "relink", "repair", "threw", "undefined"}

(* An operation that has begun and not failed; an insertion's element is   *)
(* complete when the insertion has returned.                               *)
Works(t) == pc[t] \notin {"idle", "threw", "undefined"}
Inserts(t) == Works(t) /\ t \notin updating
Done == {e \in 0..(count - 1) : \A t \in Threads : cur[t] = e => t \in updating}

(* Element e exists, has a list at level l, and no insertion works on it.  *)
Has(e, l) == e \in Elements /\ e < count /\ l <= level[e]
Settled(e) == e \in Elements /\ e < count /\ linkLock[e] = None

(* Which element an operation works on, by itself, at which steps; no      *)
(* thread has thrown.                                                      *)
Owns(t) ==
  /\ pc[t] = "idle" <=> cur[t] = None
  /\ cur[t] # None => cur[t] < count
  /\ pc[t] = "idle" => t \notin updating /\ lev[t] = 0
  /\ pc[t] # "threw"
  /\ t \in updating => pc[t] \notin {"global", "entry", "copy", "first"}
  /\ t \notin updating => pc[t] \notin {"upentry", "onehop", "twohop", "relink", "repair"}
  /\ t \in updating => level[cur[t]] <= maxCopy[t] /\ cur[t] \notin marked
  /\ Inserts(t) => linkLock[cur[t]] = t
  /\ \A u \in Threads : cur[t] = cur[u] /\ cur[t] # None => t = u

(* A link lock is held by the insertion of the element.                    *)
Locks == \A e \in Elements : linkLock[e] # None => Inserts(linkLock[e]) /\ cur[linkLock[e]] = e

OwnerInv == (\A t \in Threads : Owns(t)) /\ Locks

(* The element an operation began at is on every level up to maxCopy.      *)
EntryCopied(t) == epCopy[t] \in Done /\ maxCopy[t] <= level[epCopy[t]]

(* What each step of an operation knows of its elements.                   *)
PlaceInv(t) ==
  /\ pc[t] = "copy" /\ obj[t] # None => obj[t] \in Done /\ maxCopy[t] <= level[obj[t]]
  /\ pc[t] \in {"onehop", "twohop", "relink", "repair", "descend", "search", "link"} => EntryCopied(t)
  /\ pc[t] = "descend" => lev[t] <= maxCopy[t] /\ level[cur[t]] < lev[t] /\ Has(obj[t], lev[t])
  /\ pc[t] \in {"search", "link"} =>
       lev[t] <= maxCopy[t] /\ lev[t] <= level[cur[t]] /\ Has(obj[t], lev[t])
  /\ pc[t] = "search" =>
       /\ \A e \in cand[t] \cup top[t] : Has(e, lev[t])
       /\ \A e \in top[t] : Settled(e) \/ e \in cand[t]
  /\ pc[t] = "link" =>
       /\ todo[t] # {} /\ cur[t] \notin todo[t]
       /\ \A e \in todo[t] : Has(e, lev[t]) /\ Settled(e)
  /\ pc[t] = "upentry" => lev[t] = 0
  /\ pc[t] \in {"onehop", "twohop", "relink"} => lev[t] <= level[cur[t]]
  /\ pc[t] \in {"twohop", "relink"} =>
       \A e \in cand[t] \cup visited[t] \cup todo[t] : Has(e, lev[t])
  /\ pc[t] = "twohop" => \A e \in visited[t] : Settled(e) \/ e \in todo[t]
  /\ pc[t] = "relink" => \A e \in todo[t] : Settled(e)

(* The lists of an element that is inserted are blank where it has not yet *)
(* been linked, and so are those of slots that are free.                   *)
Blank(t) ==
  \A l \in Levels :
    \/ pc[t] = "search" /\ l > lev[t]
    \/ pc[t] = "link" /\ l >= lev[t]
    \/ pc[t] = "publish"
    \/ links[cur[t]][l] = {}
FreshInv ==
  /\ \A t \in Threads : Inserts(t) => Blank(t)
  /\ \A e \in Elements : e >= count => linkLock[e] = None /\ \A l \in Levels : links[e][l] = {}

(* Elements are at different places.                                       *)
VectorInv ==
  /\ vec \in [Elements -> Places]
  /\ \A a, b \in Elements : a # b => vec[a] # vec[b]

(* What a thread knows of the entry point, and who holds global: the       *)
(* insertion of an element above the top level it has seen.                *)
Rises(t) ==
  /\ maxCopy[t] <= maxlevel
  /\ (pc[t] = "copy" /\ obj[t] = None) \/ pc[t] = "first" => Done = {}
  /\ Inserts(t) /\ pc[t] # "global" /\ Done = {} =>
       global = t /\ maxCopy[t] = -1 /\ pc[t] \in {"entry", "copy", "first", "publish"}
  /\ Inserts(t) /\ pc[t] # "global" /\ level[cur[t]] > maxCopy[t] => global = t
  /\ global = t =>
       /\ Inserts(t) /\ pc[t] # "global"
       /\ level[cur[t]] > maxCopy[t] /\ maxlevel <= level[cur[t]]
       /\ maxCopy[t] = maxlevel \/ Done = {}

(* The entry point is a complete element on the top level, but while the   *)
(* first insertion of all, which holds global, is on its way.              *)
EntryInv ==
  /\ enterpoint = None => maxlevel = -1 /\ Done = {}
  /\ Done # {} => enterpoint \in Done /\ level[enterpoint] = maxlevel
  /\ \A e \in Done : level[e] <= maxlevel
  /\ Done = {} /\ enterpoint # None => \E t \in Threads : global = t /\ pc[t] = "publish"
  /\ \A t \in Threads : Rises(t)

(* A list leads to elements that have its level, not to its own element,   *)
(* and fits in its memory, entries that stand there twice included.        *)
Tidy ==
  \A e \in Elements, l \in Levels :
    /\ Size(e, l) <= Capacity(l)
    /\ \A a \in links[e][l] : a # e /\ a < count /\ l <= level[a] /\ l <= level[e]

IInv ==
  /\ TypeOK /\ OwnerInv /\ (\A t \in Threads : PlaceInv(t))
  /\ FreshInv /\ VectorInv /\ Tidy /\ EntryInv
-----------------------------------------------------------------------------
(* Sets of elements are finite.                                            *)
LEMMA Finite ==
  ASSUME NEW S \in SUBSET Elements
  PROVE  /\ IsFiniteSet(S) /\ Cardinality(S) \in Nat
         /\ \A T \in SUBSET S : Cardinality(T) \in Nat /\ Cardinality(T) <= Cardinality(S)
         /\ \A T \in SUBSET S : T # S => Cardinality(T) < Cardinality(S)
         /\ \A a \in S : Cardinality(S) = Cardinality(S \ {a}) + 1
<1>1. 0 \in Int /\ MaxElements - 1 \in Int
  BY SizeAssumption
<1>2. IsFiniteSet(Elements)
  BY <1>1, FS_Interval DEF Elements
<1>3. IsFiniteSet(S)
  BY <1>2, FS_Subset
<1>4. \A T \in SUBSET S : IsFiniteSet(T) /\ Cardinality(T) <= Cardinality(S)
        /\ (Cardinality(S) = Cardinality(T) => S = T)
  BY <1>3, FS_Subset
<1>5. \A T \in SUBSET S : Cardinality(T) \in Nat
  BY <1>4, FS_CardinalityType
<1>6. Cardinality(S) \in Nat
  BY <1>5
<1>7. \A a \in S : Cardinality(S) = Cardinality(S \ {a}) + 1
  <2> TAKE a \in S
  <2>1. Cardinality(S \ {a}) = IF a \in S THEN Cardinality(S) - 1 ELSE Cardinality(S)
    BY <1>3, FS_RemoveElement
  <2> QED
    BY <2>1, <1>6
<1> QED
  BY <1>3, <1>4, <1>5, <1>6, <1>7

LEMMA AddOne ==
  ASSUME NEW S \in SUBSET Elements, NEW a \in Elements
  PROVE  Cardinality(S \cup {a}) <= Cardinality(S) + 1
<1>1. IsFiniteSet(S) /\ Cardinality(S) \in Nat
  BY Finite
<1>2. Cardinality(S \cup {a}) = IF a \in S THEN Cardinality(S) ELSE Cardinality(S) + 1
  BY <1>1, FS_AddElement
<1> QED
  BY <1>1, <1>2

(* Elements at different places are at different distances.                *)
LEMMA Distances ==
  ASSUME VectorInv, NEW a \in Elements, NEW b \in Elements, NEW q \in Elements
  PROVE  /\ Dist(a, q) \in Nat
         /\ a # b => Dist(a, q) # Dist(b, q)
<1>1. \A p \in Places : p \in Int
  BY PositionAssumption DEF Places
<1>2. vec[a] \in Places /\ vec[b] \in Places /\ vec[q] \in Places
  BY DEF VectorInv
<1>3. a # b => vec[a] # vec[b]
  BY DEF VectorInv
<1>4. \A x, y, z \in Places : x # y => Abs(x - z) # Abs(y - z)
  BY DistanceAssumption
<1> QED
  BY <1>1, <1>2, <1>3, <1>4 DEF Dist, Abs

(* A set of elements that is not empty has a member with the least number  *)
(* of members beyond it, and nothing is beyond that one.                   *)
Beyond(S, q, a) == {b \in S : Dist(b, q) > Dist(a, q)}
LEMMA HasFarthest ==
  ASSUME VectorInv, NEW S \in SUBSET Elements, S # {}, NEW q \in Elements
  PROVE  Farthest(S, q) \in S /\ \A b \in S : Dist(Farthest(S, q), q) >= Dist(b, q)
<1> DEFINE All == {Beyond(S, q, a) : a \in S}
           R == StrictSubsetOrdering(Elements)
<1>1. \A a \in S : Beyond(S, q, a) \in FiniteSubsetsOf(Elements)
  BY Finite DEF Beyond, FiniteSubsetsOf
<1>2. All \subseteq FiniteSubsetsOf(Elements) /\ All # {}
  BY <1>1
<1>3. IsWellFoundedOn(R, FiniteSubsetsOf(Elements))
  BY FS_StrictSubsetOrderingWellFounded
<1> HIDE DEF All, R
<1>4. PICK B \in All : \A C \in All : ~ (<<C, B>> \in R)
  BY <1>2, <1>3, WFMin
<1>5. PICK a \in S : B = Beyond(S, q, a)
  BY <1>4 DEF All
<1>6. ASSUME NEW b \in S, Dist(b, q) > Dist(a, q) PROVE FALSE
  <2>0. \A c \in S : Dist(c, q) \in Nat
    BY Distances
  <2>1. Beyond(S, q, b) \subseteq Beyond(S, q, a) /\ b \in Beyond(S, q, a) /\ b \notin Beyond(S, q, b)
    <3>1. \A c : c \in Beyond(S, q, a) <=> c \in S /\ Dist(c, q) > Dist(a, q)
      BY DEF Beyond
    <3>2. \A c : c \in Beyond(S, q, b) <=> c \in S /\ Dist(c, q) > Dist(b, q)
      BY DEF Beyond
    <3>3. \A c \in S : (Dist(c, q) > Dist(b, q) => Dist(c, q) > Dist(a, q)) /\ ~(Dist(c, q) > Dist(c, q))
      BY <1>6, <2>0
    <3> QED
      BY <1>6, <3>1, <3>2, <3>3
  <2>2. Beyond(S, q, b) \in All
    BY DEF All
  <2>3. <<Beyond(S, q, b), B>> \in R
    BY <2>1, <1>5 DEF R, StrictSubsetOrdering, Beyond
  <2> QED
    BY <2>2, <2>3, <1>4
<1>7. \E x \in S : \A b \in S : Dist(x, q) >= Dist(b, q)
  BY <1>6, Distances
<1> QED
  BY <1>7 DEF Farthest

(* The members of S farther than none but the ones nearer than a.          *)
LEMMA HasClosest ==
  ASSUME VectorInv, NEW S \in SUBSET Elements, S # {}, NEW q \in Elements
  PROVE  Closest(S, q) \in S /\ \A b \in S : Dist(Closest(S, q), q) <= Dist(b, q)
<1> DEFINE Nearer(a) == {b \in S : Dist(b, q) < Dist(a, q)}
           All == {Nearer(a) : a \in S}
           R == StrictSubsetOrdering(Elements)
<1>1. \A a \in S : Nearer(a) \in FiniteSubsetsOf(Elements)
  BY Finite DEF FiniteSubsetsOf
<1>2. All \subseteq FiniteSubsetsOf(Elements) /\ All # {}
  BY <1>1
<1>3. IsWellFoundedOn(R, FiniteSubsetsOf(Elements))
  BY FS_StrictSubsetOrderingWellFounded
<1> HIDE DEF All, R
<1>4. PICK B \in All : \A C \in All : ~ (<<C, B>> \in R)
  BY <1>2, <1>3, WFMin
<1>5. PICK a \in S : B = Nearer(a)
  BY <1>4 DEF All
<1>6. ASSUME NEW b \in S, Dist(b, q) < Dist(a, q) PROVE FALSE
  <2>0. \A c \in S : Dist(c, q) \in Nat
    BY Distances
  <2>1. Nearer(b) \subseteq Nearer(a) /\ b \in Nearer(a) /\ b \notin Nearer(b)
    BY <1>6, <2>0
  <2>2. Nearer(b) \in All
    BY DEF All
  <2>3. <<Nearer(b), B>> \in R
    BY <2>1, <1>5 DEF R, StrictSubsetOrdering
  <2> QED
    BY <2>2, <2>3, <1>4
<1>7. \E x \in S : \A b \in S : Dist(x, q) <= Dist(b, q)
  BY <1>6, Distances
<1> QED
  BY <1>7 DEF Closest

(* A bounded queue is bounded: without ties no more than n elements have   *)
(* fewer than n elements nearer than themselves.                           *)
LEMMA NearestBounded ==
  ASSUME VectorInv, NEW S \in SUBSET Elements, NEW q \in Elements, NEW n \in Nat
  PROVE  Nearest(S, q, n) \subseteq S /\ Cardinality(Nearest(S, q, n)) <= n
<1> DEFINE T == Nearest(S, q, n)
<1>1. T \in SUBSET S /\ T \in SUBSET Elements
  BY DEF Nearest
<1>2. CASE T = {}
  BY <1>1, <1>2, FS_EmptySet
<1>3. CASE T # {}
  <2> DEFINE a == Farthest(T, q)
             N == {b \in S : Dist(b, q) < Dist(a, q)}
  <2>1. a \in T /\ \A b \in T : Dist(a, q) >= Dist(b, q)
    BY <1>1, <1>3, HasFarthest
  <2>2. Cardinality(N) < n
    BY <2>1 DEF Nearest
  <2>3. T \ {a} \subseteq N
    <3> SUFFICES ASSUME NEW b \in T, b # a PROVE b \in N
      OBVIOUS
    <3>1. Dist(a, q) \in Nat /\ Dist(b, q) \in Nat /\ Dist(a, q) # Dist(b, q)
      BY <1>1, <2>1, Distances
    <3> QED
      BY <1>1, <2>1, <3>1
  <2>4. N \in SUBSET Elements
    OBVIOUS
  <2> HIDE DEF a, N, T
  <2>5. Cardinality(T \ {a}) <= Cardinality(N) /\ Cardinality(N) \in Nat /\ Cardinality(T \ {a}) \in Nat
    BY <2>3, <2>4, Finite
  <2>6. Cardinality(T) = Cardinality(T \ {a}) + 1
    BY <1>1, <2>1, Finite
  <2> QED
    BY <1>1, <2>2, <2>5, <2>6 DEF T
<1> QED
  BY <1>2, <1>3

(* The heuristic chooses among its candidates, and no more than m of them. *)
LEMMA HeuristicBounded ==
  ASSUME VectorInv, NEW S \in SUBSET Elements, NEW q \in Elements, NEW m \in Nat
  PROVE  /\ Heuristic(S, q, m) \subseteq S /\ Cardinality(Heuristic(S, q, m)) <= m
         /\ Pruned(S, q, m) \subseteq S /\ Cardinality(Pruned(S, q, m)) <= m
<1>1. Cardinality(S) \in Nat
  BY Finite
<1>2. S \cap Kept(S, q) \in SUBSET Elements
  OBVIOUS
<1>3. /\ Nearest(S \cap Kept(S, q), q, m) \subseteq S \cap Kept(S, q)
      /\ Cardinality(Nearest(S \cap Kept(S, q), q, m)) <= m
  BY <1>2, NearestBounded
<1> QED
  BY <1>1, <1>3 DEF Heuristic, Pruned

LEMMA Capacities ==
  /\ M \in Nat /\ M >= 1 /\ EfConstruction \in Nat
  /\ \A l \in Levels : Capacity(l) \in Nat /\ M <= Capacity(l)
<1>1. M \in Nat /\ M # 0 /\ EfConstruction \in Nat
  BY SizeAssumption
<1> QED
  BY <1>1 DEF Capacity

-----------------------------------------------------------------------------
(* What a thread relies on while others work: elements stay, with their    *)
(* levels, and so do settled elements and complete ones.                   *)
Grows ==
  /\ count <= count'
  /\ \A e \in Elements : e < count =>
       level'[e] = level[e] /\ (linkLock[e] = None => linkLock'[e] = None)
  /\ Done \subseteq Done'

Same(u) ==
  /\ pc'[u] = pc[u] /\ cur'[u] = cur[u] /\ maxCopy'[u] = maxCopy[u]
  /\ obj'[u] = obj[u] /\ epCopy'[u] = epCopy[u] /\ lev'[u] = lev[u]
  /\ top'[u] = top[u] /\ cand'[u] = cand[u] /\ visited'[u] = visited[u] /\ todo'[u] = todo[u]
  /\ u \in updating' <=> u \in updating

LEMMA DoneExists ==
  ASSUME TypeOK
  PROVE  /\ count \in Nat /\ count <= MaxElements
         /\ \A e : e \in Done => e \in Elements /\ e < count
         /\ \A e \in Elements : e \in Nat /\ level[e] \in Levels
         /\ \A l \in Levels : l \in Nat /\ l <= TopLevel
         /\ TopLevel \in Nat /\ MaxElements \in Nat
<1>1. MaxElements \in Nat /\ TopLevel \in Nat
  BY SizeAssumption
<1>2. count \in 0..MaxElements /\ level \in [Elements -> Levels]
  BY DEF TypeOK
<1> QED
  BY <1>1, <1>2 DEF Done, Elements, Levels

LEMMA OthersKeep ==
  ASSUME TypeOK, TypeOK', OwnerInv, Grows, NEW u \in Threads, Same(u), PlaceInv(u)
  PROVE  PlaceInv(u)'
<1>1. /\ count \in Nat /\ count' \in Nat
      /\ \A e : e \in Done => e \in Elements /\ e < count
      /\ \A e \in Elements : e \in Nat /\ level[e] \in Nat /\ level'[e] \in Nat
  <2>1. count' \in 0..MaxElements /\ level' \in [Elements -> Levels]
    BY DEF TypeOK
  <2> QED
    BY <2>1, DoneExists DEF Levels
<1>2. cur[u] \in Elements \cup {None} /\ (cur[u] # None => cur[u] < count)
  BY DEF TypeOK, OwnerInv, Owns, Locks
<1>3. pc[u] # "idle" => cur[u] # None
  BY DEF OwnerInv, Owns, Locks
<1>4. \A e, l : Has(e, l) => Has(e, l)'
  BY <1>1 DEF Has, Grows
<1>5. \A e : Settled(e) => Settled(e)'
  BY <1>1 DEF Settled, Grows
<1>6. EntryCopied(u) => EntryCopied(u)'
  BY <1>1 DEF EntryCopied, Grows, Same
<1>7. pc[u] # "idle" => level'[cur[u]] = level[cur[u]]
  BY <1>2, <1>3 DEF Grows
<1>8. pc[u] = "copy" /\ obj[u] # None => obj'[u] \in Done' /\ maxCopy'[u] <= level'[obj'[u]]
  BY <1>1 DEF PlaceInv, Grows, Same
<1> QED
  BY <1>4, <1>5, <1>6, <1>7, <1>8 DEF PlaceInv, Same

-----------------------------------------------------------------------------
(* A step that changes what thread t knows, and lists of settled elements  *)
(* or of its own, and nothing else.                                        *)
Local(t) ==
  /\ UNCHANGED <<count, level, vec, entry, global, linkLock, deletes, update, cur, maxCopy>>
  /\ \A u \in Threads \ {t} : Same(u)
  /\ pc[t] # "global" /\ Works(t)
  /\ pc'[t] \in {"copy", "first", "descend", "search", "link", "publish",
                 "onehop", "twohop", "relink", "repair"}
  /\ t \in updating => pc'[t] \notin {"copy", "first"}
  /\ t \notin updating => pc'[t] \notin {"onehop", "twohop", "relink", "repair"}
  /\ \A e \in Elements : links'[e] = links[e] \/ Settled(e) \/ e = cur[t]

LEMMA LocalStep ==
  ASSUME IInv, TypeOK', NEW t \in Threads, Local(t), PlaceInv(t)', Tidy',
         Inserts(t) => Blank(t)',
         (pc'[t] = "copy" /\ obj'[t] = None) \/ pc'[t] = "first" => Done = {},
         t \notin updating /\ Done = {} => pc'[t] \in {"copy", "first", "publish"},
         pc[t] # "publish"
  PROVE  IInv'
<1> USE DEF IInv, entry, deletes, update
<1>1. Done' = Done
  BY DEF Done, Local
<1>2. cur[t] \in Elements /\ cur[t] < count
  BY DEF OwnerInv, Owns, Locks, Local, Works, TypeOK
<1>3. OwnerInv'
  <2>1. \A u \in Threads : cur'[u] = cur[u] /\ maxCopy'[u] = maxCopy[u]
    BY DEF Local
  <2>2. \A u \in Threads \ {t} : pc'[u] = pc[u] /\ lev'[u] = lev[u] /\ (Inserts(u)' <=> Inserts(u))
    BY DEF Local, Same, Inserts, Works
  <2>3. Inserts(t)' <=> Inserts(t)
    BY DEF Local, Inserts, Works
  <2>4. pc'[t] # "idle" /\ pc'[t] # "threw" /\ pc[t] # "idle"
    BY DEF Local, Works
  <2>5. \A u \in Threads : Inserts(u)' <=> Inserts(u)
    BY <2>2, <2>3
  <2>6. \A e \in Elements : linkLock[e] \in Threads \cup {None}
    BY DEF TypeOK
  <2>7. Locks'
    <3>1. \A e \in Elements : linkLock[e] # None => Inserts(linkLock[e]) /\ cur[linkLock[e]] = e
      BY DEF OwnerInv, Owns, Locks
    <3>2. linkLock' = linkLock /\ cur' = cur
      BY DEF Local
    <3>3. ASSUME NEW u \in Threads PROVE Inserts(u)' <=> Inserts(u)
      BY <2>5
    <3>4. \A u \in Threads : Works(u)' /\ u \notin updating' <=> Works(u) /\ u \notin updating
      BY <3>3 DEF Inserts
    <3> QED
      BY <2>6, <3>1, <3>2, <3>4 DEF Inserts, Locks
  <2>8. ASSUME NEW u \in Threads PROVE Owns(u)'
    <3>1. CASE u = t
      BY <2>1, <2>4, <2>5, <3>1 DEF OwnerInv, Owns, Locks, Local
    <3>2. CASE u # t
      BY <2>1, <2>2, <2>5, <3>2 DEF OwnerInv, Owns, Locks, Local
    <3> QED
      BY <3>1, <3>2
  <2> QED
    BY <2>7, <2>8 DEF OwnerInv, Owns, Locks
<1>4. \A u \in Threads : PlaceInv(u)'
  <2>1. Grows
    BY <1>1, DoneExists DEF Grows, Local
  <2>2. ASSUME NEW u \in Threads, u # t PROVE PlaceInv(u)'
    BY <2>1, <2>2, OthersKeep DEF Local
  <2> QED
    BY <2>2
<1>5. FreshInv'
  <2>1. ASSUME NEW u \in Threads, u # t, Inserts(u)' PROVE Blank(u)'
    <3>1. Inserts(u) /\ pc'[u] = pc[u] /\ cur'[u] = cur[u] /\ lev'[u] = lev[u]
      BY <2>1 DEF Local, Same, Inserts, Works
    <3>2. cur[u] \in Elements /\ cur[u] # cur[t] /\ linkLock[cur[u]] = u /\ u # None
      BY <1>2, <2>1, <3>1, NoneAssumption DEF OwnerInv, Owns, Locks, TypeOK, Inserts, Works
    <3>3. links'[cur[u]] = links[cur[u]]
      BY <3>2 DEF Local, Settled
    <3>4. Blank(u)
      BY <3>1 DEF FreshInv
    <3> QED
      BY <3>1, <3>3, <3>4 DEF Blank
  <2>2. Inserts(t)' => Blank(t)'
    BY DEF Local, Inserts, Works
  <2>3. ASSUME NEW e \in Elements, e >= count'
        PROVE  linkLock'[e] = None /\ \A l \in Levels : links'[e][l] = {}
    <3>1. count' = count /\ linkLock' = linkLock
      BY DEF Local
    <3>2. count \in Nat /\ e \in Nat
      BY DoneExists
    <3>3. links'[e] = links[e]
      BY <1>2, <2>3, <3>1, <3>2 DEF Local, Settled
    <3> QED
      BY <2>3, <3>1, <3>3 DEF FreshInv
  <2> QED
    BY <2>1, <2>2, <2>3 DEF FreshInv
<1>6. VectorInv'
  BY DEF VectorInv, Local
<1>7. EntryInv'
  <2>1. /\ enterpoint' = enterpoint /\ maxlevel' = maxlevel /\ level' = level
        /\ global' = global /\ cur' = cur /\ maxCopy' = maxCopy /\ updating' = updating
    BY DEF Local
  <2>2. /\ enterpoint' = None => maxlevel' = -1 /\ Done' = {}
        /\ Done' # {} => enterpoint' \in Done' /\ level'[enterpoint'] = maxlevel'
        /\ \A e \in Done' : level'[e] <= maxlevel'
    BY <1>1, <2>1 DEF EntryInv, Rises
  <2>3. Done' = {} /\ enterpoint' # None => \E u \in Threads : global' = u /\ pc'[u] = "publish"
    BY <1>1, <2>1 DEF EntryInv, Rises, Local, Same
  <2>4. ASSUME NEW u \in Threads PROVE Rises(u)'
    <3>1. CASE u = t
      <4>1. Inserts(t)' <=> Inserts(t)
        BY DEF Local, Inserts, Works
      <4>2. pc[t] # "global" /\ pc'[t] # "global"
        BY DEF Local
      <4> QED
        BY <1>1, <2>1, <3>1, <4>1, <4>2 DEF EntryInv, Rises, Inserts
    <3>2. CASE u # t
      <4>1. (Inserts(u)' <=> Inserts(u)) /\ pc'[u] = pc[u] /\ obj'[u] = obj[u]
        BY <3>2 DEF Local, Same, Inserts, Works
      <4> QED
        BY <1>1, <2>1, <4>1 DEF EntryInv, Rises
    <3> QED
      BY <3>1, <3>2
  <2> QED
    BY <2>2, <2>3, <2>4 DEF EntryInv, Rises
<1> QED
  BY <1>3, <1>4, <1>5, <1>6, <1>7


-----------------------------------------------------------------------------
(* What holds of the thread of an operation that has begun.                *)
LEMMA AtWork ==
  ASSUME IInv, NEW t \in Threads, Works(t)
  PROVE  /\ cur[t] \in Elements /\ cur[t] < count
         /\ level[cur[t]] \in Levels /\ lev[t] \in Levels /\ maxCopy[t] \in Levels \cup {-1}
         /\ links[cur[t]] \in [Levels -> SUBSET Elements]
         /\ cand[t] \in SUBSET Elements /\ top[t] \in SUBSET Elements
         /\ visited[t] \in SUBSET Elements /\ todo[t] \in SUBSET Elements
         /\ t \in updating => cur[t] \in Done
         /\ \A e \in Levels : e \in Nat /\ e <= TopLevel
         /\ count \in Nat /\ TopLevel \in Nat /\ None \notin Elements /\ None \notin Threads
<1>1. cur[t] \in Elements /\ cur[t] < count
  BY DEF IInv, OwnerInv, Owns, Locks, Works, TypeOK
<1>2. t \in updating => cur[t] \in Done
  <2>1. t \in updating => \A u \in Threads : cur[u] = cur[t] => u \in updating
    BY <1>1, NoneAssumption DEF IInv, OwnerInv, Owns, Locks, Elements
  <2>2. cur[t] \in 0..(count - 1)
    BY <1>1, DoneExists DEF IInv, Elements
  <2> QED
    BY <2>1, <2>2 DEF Done
<1>3. \A l \in Levels : l \in Nat /\ l <= TopLevel
  BY DoneExists DEF IInv
<1>4. count \in Nat /\ TopLevel \in Nat /\ None \notin Elements /\ None \notin Threads
  BY DoneExists, NoneAssumption DEF IInv, Elements
<1> QED
  BY <1>1, <1>2, <1>3, <1>4 DEF IInv, TypeOK

LEMMA DoneSettled ==
  ASSUME IInv
  PROVE  \A e \in Done : Settled(e) /\ e \in Elements /\ e < count /\ level[e] \in Levels
<1> SUFFICES ASSUME NEW e \in Done PROVE Settled(e) /\ e \in Elements /\ e < count /\ level[e] \in Levels
  OBVIOUS
<1>1. e \in Elements /\ e < count /\ level[e] \in Levels
  BY DoneExists DEF IInv, TypeOK
<1>2. linkLock[e] \in Threads \cup {None}
  BY <1>1 DEF IInv, TypeOK
<1>3. linkLock[e] = None
  BY <1>1, <1>2 DEF IInv, OwnerInv, Owns, Locks, Inserts, Done
<1> QED
  BY <1>1, <1>3 DEF Settled

(* As long as the lists stay, so does their integrity.                     *)
LEMMA SameLists ==
  ASSUME Tidy, links' = links, again' = again, level' = level, count' = count
  PROVE  Tidy'
  BY DEF Tidy, Capacity, Size

(* While a complete element exists the entry point is one, on top.         *)
LEMMA EntryDone ==
  ASSUME IInv, NEW t \in Threads, Done # {}
  PROVE  /\ enterpoint \in Done /\ level[enterpoint] = maxlevel /\ maxCopy[t] <= maxlevel
         /\ enterpoint \in Elements /\ enterpoint # None /\ enterpoint < count /\ maxlevel \in Levels
<1>1. enterpoint \in Done /\ level[enterpoint] = maxlevel /\ maxCopy[t] <= maxlevel
  BY DEF IInv, EntryInv, Rises
<1>2. None \notin Elements
  BY NoneAssumption DEF Elements
<1> QED
  BY <1>1, <1>2, DoneSettled

(* A thread that starts a search, at a level it may search.                *)
LEMMA SearchStarts ==
  ASSUME IInv, NEW t \in Threads, NEW s \in Elements, NEW l \in Levels,
         StartSearch(t, s, l), Has(s, l), obj'[t] = s,
         EntryCopied(t)', l <= maxCopy[t], l <= level[cur[t]],
         count' = count, level' = level, maxCopy' = maxCopy, cur' = cur
  PROVE  PlaceInv(t)'
<1>1. /\ pc'[t] = "search" /\ lev'[t] = l /\ cand'[t] = {s} /\ top'[t] \subseteq {s}
  BY DEF StartSearch, Goto, IInv, TypeOK
<1>2. \A e \in cand'[t] \cup top'[t] : Has(e, l)'
  BY <1>1 DEF Has
<1>3. Has(s, l)'
  BY DEF Has
<1> QED
  BY <1>1, <1>2, <1>3 DEF PlaceInv, EntryCopied, Settled, Has

LEMMA StepReadEntry ==
  ASSUME IInv, NEW t \in Threads, ReadEntry(t)
  PROVE  IInv'
<1> USE DEF ReadEntry, Goto, graph, entry, deletes, update, queues
<1>1. Works(t) /\ Inserts(t)
  BY DEF Works, Inserts, IInv, OwnerInv, Owns, Locks
<1>2. TypeOK'
  BY DEF IInv, TypeOK
<1>3. pc'[t] = "copy" /\ obj'[t] = enterpoint
  BY DEF IInv, TypeOK
<1>4. Local(t)
  BY <1>1, <1>3 DEF Local, Same, IInv, TypeOK, Inserts
<1>5. enterpoint # None => Done # {}
  <2>1. global \in Threads \cup {None} /\ None \notin Threads
    BY NoneAssumption DEF IInv, TypeOK
  <2> QED
    BY <1>1, <2>1 DEF IInv, EntryInv, Rises
<1>6. Done' = Done
  BY DEF Done
<1>7. PlaceInv(t)'
  BY <1>3, <1>5, <1>6, EntryDone DEF PlaceInv, IInv, EntryInv, Rises
<1>8. Inserts(t) => Blank(t)'
  BY <1>3 DEF Blank, IInv, FreshInv
<1>9. Tidy'
  BY SameLists DEF IInv
<1>10. obj'[t] = None => Done = {}
  BY <1>3 DEF IInv, EntryInv, Rises
<1> QED
  BY <1>2, <1>3, <1>4, <1>7, <1>8, <1>9, <1>10, LocalStep

LEMMA StepCopyEntry ==
  ASSUME IInv, NEW t \in Threads, CopyEntry(t)
  PROVE  IInv'
<1> USE DEF CopyEntry, Goto, graph, entry, deletes, update, queues
<1>1. Works(t) /\ Inserts(t)
  BY DEF Works, Inserts, IInv, OwnerInv, Owns, Locks
<1>2. obj[t] # None => Done # {} /\ obj[t] \in Done /\ maxCopy[t] <= level[obj[t]]
  BY DEF IInv, PlaceInv
<1>3. obj[t] # None =>
        /\ obj[t] \in Elements /\ obj[t] < count /\ level[obj[t]] \in Nat /\ maxCopy[t] \in Levels
        /\ maxCopy[t] <= level[obj[t]]
        /\ SmallerOf(level[cur[t]], maxCopy[t]) \in Levels
        /\ SmallerOf(level[cur[t]], maxCopy[t]) <= level[cur[t]]
        /\ SmallerOf(level[cur[t]], maxCopy[t]) <= maxCopy[t]
  <2> SUFFICES ASSUME obj[t] # None
               PROVE /\ obj[t] \in Elements /\ obj[t] < count /\ level[obj[t]] \in Nat /\ maxCopy[t] \in Levels
                     /\ SmallerOf(level[cur[t]], maxCopy[t]) \in Levels
                     /\ SmallerOf(level[cur[t]], maxCopy[t]) <= level[cur[t]]
                     /\ SmallerOf(level[cur[t]], maxCopy[t]) <= maxCopy[t]
    BY <1>2
  <2>1. obj[t] \in Elements /\ obj[t] < count /\ level[obj[t]] \in Nat
    BY <1>1, <1>2, DoneSettled, AtWork
  <2>2. level[cur[t]] > maxCopy[t] => maxCopy[t] = maxlevel
    BY <1>1, <1>2 DEF IInv, EntryInv, Rises
  <2>3. maxlevel \in Levels
    BY <1>2, EntryDone
  <2>4. maxCopy[t] \in Levels
    BY <1>1, <2>2, <2>3, AtWork
  <2> QED
    BY <1>1, <2>1, <2>4, AtWork DEF SmallerOf
<1>4. TypeOK'
  <2>1. obj[t] # None => obj[t] \in Elements /\ maxCopy[t] \in Levels
           /\ SmallerOf(level[cur[t]], maxCopy[t]) \in Levels
    BY <1>3
  <2>2. CASE obj[t] = None
    BY <2>2 DEF IInv, TypeOK
  <2>3. CASE obj[t] # None /\ level[cur[t]] < maxCopy[t]
    BY <2>1, <2>3 DEF IInv, TypeOK, StartDescent
  <2>4. CASE obj[t] # None /\ ~(level[cur[t]] < maxCopy[t])
    <3> DEFINE l == SmallerOf(level[cur[t]], maxCopy[t])
    <3>1. l \in Levels /\ StartSearch(t, obj[t], l)
      BY <2>1, <2>4
    <3> HIDE DEF l
    <3> QED
      BY <2>1, <2>4, <3>1 DEF IInv, TypeOK, StartSearch
  <2> QED
    BY <2>2, <2>3, <2>4
<1>5. /\ epCopy'[t] = enterpoint /\ obj'[t] = obj[t]
      /\ obj[t] = None => pc'[t] = "first"
      /\ obj[t] # None /\ level[cur[t]] < maxCopy[t] => pc'[t] = "descend" /\ lev'[t] = maxCopy[t]
      /\ obj[t] # None /\ ~(level[cur[t]] < maxCopy[t]) => pc'[t] = "search"
  BY DEF IInv, TypeOK, StartDescent, StartSearch
<1>6. Local(t)
  BY <1>1, <1>5 DEF Local, Same, IInv, TypeOK, Inserts, StartDescent, StartSearch
<1>7. Done' = Done
  BY DEF Done
<1>8. obj[t] # None => EntryCopied(t)'
  <2>1. obj[t] # None => maxCopy[t] <= level[enterpoint] /\ enterpoint \in Done
    BY <1>2, EntryDone
  <2> QED
    BY <1>5, <1>7, <2>1 DEF EntryCopied
<1>9. PlaceInv(t)'
  <2>1. CASE obj[t] = None
    BY <1>5, <2>1 DEF PlaceInv
  <2>2. CASE obj[t] # None /\ level[cur[t]] < maxCopy[t]
    <3>1. Has(obj[t], maxCopy[t])'
      BY <1>3, <2>2 DEF Has
    <3>2. maxCopy[t] <= maxCopy[t]
      BY <1>3, <2>2, <1>1, AtWork
    <3> QED
      BY <1>5, <1>8, <2>2, <3>1, <3>2 DEF PlaceInv
  <2>3. CASE obj[t] # None /\ ~(level[cur[t]] < maxCopy[t])
    <3> DEFINE l == SmallerOf(level[cur[t]], maxCopy[t])
    <3>1. l \in Levels /\ l <= level[cur[t]] /\ l <= maxCopy[t]
      BY <1>3, <2>3
    <3>2. StartSearch(t, obj[t], l)
      BY <2>3
    <3> HIDE DEF l
    <3>3. Has(obj[t], l)
      BY <1>1, <1>3, <2>3, <3>1, AtWork DEF Has
    <3> QED
      BY <1>3, <1>4, <1>5, <1>8, <2>3, <3>1, <3>2, <3>3, SearchStarts
  <2> QED
    BY <2>1, <2>2, <2>3
<1>10. Blank(t)'
  <2>1. Blank(t)
    BY <1>1 DEF IInv, FreshInv
  <2>2. \A l \in Levels : links[cur[t]][l] = {}
    BY <2>1 DEF Blank
  <2> QED
    BY <2>2 DEF Blank
<1>11. Tidy'
  BY SameLists DEF IInv
<1>12. obj[t] = None => Done = {}
  BY DEF IInv, EntryInv, Rises
<1> QED
  BY <1>2, <1>4, <1>5, <1>6, <1>9, <1>10, <1>11, <1>12, LocalStep

LEMMA StepDescend ==
  ASSUME IInv, NEW t \in Threads, Descend(t)
  PROVE  IInv'
<1> USE DEF Descend, Goto, graph, entry, deletes, update, queues
<1> DEFINE next == Closest({obj[t]} \cup links[obj[t]][lev[t]], cur[t])
<1>1. Works(t)
  BY DEF Works
<1>2. Has(obj[t], lev[t]) /\ EntryCopied(t) /\ lev[t] <= maxCopy[t] /\ level[cur[t]] < lev[t]
  BY DEF IInv, PlaceInv
<1>3. Has(next, lev[t]) /\ next \in Elements
  <2>1. {obj[t]} \cup links[obj[t]][lev[t]] \in SUBSET Elements
    BY <1>1, <1>2, AtWork DEF Has, IInv, TypeOK
  <2>2. next \in {obj[t]} \cup links[obj[t]][lev[t]]
    BY <1>1, <2>1, AtWork, HasClosest DEF IInv
  <2>3. \A a \in links[obj[t]][lev[t]] : a < count /\ lev[t] <= level[a]
    BY <1>1, <1>2, AtWork DEF Has, IInv, Tidy
  <2> QED
    BY <1>2, <2>1, <2>2, <2>3 DEF Has
<1>4. lev[t] - 1 > level[cur[t]] => lev[t] - 1 \in Levels
  BY <1>1, AtWork, SizeAssumption DEF Levels
<1>5. level[cur[t]] \in Levels /\ lev[t] \in Levels /\ lev[t] \in Int /\ level[cur[t]] \in Int
  BY <1>1, AtWork DEF Levels
<1> HIDE DEF next
<1>6. /\ obj' = [obj EXCEPT ![t] = next]
      /\ \/ next # obj[t] /\ UNCHANGED <<pc, lev, queues>>
         \/ next = obj[t] /\ lev[t] - 1 > level[cur[t]] /\ lev' = [lev EXCEPT ![t] = lev[t] - 1] /\ UNCHANGED <<pc, queues>>
         \/ next = obj[t] /\ StartSearch(t, obj[t], level[cur[t]])
  BY DEF next
<1>7. TypeOK'
  <2>1. CASE next # obj[t] /\ UNCHANGED <<pc, lev, queues>>
    BY <1>3, <1>6, <2>1 DEF IInv, TypeOK
  <2>2. CASE lev[t] - 1 > level[cur[t]] /\ lev' = [lev EXCEPT ![t] = lev[t] - 1] /\ UNCHANGED <<pc, queues>>
    BY <1>3, <1>4, <1>6, <2>2 DEF IInv, TypeOK
  <2>3. CASE next = obj[t] /\ StartSearch(t, obj[t], level[cur[t]])
    BY <1>3, <1>5, <1>6, <2>3 DEF IInv, TypeOK, StartSearch
  <2> QED
    BY <1>6, <2>1, <2>2, <2>3
<1>8. pc'[t] \in {"descend", "search"} /\ obj'[t] = next
  BY <1>6 DEF IInv, TypeOK, StartSearch
<1>9. Local(t)
  BY <1>1, <1>6, <1>8 DEF Local, Same, IInv, TypeOK, StartSearch
<1>10. Done' = Done
  BY DEF Done
<1>11. EntryCopied(t)'
  BY <1>2, <1>10 DEF EntryCopied
<1>12. PlaceInv(t)'
  <2>1. CASE UNCHANGED <<pc, lev, queues>>
    <3>1. Has(obj[t], lev[t])'
      BY <1>3, <1>8, <2>1 DEF Has
    <3> QED
      BY <1>2, <1>8, <1>11, <2>1, <3>1 DEF PlaceInv
  <2>2. CASE lev[t] - 1 > level[cur[t]] /\ lev' = [lev EXCEPT ![t] = lev[t] - 1] /\ UNCHANGED <<pc, queues>>
    <3>1. lev'[t] = lev[t] - 1 /\ pc'[t] = "descend"
      BY <2>2 DEF IInv, TypeOK
    <3>2. level[next] \in Int /\ maxCopy[t] \in Int
      BY <1>1, <1>3, AtWork, DoneExists DEF IInv, Levels, TypeOK
    <3>3. Has(obj[t], lev[t])'
      BY <1>3, <1>5, <1>8, <3>1, <3>2 DEF Has
    <3> QED
      BY <1>2, <1>5, <1>8, <1>11, <2>2, <3>1, <3>2, <3>3 DEF PlaceInv
  <2>3. CASE next = obj[t] /\ StartSearch(t, obj[t], level[cur[t]])
    <3>1. Has(next, level[cur[t]]) /\ level[cur[t]] <= maxCopy[t]
      <4>1. level[next] \in Int /\ maxCopy[t] \in Int
        BY <1>1, <1>3, AtWork, DoneExists DEF IInv, Levels, TypeOK
      <4> QED
        BY <1>2, <1>3, <1>5, <4>1 DEF Has
    <3>2. /\ count' = count /\ level' = level /\ maxCopy' = maxCopy /\ cur' = cur
          /\ level[cur[t]] <= level[cur[t]] /\ StartSearch(t, next, level[cur[t]])
      BY <1>5, <2>3
    <3> HIDE DEF Descend, Goto, graph, entry, deletes, update, queues
    <3> QED
      BY <1>3, <1>5, <1>8, <1>11, <3>1, <3>2, SearchStarts
  <2> QED
    BY <1>6, <2>1, <2>2, <2>3
<1>13. Inserts(t) => Blank(t)'
  <2>1. Inserts(t) => \A l \in Levels : links[cur[t]][l] = {}
    BY DEF Blank, IInv, FreshInv
  <2> QED
    BY <2>1 DEF Blank
<1>14. Tidy'
  BY SameLists DEF IInv
<1>15. t \notin updating => Done # {}
  BY <1>1 DEF Inserts, IInv, EntryInv, Rises
<1> QED
  BY <1>7, <1>8, <1>9, <1>12, <1>13, <1>14, <1>15, LocalStep

LEMMA StepExpand ==
  ASSUME IInv, NEW t \in Threads, Expand(t)
  PROVE  IInv'
<1> USE DEF Expand, graph, entry, deletes, update, queues, place
<1> DEFINE e == Closest(cand[t], cur[t])
           new == links[e][lev[t]] \ visited[t]
           better == Nearest(top[t] \cup (new \ marked), cur[t], EfConstruction)
<1>1. Works(t)
  BY DEF Works
<1>2. /\ EntryCopied(t) /\ lev[t] <= maxCopy[t] /\ lev[t] <= level[cur[t]] /\ Has(obj[t], lev[t])
      /\ \A x \in cand[t] \cup top[t] : Has(x, lev[t])
      /\ \A x \in top[t] : Settled(x) \/ x \in cand[t]
  BY DEF IInv, PlaceInv
<1>3. e \in cand[t] /\ e \in Elements /\ e < count /\ linkLock[e] = None
  <2>1. cand[t] # {}
    BY DEF SearchOver
  <2>2. e \in cand[t]
    BY <1>1, <2>1, AtWork, HasClosest DEF IInv
  <2> QED
    BY <1>2, <2>2 DEF Unlocked, Has
<1>4. new \in SUBSET Elements /\ \A a \in new : Has(a, lev[t])
  <2>1. links[e][lev[t]] \in SUBSET Elements
    BY <1>1, <1>3, AtWork DEF IInv, TypeOK
  <2>2. \A a \in links[e][lev[t]] : a < count /\ lev[t] <= level[a]
    BY <1>1, <1>3, AtWork DEF IInv, Tidy
  <2> QED
    BY <2>1, <2>2 DEF Has
<1>5. better \subseteq top[t] \cup new /\ better \in SUBSET Elements
  BY <1>1, <1>4, AtWork DEF Nearest
<1>6. /\ visited' = [visited EXCEPT ![t] = visited[t] \cup new]
      /\ cand' = [cand EXCEPT ![t] = (cand[t] \ {e}) \cup new]
      /\ top' = [top EXCEPT ![t] = better]
  OBVIOUS
<1> HIDE DEF new, better, e
<1>7. TypeOK'
  <2>1. visited[t] \cup new \in SUBSET Elements /\ (cand[t] \ {e}) \cup new \in SUBSET Elements
    BY <1>1, <1>4, AtWork
  <2> QED
    BY <1>5, <1>6, <2>1 DEF IInv, TypeOK
<1>8. pc'[t] = "search" /\ cand'[t] = (cand[t] \ {e}) \cup new /\ top'[t] = better
  BY <1>6 DEF IInv, TypeOK
<1>9. Local(t)
  BY <1>1, <1>6, <1>8 DEF Local, Same, IInv, TypeOK
<1>10. PlaceInv(t)'
  <2>1. Done' = Done
    BY DEF Done
  <2>2. EntryCopied(t)'
    BY <1>2, <2>1 DEF EntryCopied
  <2>3. Has(obj[t], lev[t])' /\ \A x \in cand'[t] \cup top'[t] : Has(x, lev[t])'
    BY <1>2, <1>4, <1>5, <1>8 DEF Has
  <2>4. Settled(e)
    BY <1>3 DEF Settled
  <2>5. \A x \in top'[t] : Settled(x) \/ x \in cand'[t]
    BY <1>2, <1>5, <1>8, <2>4
  <2>6. \A x : Settled(x)' <=> Settled(x)
    BY DEF Settled
  <2> QED
    BY <1>2, <1>8, <2>2, <2>3, <2>5, <2>6 DEF PlaceInv
<1>11. Inserts(t) => Blank(t)'
  BY <1>8 DEF Blank, IInv, FreshInv
<1>12. Tidy'
  BY SameLists DEF IInv
<1>13. t \notin updating => Done # {}
  BY <1>1 DEF Inserts, IInv, EntryInv, Rises
<1> QED
  BY <1>7, <1>8, <1>9, <1>10, <1>11, <1>12, <1>13, LocalStep

(* The lists at a level an element has lead to elements that have it too.  *)
LEMMA ListHas ==
  ASSUME IInv, NEW e \in Elements, NEW l \in Levels
  PROVE  /\ links[e][l] \in SUBSET Elements
         /\ \A a \in links[e][l] : Has(a, l) /\ a # e
<1>1. links[e][l] \in SUBSET Elements
  BY DEF IInv, TypeOK
<1> QED
  BY <1>1 DEF IInv, Tidy, Has

LEMMA StepOneHop ==
  ASSUME IInv, NEW t \in Threads, OneHop(t)
  PROVE  IInv'
<1> USE DEF OneHop, Goto, graph, entry, deletes, update
<1> DEFINE near == links[cur[t]][lev[t]]
<1>1. Works(t) /\ t \in updating
  BY DEF Works, IInv, OwnerInv, Owns, Locks
<1>2. EntryCopied(t) /\ lev[t] <= level[cur[t]]
  BY DEF IInv, PlaceInv
<1>3. near \in SUBSET Elements /\ \A a \in near : Has(a, lev[t])
  BY <1>1, AtWork, ListHas
<1>4. Has(cur[t], lev[t])
  BY <1>1, <1>2, AtWork DEF Has
<1>5. lev[t] < level[cur[t]] => lev[t] + 1 \in Levels /\ lev[t] + 1 <= level[cur[t]]
  BY <1>1, AtWork DEF Levels
<1> HIDE DEF near
<1>6. /\ cand' = [cand EXCEPT ![t] = near \cup {cur[t]}]
      /\ visited' = [visited EXCEPT ![t] = near]
      /\ todo' = [todo EXCEPT ![t] = near]
      /\ \/ pc' = [pc EXCEPT ![t] = "onehop"] /\ lev[t] < level[cur[t]] /\ lev' = [lev EXCEPT ![t] = lev[t] + 1]
         \/ pc' = [pc EXCEPT ![t] = "repair"] /\ lev' = lev
         \/ pc' = [pc EXCEPT ![t] = "twohop"] /\ lev' = lev
  BY DEF near, NextLayer
<1>7. TypeOK'
  <2>0. near \cup {cur[t]} \in SUBSET Elements
    BY <1>1, <1>3, AtWork
  <2>1. /\ todo' \in [Threads -> SUBSET Elements] /\ visited' \in [Threads -> SUBSET Elements]
        /\ cand' \in [Threads -> SUBSET Elements]
    BY <1>3, <1>6, <2>0 DEF IInv, TypeOK
  <2>2. lev' \in [Threads -> Levels]
    BY <1>5, <1>6 DEF IInv, TypeOK
  <2>3. pc' \in [Threads -> Points]
    <3>1. pc \in [Threads -> Points]
      BY DEF IInv, TypeOK, Points
    <3>2. {"onehop", "repair", "twohop"} \subseteq Points
      BY DEF Points
    <3> QED
      BY <1>6, <3>1, <3>2
  <2> QED
    BY <2>1, <2>2, <2>3 DEF IInv, TypeOK, Points
<1>8. /\ cand'[t] = near \cup {cur[t]} /\ visited'[t] = near /\ todo'[t] = near
      /\ \/ pc'[t] = "onehop" /\ lev'[t] <= level[cur[t]]
         \/ pc'[t] = "repair"
         \/ pc'[t] = "twohop" /\ lev'[t] = lev[t]
  BY <1>5, <1>6 DEF IInv, TypeOK
<1>9. Local(t)
  <2>1. \A u \in Threads \ {t} : Same(u)
    BY <1>6 DEF Same, IInv, TypeOK
  <2> QED
    BY <1>1, <1>8, <2>1 DEF Local
<1>10. PlaceInv(t)'
  <2>1. Done' = Done
    BY DEF Done
  <2>2. EntryCopied(t)'
    BY <1>2, <2>1 DEF EntryCopied
  <2>3. pc'[t] = "twohop" => \A e \in cand'[t] \cup visited'[t] \cup todo'[t] : Has(e, lev[t])'
    BY <1>3, <1>4, <1>8 DEF Has
  <2> QED
    BY <1>2, <1>8, <2>2, <2>3 DEF PlaceInv
<1>11. Tidy'
  BY SameLists DEF IInv
<1> QED
  BY <1>1, <1>7, <1>8, <1>9, <1>10, <1>11, LocalStep DEF Inserts

LEMMA StepTwoHop ==
  ASSUME IInv, NEW t \in Threads, NEW e \in Elements, TwoHop(t, e)
  PROVE  IInv'
<1> USE DEF TwoHop, Goto, graph, entry, deletes, update, place
<1>1. Works(t) /\ t \in updating
  BY DEF Works, IInv, OwnerInv, Owns, Locks
<1>2. /\ EntryCopied(t) /\ lev[t] <= level[cur[t]]
      /\ \A a \in cand[t] \cup visited[t] \cup todo[t] : Has(a, lev[t])
      /\ \A a \in visited[t] : Settled(a) \/ a \in todo[t]
  BY DEF IInv, PlaceInv
<1>3. links[e][lev[t]] \in SUBSET Elements /\ \A a \in links[e][lev[t]] : Has(a, lev[t])
  BY <1>1, AtWork, ListHas
<1>4. Settled(e)
  BY <1>2 DEF Settled, Has, Unlocked
<1>5. TypeOK'
  <2>1. cand[t] \cup links[e][lev[t]] \in SUBSET Elements /\ todo[t] \ {e} \in SUBSET Elements
        /\ visited[t] \in SUBSET Elements
    BY <1>1, <1>3, AtWork
  <2> QED
    BY <2>1 DEF IInv, TypeOK
<1>6. /\ cand'[t] = cand[t] \cup links[e][lev[t]] /\ visited'[t] = visited[t]
      /\ \/ pc'[t] = "relink" /\ todo[t] = {e} /\ todo'[t] = visited[t]
         \/ pc'[t] = "twohop" /\ todo'[t] = todo[t] \ {e}
  BY DEF IInv, TypeOK
<1>7. Local(t)
  <2>1. \A u \in Threads \ {t} : Same(u)
    BY DEF Same, IInv, TypeOK
  <2> QED
    BY <1>1, <1>6, <2>1 DEF Local
<1>8. PlaceInv(t)'
  <2>1. Done' = Done
    BY DEF Done
  <2>2. EntryCopied(t)'
    BY <1>2, <2>1 DEF EntryCopied
  <2>3. \A a \in cand'[t] \cup visited'[t] \cup todo'[t] : Has(a, lev[t])'
    BY <1>2, <1>3, <1>6 DEF Has
  <2>4. \A a : Settled(a)' <=> Settled(a)
    BY DEF Settled
  <2>5. CASE pc'[t] = "relink" /\ todo[t] = {e} /\ todo'[t] = visited[t]
    <3>1. \A a \in todo'[t] : Settled(a)'
      BY <1>2, <1>4, <2>4, <2>5
    <3> QED
      BY <1>2, <2>2, <2>3, <2>5, <3>1 DEF PlaceInv
  <2>6. CASE pc'[t] = "twohop" /\ todo'[t] = todo[t] \ {e}
    <3>1. \A a \in visited'[t] : Settled(a)' \/ a \in todo'[t]
      BY <1>2, <1>4, <1>6, <2>4, <2>6
    <3> QED
      BY <1>2, <2>2, <2>3, <2>6, <3>1 DEF PlaceInv
  <2> QED
    BY <1>6, <2>5, <2>6
<1>9. Tidy'
  BY SameLists DEF IInv
<1> QED
  BY <1>1, <1>5, <1>6, <1>7, <1>8, <1>9, LocalStep DEF Inserts

(* A list is replaced by a bounded choice of elements that have its level. *)
LEMMA WriteList ==
  ASSUME IInv, NEW e \in Elements, NEW l \in Levels, NEW S \in SUBSET Elements, NEW n \in Nat,
         Has(e, l), \A a \in S : Has(a, l) /\ a # e, Cardinality(S) + n <= Capacity(l),
         links' = [links EXCEPT ![e][l] = S], again' = [again EXCEPT ![e][l] = n],
         level' = level, count' = count
  PROVE  /\ Tidy'
         /\ links' \in [Elements -> [Levels -> SUBSET Elements]]
         /\ again' \in [Elements -> [Levels -> Nat]]
         /\ \A x \in Elements : x # e => links'[x] = links[x]
         /\ links'[e][l] = S
         /\ \A k \in Levels : k # l => links'[e][k] = links[e][k]
<1>1. links \in [Elements -> [Levels -> SUBSET Elements]] /\ again \in [Elements -> [Levels -> Nat]]
  BY DEF IInv, TypeOK
<1>2. /\ \A x \in Elements : x # e => links'[x] = links[x]
      /\ links'[e][l] = S
      /\ \A k \in Levels : k # l => links'[e][k] = links[e][k]
      /\ links' \in [Elements -> [Levels -> SUBSET Elements]]
  BY <1>1
<1>3. /\ \A x \in Elements : x # e => again'[x] = again[x]
      /\ again'[e][l] = n
      /\ \A k \in Levels : k # l => again'[e][k] = again[e][k]
      /\ again' \in [Elements -> [Levels -> Nat]]
  BY <1>1
<1>4. Tidy'
  <2> SUFFICES ASSUME NEW x \in Elements, NEW k \in Levels
               PROVE /\ Cardinality(links'[x][k]) + again'[x][k] <= Capacity(k)
                     /\ \A a \in links'[x][k] : a # x /\ a < count /\ k <= level[a] /\ k <= level[x]
    BY DEF Tidy, Capacity, Size
  <2>1. CASE x = e /\ k = l
    BY <1>2, <1>3, <2>1 DEF Has
  <2>2. CASE ~(x = e /\ k = l)
    <3>1. links'[x][k] = links[x][k] /\ again'[x][k] = again[x][k]
      BY <1>2, <1>3, <2>2
    <3> QED
      BY <3>1 DEF IInv, Tidy, Size
  <2> QED
    BY <2>1, <2>2
<1> QED
  BY <1>2, <1>3, <1>4

(* So is a list without repeated entries.                                  *)
LEMMA WriteAnew ==
  ASSUME IInv, NEW e \in Elements, NEW l \in Levels, NEW S \in SUBSET Elements,
         Has(e, l), \A a \in S : Has(a, l) /\ a # e, Cardinality(S) <= Capacity(l),
         Write(e, l, S), level' = level, count' = count
  PROVE  /\ Tidy'
         /\ links' \in [Elements -> [Levels -> SUBSET Elements]]
         /\ again' \in [Elements -> [Levels -> Nat]]
         /\ \A x \in Elements : x # e => links'[x] = links[x]
         /\ links'[e][l] = S
         /\ \A k \in Levels : k # l => links'[e][k] = links[e][k]
<1>1. Cardinality(S) + 0 <= Capacity(l)
  BY Finite
<1>2. links' = [links EXCEPT ![e][l] = S] /\ again' = [again EXCEPT ![e][l] = 0]
  BY DEF Write
<1> QED
  BY <1>1, <1>2, WriteList

LEMMA StepRelink ==
  ASSUME IInv, NEW t \in Threads, NEW e \in Elements, Relink(t, e)
  PROVE  IInv'
<1> USE DEF Relink, Goto, graph, entry, deletes, update, queues
<1> DEFINE near == Nearest(cand[t] \ {e}, e, EfConstruction)
           S == Heuristic(near, e, Capacity(lev[t]))
<1>1. Works(t) /\ t \in updating
  BY DEF Works, IInv, OwnerInv, Owns, Locks
<1>2. /\ EntryCopied(t) /\ lev[t] <= level[cur[t]]
      /\ \A a \in cand[t] \cup visited[t] \cup todo[t] : Has(a, lev[t])
      /\ \A a \in todo[t] : Settled(a)
  BY DEF IInv, PlaceInv
<1>3. S \in SUBSET Elements /\ (\A a \in S : Has(a, lev[t]) /\ a # e) /\ Cardinality(S) <= Capacity(lev[t])
  <2>1. near \subseteq cand[t] \ {e}
    BY DEF Nearest
  <2>2. near \in SUBSET Elements
    BY <1>1, <2>1, AtWork
  <2>3. Capacity(lev[t]) \in Nat
    BY <1>1, AtWork, Capacities
  <2> HIDE DEF near
  <2>4. S \subseteq near /\ Cardinality(S) <= Capacity(lev[t])
    BY <2>2, <2>3, HeuristicBounded DEF IInv
  <2> QED
    BY <1>2, <2>1, <2>2, <2>4
<1>4. Write(e, lev[t], S)
  OBVIOUS
<1> HIDE DEF near, S
<1>5. /\ Tidy'
      /\ links' \in [Elements -> [Levels -> SUBSET Elements]]
      /\ again' \in [Elements -> [Levels -> Nat]]
      /\ \A x \in Elements : x # e => links'[x] = links[x]
  BY <1>1, <1>2, <1>3, <1>4, AtWork, WriteAnew
<1>6. lev[t] < level[cur[t]] => lev[t] + 1 \in Levels /\ lev[t] + 1 <= level[cur[t]]
  BY <1>1, AtWork DEF Levels
<1>7. /\ todo' = [todo EXCEPT ![t] = todo[t] \ {e}]
      /\ \/ pc' = [pc EXCEPT ![t] = "onehop"] /\ lev[t] < level[cur[t]] /\ lev' = [lev EXCEPT ![t] = lev[t] + 1]
         \/ pc' = [pc EXCEPT ![t] = "repair"] /\ lev' = lev
         \/ pc' = pc /\ lev' = lev
  BY DEF NextLayer
<1>8. TypeOK'
  <2>1. todo' \in [Threads -> SUBSET Elements]
    BY <1>7 DEF IInv, TypeOK
  <2>2. lev' \in [Threads -> Levels]
    BY <1>6, <1>7 DEF IInv, TypeOK
  <2>3. pc' \in [Threads -> Points]
    <3>1. pc \in [Threads -> Points]
      BY DEF IInv, TypeOK, Points
    <3>2. {"onehop", "repair", "twohop"} \subseteq Points
      BY DEF Points
    <3> QED
      BY <1>7, <3>1, <3>2
  <2> QED
    BY <1>5, <2>1, <2>2, <2>3 DEF IInv, TypeOK, Points
<1>9. /\ todo'[t] = todo[t] \ {e}
      /\ \/ pc'[t] = "onehop" /\ lev'[t] <= level[cur[t]]
         \/ pc'[t] = "repair"
         \/ pc'[t] = "relink" /\ lev'[t] = lev[t]
  BY <1>6, <1>7 DEF IInv, TypeOK
<1>10. Local(t)
  <2>1. \A u \in Threads \ {t} : Same(u)
    BY <1>7 DEF Same, IInv, TypeOK
  <2> QED
    BY <1>1, <1>2, <1>5, <1>9, <2>1 DEF Local
<1>11. PlaceInv(t)'
  <2>1. Done' = Done
    BY DEF Done
  <2>2. EntryCopied(t)'
    BY <1>2, <2>1 DEF EntryCopied
  <2>3. pc'[t] = "relink" => \A a \in cand'[t] \cup visited'[t] \cup todo'[t] : Has(a, lev[t])'
    BY <1>2, <1>9 DEF Has
  <2>4. \A a \in todo'[t] : Settled(a)'
    BY <1>2, <1>9 DEF Settled
  <2> QED
    BY <1>2, <1>9, <2>2, <2>3, <2>4 DEF PlaceInv
<1> QED
  BY <1>1, <1>5, <1>8, <1>9, <1>10, <1>11, LocalStep DEF Inserts

LEMMA StepStartRepair ==
  ASSUME IInv, NEW t \in Threads, StartRepair(t)
  PROVE  IInv'
<1> USE DEF StartRepair, Goto, graph, entry, deletes, update, queues
<1>1. Works(t) /\ t \in updating
  BY DEF Works, IInv, OwnerInv, Owns, Locks
<1>2. EntryCopied(t) /\ level[cur[t]] <= maxCopy[t]
  BY <1>1 DEF IInv, PlaceInv, OwnerInv, Owns, Locks
<1>3. /\ maxCopy[t] \in Levels /\ maxCopy[t] \in Int /\ level[cur[t]] \in Levels /\ level[cur[t]] \in Int
      /\ epCopy[t] \in Elements /\ Has(epCopy[t], maxCopy[t]) /\ Has(epCopy[t], level[cur[t]])
  <2>1. level[cur[t]] \in Nat /\ maxCopy[t] \in Levels \cup {-1} /\ level[cur[t]] \in Levels
    BY <1>1, AtWork
  <2>2. maxCopy[t] \in Levels /\ maxCopy[t] \in Nat
    BY <1>1, <1>2, <2>1, AtWork
  <2>3. epCopy[t] \in Elements /\ epCopy[t] < count /\ level[epCopy[t]] \in Nat
    BY <1>1, <1>2, DoneSettled, AtWork DEF EntryCopied
  <2> QED
    BY <1>2, <2>1, <2>2, <2>3 DEF Has, EntryCopied
<1>4. /\ obj' = [obj EXCEPT ![t] = epCopy[t]]
      /\ UNCHANGED <<links, again, global, linkLock, update, cur, maxCopy, epCopy, todo, count, level, vec, entry, deletes>>
      /\ \/ level[cur[t]] < maxCopy[t] /\ StartDescent(t)
         \/ StartSearch(t, epCopy[t], level[cur[t]])
  BY <1>2, <1>3
<1>5. TypeOK'
  <2>1. CASE level[cur[t]] < maxCopy[t] /\ StartDescent(t)
    BY <1>3, <1>4, <2>1 DEF IInv, TypeOK, StartDescent
  <2>2. CASE StartSearch(t, epCopy[t], level[cur[t]])
    BY <1>3, <1>4, <2>2 DEF IInv, TypeOK, StartSearch
  <2> QED
    BY <1>4, <2>1, <2>2
<1>6. obj'[t] = epCopy[t] /\ epCopy'[t] = epCopy[t] /\ pc'[t] \in {"descend", "search"}
  BY <1>4 DEF IInv, TypeOK, StartDescent, StartSearch
<1>7. Local(t)
  <2>1. \A u \in Threads \ {t} : Same(u)
    BY <1>4 DEF Same, IInv, TypeOK, StartDescent, StartSearch
  <2> QED
    BY <1>1, <1>4, <1>6, <2>1 DEF Local
<1>8. Done' = Done
  BY <1>4 DEF Done
<1>9. EntryCopied(t)'
  BY <1>2, <1>4, <1>8 DEF EntryCopied
<1>10. PlaceInv(t)'
  <2>1. CASE level[cur[t]] < maxCopy[t] /\ StartDescent(t)
    <3>1. pc'[t] = "descend" /\ lev'[t] = maxCopy[t]
      BY <2>1 DEF StartDescent, IInv, TypeOK
    <3>2. Has(obj[t], lev[t])'
      BY <1>3, <1>4, <1>6, <3>1 DEF Has
    <3> QED
      BY <1>3, <1>4, <1>9, <2>1, <3>1, <3>2 DEF PlaceInv
  <2>2. CASE StartSearch(t, epCopy[t], level[cur[t]])
    BY <1>2, <1>3, <1>4, <1>5, <1>6, <1>9, <2>2, SearchStarts
  <2> QED
    BY <1>4, <2>1, <2>2
<1>11. Tidy'
  BY <1>4, SameLists DEF IInv
<1> QED
  BY <1>1, <1>5, <1>6, <1>7, <1>10, <1>11, LocalStep DEF Inserts

(* A level is done, and the search at the level below starts, or the end.  *)
LEMMA GoesDown ==
  ASSUME IInv, NEW t \in Threads, pc[t] \in {"search", "link"}, GoDown(t), UNCHANGED obj,
         UNCHANGED <<epCopy, count, level, maxCopy, cur, updating>>
  PROVE  /\ pc' \in [Threads -> Points] /\ lev' \in [Threads -> Levels]
         /\ top' \in [Threads -> SUBSET Elements] /\ cand' \in [Threads -> SUBSET Elements]
         /\ visited' \in [Threads -> SUBSET Elements]
         /\ \A u \in Threads \ {t} : pc'[u] = pc[u] /\ lev'[u] = lev[u] /\ top'[u] = top[u]
                                     /\ cand'[u] = cand[u] /\ visited'[u] = visited[u]
         /\ pc'[t] = "publish" \/ (pc'[t] = "search" /\ lev'[t] = lev[t] - 1)
         /\ PlaceInv(t)'
<1>1. Works(t)
  BY DEF Works
<1>2. EntryCopied(t) /\ lev[t] <= maxCopy[t] /\ lev[t] <= level[cur[t]] /\ Has(obj[t], lev[t])
  BY DEF IInv, PlaceInv
<1>3. pc \in [Threads -> Points] /\ "publish" \in Points /\ "search" \in Points
  BY DEF IInv, TypeOK, Points
<1>4. CASE lev[t] = 0
  <2>1. pc' = [pc EXCEPT ![t] = "publish"] /\ UNCHANGED <<lev, queues>>
    BY <1>4 DEF GoDown, Goto
  <2>2. pc'[t] = "publish"
    BY <1>3, <2>1
  <2>3. PlaceInv(t)'
    BY <2>2 DEF PlaceInv
  <2> QED
    BY <1>3, <2>1, <2>2, <2>3 DEF IInv, TypeOK, queues
<1>5. CASE lev[t] # 0
  <2> DEFINE l == lev[t] - 1
  <2>1. l \in Levels /\ l <= lev[t] /\ lev[t] \in Int
    BY <1>1, <1>5, AtWork DEF Levels
  <2>2. StartSearch(t, obj[t], l)
    BY <1>5 DEF GoDown
  <2>3. obj[t] \in Elements /\ level[obj[t]] \in Int /\ maxCopy[t] \in Int /\ level[cur[t]] \in Int
    <3>1. obj[t] \in Elements /\ level[obj[t]] \in Levels
      BY <1>2, DoneExists DEF IInv, Has
    <3> QED
      BY <1>1, <3>1, AtWork DEF Levels
  <2>4. Has(obj[t], l) /\ l <= maxCopy[t] /\ l <= level[cur[t]]
    BY <1>2, <2>1, <2>3 DEF Has
  <2>5. EntryCopied(t)'
    BY <1>2 DEF EntryCopied, Done
  <2>6. obj'[t] = obj[t]
    OBVIOUS
  <2> HIDE DEF l
  <2>7. PlaceInv(t)'
    BY <2>1, <2>2, <2>3, <2>4, <2>5, <2>6, SearchStarts
  <2>8. /\ pc' = [pc EXCEPT ![t] = "search"] /\ lev' = [lev EXCEPT ![t] = l]
        /\ top' = [top EXCEPT ![t] = {obj[t]} \ marked]
        /\ cand' = [cand EXCEPT ![t] = {obj[t]}] /\ visited' = [visited EXCEPT ![t] = {obj[t]}]
    BY <2>2 DEF StartSearch, Goto
  <2>9. /\ pc' \in [Threads -> Points] /\ lev' \in [Threads -> Levels]
        /\ top' \in [Threads -> SUBSET Elements] /\ cand' \in [Threads -> SUBSET Elements]
        /\ visited' \in [Threads -> SUBSET Elements]
        /\ pc'[t] = "search" /\ lev'[t] = l
    BY <1>3, <2>1, <2>3, <2>8 DEF IInv, TypeOK
  <2>10. \A u \in Threads \ {t} : pc'[u] = pc[u] /\ lev'[u] = lev[u] /\ top'[u] = top[u]
                                     /\ cand'[u] = cand[u] /\ visited'[u] = visited[u]
    BY <2>8 DEF IInv, TypeOK
  <2> QED
    BY <2>7, <2>9, <2>10 DEF l
<1> QED
  BY <1>4, <1>5

(* What a search ends with: elements that exist at its level, none of them *)
(* still being inserted, for the nearest candidate is one the search would *)
(* have to expand; and never the element itself.                           *)
LEMMA Selected ==
  ASSUME IInv, NEW t \in Threads, pc[t] = "search", SearchOver(t),
         NEW found \in SUBSET top[t], t \in updating => cur[t] \notin found
  PROVE  LET S == Heuristic(Candidates(t, found), cur[t], M) IN
         /\ S \in SUBSET Elements /\ Cardinality(S) <= Capacity(lev[t])
         /\ \A x \in S : Has(x, lev[t]) /\ Settled(x) /\ x # cur[t]
<1> DEFINE S == Heuristic(Candidates(t, found), cur[t], M)
<1>1. Works(t)
  BY DEF Works
<1>2. /\ EntryCopied(t) /\ lev[t] <= maxCopy[t]
      /\ \A x \in cand[t] \cup top[t] : Has(x, lev[t])
      /\ \A x \in top[t] : Settled(x) \/ x \in cand[t]
  BY DEF IInv, PlaceInv
<1>3. \A x \in found : Settled(x)
  <2> SUFFICES ASSUME NEW x \in found, x \in cand[t] PROVE FALSE
    BY <1>2
  <2>1. Dist(x, cur[t]) < Dist(x, cur[t])
    BY DEF SearchOver
  <2>2. Dist(x, cur[t]) \in Nat
    BY <1>1, AtWork, Distances DEF IInv
  <2> QED
    BY <2>1, <2>2
<1>4. epCopy[t] \in Elements /\ Has(epCopy[t], lev[t]) /\ Settled(epCopy[t])
  <2>1. epCopy[t] \in Elements /\ epCopy[t] < count /\ Settled(epCopy[t]) /\ level[epCopy[t]] \in Levels
    BY <1>2, DoneSettled DEF EntryCopied
  <2>2. lev[t] \in Int /\ maxCopy[t] \in Int /\ level[epCopy[t]] \in Int
    BY <1>1, <2>1, AtWork DEF Levels
  <2> QED
    BY <1>2, <2>1, <2>2 DEF EntryCopied, Has
<1>5. Candidates(t, found) \subseteq found \cup {epCopy[t]}
      /\ (epCopy[t] \notin marked => Candidates(t, found) \subseteq found)
  BY DEF Candidates, Nearest
<1>6. Candidates(t, found) \in SUBSET Elements
  BY <1>1, <1>4, <1>5, AtWork
<1>7. \A x \in Candidates(t, found) : Has(x, lev[t]) /\ Settled(x)
  BY <1>2, <1>3, <1>4, <1>5
<1>8. cur[t] \notin Candidates(t, found)
  <2>1. CASE t \in updating
    <3>1. cur[t] \notin marked
      BY <2>1 DEF IInv, OwnerInv, Owns, Locks
    <3> QED
      BY <1>5, <2>1, <3>1
  <2>2. CASE t \notin updating
    <3>1. linkLock[cur[t]] = t /\ t # None
      BY <1>1, <2>2, AtWork DEF IInv, OwnerInv, Owns, Locks, Inserts
    <3> QED
      BY <1>7, <3>1 DEF Settled
  <2> QED
    BY <2>1, <2>2
<1>9. S \subseteq Candidates(t, found) /\ Cardinality(S) <= M
  BY <1>1, <1>6, AtWork, Capacities, HeuristicBounded DEF IInv
<1> HIDE DEF S
<1>10. Cardinality(S) \in Nat
  BY <1>6, <1>9, Finite
<1>11. Cardinality(S) <= Capacity(lev[t])
  BY <1>1, <1>9, <1>10, AtWork, Capacities
<1> QED
  BY <1>6, <1>7, <1>8, <1>9, <1>11 DEF S

(* An exception, or undefined behaviour, ends a search for good: its       *)
(* element is never complete, and the locks it held are free.              *)
LEMMA Abandoned ==
  ASSUME IInv, NEW t \in Threads, pc[t] = "search", Fail(t, "undefined"),
         t \in updating => linkLock[cur[t]] = None,
         UNCHANGED <<count, level, vec, entry, deletes>>
  PROVE  IInv'
<1> USE DEF IInv, entry, deletes, update, place, queues
<1>1. Works(t)
  BY DEF Works
<1>2. /\ pc' = [pc EXCEPT ![t] = "undefined"] /\ linkLock' = [linkLock EXCEPT ![cur[t]] = None]
      /\ global' = (IF global = t THEN None ELSE global)
      /\ UNCHANGED <<links, again, update, place, queues, todo>>
  BY DEF Fail, Goto
<1>3. TypeOK'
  <2>1. pc \in [Threads -> Points] /\ "undefined" \in Points
    BY DEF TypeOK, Points
  <2>2. pc' \in [Threads -> Points]
    BY <1>2, <2>1
  <2>3. linkLock' \in [Elements -> Threads \cup {None}] /\ global' \in Threads \cup {None}
    BY <1>2 DEF TypeOK
  <2> QED
    BY <1>2, <2>2, <2>3 DEF TypeOK, Points
<1>4. pc'[t] = "undefined" /\ \A u \in Threads \ {t} : Same(u)
  BY <1>2 DEF TypeOK, Same
<1>5. \A u \in Threads \ {t} : Inserts(u)' <=> Inserts(u)
  BY <1>4 DEF Same, Inserts, Works
<1>6. /\ linkLock'[cur[t]] = None
      /\ \A e \in Elements : e # cur[t] => linkLock'[e] = linkLock[e]
  BY <1>1, <1>2, AtWork DEF TypeOK
<1>7. \A u \in Threads \ {t} : cur[u] # cur[t]
  BY <1>1, AtWork DEF OwnerInv, Owns, Locks
<1>8. Done' = Done
  BY <1>2 DEF Done
<1>9. OwnerInv'
  <2>1. ASSUME NEW u \in Threads PROVE Owns(u)'
    <3>1. CASE u = t
      <4>1. ~(Inserts(t)') /\ cur[t] # None
        BY <1>1, <1>4, AtWork DEF Inserts, Works
      <4> QED
        BY <1>2, <1>4, <3>1, <4>1 DEF OwnerInv, Owns, Locks
    <3>2. CASE u # t
      <4>1. Inserts(u) => cur[u] \in Elements /\ linkLock'[cur[u]] = linkLock[cur[u]]
        BY <1>6, <1>7, <3>2, AtWork DEF Inserts
      <4> QED
        BY <1>2, <1>4, <1>5, <3>2, <4>1 DEF OwnerInv, Owns, Locks, Same
    <3> QED
      BY <3>1, <3>2
  <2>2. Locks'
    <3>1. \A e \in Elements : linkLock[e] # None => Inserts(linkLock[e]) /\ cur[linkLock[e]] = e
      BY DEF OwnerInv, Owns, Locks
    <3>2. \A u \in Threads \ {t} : Works(u)' /\ u \notin updating' <=> Works(u) /\ u \notin updating
      BY <1>5 DEF Inserts
    <3>3. \A e \in Elements : linkLock'[e] # None => linkLock'[e] = linkLock[e] /\ linkLock[e] \in Threads \ {t}
      BY <1>6, <3>1 DEF TypeOK
    <3> QED
      BY <1>2, <3>1, <3>2, <3>3 DEF Inserts, Locks
  <2> QED
    BY <2>1, <2>2 DEF OwnerInv, Owns, Locks
<1>10. \A u \in Threads : PlaceInv(u)'
  <2>1. Grows
    BY <1>1, <1>6, <1>8, AtWork DEF Grows
  <2>2. PlaceInv(t)'
    BY <1>4 DEF PlaceInv
  <2>3. ASSUME NEW u \in Threads, u # t PROVE PlaceInv(u)'
    BY <1>3, <1>4, <2>1, <2>3, OthersKeep
  <2> QED
    BY <2>2, <2>3
<1>11. FreshInv'
  <2>1. ASSUME NEW u \in Threads, Inserts(u)' PROVE Blank(u)'
    <3>1. u # t
      BY <1>4, <2>1 DEF Inserts, Works
    <3>2. Blank(u) /\ Same(u)
      BY <1>4, <1>5, <2>1, <3>1 DEF FreshInv
    <3> QED
      BY <1>2, <3>2 DEF Blank, Same
  <2>2. ASSUME NEW e \in Elements, e >= count'
        PROVE  linkLock'[e] = None /\ \A l \in Levels : links'[e][l] = {}
    BY <1>2, <1>6, <2>2 DEF FreshInv
  <2> QED
    BY <2>1, <2>2 DEF FreshInv
<1>12. VectorInv'
  BY DEF VectorInv
<1>13. Tidy'
  BY <1>2, SameLists
<1>14. EntryInv'
  <2>1. /\ enterpoint' = None => maxlevel' = -1 /\ Done' = {}
        /\ Done' # {} => enterpoint' \in Done' /\ level'[enterpoint'] = maxlevel'
        /\ \A e \in Done' : level'[e] <= maxlevel'
    BY <1>8 DEF EntryInv, Rises
  <2>2. Done' = {} /\ enterpoint' # None => \E u \in Threads : global' = u /\ pc'[u] = "publish"
    <3> SUFFICES ASSUME Done = {}, enterpoint # None
                 PROVE \E u \in Threads : global' = u /\ pc'[u] = "publish"
      BY <1>8
    <3>1. PICK u \in Threads : global = u /\ pc[u] = "publish"
      BY DEF EntryInv, Rises
    <3>2. u # t
      BY <3>1
    <3> QED
      BY <1>2, <1>4, <3>1, <3>2 DEF Same
  <2>3. ASSUME NEW u \in Threads PROVE Rises(u)'
    <3>1. CASE u = t
      <4>1. ~(Inserts(t)') /\ global' # t
        BY <1>2, <1>4, NoneAssumption DEF Inserts, Works
      <4> QED
        BY <1>2, <1>4, <3>1, <4>1 DEF EntryInv, Rises
    <3>2. CASE u # t
      <4>1. (global' = u <=> global = u) /\ (Inserts(u)' <=> Inserts(u)) /\ Same(u)
        BY <1>2, <1>4, <1>5, <3>2, NoneAssumption
      <4>2. cur' = cur /\ maxCopy' = maxCopy /\ level' = level /\ maxlevel' = maxlevel
        BY <1>2
      <4> QED
        BY <1>8, <4>1, <4>2 DEF EntryInv, Rises, Same
    <3> QED
      BY <3>1, <3>2
  <2> QED
    BY <2>1, <2>2, <2>3 DEF EntryInv, Rises
<1> QED
  BY <1>3, <1>9, <1>10, <1>11, <1>12, <1>13, <1>14

(* What was selected becomes the element's list; nothing throws.           *)
LEMMA Connects ==
  ASSUME IInv, NEW t \in Threads, pc[t] = "search", SearchOver(t),
         NEW found \in SUBSET top[t], t \in updating => cur[t] \notin found /\ Unlocked(cur[t]),
         Connect(t, Heuristic(Candidates(t, found), cur[t], M)),
         UNCHANGED <<count, level, vec, entry, deletes>>
  PROVE  IInv'
<1> DEFINE S == Heuristic(Candidates(t, found), cur[t], M)
<1>1. Works(t)
  BY DEF Works
<1>2. /\ S \in SUBSET Elements /\ Cardinality(S) <= Capacity(lev[t])
      /\ \A x \in S : Has(x, lev[t]) /\ Settled(x) /\ x # cur[t]
  BY Selected
<1>3. Connect(t, S)
  OBVIOUS
<1> HIDE DEF S
<1>4. CASE S = {}
  BY <1>3, <1>4, Abandoned DEF Connect, Unlocked
<1>5. CASE S # {}
  <2> USE DEF entry, deletes, update, queues
  <2>1. EntryCopied(t) /\ lev[t] <= maxCopy[t] /\ lev[t] <= level[cur[t]]
    BY DEF IInv, PlaceInv
  <2>2. t \notin updating => links[cur[t]][lev[t]] = {}
    <3>1. t \notin updating => Blank(t)
      BY <1>1 DEF IInv, FreshInv, Inserts
    <3> QED
      BY <1>1, <3>1, AtWork DEF Blank
  <2>3. \A e \in S : ~(lev[t] > level[e])
    BY <1>1, <1>2, AtWork DEF Has, Levels, IInv, TypeOK
  <2>4. /\ links' = [links EXCEPT ![cur[t]][lev[t]] = S]
        /\ again' = [again EXCEPT ![cur[t]][lev[t]] = 0]
        /\ obj' = [obj EXCEPT ![t] = Closest(S, cur[t])]
        /\ todo' = [todo EXCEPT ![t] = S]
        /\ pc' = [pc EXCEPT ![t] = "link"]
        /\ UNCHANGED <<global, linkLock, update, cur, maxCopy, epCopy, lev, queues>>
    BY <1>3, <1>5, <2>2, <2>3 DEF Connect, Goto, Write
  <2>5. Closest(S, cur[t]) \in S
    BY <1>1, <1>2, <1>5, AtWork, HasClosest DEF IInv
  <2>6. Has(cur[t], lev[t])
    BY <1>1, <2>1, AtWork DEF Has
  <2>7. /\ Tidy'
        /\ links' \in [Elements -> [Levels -> SUBSET Elements]]
        /\ again' \in [Elements -> [Levels -> Nat]]
        /\ \A x \in Elements : x # cur[t] => links'[x] = links[x]
        /\ \A k \in Levels : k # lev[t] => links'[cur[t]][k] = links[cur[t]][k]
    <3>1. cur[t] \in Elements /\ lev[t] \in Levels
      BY <1>1, AtWork
    <3>2. level' = level /\ count' = count /\ Write(cur[t], lev[t], S)
      BY <2>4 DEF Write
    <3> HIDE DEF entry, deletes, update, queues
    <3> QED
      BY <1>2, <2>6, <3>1, <3>2, WriteAnew
  <2>8. TypeOK'
    <3>1. pc \in [Threads -> Points] /\ "link" \in Points
      BY DEF IInv, TypeOK, Points
    <3>2. pc' \in [Threads -> Points]
      BY <2>4, <3>1
    <3>3. obj' \in [Threads -> Elements \cup {None}] /\ todo' \in [Threads -> SUBSET Elements]
      BY <1>2, <2>4, <2>5 DEF IInv, TypeOK
    <3> QED
      BY <2>4, <2>7, <3>2, <3>3 DEF IInv, TypeOK, Points
  <2>9. pc'[t] = "link" /\ obj'[t] = Closest(S, cur[t]) /\ todo'[t] = S
    BY <2>4 DEF IInv, TypeOK
  <2>10. Local(t)
    <3>1. \A u \in Threads \ {t} : Same(u)
      BY <2>4 DEF Same, IInv, TypeOK
    <3> QED
      BY <1>1, <2>4, <2>7, <2>9, <3>1 DEF Local
  <2>11. PlaceInv(t)'
    <3>1. Done' = Done
      BY <2>4 DEF Done
    <3>2. EntryCopied(t)'
      BY <2>1, <2>4, <3>1 DEF EntryCopied
    <3>3. Has(obj[t], lev[t])' /\ \A e \in todo'[t] : Has(e, lev[t])' /\ Settled(e)'
      BY <1>2, <2>4, <2>5, <2>9 DEF Has, Settled
    <3>4. todo'[t] # {} /\ cur'[t] \notin todo'[t] /\ lev'[t] <= maxCopy'[t] /\ lev'[t] <= level'[cur'[t]]
      BY <1>2, <1>5, <2>1, <2>4, <2>9
    <3> QED
      BY <2>9, <3>2, <3>3, <3>4 DEF PlaceInv
  <2>12. Inserts(t) => Blank(t)'
    <3> SUFFICES ASSUME Inserts(t), NEW l \in Levels PROVE l >= lev[t] \/ links'[cur[t]][l] = {}
      BY <2>4, <2>9 DEF Blank
    <3>1. Blank(t)
      BY DEF IInv, FreshInv
    <3>2. l > lev[t] \/ links[cur[t]][l] = {}
      BY <3>1 DEF Blank
    <3>3. l \in Int /\ lev[t] \in Int
      BY <1>1, AtWork DEF Levels
    <3> QED
      BY <2>7, <3>2, <3>3
  <2>13. t \notin updating => Done # {}
    BY <1>1 DEF Inserts, IInv, EntryInv, Rises
  <2> QED
    BY <2>7, <2>8, <2>9, <2>10, <2>11, <2>12, <2>13, LocalStep
<1> QED
  BY <1>4, <1>5

LEMMA StepSelect ==
  ASSUME IInv, NEW t \in Threads, Select(t)
  PROVE  IInv'
<1>1. top[t] \in SUBSET top[t]
  OBVIOUS
<1> QED
  BY <1>1, Connects DEF Select

LEMMA StepSelectAgain ==
  ASSUME IInv, NEW t \in Threads, SelectAgain(t)
  PROVE  IInv'
<1> DEFINE found == top[t] \ {cur[t]}
<1>1. Works(t) /\ t \in updating /\ pc[t] = "search" /\ SearchOver(t)
  BY DEF Works, SelectAgain
<1>2. UNCHANGED <<count, level, vec, entry, deletes>>
  BY DEF SelectAgain
<1>3. CASE found = {}
  <2> USE DEF entry, deletes, update
  <2>1. GoDown(t) /\ UNCHANGED <<links, again, global, linkLock, update, cur, maxCopy, obj, epCopy, todo>>
    BY <1>3 DEF SelectAgain
  <2> HIDE DEF found
  <2>2. /\ pc' \in [Threads -> Points] /\ lev' \in [Threads -> Levels]
        /\ top' \in [Threads -> SUBSET Elements] /\ cand' \in [Threads -> SUBSET Elements]
        /\ visited' \in [Threads -> SUBSET Elements]
        /\ \A u \in Threads \ {t} : pc'[u] = pc[u] /\ lev'[u] = lev[u] /\ top'[u] = top[u]
                                    /\ cand'[u] = cand[u] /\ visited'[u] = visited[u]
        /\ pc'[t] = "publish" \/ pc'[t] = "search"
        /\ PlaceInv(t)'
    BY <1>1, <1>2, <2>1, GoesDown
  <2>3. TypeOK'
    BY <1>2, <2>1, <2>2 DEF IInv, TypeOK, Points
  <2>4. Local(t)
    BY <1>1, <1>2, <2>1, <2>2 DEF Local, Same
  <2>5. Tidy'
    BY <1>2, <2>1, SameLists DEF IInv
  <2> QED
    BY <1>1, <2>2, <2>3, <2>4, <2>5, LocalStep DEF Inserts
<1>4. CASE found # {}
  <2>1. Unlocked(cur[t]) /\ Connect(t, Heuristic(Candidates(t, found), cur[t], M))
    BY <1>4 DEF SelectAgain
  <2>2. found \in SUBSET top[t] /\ cur[t] \notin found
    OBVIOUS
  <2> HIDE DEF found
  <2> QED
    BY <1>1, <1>2, <2>1, <2>2, Connects
<1> QED
  BY <1>3, <1>4

(* A neighbour's list with the element fits, and holds no stranger.        *)
LEMMA Linked ==
  ASSUME IInv, NEW e \in Elements, NEW x \in Elements, NEW l \in Levels
  PROVE  /\ WithElement(e, x, l) \in SUBSET Elements
         /\ WithElement(e, x, l) \subseteq links[e][l] \cup {x}
         /\ RepeatsWith(e, x, l) \in Nat
         /\ Cardinality(WithElement(e, x, l)) + RepeatsWith(e, x, l) <= Capacity(l)
<1>1. links[e][l] \in SUBSET Elements /\ Capacity(l) \in Nat /\ again[e][l] \in Nat
  BY Capacities DEF IInv, TypeOK
<1>2. links[e][l] \cup {x} \in SUBSET Elements
  BY <1>1
<1>3. CASE Size(e, l) < Capacity(l)
  <2>1. Cardinality(links[e][l] \cup {x}) <= Cardinality(links[e][l]) + 1
    BY <1>1, AddOne
  <2>2. Cardinality(links[e][l]) \in Nat /\ Cardinality(links[e][l] \cup {x}) \in Nat
    BY <1>1, <1>2, Finite
  <2>3. WithElement(e, x, l) = links[e][l] \cup {x}
    BY <1>3 DEF WithElement
  <2>4. CASE x \in links[e][l]
    <3>1. links[e][l] \cup {x} = links[e][l] /\ RepeatsWith(e, x, l) = again[e][l] + 1
      BY <1>3, <2>4 DEF RepeatsWith
    <3>2. Cardinality(WithElement(e, x, l)) = Cardinality(links[e][l])
      BY <2>3, <3>1
    <3> QED
      BY <1>1, <1>2, <1>3, <2>2, <2>3, <3>1, <3>2 DEF Size
  <2>5. CASE x \notin links[e][l]
    <3>1. RepeatsWith(e, x, l) = again[e][l]
      BY <1>1, <1>3, <2>5 DEF RepeatsWith
    <3> QED
      BY <1>1, <1>2, <1>3, <2>1, <2>2, <2>3, <3>1 DEF Size
  <2> QED
    BY <2>4, <2>5
<1>4. CASE ~(Size(e, l) < Capacity(l))
  <2>1. /\ Pruned(links[e][l] \cup {x}, e, Capacity(l)) \subseteq links[e][l] \cup {x}
        /\ Cardinality(Pruned(links[e][l] \cup {x}, e, Capacity(l))) <= Capacity(l)
    BY <1>1, <1>2, HeuristicBounded DEF IInv
  <2>2. WithElement(e, x, l) = Pruned(links[e][l] \cup {x}, e, Capacity(l)) /\ RepeatsWith(e, x, l) = 0
    BY <1>4 DEF WithElement, RepeatsWith
  <2>3. Cardinality(WithElement(e, x, l)) \in Nat
    BY <1>2, <2>1, <2>2, Finite
  <2> QED
    BY <1>2, <2>1, <2>2, <2>3
<1> QED
  BY <1>3, <1>4

LEMMA StepLinkBack ==
  ASSUME IInv, NEW t \in Threads, LinkBack(t)
  PROVE  IInv'
<1> DEFINE e == Farthest(todo[t], cur[t])
           new == IF t \in updating /\ cur[t] \in links[e][lev[t]] THEN links[e][lev[t]]
                  ELSE WithElement(e, cur[t], lev[t])
           n == IF t \in updating /\ cur[t] \in links[e][lev[t]] THEN again[e][lev[t]]
                ELSE RepeatsWith(e, cur[t], lev[t])
<1>1. Works(t) /\ pc[t] = "link"
  BY DEF Works, LinkBack
<1>2. /\ EntryCopied(t) /\ lev[t] <= maxCopy[t] /\ lev[t] <= level[cur[t]] /\ Has(obj[t], lev[t])
      /\ todo[t] # {} /\ cur[t] \notin todo[t]
      /\ \A x \in todo[t] : Has(x, lev[t]) /\ Settled(x)
  BY <1>1 DEF IInv, PlaceInv
<1>3. e \in todo[t] /\ e \in Elements /\ e # cur[t] /\ Has(e, lev[t]) /\ Settled(e)
  <2>1. e \in todo[t]
    BY <1>1, <1>2, AtWork, HasFarthest DEF IInv
  <2> QED
    BY <1>2, <2>1 DEF Has
<1>4. links[e][lev[t]] \in SUBSET Elements
      /\ (\A a \in links[e][lev[t]] : Has(a, lev[t]) /\ a # e)
      /\ Size(e, lev[t]) <= Capacity(lev[t]) /\ again[e][lev[t]] \in Nat
  BY <1>1, <1>3, AtWork, ListHas DEF IInv, Tidy, TypeOK
<1>5. /\ new \in SUBSET Elements /\ n \in Nat /\ Cardinality(new) + n <= Capacity(lev[t])
      /\ \A a \in new : Has(a, lev[t]) /\ a # e
  <2>1. Has(cur[t], lev[t])
    BY <1>1, <1>2, AtWork DEF Has
  <2>2. /\ WithElement(e, cur[t], lev[t]) \in SUBSET Elements
        /\ WithElement(e, cur[t], lev[t]) \subseteq links[e][lev[t]] \cup {cur[t]}
        /\ RepeatsWith(e, cur[t], lev[t]) \in Nat
        /\ Cardinality(WithElement(e, cur[t], lev[t])) + RepeatsWith(e, cur[t], lev[t]) <= Capacity(lev[t])
    BY <1>1, <1>3, AtWork, Linked
  <2> HIDE DEF e
  <2> QED
    BY <1>3, <1>4, <2>1, <2>2 DEF Size
<1>6. ~(e = cur[t] \/ Size(e, lev[t]) > Capacity(lev[t]) \/ lev[t] > level[e])
  <2>1. Size(e, lev[t]) \in Nat /\ Capacity(lev[t]) \in Nat
    BY <1>1, <1>4, AtWork, Capacities, Finite DEF Size
  <2>2. level[e] \in Nat /\ lev[t] \in Nat
    BY <1>1, <1>3, AtWork, DoneExists DEF IInv
  <2> HIDE DEF e
  <2> QED
    BY <1>3, <1>4, <2>1, <2>2 DEF Has
<1>7. /\ links' = IF t \in updating /\ cur[t] \in links[e][lev[t]] THEN links
                  ELSE [links EXCEPT ![e][lev[t]] = WithElement(e, cur[t], lev[t])]
      /\ again' = IF t \in updating /\ cur[t] \in links[e][lev[t]] THEN again
                  ELSE [again EXCEPT ![e][lev[t]] = RepeatsWith(e, cur[t], lev[t])]
      /\ todo' = [todo EXCEPT ![t] = todo[t] \ {e}]
      /\ IF todo[t] # {e} THEN UNCHANGED <<pc, lev, queues>> ELSE GoDown(t)
      /\ UNCHANGED <<global, linkLock, update, cur, maxCopy, obj, epCopy>>
      /\ UNCHANGED <<count, level, vec, entry, deletes>>
  BY <1>6 DEF LinkBack, AddEntry
<1>8. links' = [links EXCEPT ![e][lev[t]] = new] /\ again' = [again EXCEPT ![e][lev[t]] = n]
  <2>1. /\ links \in [Elements -> [Levels -> SUBSET Elements]] /\ lev[t] \in Levels
        /\ again \in [Elements -> [Levels -> Nat]]
    BY <1>1, AtWork DEF IInv, TypeOK
  <2>2. /\ [links EXCEPT ![e][lev[t]] = links[e][lev[t]]] = links
        /\ [again EXCEPT ![e][lev[t]] = again[e][lev[t]]] = again
    BY <2>1
  <2> HIDE DEF e
  <2> QED
    BY <1>7, <2>2
<1> HIDE DEF e, new, n
<1> USE DEF entry, deletes, update, queues
<1>9. /\ Tidy'
      /\ links' \in [Elements -> [Levels -> SUBSET Elements]]
      /\ again' \in [Elements -> [Levels -> Nat]]
      /\ \A x \in Elements : x # e => links'[x] = links[x]
  <2>1. lev[t] \in Levels /\ level' = level /\ count' = count
    BY <1>1, <1>7, AtWork
  <2> QED
    BY <1>3, <1>5, <1>8, <2>1, WriteList
<1>10. todo' \in [Threads -> SUBSET Elements] /\ todo'[t] = todo[t] \ {e}
       /\ \A u \in Threads \ {t} : todo'[u] = todo[u]
  BY <1>7 DEF IInv, TypeOK
<1>11. links'[cur[t]] = links[cur[t]]
  BY <1>1, <1>3, <1>9, AtWork
<1>12. Inserts(t) => \A l \in Levels : l >= lev[t] \/ links[cur[t]][l] = {}
  BY <1>1 DEF IInv, FreshInv, Blank
<1>13. t \notin updating => Done # {}
  BY <1>1 DEF Inserts, IInv, EntryInv, Rises
<1>14. Done' = Done
  BY <1>7 DEF Done
<1>15. CASE todo[t] # {e}
  <2>1. TypeOK'
    BY <1>7, <1>9, <1>10, <1>15 DEF IInv, TypeOK
  <2>2. pc'[t] = "link" /\ lev'[t] = lev[t] /\ cur'[t] = cur[t]
    BY <1>1, <1>7, <1>15
  <2>3. Local(t)
    <3>1. \A u \in Threads \ {t} : Same(u)
      BY <1>7, <1>10, <1>15 DEF Same
    <3> QED
      BY <1>1, <1>3, <1>7, <1>9, <2>2, <3>1 DEF Local
  <2>4. PlaceInv(t)'
    <3>1. EntryCopied(t)'
      BY <1>2, <1>7, <1>14 DEF EntryCopied
    <3>2. Has(obj[t], lev[t])' /\ \A x \in todo'[t] : Has(x, lev[t])' /\ Settled(x)'
      BY <1>2, <1>7, <1>10, <2>2 DEF Has, Settled
    <3>3. todo'[t] # {} /\ cur'[t] \notin todo'[t] /\ lev'[t] <= maxCopy'[t] /\ lev'[t] <= level'[cur'[t]]
      BY <1>2, <1>3, <1>7, <1>10, <1>15, <2>2
    <3> QED
      BY <2>2, <3>1, <3>2, <3>3 DEF PlaceInv
  <2>5. Inserts(t) => Blank(t)'
    BY <1>11, <1>12, <2>2 DEF Blank
  <2> QED
    BY <1>1, <1>9, <1>13, <2>1, <2>2, <2>3, <2>4, <2>5, LocalStep
<1>16. CASE todo[t] = {e}
  <2>1. /\ pc' \in [Threads -> Points] /\ lev' \in [Threads -> Levels]
        /\ top' \in [Threads -> SUBSET Elements] /\ cand' \in [Threads -> SUBSET Elements]
        /\ visited' \in [Threads -> SUBSET Elements]
        /\ \A u \in Threads \ {t} : pc'[u] = pc[u] /\ lev'[u] = lev[u] /\ top'[u] = top[u]
                                    /\ cand'[u] = cand[u] /\ visited'[u] = visited[u]
        /\ pc'[t] = "publish" \/ (pc'[t] = "search" /\ lev'[t] = lev[t] - 1)
        /\ PlaceInv(t)'
    BY <1>1, <1>7, <1>16, GoesDown
  <2>2. TypeOK'
    BY <1>7, <1>9, <1>10, <2>1 DEF IInv, TypeOK, Points
  <2>3. Local(t)
    <3>1. \A u \in Threads \ {t} : Same(u)
      BY <1>7, <1>10, <2>1 DEF Same
    <3> QED
      BY <1>1, <1>3, <1>7, <1>9, <2>1, <3>1 DEF Local
  <2>4. Inserts(t) => Blank(t)'
    <3>1. \A l \in Levels : l \in Int /\ lev[t] \in Int
      BY <1>1, AtWork DEF Levels
    <3> QED
      BY <1>7, <1>11, <1>12, <2>1, <3>1 DEF Blank
  <2> QED
    BY <1>1, <1>9, <1>13, <2>1, <2>2, <2>3, <2>4, LocalStep
<1> QED
  BY <1>15, <1>16

-----------------------------------------------------------------------------
(* A step of thread t by which no list changes, and no link lock but that  *)
(* of the element it works on, before or after.                            *)
LEMMA Frame ==
  ASSUME IInv, TypeOK', NEW t \in Threads, \A u \in Threads \ {t} : Same(u),
         Grows, links' = links, marked' \subseteq marked,
         \A e \in Elements : e < count /\ e # cur[t] => linkLock'[e] = linkLock[e],
         \A e \in Elements : linkLock'[e] # None =>
           \/ linkLock'[e] = linkLock[e] /\ linkLock[e] # t
           \/ linkLock'[e] = t /\ Works(t)' /\ t \notin updating' /\ cur'[t] = e,
         \A e \in Elements : e >= count' => linkLock'[e] = None,
         \A u \in Threads \ {t} : cur'[t] # None => cur[u] # cur'[t],
         Owns(t)', PlaceInv(t)', Inserts(t)' => Blank(t)',
         VectorInv', Tidy', EntryInv'
  PROVE  IInv'
<1> USE DEF IInv
<1>1. \A u \in Threads \ {t} : Inserts(u)' <=> Inserts(u)
  BY DEF Same, Inserts, Works
<1>2. \A u \in Threads \ {t} : Works(u)' /\ u \notin updating' <=> Works(u) /\ u \notin updating
  BY <1>1 DEF Inserts
<1>3. ASSUME NEW u \in Threads, u # t PROVE Owns(u)'
  <2>1. Owns(u) /\ Same(u)
    BY <1>3 DEF OwnerInv
  <2>2. cur[u] # None =>
          /\ cur[u] \in Elements /\ cur[u] < count /\ cur[u] # cur[t]
          /\ level'[cur[u]] = level[cur[u]] /\ linkLock'[cur[u]] = linkLock[cur[u]]
          /\ cur[u] < count'
    <3>1. cur[u] # None => cur[u] \in Elements /\ cur[u] < count /\ cur[u] # cur[t]
      BY <1>3, <2>1 DEF Owns, TypeOK
    <3>2. count \in Int /\ count' \in Int /\ count <= count' /\ Elements \subseteq Int
      BY DoneExists DEF Grows, TypeOK
    <3> SUFFICES ASSUME cur[u] # None
                 PROVE  /\ level'[cur[u]] = level[cur[u]] /\ linkLock'[cur[u]] = linkLock[cur[u]]
                        /\ cur[u] < count'
      BY <3>1
    <3>3. cur[u] < count'
      <4> DEFINE e == cur[u]
      <4>1. e \in Int /\ e < count
        BY <3>1, <3>2
      <4> HIDE DEF e
      <4>2. e < count'
        BY <3>2, <4>1
      <4> QED
        BY <4>2 DEF e
    <3>4. linkLock'[cur[u]] = linkLock[cur[u]]
      BY <3>1
    <3>5. level'[cur[u]] = level[cur[u]]
      BY <3>1 DEF Grows
    <3> QED
      BY <3>3, <3>4, <3>5
  <2>3. \A v \in Threads : cur'[u] = cur'[v] /\ cur'[u] # None => u = v
    <3> SUFFICES ASSUME NEW v \in Threads, cur'[u] = cur'[v], cur'[u] # None PROVE u = v
      OBVIOUS
    <3>1. v # t
      BY <1>3, <2>1 DEF Same
    <3>2. cur'[v] = cur[v] /\ cur'[u] = cur[u]
      BY <1>3, <3>1 DEF Same
    <3> QED
      BY <2>1, <3>2 DEF Owns
  <2>4. (Inserts(u)' <=> Inserts(u)) /\ (Inserts(u) => cur[u] # None)
    BY <1>1, <1>3, <2>1 DEF Inserts, Works, Owns
  <2>5. u \in updating => cur[u] # None
    BY <2>1 DEF Owns
  <2> QED
    BY <2>1, <2>2, <2>3, <2>4, <2>5 DEF Owns, Same
<1>4. Locks'
  <2>1. \A e \in Elements : linkLock[e] # None => Inserts(linkLock[e]) /\ cur[linkLock[e]] = e
    BY DEF OwnerInv, Locks
  <2>2. \A e \in Elements : linkLock[e] \in Threads \cup {None}
    BY DEF TypeOK
  <2>3. \A u \in Threads \ {t} : cur'[u] = cur[u]
    BY DEF Same
  <2> SUFFICES ASSUME NEW e \in Elements, linkLock'[e] # None
               PROVE  (Works(linkLock[e]) /\ linkLock[e] \notin updating /\ cur[linkLock[e]] = e)'
    BY DEF Locks, Inserts
  <2>4. CASE linkLock'[e] = linkLock[e] /\ linkLock[e] # t
    <3>1. linkLock[e] \in Threads \ {t} /\ Works(linkLock[e]) /\ linkLock[e] \notin updating /\ cur[linkLock[e]] = e
      BY <2>1, <2>2, <2>4 DEF Inserts
    <3>2. PICK u \in Threads \ {t} : u = linkLock[e]
      BY <3>1
    <3>3. Works(u)' /\ u \notin updating' /\ cur'[u] = e /\ linkLock'[e] = u
      BY <1>2, <2>3, <2>4, <3>1, <3>2
    <3> QED
      BY <3>3 DEF Works
  <2>5. CASE linkLock'[e] = t /\ Works(t)' /\ t \notin updating' /\ cur'[t] = e
    BY <2>5 DEF Works
  <2> QED
    BY <2>4, <2>5
<1>5. \A u \in Threads : PlaceInv(u)'
  BY OthersKeep
<1>6. FreshInv'
  <2>1. ASSUME NEW u \in Threads, Inserts(u)' PROVE Blank(u)'
    <3>1. CASE u = t
      BY <2>1, <3>1
    <3>2. CASE u # t
      <4>1. Blank(u) /\ Same(u)
        BY <1>1, <2>1, <3>2 DEF FreshInv
      <4> QED
        BY <4>1 DEF Blank, Same
    <3> QED
      BY <3>1, <3>2
  <2>2. ASSUME NEW e \in Elements, e >= count'
        PROVE  linkLock'[e] = None /\ \A l \in Levels : links'[e][l] = {}
    <3>1. count \in Int /\ count' \in Int /\ count <= count' /\ e \in Int
      BY DoneExists DEF Grows, TypeOK
    <3> QED
      BY <2>2, <3>1 DEF FreshInv
  <2> QED
    BY <2>1, <2>2 DEF FreshInv
<1> QED
  BY <1>3, <1>4, <1>5, <1>6 DEF OwnerInv

LEMMA StepGlobal ==
  ASSUME IInv, NEW t \in Threads, Global(t)
  PROVE  IInv'
<1> USE DEF Global, Goto, graph, entry, deletes, update, queues
<1>1. Works(t) /\ Inserts(t)
  BY DEF Works, Inserts, IInv, OwnerInv, Owns
<1>2. maxlevel \in Levels \cup {-1} /\ maxlevel \in Int /\ level[cur[t]] \in Nat
  BY <1>1, AtWork DEF IInv, TypeOK
<1>3. TypeOK'
  <2>1. pc \in [Threads -> Points] /\ "entry" \in Points
    BY DEF IInv, TypeOK, Points
  <2>2. pc' \in [Threads -> Points]
    BY <2>1
  <2>3. maxCopy' \in [Threads -> Levels \cup {-1}] /\ global' \in Threads \cup {None}
    BY <1>2 DEF IInv, TypeOK
  <2> QED
    BY <2>2, <2>3 DEF IInv, TypeOK, Points
<1>4. pc'[t] = "entry" /\ maxCopy'[t] = maxlevel /\ \A u \in Threads \ {t} : Same(u)
  BY DEF IInv, TypeOK, Same
<1>5. Done' = Done
  BY DEF Done
<1>6. Grows
  BY <1>5, DoneExists DEF Grows, IInv
<1>7. Works(t)' /\ t \notin updating'
  BY <1>1, <1>4 DEF Works, Inserts
<1>8. Owns(t)'
  <2>1. Owns(t) /\ cur' = cur /\ level' = level /\ linkLock' = linkLock /\ updating' = updating /\ count' = count
    BY DEF IInv, OwnerInv
  <2> QED
    BY <1>1, <1>4, <1>7, <2>1 DEF Owns, Inserts, Works
<1>9. \A e \in Elements : linkLock[e] = t => cur[t] = e
  BY NoneAssumption DEF IInv, OwnerInv, Locks
<1>10. PlaceInv(t)'
  BY <1>4 DEF PlaceInv
<1>11. Blank(t)'
  <2>1. Blank(t)
    BY <1>1 DEF IInv, FreshInv
  <2> QED
    BY <1>4, <2>1 DEF Blank
<1>12. VectorInv' /\ Tidy'
  BY SameLists DEF IInv, VectorInv
<1>13. EntryInv'
  <2>1. Done = {} => enterpoint = None /\ maxlevel = -1
    BY NoneAssumption DEF IInv, EntryInv
  <2>2. \A u \in Threads \ {t} : ~(Inserts(u) /\ pc[u] # "global" /\ Done = {})
                                 /\ ~(Inserts(u) /\ pc[u] # "global" /\ level[cur[u]] > maxCopy[u])
    BY NoneAssumption DEF IInv, EntryInv, Rises
  <2>3. ASSUME NEW u \in Threads PROVE Rises(u)'
    <3>1. CASE u = t
      <4>1. level[cur[t]] > maxlevel => global' = t
        BY <1>2
      <4>2. global' = t => level[cur[t]] > maxlevel
        BY <1>2, NoneAssumption
      <4>3. Inserts(t)' /\ cur'[t] = cur[t] /\ level' = level /\ maxlevel' = maxlevel
        BY <1>7 DEF Inserts
      <4> HIDE DEF Global
      <4> QED
        BY <1>2, <1>4, <1>5, <2>1, <3>1, <4>1, <4>2, <4>3 DEF Rises
    <3>2. CASE u # t
      <4>1. global' # u /\ (Inserts(u)' <=> Inserts(u)) /\ Same(u) /\ Rises(u)
        BY <1>4, <3>2, NoneAssumption DEF Same, Inserts, Works, IInv, EntryInv
      <4>2. level' = level /\ maxlevel' = maxlevel
        OBVIOUS
      <4> HIDE DEF Global
      <4> QED
        BY <1>5, <2>2, <3>2, <4>1, <4>2 DEF Rises, Same
    <3> QED
      BY <3>1, <3>2
  <2> QED
    BY <1>5, <2>1, <2>3 DEF IInv, EntryInv
<1>14. \A u \in Threads \ {t} : cur'[t] # None => cur[u] # cur'[t]
  BY DEF IInv, OwnerInv, Owns
<1>15. links' = links /\ marked' = marked /\ linkLock' = linkLock /\ cur' = cur /\ count' = count
  OBVIOUS
<1>16. \A e \in Elements : e >= count' => linkLock'[e] = None
  BY DEF IInv, FreshInv
<1> HIDE DEF Global
<1> QED
  BY <1>3, <1>4, <1>6, <1>7, <1>8, <1>9, <1>10, <1>11, <1>12, <1>13, <1>14, <1>15, <1>16, Frame

LEMMA StepFirst ==
  ASSUME IInv, NEW t \in Threads, First(t)
  PROVE  IInv'
<1> USE DEF First, Goto, graph, entry, deletes, update, queues, place
<1>1. Works(t) /\ Inserts(t)
  BY DEF Works, Inserts, IInv, OwnerInv, Owns
<1>2. /\ Done = {} /\ global = t /\ maxCopy[t] = -1
      /\ level[cur[t]] > maxCopy[t] /\ maxlevel <= level[cur[t]]
  <2>1. Rises(t)
    BY DEF IInv, EntryInv
  <2> QED
    BY <1>1, <2>1 DEF Rises
<1>3. level[cur[t]] \in Levels /\ level[cur[t]] \in Nat /\ maxlevel \in Int /\ 0 \in Elements
  <2>1. level[cur[t]] \in Levels /\ level[cur[t]] \in Nat /\ cur[t] \in Elements
    BY <1>1, AtWork
  <2>2. maxlevel \in Int
    BY DEF IInv, TypeOK, Levels
  <2>3. 0 \in Elements
    BY <2>1, SizeAssumption DEF Elements
  <2> QED
    BY <2>1, <2>2, <2>3
<1>4. TypeOK'
  <2>1. pc \in [Threads -> Points] /\ "publish" \in Points
    BY DEF IInv, TypeOK, Points
  <2>2. pc' \in [Threads -> Points]
    BY <2>1
  <2> QED
    BY <1>3, <2>2 DEF IInv, TypeOK, Points
<1>5. pc'[t] = "publish" /\ \A u \in Threads \ {t} : Same(u)
  BY DEF IInv, TypeOK, Same
<1>6. Done' = Done
  BY DEF Done
<1>7. Grows
  BY <1>6, DoneExists DEF Grows, IInv
<1>8. Works(t)' /\ t \notin updating'
  BY <1>1, <1>5 DEF Works, Inserts
<1>9. Owns(t)'
  <2>1. Owns(t) /\ cur' = cur /\ level' = level /\ linkLock' = linkLock /\ updating' = updating /\ count' = count
    BY DEF IInv, OwnerInv
  <2> QED
    BY <1>1, <1>5, <1>8, <2>1 DEF Owns, Inserts, Works
<1>10. \A e \in Elements : linkLock[e] = t => cur[t] = e
  BY NoneAssumption DEF IInv, OwnerInv, Locks
<1>11. PlaceInv(t)' /\ Blank(t)'
  BY <1>5 DEF PlaceInv, Blank
<1>12. VectorInv' /\ Tidy'
  BY SameLists DEF IInv, VectorInv
<1>13. EntryInv'
  <2>1. enterpoint' = 0 /\ 0 # None /\ maxlevel' = level[cur[t]]
    BY NoneAssumption
  <2>2. ASSUME NEW u \in Threads PROVE Rises(u)'
    <3>1. Rises(u) /\ maxCopy[u] \in Int
      BY DEF IInv, EntryInv, TypeOK, Levels
    <3>2. maxCopy'[u] <= maxlevel'
      BY <1>2, <1>3, <2>1, <3>1 DEF Rises
    <3>3. CASE u = t
      <4>1. global' = t /\ maxCopy'[t] = -1 /\ cur'[t] = cur[t] /\ level' = level /\ Inserts(t)'
        BY <1>2, <1>8 DEF Inserts
      <4> HIDE DEF First
      <4> QED
        BY <1>2, <1>3, <1>5, <1>6, <2>1, <3>2, <3>3, <4>1 DEF Rises
    <3>4. CASE u # t
      <4>1. global' # u /\ global # u /\ (Inserts(u)' <=> Inserts(u)) /\ Same(u) /\ level' = level
        BY <1>2, <1>5, <3>4 DEF Same, Inserts, Works
      <4> HIDE DEF First
      <4> QED
        BY <1>6, <3>1, <3>2, <4>1 DEF Rises, Same
    <3> QED
      BY <3>3, <3>4
  <2> QED
    BY <1>2, <1>5, <1>6, <2>1, <2>2 DEF EntryInv
<1>14. \A u \in Threads \ {t} : cur'[t] # None => cur[u] # cur'[t]
  BY DEF IInv, OwnerInv, Owns
<1>15. links' = links /\ marked' = marked /\ linkLock' = linkLock /\ cur' = cur /\ count' = count
  OBVIOUS
<1>16. \A e \in Elements : e >= count' => linkLock'[e] = None
  BY DEF IInv, FreshInv
<1> HIDE DEF First
<1> QED
  BY <1>4, <1>5, <1>7, <1>8, <1>9, <1>10, <1>11, <1>12, <1>13, <1>14, <1>15, <1>16, Frame

(* An operation returns: its element is complete, and becomes the entry    *)
(* point if it is above the top level the operation has seen.              *)
LEMMA Leaves ==
  ASSUME IInv, NEW t \in Threads, pc[t] \in {"publish", "upentry"}, Leave(t),
         global' = IF global = t THEN None ELSE global,
         IF level[cur[t]] > maxCopy[t] THEN enterpoint' = cur[t] /\ maxlevel' = level[cur[t]]
         ELSE UNCHANGED entry
  PROVE  IInv'
<1> USE DEF Leave, Goto, graph, entry, deletes, queues
<1> DEFINE c == cur[t]
<1>1. Works(t) /\ (t \notin updating => Inserts(t) /\ pc[t] # "global")
  BY DEF Works, Inserts
<1>2. c \in Elements /\ c < count /\ c \in Nat /\ level[c] \in Levels /\ level[c] \in Nat /\ c # None
      /\ maxCopy[t] \in Levels \cup {-1} /\ maxCopy[t] \in Int /\ maxlevel \in Int
  <2>1. maxlevel \in Int /\ maxCopy[t] \in Int
    BY DEF IInv, TypeOK, Levels
  <2> QED
    BY <1>1, <2>1, AtWork, DoneExists DEF IInv
<1>3. TypeOK'
  <2>1. pc \in [Threads -> Points] /\ "idle" \in Points
    BY DEF IInv, TypeOK, Points
  <2>2. pc' \in [Threads -> Points]
    BY <2>1
  <2>3. enterpoint' \in Elements \cup {None} /\ maxlevel' \in Levels \cup {-1} /\ global' \in Threads \cup {None}
    BY <1>2 DEF IInv, TypeOK
  <2>4. 0 \in Levels
    BY SizeAssumption DEF Levels
  <2>5. cur' \in [Threads -> Elements \cup {None}] /\ maxCopy' \in [Threads -> Levels \cup {-1}]
        /\ obj' \in [Threads -> Elements \cup {None}] /\ epCopy' \in [Threads -> Elements \cup {None}]
        /\ lev' \in [Threads -> Levels]
    BY <2>4 DEF IInv, TypeOK
  <2>6. top' \in [Threads -> SUBSET Elements] /\ cand' \in [Threads -> SUBSET Elements]
        /\ visited' \in [Threads -> SUBSET Elements]
    BY DEF IInv, TypeOK
  <2>7. linkLock' \in [Elements -> Threads \cup {None}] /\ updating' \in SUBSET Threads
    BY DEF IInv, TypeOK
  <2>8. UNCHANGED <<count, level, vec, links, again, marked, marks, updates, alone, todo>>
    OBVIOUS
  <2> HIDE DEF Leave
  <2> QED
    BY <2>2, <2>3, <2>5, <2>6, <2>7, <2>8 DEF IInv, TypeOK, Points
<1>4. /\ pc'[t] = "idle" /\ cur'[t] = None /\ lev'[t] = 0 /\ maxCopy'[t] = -1 /\ t \notin updating'
      /\ linkLock'[c] = None /\ \A e \in Elements : e # c => linkLock'[e] = linkLock[e]
      /\ UNCHANGED <<count, level, vec, links, marked>>
  BY <1>2 DEF IInv, TypeOK
<1>5. \A u \in Threads \ {t} : Same(u)
  BY DEF IInv, TypeOK, Same
<1>6. Done' = Done \cup {c}
  <2>1. \A u \in Threads \ {t} : cur[u] # c /\ cur'[u] = cur[u] /\ (u \in updating' <=> u \in updating)
    BY <1>2, <1>5 DEF IInv, OwnerInv, Owns, Same
  <2>2. \A e \in 0..(count - 1) : e \in Done' <=> e \in Done \/ e = c
    <3> SUFFICES ASSUME NEW e \in 0..(count - 1) PROVE e \in Done' <=> e \in Done \/ e = c
      OBVIOUS
    <3>1. e \in Done' <=> \A u \in Threads \ {t} : cur[u] = e => u \in updating
      <4>1. e # None
        BY <1>2, NoneAssumption, DoneExists DEF IInv
      <4>2. e \in Done' <=> \A u \in Threads : cur'[u] = e => u \in updating'
        BY <1>4 DEF Done
      <4> HIDE DEF Leave
      <4> QED
        BY <1>4, <2>1, <4>1, <4>2
    <3>2. e \in Done <=> \A u \in Threads : cur[u] = e => u \in updating
      BY DEF Done
    <3> QED
      BY <2>1, <3>1, <3>2
  <2>3. Done \subseteq 0..(count - 1) /\ Done' \subseteq 0..(count - 1) /\ c \in 0..(count - 1)
    BY <1>2, <1>4, DoneExists DEF Done, IInv
  <2> QED
    BY <2>2, <2>3
<1>7. Grows
  <2>1. count \in Int
    BY DoneExists DEF IInv
  <2> QED
    BY <1>4, <1>6, <2>1 DEF Grows
<1>8. Owns(t)' /\ PlaceInv(t)' /\ ~(Inserts(t)')
  BY <1>4 DEF Owns, PlaceInv, Inserts, Works
<1>9. \A e \in Elements : linkLock[e] = t => e = c
  BY NoneAssumption DEF IInv, OwnerInv, Locks
<1>10. \A e \in Elements : linkLock'[e] # None => linkLock'[e] = linkLock[e] /\ linkLock[e] # t
  BY <1>4, <1>9
<1>11. \A e \in Elements : e >= count' => linkLock'[e] = None
  BY <1>4 DEF IInv, FreshInv
<1>12. VectorInv' /\ Tidy'
  BY <1>4, SameLists DEF IInv, VectorInv
<1>13. \A u \in Threads \ {t} : (Inserts(u)' <=> Inserts(u))
  BY <1>5 DEF Same, Inserts, Works
<1>14. Rises(t) /\ \A u \in Threads : Rises(u) /\ maxCopy[u] \in Int
  BY DEF IInv, EntryInv, TypeOK, Levels
<1>15. None \notin Elements /\ c \in Done' /\ None \notin Threads
  BY <1>6, NoneAssumption DEF Elements
<1>16. EntryInv'
  <2>1. CASE level[c] > maxCopy[t]
    <3>1. t \notin updating
      BY <1>2, <2>1 DEF IInv, OwnerInv, Owns
    <3>2. global = t /\ maxlevel <= level[c]
      BY <1>1, <1>14, <2>1, <3>1 DEF Rises
    <3>3. enterpoint' = c /\ maxlevel' = level[c] /\ level'[c] = level[c] /\ global' = None
      BY <1>4, <2>1, <3>2
    <3>4. \A e \in Done' : level'[e] <= maxlevel'
      <4>1. \A e \in Done : level[e] <= maxlevel /\ level[e] \in Int
        BY DoneExists DEF IInv, EntryInv
      <4> QED
        BY <1>2, <1>4, <1>6, <3>2, <3>3, <4>1
    <3>5. ASSUME NEW u \in Threads PROVE Rises(u)'
      <4>1. maxCopy'[u] <= maxlevel'
        <5>1. maxCopy'[u] = -1 \/ maxCopy'[u] = maxCopy[u]
          BY <1>4, <1>5 DEF Same
        <5> QED
          BY <1>2, <1>14, <3>2, <3>3, <5>1 DEF Rises
      <4>2. CASE u = t
        BY <1>4, <1>8, <1>15, <3>3, <4>1, <4>2 DEF Rises
      <4>3. CASE u # t
        <5>1. /\ ~((pc[u] = "copy" /\ obj[u] = None) \/ pc[u] = "first")
              /\ ~(Inserts(u) /\ pc[u] # "global" /\ level[cur[u]] > maxCopy[u])
          <6>1. pc[u] \in {"copy", "first"} => Inserts(u)
            BY DEF IInv, OwnerInv, Owns, Inserts, Works
          <6> QED
            BY <1>14, <3>2, <4>3, <6>1 DEF Rises
        <5>2. Done' # {} /\ global' # u
          BY <1>15, <3>3
        <5> HIDE DEF Leave, c
        <5> QED
          BY <1>4, <1>5, <1>13, <4>1, <4>3, <5>1, <5>2 DEF Rises, Same
      <4> QED
        BY <4>2, <4>3
    <3>6. enterpoint' \in Done' /\ level'[enterpoint'] = maxlevel' /\ enterpoint' # None
      BY <1>2, <1>15, <3>3
    <3> HIDE DEF Leave, c
    <3> QED
      BY <3>4, <3>5, <3>6 DEF EntryInv
  <2>2. CASE ~(level[c] > maxCopy[t])
    <3>1. Done # {}
      <4>1. CASE t \in updating
        BY <1>1, <4>1, AtWork
      <4>2. CASE t \notin updating
        BY <1>1, <1>2, <1>14, <2>2, <4>2 DEF Rises
      <4> QED
        BY <4>1, <4>2
    <3>2. global # t /\ global' = global /\ enterpoint' = enterpoint /\ maxlevel' = maxlevel
      BY <1>14, <2>2 DEF Rises
    <3>3. enterpoint \in Done /\ level[enterpoint] = maxlevel /\ maxCopy[t] <= maxlevel
      BY <3>1, EntryDone
    <3>4. \A e \in Done' : level'[e] <= maxlevel'
      <4>1. \A e \in Done : level[e] <= maxlevel
        BY DEF IInv, EntryInv
      <4>2. level[c] <= maxlevel
        BY <1>2, <2>2, <3>3
      <4> QED
        BY <1>4, <1>6, <3>2, <4>1, <4>2
    <3>5. ASSUME NEW u \in Threads PROVE Rises(u)'
      <4>1. maxCopy'[u] <= maxlevel'
        <5>1. maxCopy'[u] = -1 \/ maxCopy'[u] = maxCopy[u]
          BY <1>4, <1>5 DEF Same
        <5>2. maxlevel >= -1
          BY DEF IInv, TypeOK, Levels
        <5> QED
          BY <1>2, <1>14, <3>2, <5>1, <5>2 DEF Rises
      <4>2. CASE u = t
        BY <1>4, <1>8, <1>15, <3>2, <4>1, <4>2 DEF Rises
      <4>3. CASE u # t
        <5>1. Done' # {} /\ Rises(u)
          BY <1>14, <1>15
        <5> HIDE DEF Leave, c
        <5> QED
          BY <1>4, <1>5, <1>13, <3>1, <3>2, <4>1, <4>3, <5>1 DEF Rises, Same
      <4> QED
        BY <4>2, <4>3
    <3>6. enterpoint' \in Done' /\ level'[enterpoint'] = maxlevel' /\ enterpoint' # None
      BY <1>4, <1>6, <3>2, <3>3, EntryDone, <3>1
    <3> QED
      BY <1>15, <3>4, <3>5, <3>6 DEF EntryInv
  <2> QED
    BY <2>1, <2>2
<1> HIDE DEF Leave, c
<1> QED
  BY <1>3, <1>4, <1>5, <1>7, <1>8, <1>10, <1>11, <1>12, <1>16, Frame DEF c

LEMMA StepPublish ==
  ASSUME IInv, NEW t \in Threads, Publish(t)
  PROVE  IInv'
  BY Leaves DEF Publish

LEMMA StepCopyEntryForUpdate ==
  ASSUME IInv, NEW t \in Threads, CopyEntryForUpdate(t)
  PROVE  IInv'
<1>1. Works(t) /\ t \in updating /\ pc[t] = "upentry"
  BY DEF Works, IInv, OwnerInv, Owns, CopyEntryForUpdate
<1>2. level[cur[t]] <= maxCopy[t] /\ level[cur[t]] \in Int /\ maxCopy[t] \in Int
  BY <1>1, AtWork DEF IInv, OwnerInv, Owns, Levels
<1>3. CASE enterpoint = cur[t] /\ count = 1
  <2>1. global # t
    BY <1>1 DEF IInv, EntryInv, Rises, Inserts
  <2> QED
    BY <1>1, <1>2, <1>3, <2>1, Leaves DEF CopyEntryForUpdate, entry
<1>4. CASE ~(enterpoint = cur[t] /\ count = 1)
  <2> USE DEF Goto, graph, entry, deletes, update, queues
  <2>1. /\ epCopy' = [epCopy EXCEPT ![t] = enterpoint] /\ pc' = [pc EXCEPT ![t] = "onehop"]
        /\ UNCHANGED <<graph, linkLock, deletes, update, cur, maxCopy, obj, lev, queues, todo, entry, global>>
    BY <1>4 DEF CopyEntryForUpdate
  <2>2. cur[t] \in Done /\ level[cur[t]] \in Levels /\ \A l \in Levels : l \in Nat
    BY <1>1, AtWork
  <2>3. enterpoint \in Done /\ enterpoint \in Elements /\ maxCopy[t] <= level[enterpoint]
    BY <2>2, EntryDone
  <2>4. TypeOK'
    <3>1. pc \in [Threads -> Points] /\ "onehop" \in Points
      BY DEF IInv, TypeOK, Points
    <3>2. pc' \in [Threads -> Points]
      BY <2>1, <3>1
    <3> QED
      BY <2>1, <2>3, <3>2 DEF IInv, TypeOK, Points
  <2>5. pc'[t] = "onehop" /\ epCopy'[t] = enterpoint
    BY <2>1 DEF IInv, TypeOK
  <2>6. Local(t)
    <3>1. \A u \in Threads \ {t} : Same(u)
      BY <2>1 DEF Same, IInv, TypeOK
    <3> QED
      BY <1>1, <2>1, <2>5, <3>1 DEF Local
  <2>7. PlaceInv(t)'
    <3>1. lev[t] = 0
      BY <1>1 DEF IInv, PlaceInv
    <3>2. Done' = Done
      BY <2>1 DEF Done
    <3>3. EntryCopied(t)'
      BY <2>1, <2>3, <2>5, <3>2 DEF EntryCopied
    <3>4. lev'[t] <= level'[cur'[t]]
      BY <2>1, <2>2, <3>1
    <3> QED
      BY <2>5, <3>3, <3>4 DEF PlaceInv
  <2>8. Tidy'
    BY <2>1, SameLists DEF IInv
  <2> QED
    BY <1>1, <2>4, <2>5, <2>6, <2>7, <2>8, LocalStep DEF Inserts
<1> QED
  BY <1>3, <1>4

LEMMA StepClaim ==
  ASSUME IInv, NEW t \in Threads, Claim(t)
  PROVE  IInv'
<1> USE DEF Claim, Goto, entry, deletes, update, queues
<1>1. pc[t] = "idle" /\ cur[t] = None /\ t \notin updating /\ lev[t] = 0
  BY DEF IInv, OwnerInv, Owns
<1>2. count \in Elements /\ count \in Nat /\ MaxElements \in Nat /\ count < MaxElements
  BY DoneExists DEF IInv, Elements
<1>3. PICK l0 \in Levels : level' = [level EXCEPT ![count] = l0]
  OBVIOUS
<1>4. TypeOK'
  <2>1. pc \in [Threads -> Points] /\ "global" \in Points
    BY DEF IInv, TypeOK, Points
  <2>2. pc' \in [Threads -> Points]
    BY <2>1
  <2>3. count' \in 0..MaxElements
    BY <1>2
  <2>4. level' \in [Elements -> Levels] /\ linkLock' \in [Elements -> Threads \cup {None}]
        /\ cur' \in [Threads -> Elements \cup {None}]
    BY <1>2, <1>3 DEF IInv, TypeOK
  <2>5. UNCHANGED <<vec, links, again, entry, global, deletes, update, maxCopy, obj, epCopy, lev, queues, todo>>
    OBVIOUS
  <2> HIDE DEF Claim
  <2> QED
    BY <2>2, <2>3, <2>4, <2>5 DEF IInv, TypeOK, Points
<1>5. /\ pc'[t] = "global" /\ cur'[t] = count /\ linkLock'[count] = t /\ count' = count + 1
      /\ \A e \in Elements : e # count => level'[e] = level[e] /\ linkLock'[e] = linkLock[e]
      /\ UNCHANGED <<vec, links, again, entry, global, marked, updating, maxCopy>>
  BY <1>2, <1>3 DEF IInv, TypeOK
<1>6. \A u \in Threads \ {t} : Same(u)
  BY DEF IInv, TypeOK, Same
<1>7. \A u \in Threads : cur[u] # None => cur[u] < count /\ cur[u] # count
  BY <1>2 DEF IInv, OwnerInv, Owns
<1> HIDE DEF Claim
<1>8. Done' = Done
  <2>1. \A e \in 0..count : e \in Done' <=> \A u \in Threads : cur'[u] = e => u \in updating
    BY <1>2, <1>5 DEF Done
  <2>2. \A e \in 0..(count - 1) : e \in Done' <=> e \in Done
    <3>1. \A e \in 0..(count - 1) : e # count /\ e # None /\ e \in 0..count
      BY <1>2, NoneAssumption
    <3>2. \A u \in Threads \ {t} : cur'[u] = cur[u]
      BY <1>6 DEF Same
    <3> QED
      BY <1>1, <1>5, <2>1, <3>1, <3>2 DEF Done
  <2>3. count \notin Done'
    BY <1>1, <1>2, <1>5, <2>1
  <2>4. Done \subseteq 0..(count - 1) /\ Done' \subseteq 0..count
    BY <1>2, <1>5 DEF Done
  <2>5. \A e \in 0..count : e \in 0..(count - 1) \/ e = count
    BY <1>2
  <2> QED
    BY <2>2, <2>3, <2>4, <2>5
<1>9. Grows
  <2>1. \A e \in Elements : e < count => e # count
    BY <1>2
  <2>2. count <= count'
    BY <1>2, <1>5
  <2> QED
    BY <1>5, <1>8, <2>1, <2>2 DEF Grows
<1>10. Works(t)' /\ Inserts(t)'
  BY <1>1, <1>5 DEF Works, Inserts
<1>11. count # None /\ None \notin Elements /\ None \notin Threads
  BY <1>2, NoneAssumption DEF Elements
<1>12. \A u \in Threads \ {t} : cur'[t] # None => cur[u] # cur'[t]
  BY <1>5, <1>7, <1>11
<1>13. Owns(t)'
  <2>1. cur'[t] < count'
    BY <1>2, <1>5
  <2>2. \A u \in Threads : cur'[t] = cur'[u] => t = u
    BY <1>5, <1>6, <1>7, <1>11 DEF Same
  <2> QED
    BY <1>1, <1>5, <1>11, <2>1, <2>2 DEF Owns
<1>14. PlaceInv(t)'
  BY <1>5 DEF PlaceInv
<1>15. \A l \in Levels : links'[count][l] = {}
  BY <1>2, <1>5 DEF IInv, FreshInv
<1>16. Blank(t)'
  BY <1>5, <1>15 DEF Blank
<1>17. VectorInv'
  BY <1>5 DEF IInv, VectorInv
<1>18. Tidy'
  <2> SUFFICES ASSUME NEW e \in Elements, NEW l \in Levels
               PROVE /\ Size(e, l) <= Capacity(l)
                     /\ \A a \in links[e][l] : a # e /\ a < count' /\ l <= level'[a] /\ l <= level'[e]
    BY <1>5 DEF Tidy, Capacity, Size
  <2>1. /\ Size(e, l) <= Capacity(l)
        /\ \A a \in links[e][l] : a \in Elements /\ a # e /\ a < count /\ l <= level[a] /\ l <= level[e]
    BY DEF IInv, Tidy, TypeOK
  <2>2. e = count => links[e][l] = {}
    BY <1>5, <1>15
  <2>3. \A a \in Elements : a < count => a < count' /\ a # count
    BY <1>2, <1>5, DoneExists DEF IInv
  <2> QED
    BY <1>5, <2>1, <2>2, <2>3
<1>19. EntryInv'
  <2>1. \A e \in Done : e \in Elements /\ e # count
    BY <1>2, DoneExists DEF IInv
  <2>2. /\ enterpoint' = None => maxlevel' = -1 /\ Done' = {}
        /\ Done' # {} => enterpoint' \in Done' /\ level'[enterpoint'] = maxlevel'
        /\ \A e \in Done' : level'[e] <= maxlevel'
    BY <1>5, <1>8, <2>1 DEF IInv, EntryInv, entry
  <2>3. global # t
    BY <1>1 DEF IInv, EntryInv, Rises, Inserts, Works
  <2>4. Done' = {} /\ enterpoint' # None => \E u \in Threads : global' = u /\ pc'[u] = "publish"
    <3> SUFFICES ASSUME Done = {}, enterpoint # None
                 PROVE \E u \in Threads : global' = u /\ pc'[u] = "publish"
      BY <1>5, <1>8 DEF entry
    <3>1. PICK u \in Threads : global = u /\ pc[u] = "publish"
      BY DEF IInv, EntryInv
    <3> QED
      BY <1>5, <1>6, <2>3, <3>1 DEF Same
  <2>5. ASSUME NEW u \in Threads PROVE Rises(u)'
    <3>1. Rises(u)
      BY DEF IInv, EntryInv
    <3>2. CASE u = t
      BY <1>5, <2>3, <3>1, <3>2 DEF Rises, entry
    <3>3. CASE u # t
      <4>1. Same(u) /\ (Inserts(u)' <=> Inserts(u)) /\ global' = global /\ maxlevel' = maxlevel
        BY <1>5, <1>6, <3>3 DEF Same, Inserts, Works, entry
      <4>2. Inserts(u) => level'[cur[u]] = level[cur[u]]
        BY <1>5, <1>7, AtWork, <1>11 DEF Inserts
      <4> QED
        BY <1>8, <3>1, <4>1, <4>2 DEF Rises, Same
    <3> QED
      BY <3>2, <3>3
  <2> QED
    BY <2>2, <2>4, <2>5 DEF EntryInv
<1>20. \A e \in Elements : e < count /\ e # cur[t] => linkLock'[e] = linkLock[e]
  <2>1. \A e \in Elements : e < count => e # count
    BY <1>2
  <2> QED
    BY <1>5, <2>1
<1>21. \A e \in Elements : linkLock'[e] # None =>
           \/ linkLock'[e] = linkLock[e] /\ linkLock[e] # t
           \/ linkLock'[e] = t /\ Works(t)' /\ t \notin updating' /\ cur'[t] = e
  <2>1. \A e \in Elements : linkLock[e] # t
    BY <1>1, <1>11 DEF IInv, OwnerInv, Locks, Inserts, Works
  <2> QED
    BY <1>1, <1>5, <1>10, <2>1
<1>22. \A e \in Elements : e >= count' => linkLock'[e] = None
  <2>1. \A e \in Elements : e >= count' => e >= count /\ e # count
    BY <1>2, <1>5, DoneExists DEF IInv
  <2> QED
    BY <1>5, <2>1 DEF IInv, FreshInv
<1> QED
  BY <1>4, <1>5, <1>6, <1>9, <1>12, <1>13, <1>14, <1>16, <1>17, <1>18, <1>19, <1>20, <1>21, <1>22, Frame

LEMMA StepBeginUpdate ==
  ASSUME IInv, NEW t \in Threads, NEW e \in Elements, NEW p \in Places, BeginUpdate(t, e, p)
  PROVE  IInv'
<1> USE DEF BeginUpdate, Goto, entry, deletes, update, queues
<1>1. pc[t] = "idle" /\ cur[t] = None /\ lev[t] = 0 /\ e < count /\ \A u \in Threads : cur[u] # e
  BY DEF IInv, OwnerInv, Owns
<1>2. e \in Done
  <2>1. e \in 0..(count - 1)
    BY <1>1, DoneExists DEF IInv
  <2> QED
    BY <1>1, <2>1 DEF Done
<1>3. maxlevel \in Levels /\ level[e] <= maxlevel /\ Places \subseteq Int
  BY <1>2, EntryDone, PositionAssumption DEF IInv, EntryInv, Places
<1>4. TypeOK'
  <2>1. pc \in [Threads -> Points] /\ "upentry" \in Points
    BY DEF IInv, TypeOK, Points
  <2>2. pc' \in [Threads -> Points]
    BY <2>1
  <2>3. maxCopy' \in [Threads -> Levels \cup {-1}] /\ cur' \in [Threads -> Elements \cup {None}]
        /\ vec' \in [Elements -> Int]
    BY <1>3 DEF IInv, TypeOK
  <2>4. updates' \in 0..MaxUpdates
    BY SizeAssumption DEF IInv, TypeOK
  <2>5. marked' \in SUBSET Elements /\ updating' \in SUBSET Threads
    BY DEF IInv, TypeOK
  <2>6. UNCHANGED <<count, level, links, again, entry, global, linkLock, marks, alone, obj, epCopy, lev, queues, todo>>
    OBVIOUS
  <2> HIDE DEF BeginUpdate
  <2> QED
    BY <2>2, <2>3, <2>4, <2>5, <2>6 DEF IInv, TypeOK, Points
<1>5. /\ pc'[t] = "upentry" /\ cur'[t] = e /\ maxCopy'[t] = maxlevel /\ updating' = updating \cup {t}
      /\ marked' = marked \ {e} /\ vec' = [vec EXCEPT ![e] = p]
      /\ p = vec[e] \/ \A a \in Elements : p # vec[a]
      /\ UNCHANGED <<count, level, links, again, entry, global, linkLock, lev>>
  BY DEF IInv, TypeOK
<1>6. \A u \in Threads \ {t} : Same(u)
  BY DEF IInv, TypeOK, Same
<1> HIDE DEF BeginUpdate
<1>7. None \notin Elements /\ None \notin Threads
  BY NoneAssumption DEF Elements
<1>8. Done' = Done
  <2>1. \A x \in 0..(count - 1) : x # None
    BY NoneAssumption
  <2>2. \A x \in 0..(count - 1) :
          (\A u \in Threads : cur'[u] = x => u \in updating') <=> \A u \in Threads : cur[u] = x => u \in updating
    BY <1>1, <1>5, <1>6, <2>1 DEF Same
  <2> QED
    BY <1>5, <2>2 DEF Done
<1>9. Grows
  BY <1>5, <1>8, DoneExists DEF Grows, IInv
<1>10. ~(Inserts(t)') /\ \A x \in Elements : linkLock[x] # t
  BY <1>1, <1>5, <1>7 DEF Inserts, Works, IInv, OwnerInv, Locks
<1>11. Owns(t)'
  <2>1. \A u \in Threads : cur'[t] = cur'[u] => t = u
    BY <1>1, <1>5, <1>6 DEF Same
  <2> QED
    BY <1>1, <1>3, <1>5, <1>7, <1>10, <2>1 DEF Owns
<1>12. PlaceInv(t)'
  BY <1>1, <1>5 DEF PlaceInv
<1>13. VectorInv'
  BY <1>5 DEF IInv, VectorInv
<1>14. Tidy'
  BY <1>5, SameLists DEF IInv
<1>15. EntryInv'
  <2>1. ASSUME NEW u \in Threads PROVE Rises(u)'
    <3>1. Rises(u)
      BY DEF IInv, EntryInv
    <3>2. CASE u = t
      <4>1. global # t
        BY <1>1, <3>1, <3>2 DEF Rises, Inserts, Works
      <4>2. maxlevel <= maxlevel
        BY <1>3, DoneExists DEF IInv
      <4> QED
        BY <1>5, <1>10, <3>2, <4>1, <4>2 DEF Rises, entry
    <3>3. CASE u # t
      <4>1. Same(u) /\ (Inserts(u)' <=> Inserts(u)) /\ global' = global /\ maxlevel' = maxlevel /\ level' = level
        BY <1>5, <1>6, <3>3 DEF Same, Inserts, Works, entry
      <4> QED
        BY <1>8, <3>1, <4>1 DEF Rises, Same
    <3> QED
      BY <3>2, <3>3
  <2> QED
    BY <1>2, <1>5, <1>8, <2>1 DEF IInv, EntryInv, entry
<1>16. \A x \in Elements : x >= count' => linkLock'[x] = None
  BY <1>5 DEF IInv, FreshInv
<1>17. /\ links' = links /\ marked' \subseteq marked /\ linkLock' = linkLock
       /\ \A u \in Threads \ {t} : cur'[t] # None => cur[u] # cur'[t]
  BY <1>1, <1>5
<1> QED
  BY <1>4, <1>6, <1>9, <1>10, <1>11, <1>12, <1>13, <1>14, <1>15, <1>16, <1>17, Frame

LEMMA StepSetMark ==
  ASSUME IInv, NEW e \in Elements, SetMark(e)
  PROVE  IInv'
<1> USE DEF SetMark, graph, entry, update, place, queues, IInv
<1>1. \A t \in Threads : pc[t] = "idle" /\ t \notin updating
  BY DEF OwnerInv, Owns, Idle
<1>2. TypeOK'
  BY SizeAssumption DEF TypeOK
<1>3. UNCHANGED <<graph, entry, global, linkLock, update, pc, place, queues, todo>>
  OBVIOUS
<1> HIDE DEF SetMark
<1>4. OwnerInv'
  BY <1>1, <1>3 DEF OwnerInv, Owns, Locks, Inserts, Works
<1>5. \A t \in Threads : PlaceInv(t)'
  BY <1>1, <1>3 DEF PlaceInv
<1>6. FreshInv'
  BY <1>1, <1>3 DEF FreshInv, Inserts, Works
<1>7. VectorInv' /\ Tidy'
  BY <1>3, SameLists DEF VectorInv
<1>8. Done' = Done /\ \A t \in Threads : Inserts(t)' <=> Inserts(t)
  BY <1>3 DEF Done, Inserts, Works
<1>9. EntryInv'
  <2>1. \A t \in Threads : Rises(t)'
    BY <1>3, <1>8 DEF EntryInv, Rises
  <2> QED
    BY <1>3, <1>8, <2>1 DEF EntryInv
<1> QED
  BY <1>2, <1>4, <1>5, <1>6, <1>7, <1>9

LEMMA Stutter ==
  ASSUME IInv, UNCHANGED vars
  PROVE  IInv'
<1> USE DEF vars, graph, entry, deletes, update, place, queues, IInv
<1>1. TypeOK'
  BY DEF TypeOK
<1>2. OwnerInv'
  BY DEF OwnerInv, Owns, Locks, Inserts, Works
<1>3. Done' = Done
  BY DEF Done
<1>4. \A t \in Threads : PlaceInv(t)'
  BY <1>3 DEF PlaceInv, EntryCopied, Has, Settled
<1>5. FreshInv'
  BY DEF FreshInv, Blank, Inserts, Works
<1>6. VectorInv' /\ Tidy'
  BY SameLists DEF VectorInv
<1>7. EntryInv'
  BY <1>3 DEF EntryInv, Rises, Inserts, Works
<1> QED
  BY <1>1, <1>2, <1>4, <1>5, <1>6, <1>7

-----------------------------------------------------------------------------
LEMMA Start == Init => IInv
<1> SUFFICES ASSUME Init PROVE IInv
  OBVIOUS
<1> USE DEF Init
<1>1. TypeOK
  <2>1. 0 \in Levels /\ 0 \in 0..MaxElements /\ 0 \in 0..MaxMarks /\ 0 \in 0..MaxUpdates
    BY SizeAssumption DEF Levels
  <2>2. vec \in [Elements -> Int] /\ alone \in Nat
    BY PositionAssumption, SizeAssumption
  <2> QED
    BY <2>1, <2>2 DEF TypeOK
<1>2. Done = {}
  BY DEF Done
<1>3. OwnerInv
  BY DEF OwnerInv, Owns, Locks, Inserts, Works
<1>4. \A t \in Threads : PlaceInv(t)
  BY DEF PlaceInv
<1>5. FreshInv
  BY DEF FreshInv, Inserts, Works
<1>6. VectorInv
  <2>1. Position \in [Elements -> Int] /\ \A a, b \in Elements : a # b => Position[a] # Position[b]
    BY PositionAssumption, DistanceAssumption
  <2>2. \A e \in Elements : Position[e] \in Places
    BY DEF Places
  <2>3. Position \in [Elements -> Places]
    BY <2>1, <2>2
  <2> QED
    BY <2>1, <2>3 DEF VectorInv
<1>7. Tidy
  BY FS_EmptySet, Capacities DEF Tidy, Size
<1>8. EntryInv
  BY <1>2, NoneAssumption DEF EntryInv, Rises, Inserts, Works
<1> QED
  BY <1>1, <1>3, <1>4, <1>5, <1>6, <1>7, <1>8 DEF IInv

LEMMA EveryStep == IInv /\ [Next]_vars => IInv'
<1> SUFFICES ASSUME IInv, [Next]_vars PROVE IInv'
  OBVIOUS
<1>1. ASSUME NEW t \in Threads, Claim(t) PROVE IInv'
  BY <1>1, StepClaim
<1>2. ASSUME NEW t \in Threads, Step(t) PROVE IInv'
  <2>1. ASSUME NEW e \in Elements, TwoHop(t, e) \/ Relink(t, e) PROVE IInv'
    BY <2>1, StepTwoHop, StepRelink
  <2> QED
    BY <1>2, <2>1, StepGlobal, StepReadEntry, StepCopyEntry, StepFirst, StepCopyEntryForUpdate,
       StepOneHop, StepStartRepair, StepDescend, StepExpand, StepSelect, StepSelectAgain,
       StepLinkBack, StepPublish DEF Step
<1>3. ASSUME NEW t \in Threads, NEW e \in Elements, NEW p \in Places, BeginUpdate(t, e, p) PROVE IInv'
  BY <1>3, StepBeginUpdate
<1>4. ASSUME NEW e \in Elements, SetMark(e) PROVE IInv'
  BY <1>4, StepSetMark
<1>5. CASE Terminated \/ UNCHANGED vars
  BY <1>5, Stutter DEF Terminated
<1> QED
  BY <1>1, <1>2, <1>3, <1>4, <1>5 DEF Next

(* The inductive invariant holds in every state of every execution.        *)
THEOREM Invariance == Spec => []IInv
  BY Start, EveryStep, PTL DEF Spec

(* Counters, levels, lists and the state of every thread keep their types: *)
(* no index of a list, of an element or of a level leaves its range.       *)
THEOREM TypeCorrect == Spec => []TypeOK
<1>1. IInv => TypeOK
  BY DEF IInv
<1> QED
  BY <1>1, Invariance, PTL

(* None of the exceptions of an insertion or of an update is ever thrown.  *)
THEOREM NoInternalErrorHolds == Spec => []NoInternalError
<1>1. IInv => NoInternalError
  BY DEF IInv, OwnerInv, Owns, NoInternalError
<1> QED
  BY <1>1, Invariance, PTL

(* No list is read or written at a level that its element does not have,   *)
(* though maxlevel_ and enterpoint_node_ are read without a common lock.   *)
THEOREM ListsExistHolds == Spec => []ListsExist
<1>1. IInv => ListsExist
  BY DEF IInv, PlaceInv, ListsExist, Has
<1> QED
  BY <1>1, Invariance, PTL

(* While nobody holds global, the entry point is on the top level, which   *)
(* only elements exceed whose insertions have not read it yet.             *)
THEOREM EntryOnTopHolds == Spec => []EntryOnTop
<1>1. IInv => EntryOnTop
  <2> SUFFICES ASSUME IInv, global = None, enterpoint # None PROVE EntryOnTop
    BY DEF EntryOnTop
  <2>1. Done # {}
    BY NoneAssumption DEF IInv, EntryInv
  <2>2. level[enterpoint] = maxlevel
    BY <2>1 DEF IInv, EntryInv
  <2>3. ASSUME NEW e \in 0..(count - 1), level[e] > maxlevel PROVE \E t \in Threads \ updating : cur[t] = e
    <3>1. e \in Elements /\ maxlevel \in Int /\ level[e] \in Int
      <4>1. count \in Nat /\ count <= MaxElements /\ MaxElements \in Nat
        BY DoneExists DEF IInv
      <4>2. e \in Elements
        BY <4>1 DEF Elements
      <4>3. maxlevel \in Int
        BY DEF IInv, TypeOK, Levels
      <4> QED
        BY <4>2, <4>3, DoneExists DEF IInv
    <3>2. e \notin Done
      BY <2>3, <3>1 DEF IInv, EntryInv
    <3> QED
      BY <3>2 DEF Done
  <2> QED
    BY <2>2, <2>3 DEF EntryOnTop
<1> QED
  BY <1>1, Invariance, PTL
-----------------------------------------------------------------------------
(* The heuristic is defined: what it keeps of a set is what it keeps of the*)
(* set without its farthest element, with that element or without it.  A   *)
(* smallest set of which nothing could be kept would lead to a smaller one.*)
Keeps(K, S, q) ==
  \A a \in S : a \in K <=>
    \A b \in K : Dist(b, q) < Dist(a, q) => Dist(b, a) >= Dist(a, q)

LEMMA KeepsOneMore ==
  ASSUME VectorInv, NEW S \in SUBSET Elements, S # {}, NEW q \in Elements,
         NEW K \in SUBSET (S \ {Farthest(S, q)}), Keeps(K, S \ {Farthest(S, q)}, q)
  PROVE  \E L \in SUBSET S : Keeps(L, S, q)
<1> DEFINE f == Farthest(S, q)
           Near == \A b \in K : Dist(b, q) < Dist(f, q) => Dist(b, f) >= Dist(f, q)
           L == IF Near THEN K \cup {f} ELSE K
<1>1. f \in S /\ \A b \in S : Dist(f, q) >= Dist(b, q)
  BY HasFarthest
<1>2. \A a \in S : Dist(a, q) \in Nat
  BY Distances
<1>3. \A a \in S : ~(Dist(f, q) < Dist(a, q))
  BY <1>1, <1>2
<1>4. L \in SUBSET S
  BY <1>1
<1>5. f \notin K /\ \A a \in S \ {f} : a \in L <=> a \in K
  OBVIOUS
<1>6. f \in L <=> Near
  BY <1>5
<1> HIDE DEF f
<1>7. ASSUME NEW a \in S
      PROVE  (\A b \in L : Dist(b, q) < Dist(a, q) => Dist(b, a) >= Dist(a, q))
               <=> (\A b \in K : Dist(b, q) < Dist(a, q) => Dist(b, a) >= Dist(a, q))
  <2>1. ~(Dist(f, q) < Dist(a, q))
    BY <1>3
  <2> QED
    BY <2>1
<1> HIDE DEF L
<1>8. ASSUME NEW a \in S
      PROVE  a \in L <=> \A b \in L : Dist(b, q) < Dist(a, q) => Dist(b, a) >= Dist(a, q)
  <2>1. CASE a = f
    BY <1>6, <1>7, <2>1
  <2>2. CASE a # f
    <3>1. a \in K <=> \A b \in K : Dist(b, q) < Dist(a, q) => Dist(b, a) >= Dist(a, q)
      BY <2>2 DEF Keeps, f
    <3> QED
      BY <1>5, <1>7, <2>2, <3>1
  <2> QED
    BY <2>1, <2>2
<1>9. Keeps(L, S, q)
  BY <1>8 DEF Keeps
<1> QED
  BY <1>4, <1>9

LEMMA KeptExists ==
  ASSUME VectorInv, NEW S \in SUBSET Elements, NEW q \in Elements
  PROVE  Kept(S, q) \in SUBSET S /\ Keeps(Kept(S, q), S, q)
<1> DEFINE Lost == {T \in SUBSET Elements : ~ \E K \in SUBSET T : Keeps(K, T, q)}
           R == StrictSubsetOrdering(Elements)
<1>1. Lost = {}
  <2> SUFFICES ASSUME Lost # {} PROVE FALSE
    OBVIOUS
  <2>1. \A T \in Lost : T \in FiniteSubsetsOf(Elements)
    BY Finite DEF FiniteSubsetsOf
  <2>2. Lost \subseteq FiniteSubsetsOf(Elements)
    BY <2>1
  <2>3. IsWellFoundedOn(R, FiniteSubsetsOf(Elements))
    BY FS_StrictSubsetOrderingWellFounded
  <2> HIDE DEF Lost, R
  <2>4. PICK T \in Lost : \A U \in Lost : ~ (<<U, T>> \in R)
    BY <2>2, <2>3, WFMin
  <2>5. T \in SUBSET Elements /\ ~ \E K \in SUBSET T : Keeps(K, T, q)
    BY <2>4 DEF Lost
  <2>6. T # {}
    <3>1. Keeps({}, {}, q)
      BY DEF Keeps
    <3> QED
      BY <2>5, <3>1
  <2> DEFINE U == T \ {Farthest(T, q)}
  <2>7. Farthest(T, q) \in T
    BY <2>5, <2>6, HasFarthest
  <2>8. U \in SUBSET Elements /\ U \subseteq T /\ U # T
    BY <2>5, <2>7
  <2>9. <<U, T>> \in R
    BY <2>5, <2>8 DEF R, StrictSubsetOrdering
  <2>10. PICK K \in SUBSET U : Keeps(K, U, q)
    <3>1. U \notin Lost
      BY <2>4, <2>9
    <3> QED
      BY <2>8, <3>1 DEF Lost
  <2> QED
    BY <2>5, <2>6, <2>10, KeepsOneMore
<1>2. \E K \in SUBSET S : Keeps(K, S, q)
  BY <1>1
<1> QED
  BY <1>2 DEF Kept, Keeps

(* A bounded queue of one place at least keeps the closest element.        *)
LEMMA NearestFull ==
  ASSUME VectorInv, NEW S \in SUBSET Elements, S # {}, NEW q \in Elements,
         NEW n \in Nat, n # 0
  PROVE  Closest(S, q) \in Nearest(S, q, n)
<1>1. Closest(S, q) \in S /\ \A b \in S : Dist(Closest(S, q), q) <= Dist(b, q)
  BY HasClosest
<1>2. \A a, b \in S : Dist(a, q) \in Nat /\ Dist(b, q) \in Nat
  BY Distances
<1>3. {b \in S : Dist(b, q) < Dist(Closest(S, q), q)} = {}
  BY <1>1, <1>2
<1>4. Cardinality({}) < n
  BY FS_EmptySet
<1> QED
  BY <1>1, <1>3, <1>4 DEF Nearest

(* The heuristic chooses at least one element, where there is one.         *)
LEMMA PrunedFull ==
  ASSUME VectorInv, NEW S \in SUBSET Elements, S # {}, NEW q \in Elements,
         NEW m \in Nat, m # 0
  PROVE  Pruned(S, q, m) # {}
<1> DEFINE c == Closest(S, q)
<1>1. c \in S /\ \A b \in S : Dist(c, q) <= Dist(b, q)
  BY HasClosest
<1>2. \A b \in S : Dist(b, q) \in Nat
  BY Distances
<1> HIDE DEF c
<1>3. \A b \in S : ~(Dist(b, q) < Dist(c, q))
  BY <1>1, <1>2
<1>4. Kept(S, q) \in SUBSET S /\ Keeps(Kept(S, q), S, q)
  BY KeptExists
<1>5. c \in Kept(S, q)
  BY <1>1, <1>3, <1>4 DEF Keeps
<1> QED
  BY <1>1, <1>5, NearestFull DEF Pruned

LEMMA HeuristicFull ==
  ASSUME VectorInv, NEW S \in SUBSET Elements, S # {}, NEW q \in Elements,
         NEW m \in Nat, m # 0
  PROVE  Heuristic(S, q, m) # {}
BY PrunedFull DEF Heuristic

-----------------------------------------------------------------------------
(* What one thread has linked: an insertion has linked its element at level*)
(* l when the element's own list there has been written.                   *)
LinkedAt(t, l) ==
  \/ pc[t] = "publish"
  \/ pc[t] \in {"search", "link"} /\ lev[t] < l
  \/ pc[t] = "link" /\ lev[t] = l

(* The levels at which an insertion links its element.                     *)
Shared(t, l) == Inserts(t) /\ l <= level[cur[t]] /\ l <= maxCopy[t]

Moves(t) == Claim(t) \/ Step(t) \/ \E e \in Elements, p \in Places : BeginUpdate(t, e, p)

(* A thread only changes what it knows itself, and none moves that failed. *)
LEMMA OthersSame ==
  ASSUME TypeOK, NEW t \in Threads,
         Claim(t) \/ Step(t) \/ \E e \in Elements, p \in Places : BeginUpdate(t, e, p)
  PROVE  pc[t] \notin {"threw", "undefined"} /\ \A u \in Threads \ {t} : Same(u)
<1> USE DEF Goto, graph, deletes, entry, update, queues, place
<1>0. TypeOK
  OBVIOUS
<1> SUFFICES pc[t] \notin {"threw", "undefined"} /\ \A u \in Threads \ {t} : Same(u)
  OBVIOUS
<1> DEFINE Touched ==
      /\ \E x : pc' = [pc EXCEPT ![t] = x]
      /\ \E x : cur' = [cur EXCEPT ![t] = x]
      /\ \E x : maxCopy' = [maxCopy EXCEPT ![t] = x]
      /\ \E x : obj' = [obj EXCEPT ![t] = x]
      /\ \E x : epCopy' = [epCopy EXCEPT ![t] = x]
      /\ \E x : lev' = [lev EXCEPT ![t] = x]
      /\ \E x : top' = [top EXCEPT ![t] = x]
      /\ \E x : cand' = [cand EXCEPT ![t] = x]
      /\ \E x : visited' = [visited EXCEPT ![t] = x]
      /\ \E x : todo' = [todo EXCEPT ![t] = x]
      /\ updating' \in {updating, updating \cup {t}, updating \ {t}}
<1>1. /\ pc = [pc EXCEPT ![t] = pc[t]] /\ cur = [cur EXCEPT ![t] = cur[t]]
      /\ maxCopy = [maxCopy EXCEPT ![t] = maxCopy[t]] /\ obj = [obj EXCEPT ![t] = obj[t]]
      /\ epCopy = [epCopy EXCEPT ![t] = epCopy[t]] /\ lev = [lev EXCEPT ![t] = lev[t]]
      /\ top = [top EXCEPT ![t] = top[t]] /\ cand = [cand EXCEPT ![t] = cand[t]]
      /\ visited = [visited EXCEPT ![t] = visited[t]] /\ todo = [todo EXCEPT ![t] = todo[t]]
  BY <1>0 DEF TypeOK
<1>2. Touched => \A u \in Threads \ {t} : Same(u)
  BY <1>0 DEF TypeOK, Same
<1> HIDE DEF Touched
<1>3. CASE Claim(t) \/ Global(t) \/ ReadEntry(t) \/ First(t)
  BY <1>1, <1>2, <1>3 DEF Touched, Claim, Global, ReadEntry, First
<1>4. CASE CopyEntry(t) \/ Descend(t) \/ StartRepair(t)
  <2>1. \/ \E s, l : StartSearch(t, s, l)
        \/ StartDescent(t)
        \/ (Goto(t, "first") \/ Goto(t, "threw")) /\ UNCHANGED <<lev, queues>>
        \/ UNCHANGED <<pc, queues>> /\ (lev' = lev \/ \E x : lev' = [lev EXCEPT ![t] = x])
    BY <1>4 DEF CopyEntry, Descend, StartRepair, Fail
  <2>2. /\ \E x : pc' = [pc EXCEPT ![t] = x]
        /\ \E x : lev' = [lev EXCEPT ![t] = x]
        /\ \E x : top' = [top EXCEPT ![t] = x]
        /\ \E x : cand' = [cand EXCEPT ![t] = x]
        /\ \E x : visited' = [visited EXCEPT ![t] = x]
    BY <1>1, <2>1 DEF StartSearch, StartDescent
  <2>3. /\ cur' = cur /\ maxCopy' = maxCopy /\ todo' = todo /\ updating' = updating
        /\ \E x : obj' = [obj EXCEPT ![t] = x]
        /\ \E x : epCopy' = [epCopy EXCEPT ![t] = x]
        /\ pc[t] \notin {"threw", "undefined"}
    BY <1>1, <1>4 DEF CopyEntry, Descend, StartRepair, Fail
  <2> QED
    BY <1>1, <1>2, <2>2, <2>3 DEF Touched
<1>5. CASE Expand(t) \/ OneHop(t) \/ \E e \in Elements : TwoHop(t, e) \/ Relink(t, e)
  BY <1>1, <1>2, <1>5 DEF Touched, Expand, OneHop, TwoHop, Relink, NextLayer
<1>6. CASE Select(t) \/ SelectAgain(t) \/ LinkBack(t)
  <2>1. /\ cur' = cur /\ maxCopy' = maxCopy /\ epCopy' = epCopy /\ updating' = updating
        /\ \E x : obj' = [obj EXCEPT ![t] = x]
        /\ \E x : todo' = [todo EXCEPT ![t] = x]
        /\ pc[t] \notin {"threw", "undefined"}
    BY <1>1, <1>6 DEF Select, SelectAgain, LinkBack, Connect, Fail
  <2>2. \/ \E s, l : StartSearch(t, s, l)
        \/ (\E x : pc' = [pc EXCEPT ![t] = x]) /\ UNCHANGED <<lev, queues>>
    BY <1>1, <1>6 DEF Select, SelectAgain, LinkBack, Connect, Fail, GoDown
  <2>3. /\ \E x : pc' = [pc EXCEPT ![t] = x]
        /\ \E x : lev' = [lev EXCEPT ![t] = x]
        /\ \E x : top' = [top EXCEPT ![t] = x]
        /\ \E x : cand' = [cand EXCEPT ![t] = x]
        /\ \E x : visited' = [visited EXCEPT ![t] = x]
    BY <1>1, <2>2 DEF StartSearch
  <2> QED
    BY <1>1, <1>2, <2>1, <2>3 DEF Touched
<1>7. CASE Publish(t) \/ CopyEntryForUpdate(t)
  BY <1>1, <1>2, <1>7 DEF Touched, Publish, CopyEntryForUpdate, Leave
<1>8. CASE \E e \in Elements, p \in Places : BeginUpdate(t, e, p)
  <2>1. PICK e \in Elements, p \in Places : BeginUpdate(t, e, p)
    BY <1>8
  <2>2. pc[t] = "idle"
    BY <2>1 DEF BeginUpdate
  <2>3. Touched
    BY <1>1, <2>1 DEF Touched, BeginUpdate
  <2> QED
    BY <1>2, <2>2, <2>3
<1> QED
  BY <1>3, <1>4, <1>5, <1>6, <1>7, <1>8 DEF Step

(* Steps of a thread that write no list and complete no element: at no     *)
(* level has an insertion linked its element that had not before.          *)
Quiet(t) ==
  /\ links' = links /\ Done' = Done /\ count <= count' /\ updates <= updates'
  /\ \A e \in Elements : e < count => level'[e] = level[e]
  /\ \A u \in Threads \ {t} : Same(u)
  /\ pc[t] # "link" /\ pc'[t] # "link"
  /\ \A l \in Levels : LinkedAt(t, l)' /\ Shared(t, l)' =>
       LinkedAt(t, l) /\ Shared(t, l) /\ cur'[t] = cur[t]
  /\ updating' # updating => updates < updates' \/ updating' = updating \ {t}

LEMMA BeginsQuietly ==
  ASSUME IInv, NEW t \in Threads,
         Claim(t) \/ Global(t) \/ ReadEntry(t) \/ First(t)
           \/ \E e \in Elements, p \in Places : BeginUpdate(t, e, p)
  PROVE  Quiet(t)
<1> USE DEF Goto, graph, deletes, entry, update, queues
<1>0. TypeOK /\ \A u \in Threads \ {t} : Same(u)
  BY OthersSame DEF IInv, Step
<1>1. count \in Nat /\ updates \in Nat /\ None \notin Elements
  BY DoneExists, NoneAssumption DEF IInv, TypeOK, Elements
<1>2. CASE Claim(t)
  <2>1. pc'[t] = "global" /\ links' = links /\ count' = count + 1 /\ updates' = updates
        /\ updating' = updating /\ cur'[t] = count /\ pc[t] = "idle"
        /\ (\A u \in Threads \ {t} : cur'[u] = cur[u])
        /\ \A e \in Elements : e < count => level'[e] = level[e]
    BY <1>0, <1>1, <1>2 DEF Claim, TypeOK
  <2>2. cur[t] = None /\ t \notin updating
    BY <2>1 DEF IInv, OwnerInv, Owns
  <2>3. Done' = Done
    <3>1. \A u \in Threads : cur[u] # count
      BY <1>1, NoneAssumption DEF IInv, OwnerInv, Owns, TypeOK, Elements
    <3>2. ASSUME NEW e \in 0..(count - 1)
          PROVE  e \in Done' <=> e \in Done
      <4>1. e \in 0..(count' - 1) /\ e # count /\ e # None
        BY <1>1, <2>1, <3>2, NoneAssumption
      <4> QED
        BY <2>1, <2>2, <4>1 DEF Done
    <3>3. count \notin Done'
      BY <2>1, <2>2 DEF Done
    <3>4. 0..(count' - 1) = (0..(count - 1)) \cup {count}
      BY <1>1, <2>1
    <3> QED
      BY <3>2, <3>3, <3>4 DEF Done
  <2> QED
    BY <1>0, <1>1, <2>1, <2>3 DEF Quiet, LinkedAt
<1>3. CASE Global(t) \/ ReadEntry(t)
  <2>1. /\ pc'[t] \in {"entry", "copy"} /\ pc[t] # "link"
        /\ UNCHANGED <<links, level, count, cur, updates, updating>>
    BY <1>0, <1>3 DEF Global, ReadEntry, TypeOK
  <2> QED
    BY <1>0, <1>1, <2>1 DEF Quiet, LinkedAt, Done
<1>4. CASE First(t)
  <2>1. /\ pc'[t] = "publish" /\ pc[t] = "first"
        /\ UNCHANGED <<links, level, count, cur, maxCopy, updates, updating>>
    BY <1>0, <1>4 DEF First, TypeOK, place
  <2>2. maxCopy[t] = -1
    <3>1. Inserts(t) /\ Done = {}
      BY <2>1 DEF Inserts, Works, IInv, OwnerInv, Owns, EntryInv, Rises
    <3> QED
      BY <2>1, <3>1 DEF IInv, EntryInv, Rises
  <2>3. \A l \in Levels : ~Shared(t, l)'
    BY <2>1, <2>2, DoneExists DEF Shared, IInv
  <2> QED
    BY <1>0, <1>1, <2>1, <2>3 DEF Quiet, Done
<1>5. CASE \E e \in Elements, p \in Places : BeginUpdate(t, e, p)
  <2>1. PICK e \in Elements, p \in Places : BeginUpdate(t, e, p)
    BY <1>5
  <2>2. pc'[t] = "upentry" /\ links' = links /\ count' = count /\ updates' = updates + 1
        /\ updating' = updating \cup {t} /\ cur'[t] = e /\ pc[t] = "idle" /\ level' = level
        /\ (\A u \in Threads \ {t} : cur'[u] = cur[u])
    BY <1>0, <1>1, <2>1 DEF BeginUpdate, TypeOK
  <2>3. cur[t] = None
    BY <2>2 DEF IInv, OwnerInv, Owns
  <2>4. Done' = Done
    BY <2>2, <2>3, NoneAssumption DEF Done
  <2>5. updates' \in Nat /\ updates < updates'
    BY <1>1, <2>2
  <2> QED
    BY <1>0, <1>1, <2>2, <2>4, <2>5 DEF Quiet, LinkedAt
<1> QED
  BY <1>2, <1>3, <1>4, <1>5

LEMMA SearchesQuietly ==
  ASSUME IInv, NEW t \in Threads,
         CopyEntry(t) \/ Descend(t) \/ Expand(t)
  PROVE  Quiet(t)
<1> USE DEF Goto, graph, deletes, entry, update, queues
<1>0. TypeOK /\ \A u \in Threads \ {t} : Same(u)
  BY OthersSame DEF IInv, Step
<1>1. count \in Nat /\ updates \in Nat /\ Works(t)
  BY DoneExists DEF IInv, TypeOK, Works, CopyEntry, Descend, Expand
<1>2. UNCHANGED <<links, level, count, cur, maxCopy, updates, updating>>
  BY DEF CopyEntry, Descend, Expand, place
<1>3. pc[t] # "link" /\ pc'[t] \in {"first", "descend", "search"}
  <2>1. CASE CopyEntry(t)
    BY <1>0, <2>1 DEF CopyEntry, StartDescent, StartSearch, TypeOK
  <2>2. CASE Descend(t)
    BY <1>0, <2>2 DEF Descend, StartSearch, TypeOK
  <2>3. CASE Expand(t)
    BY <1>0, <2>3 DEF Expand, TypeOK
  <2> QED
    BY <2>1, <2>2, <2>3
<1>4. ASSUME NEW l \in Levels, LinkedAt(t, l)', Shared(t, l)'
      PROVE  LinkedAt(t, l) /\ Shared(t, l)
  <2>1. pc'[t] = "search" /\ lev'[t] < l
    BY <1>3, <1>4 DEF LinkedAt
  <2>2. Shared(t, l)
    BY <1>1, <1>2, <1>4 DEF Shared, Inserts
  <2>3. l \in Int /\ level[cur[t]] \in Int /\ maxCopy[t] \in Int
    BY <1>1, AtWork DEF Levels
  <2>4. CASE CopyEntry(t)
    <3>1. lev'[t] = SmallerOf(level[cur[t]], maxCopy[t])
      BY <1>0, <2>1, <2>4 DEF CopyEntry, StartDescent, StartSearch, TypeOK
    <3> QED
      BY <2>1, <2>2, <2>3, <3>1 DEF Shared, SmallerOf
  <2>5. CASE Descend(t)
    <3>1. lev'[t] = level[cur[t]]
      BY <1>0, <2>1, <2>5 DEF Descend, StartSearch, TypeOK
    <3> QED
      BY <2>1, <2>2, <2>3, <3>1 DEF Shared
  <2>6. CASE Expand(t)
    <3>1. lev'[t] = lev[t] /\ pc[t] = "search"
      BY <2>6 DEF Expand, place
    <3> QED
      BY <2>1, <2>2, <3>1 DEF LinkedAt
  <2> QED
    BY <2>4, <2>5, <2>6
<1>5. Done' = Done
  BY <1>2 DEF Done
<1> QED
  BY <1>0, <1>1, <1>2, <1>3, <1>4, <1>5 DEF Quiet

(* Steps of an update that write no list.                                  *)
LEMMA UpdatesQuietly ==
  ASSUME IInv, NEW t \in Threads,
         \/ CopyEntryForUpdate(t) \/ OneHop(t) \/ StartRepair(t)
         \/ \E e \in Elements : TwoHop(t, e)
         \/ Publish(t) /\ t \in updating
  PROVE  Quiet(t)
<1> USE DEF Goto, graph, deletes, entry, update, queues
<1>0. TypeOK /\ \A u \in Threads \ {t} : Same(u)
  BY OthersSame DEF IInv, Step
<1>1. count \in Nat /\ updates \in Nat
  BY DoneExists DEF IInv, TypeOK
<1>2. t \in updating /\ pc[t] # "link"
  BY DEF IInv, OwnerInv, Owns, CopyEntryForUpdate, OneHop, StartRepair, TwoHop, Publish
<1>3. CASE (CopyEntryForUpdate(t) \/ Publish(t)) /\ Leave(t)
  <2>1. /\ UNCHANGED <<links, level, count, updates>> /\ updating' = updating \ {t}
        /\ pc'[t] = "idle" /\ cur'[t] = None /\ \A u \in Threads \ {t} : cur'[u] = cur[u]
    BY <1>0, <1>3 DEF Leave, TypeOK
  <2>2. Done' = Done
    BY <1>2, <2>1, NoneAssumption DEF Done
  <2> QED
    BY <1>0, <1>1, <1>2, <2>1, <2>2 DEF Quiet, LinkedAt
<1>4. CASE ~((CopyEntryForUpdate(t) \/ Publish(t)) /\ Leave(t))
  <2>1. /\ UNCHANGED <<links, level, count, updates, updating, cur>>
        /\ pc'[t] # "link"
    <3>1. CASE CopyEntryForUpdate(t)
      BY <1>0, <1>4, <3>1 DEF CopyEntryForUpdate, TypeOK
    <3>2. CASE OneHop(t)
      BY <1>0, <3>2 DEF OneHop, NextLayer, TypeOK
    <3>3. CASE StartRepair(t)
      BY <1>0, <3>3 DEF StartRepair, StartDescent, StartSearch, Fail, TypeOK, place
    <3>4. CASE \E e \in Elements : TwoHop(t, e)
      BY <1>0, <3>4 DEF TwoHop, TypeOK, place
    <3>5. CASE Publish(t)
      BY <1>4, <3>5 DEF Publish
    <3> QED
      BY <3>1, <3>2, <3>3, <3>4, <3>5
  <2>2. Done' = Done
    BY <2>1 DEF Done
  <2>3. ~Inserts(t)'
    BY <1>2, <2>1 DEF Inserts
  <2> QED
    BY <1>0, <1>1, <1>2, <2>1, <2>2, <2>3 DEF Quiet, Shared
<1> QED
  BY <1>3, <1>4

(* Steps that write a list: t links its element to all of S, adds it to the*)
(* list of e, or replaces the list of e by S; and the end of an insertion. *)
Joins(t, S) ==
  /\ pc[t] = "search" /\ pc'[t] = "link" /\ todo'[t] = S
  /\ S \in SUBSET Elements /\ S # {}
  /\ \A x \in S : Has(x, lev[t]) /\ Settled(x) /\ x # cur[t]
  /\ t \notin updating => links[cur[t]][lev[t]] = {}
  /\ links' = [links EXCEPT ![cur[t]][lev[t]] = S]
  /\ UNCHANGED <<count, level, cur, maxCopy, lev, updating, updates>>

Adds(t, e, S) ==
  /\ pc[t] = "link" /\ e \in todo[t] /\ todo'[t] = todo[t] \ {e}
  /\ \/ todo[t] # {e} /\ pc'[t] = "link" /\ lev'[t] = lev[t]
     \/ todo[t] = {e} /\ lev[t] = 0 /\ pc'[t] = "publish" /\ lev'[t] = lev[t]
     \/ todo[t] = {e} /\ lev[t] # 0 /\ pc'[t] = "search" /\ lev'[t] = lev[t] - 1
  /\ S # {} /\ S \subseteq links[e][lev[t]] \cup {cur[t]}
  /\ t \notin updating => S = WithElement(e, cur[t], lev[t])
  /\ links' = [links EXCEPT ![e][lev[t]] = S]
  /\ UNCHANGED <<count, level, cur, maxCopy, updating, updates>>

Replaces(t, e, S) ==
  /\ t \in updating /\ pc[t] # "link" /\ pc'[t] # "link" /\ e \in Elements
  /\ S # {} /\ S \subseteq cand[t]
  /\ links' = [links EXCEPT ![e][lev[t]] = S]
  /\ UNCHANGED <<count, level, cur, maxCopy, updating, updates>>

Completes(t) ==
  /\ pc[t] = "publish" /\ t \notin updating
  /\ pc'[t] = "idle" /\ cur'[t] = None /\ \A u \in Threads \ {t} : Same(u)
  /\ UNCHANGED <<links, level, count, updates, updating>>
  /\ Done' = Done \cup {cur[t]}

LEMMA JoinsStep ==
  ASSUME IInv, NEW t \in Threads, Select(t) \/ SelectAgain(t), pc'[t] # "undefined"
  PROVE  (\E S : Joins(t, S)) \/ Quiet(t)
<1> USE DEF Goto, deletes, entry, update, queues
<1>0. TypeOK /\ (\A u \in Threads \ {t} : Same(u)) /\ Works(t) /\ pc[t] = "search" /\ SearchOver(t)
  BY OthersSame DEF IInv, Step, Select, SelectAgain, Works
<1>1. UNCHANGED <<count, level, vec, entry, deletes, updates, updating>>
  BY DEF Select, SelectAgain, Connect, Fail
<1>2. ASSUME NEW found \in SUBSET top[t], t \in updating => cur[t] \notin found,
             Connect(t, Heuristic(Candidates(t, found), cur[t], M))
      PROVE  \E S : Joins(t, S)
  <2> DEFINE S == Heuristic(Candidates(t, found), cur[t], M)
  <2>1. S \in SUBSET Elements /\ \A x \in S : Has(x, lev[t]) /\ Settled(x) /\ x # cur[t]
    BY <1>0, <1>2, Selected
  <2>2. Connect(t, S)
    BY <1>2
  <2> HIDE DEF S
  <2>3. S # {}
    <3> SUFFICES ASSUME S = {} PROVE FALSE
      OBVIOUS
    <3>1. pc'[t] = "undefined"
      BY <1>0, <2>2 DEF Connect, Fail, TypeOK
    <3> QED
      BY <3>1
  <2>4. t \notin updating => links[cur[t]][lev[t]] = {}
    <3>1. t \notin updating => Blank(t)
      BY <1>0 DEF IInv, FreshInv, Inserts
    <3> QED
      BY <1>0, <3>1, AtWork DEF Blank
  <2>5. \A e \in S : ~(lev[t] > level[e])
    BY <1>0, <2>1, AtWork DEF Has, Levels, IInv, TypeOK
  <2>6. /\ links' = [links EXCEPT ![cur[t]][lev[t]] = S]
        /\ todo'[t] = S /\ pc'[t] = "link"
        /\ UNCHANGED <<cur, maxCopy, lev>>
    BY <1>0, <2>2, <2>3, <2>4, <2>5 DEF Connect, Write, TypeOK
  <2>7. Joins(t, S)
    BY <1>0, <1>1, <2>1, <2>3, <2>4, <2>6 DEF Joins
  <2> QED
    BY <2>7
<1>3. CASE Select(t)
  BY <1>2, <1>3 DEF Select, IInv, OwnerInv, Owns
<1>4. CASE SelectAgain(t)
  <2> DEFINE found == top[t] \ {cur[t]}
  <2>1. CASE found = {}
    <3>1. t \in updating /\ GoDown(t) /\ UNCHANGED <<links, update, cur, maxCopy>>
      BY <1>4, <2>1 DEF SelectAgain
    <3>2. pc'[t] # "link"
      BY <1>0, <3>1 DEF GoDown, StartSearch, TypeOK
    <3>3. Done' = Done
      BY <1>1, <3>1 DEF Done
    <3>4. ~Inserts(t)'
      BY <3>1 DEF Inserts
    <3>5. count \in Nat /\ updates \in Nat
      BY DoneExists DEF IInv, TypeOK
    <3> QED
      BY <1>0, <1>1, <3>1, <3>2, <3>3, <3>4, <3>5 DEF Quiet, Shared
  <2>2. CASE found # {}
    <3>1. Connect(t, Heuristic(Candidates(t, found), cur[t], M))
      BY <1>4, <2>2 DEF SelectAgain
    <3> QED
      BY <1>2, <3>1
  <2> QED
    BY <2>1, <2>2
<1> QED
  BY <1>3, <1>4

LEMMA WithElementFull ==
  ASSUME IInv, NEW e \in Elements, NEW x \in Elements, NEW l \in Levels
  PROVE  WithElement(e, x, l) # {}
<1>1. links[e][l] \cup {x} \in SUBSET Elements /\ links[e][l] \cup {x} # {}
  BY DEF IInv, TypeOK
<1>2. Capacity(l) \in Nat /\ Capacity(l) # 0
  BY Capacities DEF Capacity
<1>3. Pruned(links[e][l] \cup {x}, e, Capacity(l)) # {}
  BY <1>1, <1>2, PrunedFull DEF IInv
<1> QED
  BY <1>3 DEF WithElement

LEMMA AddsStep ==
  ASSUME IInv, NEW t \in Threads, LinkBack(t)
  PROVE  \E e \in Elements : \E S : Adds(t, e, S)
<1> DEFINE e == Farthest(todo[t], cur[t])
           S == IF t \in updating /\ cur[t] \in links[e][lev[t]] THEN links[e][lev[t]]
                ELSE WithElement(e, cur[t], lev[t])
<1>0. TypeOK /\ Works(t) /\ pc[t] = "link"
  BY DEF IInv, LinkBack, Works
<1>1. /\ todo[t] # {} /\ cur[t] \notin todo[t]
      /\ \A x \in todo[t] : Has(x, lev[t]) /\ Settled(x)
  BY <1>0 DEF IInv, PlaceInv
<1>2. e \in todo[t] /\ e \in Elements /\ e # cur[t] /\ Has(e, lev[t])
  <2>1. e \in todo[t]
    BY <1>0, <1>1, AtWork, HasFarthest DEF IInv
  <2> QED
    BY <1>1, <2>1 DEF Has
<1>3. cur[t] \in Elements /\ lev[t] \in Levels
  BY <1>0, AtWork
<1>4. ~(e = cur[t] \/ Size(e, lev[t]) > Capacity(lev[t]) \/ lev[t] > level[e])
  <2>1. links[e][lev[t]] \in SUBSET Elements /\ Size(e, lev[t]) <= Capacity(lev[t]) /\ again[e][lev[t]] \in Nat
    BY <1>2, <1>3, ListHas DEF IInv, Tidy, TypeOK
  <2>2. Size(e, lev[t]) \in Nat /\ Capacity(lev[t]) \in Nat
    BY <1>3, <2>1, Capacities, Finite DEF Size
  <2>3. level[e] \in Nat /\ lev[t] \in Nat
    BY <1>2, <1>3, DoneExists DEF IInv
  <2> HIDE DEF e
  <2> QED
    BY <1>2, <2>1, <2>2, <2>3 DEF Has
<1>5. /\ links' = IF t \in updating /\ cur[t] \in links[e][lev[t]] THEN links
                  ELSE [links EXCEPT ![e][lev[t]] = WithElement(e, cur[t], lev[t])]
      /\ todo' = [todo EXCEPT ![t] = todo[t] \ {e}]
      /\ IF todo[t] # {e} THEN UNCHANGED <<pc, lev, queues>> ELSE GoDown(t)
      /\ UNCHANGED <<update, cur, maxCopy>>
      /\ UNCHANGED <<count, level>>
  BY <1>4 DEF LinkBack, AddEntry
<1>6. S # {} /\ S \subseteq links[e][lev[t]] \cup {cur[t]}
  BY <1>2, <1>3, WithElementFull, Linked
<1>7. links' = [links EXCEPT ![e][lev[t]] = S]
  <2>1. [links EXCEPT ![e][lev[t]] = links[e][lev[t]]] = links
    BY <1>0, <1>3 DEF TypeOK
  <2> HIDE DEF e
  <2> QED
    BY <1>5, <2>1
<1>8. t \notin updating => S = WithElement(e, cur[t], lev[t])
  OBVIOUS
<1> HIDE DEF e, S
<1>9. todo'[t] = todo[t] \ {e}
  BY <1>0, <1>5 DEF TypeOK
<1>10. \/ todo[t] # {e} /\ pc'[t] = "link" /\ lev'[t] = lev[t]
       \/ todo[t] = {e} /\ lev[t] = 0 /\ pc'[t] = "publish" /\ lev'[t] = lev[t]
       \/ todo[t] = {e} /\ lev[t] # 0 /\ pc'[t] = "search" /\ lev'[t] = lev[t] - 1
  BY <1>0, <1>5 DEF TypeOK, GoDown, StartSearch, Goto
<1>11. Adds(t, e, S)
  BY <1>0, <1>2, <1>5, <1>6, <1>7, <1>8, <1>9, <1>10 DEF Adds, update
<1> QED
  BY <1>2, <1>11

(* An update that relinks the neighbours of its element has the element    *)
(* itself among the candidates, and not among those it relinks.            *)
HopInv ==
  \A t \in Threads : pc[t] \in {"twohop", "relink"} =>
    cur[t] \in cand[t] /\ cur[t] \notin todo[t] /\ cur[t] \notin visited[t]

LEMMA HopStep ==
  ASSUME IInv, HopInv, [Next]_vars
  PROVE  HopInv'
<1> USE DEF Goto, graph, deletes, entry, update, queues
<1>0. TypeOK
  BY DEF IInv
<1>1. ASSUME NEW t \in Threads,
             Claim(t) \/ Step(t) \/ \E e \in Elements, p \in Places : BeginUpdate(t, e, p)
      PROVE  HopInv'
  <2>1. \A u \in Threads \ {t} : Same(u)
    BY <1>0, <1>1, OthersSame
  <2>2. SUFFICES ASSUME pc'[t] \in {"twohop", "relink"}
                 PROVE  cur'[t] \in cand'[t] /\ cur'[t] \notin todo'[t] /\ cur'[t] \notin visited'[t]
    BY <2>1 DEF HopInv, Same
  <2>3. CASE \/ Claim(t) \/ Global(t) \/ ReadEntry(t) \/ First(t) \/ Expand(t)
             \/ \E e \in Elements, p \in Places : BeginUpdate(t, e, p)
    BY <1>0, <2>2, <2>3 DEF Claim, Global, ReadEntry, First, Expand, BeginUpdate, TypeOK
  <2>4. CASE CopyEntry(t) \/ StartRepair(t) \/ Descend(t)
    BY <1>0, <2>2, <2>4 DEF CopyEntry, StartRepair, Descend, StartDescent, StartSearch, Fail, TypeOK
  <2>5. CASE Select(t) \/ SelectAgain(t) \/ LinkBack(t)
    BY <1>0, <2>2, <2>5 DEF Select, SelectAgain, LinkBack, Connect, Fail, GoDown, StartSearch, TypeOK
  <2>6. CASE CopyEntryForUpdate(t) \/ Publish(t)
    BY <1>0, <2>2, <2>6 DEF CopyEntryForUpdate, Publish, Leave, TypeOK
  <2>7. CASE OneHop(t)
    <3>1. Works(t) /\ pc[t] = "onehop"
      BY <2>7 DEF OneHop, Works
    <3>2. links[cur[t]][lev[t]] \in SUBSET Elements /\ cur[t] \notin links[cur[t]][lev[t]]
      BY <3>1, AtWork, ListHas
    <3> QED
      BY <1>0, <2>7, <3>2 DEF OneHop, TypeOK, place
  <2>8. CASE \E e \in Elements : TwoHop(t, e)
    <3>1. pc[t] = "twohop" /\ cur'[t] = cur[t]
      BY <2>8 DEF TwoHop, place
    <3>2. cur[t] \in cand[t] /\ cur[t] \notin todo[t] /\ cur[t] \notin visited[t]
      BY <3>1 DEF HopInv
    <3> QED
      BY <1>0, <2>8, <3>1, <3>2 DEF TwoHop, TypeOK
  <2>9. CASE \E e \in Elements : Relink(t, e)
    <3>1. pc[t] = "relink" /\ cur'[t] = cur[t]
      BY <2>9 DEF Relink
    <3>2. cur[t] \in cand[t] /\ cur[t] \notin todo[t] /\ cur[t] \notin visited[t]
      BY <3>1 DEF HopInv
    <3> QED
      BY <1>0, <2>9, <3>1, <3>2 DEF Relink, TypeOK
  <2> QED
    BY <1>1, <2>3, <2>4, <2>5, <2>6, <2>7, <2>8, <2>9 DEF Step
<1>2. CASE UNCHANGED vars \/ \E e \in Elements : SetMark(e)
  BY <1>2 DEF HopInv, vars, SetMark, place
<1> QED
  BY <1>1, <1>2 DEF Next, Terminated

LEMMA ReplacesStep ==
  ASSUME IInv, HopInv, NEW t \in Threads, NEW e \in Elements, Relink(t, e)
  PROVE  \E S : Replaces(t, e, S)
<1> DEFINE near == Nearest(cand[t] \ {e}, e, EfConstruction)
           S == Heuristic(near, e, Capacity(lev[t]))
<1>0. TypeOK /\ Works(t) /\ pc[t] = "relink" /\ t \in updating
  BY DEF IInv, Relink, Works, OwnerInv, Owns
<1>1. links' = [links EXCEPT ![e][lev[t]] = S]
      /\ UNCHANGED <<count, level, cur, maxCopy, updating, updates>> /\ pc'[t] # "link"
  BY <1>0 DEF Relink, Write, NextLayer, Goto, TypeOK, update
<1>2. cand[t] \ {e} \in SUBSET Elements /\ cand[t] \ {e} # {}
  BY <1>0, AtWork DEF HopInv, Relink
<1>3. EfConstruction \in Nat /\ EfConstruction # 0 /\ Capacity(lev[t]) \in Nat /\ Capacity(lev[t]) # 0
  <2>1. lev[t] \in Levels
    BY <1>0, AtWork
  <2> QED
    BY <2>1, Capacities, SizeAssumption
<1>4. near \in SUBSET Elements /\ near # {} /\ near \subseteq cand[t]
  BY <1>2, <1>3, NearestFull, NearestBounded DEF IInv
<1>5. S # {} /\ S \subseteq cand[t]
  BY <1>3, <1>4, HeuristicFull, HeuristicBounded DEF IInv
<1>6. Replaces(t, e, S)
  BY <1>0, <1>1, <1>5 DEF Replaces
<1> QED
  BY <1>6

(* The end of an insertion: its element is complete.                       *)
LEMMA CompletesStep ==
  ASSUME IInv, NEW t \in Threads, Publish(t), t \notin updating
  PROVE  Completes(t)
<1> USE DEF graph, update
<1>0. TypeOK /\ (\A u \in Threads \ {t} : Same(u)) /\ Works(t)
  BY OthersSame DEF IInv, Step, Publish, Works
<1>1. /\ pc[t] = "publish" /\ pc'[t] = "idle" /\ cur'[t] = None
      /\ UNCHANGED <<links, level, count, updates, updating>>
  BY <1>0 DEF Publish, Leave, Goto, TypeOK
<1>2. cur[t] \in 0..(count - 1) /\ cur[t] # None /\ None \notin 0..(count - 1)
  BY <1>0, AtWork, NoneAssumption DEF Elements
<1>3. \A u \in Threads \ {t} : cur'[u] = cur[u] /\ cur[u] # cur[t]
  BY <1>0, <1>2 DEF Same, IInv, OwnerInv, Owns
<1>4. Done' = Done \cup {cur[t]}
  <2>1. \A e \in 0..(count - 1) : e \in Done' <=> e \in Done \/ e = cur[t]
    BY <1>1, <1>2, <1>3 DEF Done
  <2> QED
    BY <1>1, <1>2, <2>1 DEF Done
<1> QED
  BY <1>0, <1>1, <1>4 DEF Completes

(* What a step of a thread is: it writes no list and completes no element, *)
(* it writes one list, or it ends an insertion; or the operation fails.    *)
Stops(t) ==
  /\ pc'[t] = "undefined"
  /\ UNCHANGED <<count, level, links, cur, maxCopy, lev, todo, updating, updates>>

Kind(t) ==
  \/ Quiet(t) \/ (\E S : Joins(t, S)) \/ Completes(t)
  \/ \E e \in Elements : \E S : Adds(t, e, S) \/ Replaces(t, e, S)

LEMMA KindOfStep ==
  ASSUME IInv, HopInv, NEW t \in Threads, Moves(t)
  PROVE  /\ pc[t] # "undefined" /\ \A u \in Threads \ {t} : Same(u)
         /\ Kind(t) \/ Stops(t)
<1>1. pc[t] # "undefined" /\ \A u \in Threads \ {t} : Same(u)
  BY OthersSame DEF IInv, Moves
<1>2. CASE \E e \in Elements : Relink(t, e)
  BY <1>1, <1>2, ReplacesStep DEF Kind
<1>3. CASE (Select(t) \/ SelectAgain(t)) /\ pc'[t] # "undefined"
  BY <1>1, <1>3, JoinsStep DEF Kind
<1>4. CASE (Select(t) \/ SelectAgain(t)) /\ pc'[t] = "undefined"
  BY <1>1, <1>4 DEF Select, SelectAgain, Connect, Fail, GoDown, StartSearch, Goto, IInv, TypeOK,
                    Stops, place, update
<1>5. CASE LinkBack(t)
  BY <1>1, <1>5, AddsStep DEF Kind
<1>6. CASE \/ Claim(t) \/ Global(t) \/ ReadEntry(t) \/ First(t)
           \/ \E e \in Elements, p \in Places : BeginUpdate(t, e, p)
  BY <1>1, <1>6, BeginsQuietly DEF Kind
<1>7. CASE CopyEntry(t) \/ Descend(t) \/ Expand(t)
  BY <1>1, <1>7, SearchesQuietly DEF Kind
<1>8. CASE \/ CopyEntryForUpdate(t) \/ OneHop(t) \/ StartRepair(t)
           \/ \E e \in Elements : TwoHop(t, e)
  BY <1>1, <1>8, UpdatesQuietly DEF Kind
<1>9. CASE Publish(t)
  BY <1>1, <1>9, UpdatesQuietly, CompletesStep DEF Kind
<1> QED
  BY <1>1, <1>2, <1>3, <1>4, <1>5, <1>6, <1>7, <1>8, <1>9 DEF Moves, Step

LEMMA Kinds ==
  ASSUME IInv, HopInv, [Next]_vars, SelectionNotEmpty'
  PROVE  /\ SelectionNotEmpty
         /\ \/ UNCHANGED <<count, level, links, pc, cur, maxCopy, lev, todo, updating, updates>>
            \/ \E t \in Threads : (\A u \in Threads \ {t} : Same(u)) /\ Kind(t)
<1>1. CASE UNCHANGED vars \/ \E e \in Elements : SetMark(e)
  BY <1>1 DEF vars, SetMark, graph, place, update, SelectionNotEmpty
<1>2. ASSUME NEW t \in Threads, Moves(t)
      PROVE  SelectionNotEmpty /\ (\A u \in Threads \ {t} : Same(u)) /\ Kind(t)
  <2>1. pc[t] # "undefined" /\ (\A u \in Threads \ {t} : Same(u)) /\ (Kind(t) \/ Stops(t))
    BY <1>2, KindOfStep
  <2> QED
    BY <2>1 DEF SelectionNotEmpty, Same, Stops
<1> QED
  BY <1>1, <1>2 DEF Next, Terminated, Moves

(* At the levels where an insertion has linked its element the element has *)
(* neighbours, and so has every complete element but those still to come.  *)
FilledAt(t) ==
  \A l \in Levels : Shared(t, l) /\ LinkedAt(t, l) =>
    /\ links[cur[t]][l] # {}
    /\ \A a \in Done : l <= level[a] =>
         links[a][l] # {} \/ (pc[t] = "link" /\ lev[t] = l /\ a \in todo[t])

(* Complete elements that share a level have neighbours there.             *)
Paired ==
  \A a, b \in Done, l \in Levels :
    a # b /\ l <= level[a] /\ l <= level[b] => links[a][l] # {}

FullInv == SelectionNotEmpty => (\A t \in Threads : FilledAt(t)) /\ Paired

(* While no search comes back empty what no insertion works on is complete.*)
LEMMA SettledDone ==
  ASSUME IInv, SelectionNotEmpty, NEW e, Settled(e)
  PROVE  e \in Done
<1>1. e \in 0..(count - 1)
  BY DoneExists DEF IInv, Settled, Elements
<1>2. ASSUME NEW t \in Threads, cur[t] = e, t \notin updating PROVE FALSE
  <2>1. pc[t] \notin {"idle", "threw", "undefined"}
    BY <1>1, <1>2, NoneAssumption DEF IInv, OwnerInv, Owns, SelectionNotEmpty
  <2>2. linkLock[e] = t
    BY <1>2, <2>1 DEF IInv, OwnerInv, Owns, Inserts, Works
  <2> QED
    BY <2>2, NoneAssumption DEF Settled
<1> QED
  BY <1>1, <1>2 DEF Done

(* What a thread that stands still has linked.                             *)
LEMMA StandsStill ==
  ASSUME IInv, NEW u \in Threads, Same(u), \A e \in Elements : e < count => level'[e] = level[e]
  PROVE  \A l \in Levels : (Shared(u, l) /\ LinkedAt(u, l))' =>
           /\ Shared(u, l) /\ LinkedAt(u, l) /\ cur[u] \in Elements
           /\ pc'[u] = pc[u] /\ lev'[u] = lev[u] /\ todo'[u] = todo[u] /\ cur'[u] = cur[u]
<1> SUFFICES ASSUME NEW l \in Levels, (Shared(u, l) /\ LinkedAt(u, l))'
             PROVE  Shared(u, l) /\ LinkedAt(u, l) /\ cur[u] \in Elements
  BY DEF Same
<1>1. Inserts(u) /\ LinkedAt(u, l)
  BY DEF Shared, LinkedAt, Same, Inserts, Works
<1>2. cur[u] \in Elements /\ level'[cur[u]] = level[cur[u]]
  BY <1>1, AtWork DEF Inserts
<1> QED
  BY <1>1, <1>2 DEF Shared, Same

(* A list that is written is not left empty.                               *)
LEMMA NeverEmptied ==
  ASSUME TypeOK, NEW x \in Elements, NEW k \in Levels, NEW S, S # {},
         links' = [links EXCEPT ![x][k] = S]
  PROVE  \A e \in Elements, l \in Levels :
           /\ links[e][l] # {} => links'[e][l] # {}
           /\ e = x /\ l = k => links'[e][l] # {}
BY DEF TypeOK

LEMMA FullQuiet ==
  ASSUME IInv, FullInv, SelectionNotEmpty, NEW t \in Threads, Quiet(t)
  PROVE  (\A u \in Threads : FilledAt(u)') /\ Paired'
<1>0. (\A u \in Threads : FilledAt(u)) /\ Paired
  BY DEF FullInv
<1>1. links' = links /\ Done' = Done /\ \A e \in Elements : e < count => level'[e] = level[e]
  BY DEF Quiet
<1>2. \A a \in Done : level'[a] = level[a] /\ a \in Elements
  BY <1>1, DoneExists DEF IInv
<1>3. ASSUME NEW u \in Threads \ {t} PROVE FilledAt(u)'
  <2>1. Same(u)
    BY DEF Quiet
  <2> QED
    BY <1>0, <1>1, <1>2, <2>1, StandsStill DEF FilledAt
<1>4. FilledAt(t)'
  <2>1. ASSUME NEW l \in Levels, (Shared(t, l) /\ LinkedAt(t, l))'
        PROVE  Shared(t, l) /\ LinkedAt(t, l) /\ cur'[t] = cur[t] /\ pc[t] # "link"
    BY <2>1 DEF Quiet
  <2> QED
    BY <1>0, <1>1, <1>2, <2>1 DEF FilledAt
<1>5. Paired'
  BY <1>0, <1>1, <1>2 DEF Paired
<1> QED
  BY <1>3, <1>4, <1>5

LEMMA FullJoins ==
  ASSUME IInv, FullInv, SelectionNotEmpty, NEW t \in Threads, NEW S, Joins(t, S),
         \A u \in Threads \ {t} : Same(u)
  PROVE  (\A u \in Threads : FilledAt(u)') /\ Paired'
<1>0. TypeOK /\ (\A u \in Threads : FilledAt(u)) /\ Paired
  BY DEF FullInv, IInv
<1>1. level' = level /\ Done' = Done
  BY DEF Joins, Done
<1>2. \A a \in Done : a \in Elements
  BY DoneExists DEF IInv
<1>3. Works(t) /\ cur[t] \in Elements /\ lev[t] \in Levels
  BY AtWork DEF Joins, Works
<1>4. \A e \in Elements, l \in Levels :
        /\ links[e][l] # {} => links'[e][l] # {}
        /\ e = cur[t] /\ l = lev[t] => links'[e][l] # {}
  BY <1>0, <1>3, NeverEmptied DEF Joins
<1>5. Paired'
  BY <1>0, <1>1, <1>2, <1>4 DEF Paired
<1>6. ASSUME NEW u \in Threads \ {t} PROVE FilledAt(u)'
  BY <1>0, <1>1, <1>2, <1>4, StandsStill DEF FilledAt
<1>7. FilledAt(t)'
  <2> SUFFICES ASSUME NEW l \in Levels, (Shared(t, l) /\ LinkedAt(t, l))'
               PROVE  /\ links'[cur[t]][l] # {}
                      /\ \A a \in Done : l <= level[a] =>
                           links'[a][l] # {} \/ (lev[t] = l /\ a \in S)
    BY <1>1 DEF FilledAt, Joins
  <2>1. pc[t] = "search" /\ pc'[t] = "link" /\ lev'[t] = lev[t] /\ Shared(t, l)
    BY <1>1, <1>3 DEF Joins, Shared, Inserts, Works
  <2>2. CASE lev[t] < l
    <3>1. LinkedAt(t, l)
      BY <2>1, <2>2 DEF LinkedAt
    <3> QED
      BY <1>0, <1>2, <1>3, <1>4, <2>1, <3>1 DEF FilledAt
  <2>3. CASE lev[t] = l
    <3>1. PICK x \in S : x \in Done /\ l <= level[x]
      BY <2>3, SettledDone DEF Joins, Has
    <3>2. \A a \in Done : l <= level[a] /\ a # x => links[a][l] # {}
      BY <1>0, <3>1 DEF Paired
    <3> QED
      BY <1>2, <1>3, <1>4, <2>3, <3>1, <3>2
  <2> QED
    BY <2>1, <2>2, <2>3 DEF LinkedAt
<1> QED
  BY <1>5, <1>6, <1>7

LEMMA FullAdds ==
  ASSUME IInv, FullInv, SelectionNotEmpty, NEW t \in Threads, NEW e \in Elements, NEW S,
         Adds(t, e, S) \/ Replaces(t, e, S), \A u \in Threads \ {t} : Same(u)
  PROVE  (\A u \in Threads : FilledAt(u)') /\ Paired'
<1>0. TypeOK /\ (\A u \in Threads : FilledAt(u)) /\ Paired
  BY DEF FullInv, IInv
<1>1. level' = level /\ Done' = Done /\ cur' = cur /\ maxCopy' = maxCopy /\ updating' = updating
  BY DEF Adds, Replaces, Done
<1>2. \A a \in Done : a \in Elements
  BY DoneExists DEF IInv
<1>3. lev[t] \in Levels /\ \A l \in Levels : l \in Nat
  BY <1>0, DoneExists DEF TypeOK
<1>4. \A a \in Elements, l \in Levels :
        /\ links[a][l] # {} => links'[a][l] # {}
        /\ a = e /\ l = lev[t] => links'[a][l] # {}
  <2>1. S # {} /\ links' = [links EXCEPT ![e][lev[t]] = S]
    BY DEF Adds, Replaces
  <2> QED
    BY <1>0, <1>3, <2>1, NeverEmptied
<1>5. Paired'
  BY <1>0, <1>1, <1>2, <1>4 DEF Paired
<1>6. ASSUME NEW u \in Threads \ {t} PROVE FilledAt(u)'
  BY <1>0, <1>1, <1>2, <1>4, StandsStill DEF FilledAt
<1>7. FilledAt(t)'
  <2> SUFFICES ASSUME NEW l \in Levels, (Shared(t, l) /\ LinkedAt(t, l))'
               PROVE  /\ links'[cur[t]][l] # {}
                      /\ \A a \in Done : l <= level[a] =>
                           links'[a][l] # {} \/ (pc'[t] = "link" /\ lev'[t] = l /\ a \in todo'[t])
    BY <1>1 DEF FilledAt
  <2>1. Adds(t, e, S)
    BY <1>1 DEF Replaces, Shared, Inserts
  <2>2. pc[t] = "link" /\ lev[t] <= l
    BY <1>3, <2>1 DEF Adds, LinkedAt
  <2>3. Shared(t, l) /\ LinkedAt(t, l) /\ cur[t] \in Elements
    <3>1. Works(t)
      BY <2>2 DEF Works
    <3> QED
      BY <1>1, <1>3, <2>2, <3>1, AtWork DEF Shared, LinkedAt, Inserts
  <2>4. ASSUME NEW a \in Done, l <= level[a]
        PROVE  links'[a][l] # {} \/ (pc'[t] = "link" /\ lev'[t] = l /\ a \in todo'[t])
    <3>1. links[a][l] # {} \/ (lev[t] = l /\ a \in todo[t])
      BY <1>0, <2>3, <2>4 DEF FilledAt
    <3>2. CASE links[a][l] # {} \/ (lev[t] = l /\ a = e)
      BY <1>2, <1>4, <3>2
    <3>3. CASE lev[t] = l /\ a \in todo[t] /\ a # e
      BY <2>1, <3>3 DEF Adds
    <3> QED
      BY <3>1, <3>2, <3>3
  <2> QED
    BY <1>0, <1>4, <2>3, <2>4 DEF FilledAt
<1> QED
  BY <1>5, <1>6, <1>7

(* A level that the element of an insertion shares with a complete element,*)
(* or with that of another insertion which has seen the entry point, is one*)
(* at which it has been linked when the insertion ends.                    *)
LEMMA SeenLevels ==
  ASSUME IInv, NEW t \in Threads, Inserts(t), pc[t] = "publish",
         NEW l \in Levels, l <= level[cur[t]],
         \/ \E a \in Done : l <= level[a]
         \/ \E u \in Threads \ {t} : Inserts(u) /\ pc[u] # "global" /\ l <= maxCopy[u]
  PROVE  Shared(t, l)
<1>1. l \in Int /\ level[cur[t]] \in Int /\ maxCopy[t] \in Int /\ maxlevel \in Int
  <2>1. maxlevel \in Levels \cup {-1}
    BY DEF IInv, TypeOK
  <2> QED
    BY <2>1, AtWork DEF Inserts, Levels
<1>2. CASE level[cur[t]] <= maxCopy[t]
  BY <1>1, <1>2 DEF Shared
<1>3. CASE level[cur[t]] > maxCopy[t]
  <2>1. global = t
    BY <1>3 DEF IInv, EntryInv, Rises
  <2>2. Done # {}
    BY <2>1 DEF IInv, EntryInv, Rises
  <2>3. maxCopy[t] = maxlevel
    BY <2>1, <2>2 DEF IInv, EntryInv, Rises
  <2>4. l <= maxlevel
    <3>1. CASE \E a \in Done : l <= level[a]
      <4>1. PICK a \in Done : l <= level[a]
        BY <3>1
      <4>2. level[a] <= maxlevel /\ level[a] \in Int
        BY <4>1, DoneSettled DEF IInv, EntryInv, Levels
      <4> QED
        BY <1>1, <4>1, <4>2
    <3>2. CASE \E u \in Threads \ {t} : l <= maxCopy[u]
      <4>1. PICK u \in Threads \ {t} : l <= maxCopy[u]
        BY <3>2
      <4>2. maxCopy[u] <= maxlevel /\ maxCopy[u] \in Int
        BY DEF IInv, EntryInv, Rises, TypeOK, Levels
      <4> QED
        BY <1>1, <4>1, <4>2
    <3> QED
      BY <3>1, <3>2
  <2> QED
    BY <2>3, <2>4 DEF Shared
<1> QED
  BY <1>1, <1>2, <1>3

LEMMA FullCompletes ==
  ASSUME IInv, FullInv, SelectionNotEmpty, NEW t \in Threads, Completes(t)
  PROVE  (\A u \in Threads : FilledAt(u)') /\ Paired'
<1> DEFINE b == cur[t]
<1>0. TypeOK /\ (\A u \in Threads : FilledAt(u)) /\ Paired
  BY DEF FullInv, IInv
<1>1. links' = links /\ level' = level /\ Done' = Done \cup {b}
  BY DEF Completes
<1>2. Inserts(t) /\ pc[t] = "publish"
  BY DEF Completes, Inserts, Works
<1>3. ASSUME NEW l \in Levels, l <= level[b],
             \/ \E a \in Done : l <= level[a]
             \/ \E u \in Threads \ {t} : Inserts(u) /\ pc[u] # "global" /\ l <= maxCopy[u]
      PROVE  links[b][l] # {} /\ \A a \in Done : l <= level[a] => links[a][l] # {}
  <2>1. Shared(t, l)
    BY <1>2, <1>3, SeenLevels
  <2> QED
    BY <1>0, <1>2, <2>1 DEF FilledAt, LinkedAt
<1> HIDE DEF b
<1>4. Paired'
  BY <1>0, <1>1, <1>3 DEF Paired
<1>5. FilledAt(t)'
  BY DEF Completes, FilledAt, Shared, Inserts, Works
<1>6. ASSUME NEW u \in Threads \ {t} PROVE FilledAt(u)'
  <2> SUFFICES ASSUME NEW l \in Levels, (Shared(u, l) /\ LinkedAt(u, l))'
               PROVE  /\ links[cur[u]][l] # {}
                      /\ \A a \in Done \cup {b} : l <= level[a] =>
                           links[a][l] # {} \/ (pc[u] = "link" /\ lev[u] = l /\ a \in todo[u])
    BY <1>1 DEF FilledAt, Completes, Same
  <2>1. Shared(u, l) /\ LinkedAt(u, l)
    BY <1>1, StandsStill DEF Completes
  <2>2. Inserts(u) /\ pc[u] # "global" /\ l <= maxCopy[u]
    BY <2>1 DEF Shared, LinkedAt
  <2>3. l <= level[b] => links[b][l] # {}
    BY <1>3, <2>2
  <2> QED
    BY <1>0, <2>1, <2>3 DEF FilledAt
<1> QED
  BY <1>4, <1>5, <1>6

LEMMA FullStep ==
  ASSUME IInv, HopInv, FullInv, [Next]_vars
  PROVE  FullInv'
<1> SUFFICES ASSUME SelectionNotEmpty' PROVE (\A t \in Threads : FilledAt(t)') /\ Paired'
  BY DEF FullInv
<1>1. SelectionNotEmpty
  BY Kinds
<1>2. CASE UNCHANGED <<count, level, links, pc, cur, maxCopy, lev, todo, updating, updates>>
  <2>1. Done' = Done
    BY <1>2 DEF Done
  <2> QED
    BY <1>1, <1>2, <2>1 DEF FullInv, FilledAt, Paired, Shared, LinkedAt, Inserts, Works
<1>3. ASSUME NEW t \in Threads, \A u \in Threads \ {t} : Same(u), Kind(t)
      PROVE  (\A u \in Threads : FilledAt(u)') /\ Paired'
  BY <1>1, <1>3, FullQuiet, FullJoins, FullAdds, FullCompletes DEF Kind
<1> QED
  BY <1>2, <1>3, Kinds

LEMMA FullStart == Init => HopInv /\ FullInv
<1> SUFFICES ASSUME Init PROVE HopInv /\ FullInv
  OBVIOUS
<1>1. HopInv
  BY DEF Init, HopInv
<1>2. Done = {}
  BY DEF Init, Done
<1>3. FullInv
  BY <1>2 DEF Init, FullInv, FilledAt, Paired, Shared, Inserts, Works
<1> QED
  BY <1>1, <1>3

LEMMA FullInvariance == Spec => [](IInv /\ HopInv /\ FullInv)
<1>1. Init => IInv /\ HopInv /\ FullInv
  BY Start, FullStart
<1>2. IInv /\ HopInv /\ FullInv /\ [Next]_vars => (IInv /\ HopInv /\ FullInv)'
  BY EveryStep, HopStep, FullStep
<1> QED
  BY <1>1, <1>2, PTL DEF Spec

LEMMA IdleDone ==
  ASSUME IInv, Idle
  PROVE  Done = 0..(count - 1) /\ SelectionNotEmpty
<1>1. \A t \in Threads : cur[t] = None /\ pc[t] = "idle"
  BY DEF Idle, IInv, OwnerInv, Owns
<1> QED
  BY <1>1, NoneAssumption DEF Done, SelectionNotEmpty

(* When all is quiet a search can leave every element at every level that  *)
(* the element shares with another one, whatever insertions at the same    *)
(* time, pruning and updates have made of the lists.                       *)
THEOREM NoDeadEndHolds == Spec => []NoDeadEnd
<1>1. IInv /\ FullInv => NoDeadEnd
  BY IdleDone DEF FullInv, Paired, NoDeadEnd
<1> QED
  BY <1>1, FullInvariance, PTL

-----------------------------------------------------------------------------
(* An element leads to none that is being inserted but at the levels where *)
(* that one has been linked.                                               *)
Seen(e, l) == \A u \in Threads : Inserts(u) /\ cur[u] = e => LinkedAt(u, l)

(* What an operation comes to is seen at its level; a search begins at an  *)
(* element that no insertion works on.                                     *)
PathInv(t) ==
  /\ pc[t] = "descend" => Seen(obj[t], lev[t])
  /\ pc[t] \in {"search", "link"} => Settled(obj[t])
  /\ pc[t] \in {"search", "twohop", "relink"} => \A e \in cand[t] : Seen(e, lev[t])
  /\ pc[t] = "twohop" => \A e \in todo[t] : Seen(e, lev[t])

ListsSeen == \A a \in Elements, l \in Levels : \A e \in links[a][l] : Seen(e, l)
WaitInv == ListsSeen /\ \A t \in Threads : PathInv(t)

(* Locks of elements that exist are only released, and an insertion that   *)
(* has linked its element at a level has done so from then on.             *)
LEMMA Onwards ==
  ASSUME IInv, NEW t \in Threads, Moves(t)
  PROVE  /\ count <= count' /\ (pc'[t] # "global" => count' = count)
         /\ \A e \in Elements : e < count /\ linkLock[e] = None => linkLock'[e] = None
         /\ Inserts(t)' /\ cur'[t] < count => Inserts(t) /\ cur'[t] = cur[t]
         /\ Inserts(t)' => \A l \in Levels : LinkedAt(t, l) => LinkedAt(t, l)'
<1> USE DEF Goto, graph, deletes, entry, update, queues
<1>0. TypeOK /\ count \in Nat /\ \A e \in Elements : e \in Nat
  BY DoneExists DEF IInv
<1>1. CASE Claim(t)
  <2>1. cur'[t] = count /\ count' = count + 1 /\ pc'[t] = "global" /\ pc[t] = "idle"
        /\ linkLock' = [linkLock EXCEPT ![count] = t]
    BY <1>0, <1>1 DEF Claim, TypeOK
  <2>2. \A l \in Levels : ~LinkedAt(t, l)
    BY <2>1 DEF LinkedAt
  <2> QED
    BY <1>0, <2>1, <2>2 DEF TypeOK
<1>2. CASE \E e \in Elements, p \in Places : BeginUpdate(t, e, p)
  <2>1. count' = count /\ linkLock' = linkLock /\ t \in updating'
    BY <1>2 DEF BeginUpdate
  <2> QED
    BY <1>0, <2>1 DEF Inserts
<1>3. CASE Publish(t) \/ CopyEntryForUpdate(t)
  <2>1. count' = count /\ (linkLock' = linkLock \/ linkLock' = [linkLock EXCEPT ![cur[t]] = None])
    BY <1>3 DEF Publish, CopyEntryForUpdate, Leave
  <2>2. ~Inserts(t)'
    <3>1. CASE Publish(t)
      BY <1>0, <3>1 DEF Publish, Leave, TypeOK, Inserts, Works
    <3>2. CASE CopyEntryForUpdate(t)
      <4>1. t \in updating
        BY <3>2 DEF CopyEntryForUpdate, IInv, OwnerInv, Owns
      <4> QED
        BY <1>0, <3>2, <4>1 DEF CopyEntryForUpdate, Leave, TypeOK, Inserts, Works
    <3> QED
      BY <1>3, <3>1, <3>2
  <2> QED
    BY <1>0, <2>1, <2>2 DEF TypeOK
<1>4. CASE \/ Global(t) \/ ReadEntry(t) \/ First(t) \/ CopyEntry(t) \/ Descend(t)
           \/ Expand(t) \/ OneHop(t) \/ \E e \in Elements : TwoHop(t, e) \/ Relink(t, e)
  <2>1. count' = count /\ linkLock' = linkLock /\ cur' = cur /\ updating' = updating /\ Works(t)
        /\ (pc[t] \in {"search", "link", "publish"} => pc' = pc /\ lev' = lev)
    BY <1>0, <1>4 DEF Global, ReadEntry, First, CopyEntry, Descend, Expand, OneHop, TwoHop, Relink,
                      Works, place
  <2>2. \A l \in Levels : LinkedAt(t, l) => LinkedAt(t, l)'
    BY <2>1 DEF LinkedAt
  <2> QED
    BY <1>0, <2>1, <2>2 DEF Inserts
<1>5. CASE Select(t) \/ SelectAgain(t) \/ LinkBack(t) \/ StartRepair(t)
  <2>1. count' = count /\ (linkLock' = linkLock \/ linkLock' = [linkLock EXCEPT ![cur[t]] = None])
        /\ cur' = cur /\ updating' = updating /\ Works(t)
    BY <1>0, <1>5 DEF Select, SelectAgain, LinkBack, StartRepair, Connect, Fail, Works, place
  <2>2. ASSUME Inserts(t)', NEW l \in Levels, LinkedAt(t, l) PROVE LinkedAt(t, l)'
    <3>0. lev[t] \in Nat /\ l \in Nat /\ t \notin updating
      <4>1. lev[t] \in Levels
        BY <1>0 DEF TypeOK
      <4> QED
        BY <1>0, <2>1, <2>2, <4>1, DoneExists DEF Inserts
    <3>1. CASE Select(t)
      <4>1. pc[t] = "search" /\ pc'[t] = "link" /\ lev' = lev
        BY <1>0, <2>2, <3>1 DEF Select, Connect, Fail, TypeOK, Inserts, Works
      <4> QED
        BY <2>2, <3>0, <4>1 DEF LinkedAt
    <3>2. CASE LinkBack(t)
      <4>1. pc[t] = "link" /\ \/ pc'[t] = "link" /\ lev' = lev
                              \/ pc'[t] = "publish"
                              \/ pc'[t] = "search" /\ lev'[t] = lev[t] - 1
        BY <1>0, <2>2, <3>2 DEF LinkBack, Fail, GoDown, StartSearch, TypeOK, Inserts, Works
      <4> QED
        BY <2>2, <3>0, <4>1 DEF LinkedAt
    <3>3. ~SelectAgain(t) /\ ~StartRepair(t)
      BY <3>0 DEF SelectAgain, StartRepair, IInv, OwnerInv, Owns
    <3> QED
      BY <1>5, <3>1, <3>2, <3>3
  <2> QED
    BY <1>0, <2>1, <2>2 DEF Inserts, TypeOK
<1> QED
  BY <1>1, <1>2, <1>3, <1>4, <1>5 DEF Moves, Step

LEMMA SettledSeen ==
  ASSUME IInv, NEW e, Settled(e)
  PROVE  \A l : Seen(e, l)
BY NoneAssumption DEF Seen, Settled, IInv, OwnerInv, Owns

LEMMA SeenStays ==
  ASSUME IInv, NEW t \in Threads, Moves(t), NEW e \in Elements, e < count
  PROVE  /\ \A l \in Levels : Seen(e, l) => Seen(e, l)'
         /\ Settled(e) => Settled(e)'
<1>1. /\ count <= count' /\ count \in Nat /\ count' \in Nat /\ e \in Nat
  <2>1. IInv'
    BY EveryStep DEF Moves, Next
  <2>2. TypeOK /\ TypeOK'
    BY <2>1 DEF IInv
  <2>3. count \in Nat /\ count' \in Nat /\ e \in Nat
    BY <2>2, DoneExists DEF TypeOK
  <2> QED
    BY <2>3, Onwards
<1>2. \A u \in Threads \ {t} : Same(u)
  BY OthersSame DEF Moves, IInv
<1>3. ASSUME NEW l \in Levels, Seen(e, l), NEW u \in Threads, Inserts(u)', cur'[u] = e
      PROVE  LinkedAt(u, l)'
  <2>1. CASE u = t
    BY <1>3, <2>1, Onwards DEF Seen
  <2>2. CASE u # t
    <3>1. Inserts(u) /\ cur[u] = e
      BY <1>2, <1>3, <2>2 DEF Same, Inserts, Works
    <3> QED
      BY <1>2, <1>3, <2>2, <3>1 DEF Seen, LinkedAt, Same
  <2> QED
    BY <2>1, <2>2
<1> QED
  BY <1>1, <1>3, Onwards DEF Seen, Settled

(* What a step writes into a list was seen at the list's level before.     *)
LEMMA ListsSeenBefore ==
  ASSUME IInv, HopInv, WaitInv, NEW t \in Threads, Moves(t)
  PROVE  \A a \in Elements, l \in Levels : \A e \in links'[a][l] :
           e \in Elements /\ e < count /\ Seen(e, l)
<1>0. TypeOK
  BY DEF IInv
<1>1. \A a \in Elements, l \in Levels : \A e \in links[a][l] : e \in Elements /\ e < count /\ Seen(e, l)
  BY ListHas DEF WaitInv, ListsSeen, Has
<1>2. ASSUME NEW x \in Elements, NEW S, links' = [links EXCEPT ![x][lev[t]] = S], lev[t] \in Levels,
             \A e \in S : e \in Elements /\ e < count /\ Seen(e, lev[t])
      PROVE  \A a \in Elements, l \in Levels : \A e \in links'[a][l] :
               e \in Elements /\ e < count /\ Seen(e, l)
  <2>1. \A a \in Elements, l \in Levels :
          links'[a][l] = IF a = x /\ l = lev[t] THEN S ELSE links[a][l]
    BY <1>0, <1>2 DEF TypeOK
  <2> QED
    BY <1>1, <1>2, <2>1
<1>3. lev[t] \in Levels
  BY <1>0 DEF TypeOK
<1>4. CASE Select(t) \/ SelectAgain(t)
  <2>1. CASE pc'[t] = "undefined"
    <3>1. links' = links
      BY <1>0, <1>4, <2>1 DEF Select, SelectAgain, Connect, Fail, Goto, TypeOK
    <3> QED
      BY <1>1, <3>1
  <2>2. CASE pc'[t] # "undefined"
    <3>1. ASSUME NEW S, Joins(t, S)
          PROVE  \A a \in Elements, l \in Levels : \A e \in links'[a][l] :
                   e \in Elements /\ e < count /\ Seen(e, l)
      <4>1. Works(t)
        BY <3>1 DEF Joins, Works
      <4>2. cur[t] \in Elements
        BY <4>1, AtWork
      <4>3. \A e \in S : e \in Elements /\ e < count /\ Seen(e, lev[t])
        BY <3>1, SettledSeen DEF Joins, Has
      <4> QED
        BY <1>2, <1>3, <3>1, <4>2, <4>3 DEF Joins
    <3>2. CASE Quiet(t)
      BY <1>1, <3>2 DEF Quiet
    <3> QED
      BY <1>4, <2>2, <3>1, <3>2, JoinsStep
  <2> QED
    BY <2>1, <2>2
<1>5. CASE LinkBack(t)
  <2>1. PICK e \in Elements : \E S : Adds(t, e, S)
    BY <1>5, AddsStep
  <2>2. PICK S : Adds(t, e, S)
    BY <2>1
  <2>3. pc[t] = "link" /\ Works(t)
    BY <2>2 DEF Adds, Works
  <2>4. cur[t] \in Elements /\ cur[t] < count
    BY <2>3, AtWork
  <2>5. Seen(cur[t], lev[t])
    <3>1. LinkedAt(t, lev[t])
      BY <2>3 DEF LinkedAt
    <3>2. \A u \in Threads : cur[u] = cur[t] => u = t
      BY <2>4, NoneAssumption DEF IInv, OwnerInv, Owns, Elements
    <3> QED
      BY <3>1, <3>2 DEF Seen
  <2>6. \A a \in S : a \in Elements /\ a < count /\ Seen(a, lev[t])
    BY <1>1, <1>3, <2>2, <2>4, <2>5 DEF Adds
  <2> QED
    BY <1>2, <1>3, <2>2, <2>6 DEF Adds
<1>6. CASE \E e \in Elements : Relink(t, e)
  <2>1. PICK e \in Elements : Relink(t, e)
    BY <1>6
  <2>2. PICK S : Replaces(t, e, S)
    BY <2>1, ReplacesStep
  <2>3. pc[t] = "relink"
    BY <2>1 DEF Relink
  <2>4. \A a \in S : a \in Elements /\ a < count /\ Seen(a, lev[t])
    BY <2>2, <2>3 DEF Replaces, WaitInv, PathInv, IInv, PlaceInv, Has
  <2> QED
    BY <1>2, <1>3, <2>2, <2>4 DEF Replaces
<1>7. CASE ~(Select(t) \/ SelectAgain(t) \/ LinkBack(t) \/ \E e \in Elements : Relink(t, e))
  <2>1. links' = links
    BY <1>7 DEF Moves, Step, Claim, Global, ReadEntry, First, CopyEntry, Descend, Expand, Publish,
                CopyEntryForUpdate, OneHop, StartRepair, TwoHop, BeginUpdate, Leave, Fail, graph
  <2> QED
    BY <1>1, <2>1
<1> QED
  BY <1>4, <1>5, <1>6, <1>7

(* Where a step leads a thread, as it is seen before the step.             *)
PathNext(t) ==
  /\ pc'[t] = "descend" => Seen(obj'[t], lev'[t])
  /\ pc'[t] \in {"search", "link"} => Settled(obj'[t])
  /\ pc'[t] \in {"search", "twohop", "relink"} => \A e \in cand'[t] : Seen(e, lev'[t])
  /\ pc'[t] = "twohop" => \A e \in todo'[t] : Seen(e, lev'[t])

LEMMA SearchSeen ==
  ASSUME IInv, NEW t \in Threads, NEW s, NEW l, StartSearch(t, s, l), Settled(s), obj'[t] = s
  PROVE  PathNext(t)
<1>1. pc'[t] = "search" /\ lev'[t] = l /\ cand'[t] = {s}
  BY DEF StartSearch, Goto, IInv, TypeOK
<1> QED
  BY <1>1, SettledSeen DEF PathNext

LEMMA PathsBegin ==
  ASSUME IInv, NEW t \in Threads, CopyEntry(t) \/ StartRepair(t)
  PROVE  PathNext(t)
<1> USE DEF Goto
<1>0. TypeOK
  BY DEF IInv
<1>1. CASE CopyEntry(t)
  <2>1. obj[t] # None => Settled(obj[t])
    BY <1>1, DoneSettled DEF CopyEntry, IInv, PlaceInv
  <2>2. CASE obj[t] = None
    BY <1>0, <1>1, <2>2 DEF CopyEntry, TypeOK, PathNext
  <2>3. CASE obj[t] # None /\ StartDescent(t)
    BY <1>0, <1>1, <2>1, <2>3, SettledSeen DEF CopyEntry, StartDescent, TypeOK, PathNext
  <2>4. CASE obj[t] # None /\ \E l : StartSearch(t, obj[t], l)
    BY <1>1, <2>1, <2>4, SearchSeen DEF CopyEntry
  <2> QED
    BY <1>1, <2>2, <2>3, <2>4 DEF CopyEntry
<1>2. CASE StartRepair(t)
  <2>1. Settled(epCopy[t])
    BY <1>2, DoneSettled DEF StartRepair, IInv, PlaceInv, EntryCopied
  <2>2. CASE Fail(t, "threw")
    BY <1>0, <2>2 DEF Fail, TypeOK, PathNext
  <2>3. CASE obj' = [obj EXCEPT ![t] = epCopy[t]] /\ StartDescent(t)
    BY <1>0, <2>1, <2>3, SettledSeen DEF StartDescent, TypeOK, PathNext
  <2>4. CASE obj' = [obj EXCEPT ![t] = epCopy[t]] /\ \E l : StartSearch(t, epCopy[t], l)
    <3>1. obj'[t] = epCopy[t]
      BY <1>0, <2>4 DEF TypeOK
    <3> QED
      BY <2>1, <2>4, <3>1, SearchSeen
  <2> QED
    BY <1>2, <2>2, <2>3, <2>4 DEF StartRepair
<1> QED
  BY <1>1, <1>2

LEMMA PathsDescend ==
  ASSUME IInv, WaitInv, NEW t \in Threads, Descend(t)
  PROVE  PathNext(t)
<1> DEFINE next == Closest({obj[t]} \cup links[obj[t]][lev[t]], cur[t])
<1>0. TypeOK /\ pc[t] = "descend" /\ Works(t)
  BY DEF IInv, Descend, Works
<1>1. Has(obj[t], lev[t]) /\ Settled(obj[t]) /\ lev[t] \in Levels
  BY <1>0, AtWork DEF Descend, Unlocked, Settled, IInv, PlaceInv, Has
<1>2. {obj[t]} \cup links[obj[t]][lev[t]] \in SUBSET Elements
  BY <1>1, ListHas DEF Has
<1>3. next \in {obj[t]} \cup links[obj[t]][lev[t]]
  BY <1>0, <1>2, HasClosest, AtWork DEF IInv
<1>4. Seen(next, lev[t])
  BY <1>1, <1>3, SettledSeen DEF WaitInv, ListsSeen, Has
<1>5. obj'[t] = next /\ IF next # obj[t] THEN UNCHANGED <<pc, lev>>
                        ELSE \/ lev' = [lev EXCEPT ![t] = lev[t] - 1] /\ UNCHANGED pc
                             \/ StartSearch(t, obj[t], level[cur[t]])
  BY <1>0 DEF Descend, TypeOK
<1> HIDE DEF next
<1>6. CASE next # obj[t]
  BY <1>0, <1>4, <1>5, <1>6 DEF PathNext
<1>7. CASE next = obj[t] /\ pc' = pc
  BY <1>0, <1>1, <1>5, <1>7, SettledSeen DEF PathNext
<1>8. CASE next = obj[t] /\ StartSearch(t, obj[t], level[cur[t]])
  BY <1>1, <1>5, <1>8, SearchSeen
<1> QED
  BY <1>5, <1>6, <1>7, <1>8

LEMMA PathsSearch ==
  ASSUME IInv, WaitInv, NEW t \in Threads, Expand(t)
  PROVE  PathNext(t)
<1> DEFINE e == Closest(cand[t], cur[t])
<1>0. TypeOK /\ pc[t] = "search" /\ Works(t) /\ PathInv(t)
  BY DEF IInv, Expand, Works, WaitInv
<1>1. cand[t] # {} /\ cand[t] \in SUBSET Elements /\ cur[t] \in Elements /\ lev[t] \in Levels
  BY <1>0, AtWork DEF Expand, SearchOver
<1>2. e \in cand[t]
  BY <1>1, HasClosest DEF IInv
<1>3. pc' = pc /\ lev' = lev /\ obj' = obj /\ cand'[t] = (cand[t] \ {e}) \cup (links[e][lev[t]] \ visited[t])
  BY <1>0 DEF Expand, place, TypeOK
<1>4. \A a \in cand'[t] : Seen(a, lev[t])
  BY <1>0, <1>1, <1>2, <1>3 DEF PathInv, WaitInv, ListsSeen
<1> QED
  BY <1>0, <1>3, <1>4 DEF PathNext, PathInv

LEMMA PathsHop ==
  ASSUME IInv, WaitInv, NEW t \in Threads, OneHop(t) \/ \E e \in Elements : TwoHop(t, e) \/ Relink(t, e)
  PROVE  PathNext(t)
<1> USE DEF Goto
<1>0. TypeOK /\ Works(t) /\ PathInv(t)
  BY DEF IInv, OneHop, TwoHop, Relink, Works, WaitInv
<1>1. t \in updating
  BY DEF OneHop, TwoHop, Relink, IInv, OwnerInv, Owns
<1>2. cur[t] \in Elements /\ lev[t] \in Levels /\ \A l : Seen(cur[t], l)
  BY <1>0, <1>1, AtWork, DoneSettled, SettledSeen
<1>3. CASE OneHop(t)
  <2> DEFINE near == links[cur[t]][lev[t]]
  <2>1. cand'[t] = near \cup {cur[t]} /\ todo'[t] = near
        /\ pc'[t] \in {"onehop", "repair", "twohop"} /\ (pc'[t] = "twohop" => lev'[t] = lev[t])
    BY <1>0, <1>3 DEF OneHop, NextLayer, TypeOK
  <2>2. \A a \in near : Seen(a, lev[t])
    BY <1>2 DEF WaitInv, ListsSeen
  <2> QED
    BY <1>2, <2>1, <2>2 DEF PathNext
<1>4. CASE \E e \in Elements : TwoHop(t, e)
  <2>1. PICK e \in Elements : TwoHop(t, e)
    BY <1>4
  <2>2. cand'[t] = cand[t] \cup links[e][lev[t]] /\ pc[t] = "twohop" /\ lev' = lev /\ obj' = obj
    BY <1>0, <2>1 DEF TwoHop, TypeOK, place
  <2>4. pc'[t] = "relink" \/ (pc'[t] = "twohop" /\ todo'[t] = todo[t] \ {e})
    BY <1>0, <2>1 DEF TwoHop, TypeOK
  <2>3. \A a \in links[e][lev[t]] : Seen(a, lev[t])
    BY <1>2 DEF WaitInv, ListsSeen
  <2> QED
    <3>1. (\A a \in cand[t] : Seen(a, lev[t])) /\ \A a \in todo[t] : Seen(a, lev[t])
      BY <1>0, <2>2 DEF PathInv
    <3>2. (\A a \in cand'[t] : Seen(a, lev'[t])) /\ (pc'[t] = "twohop" => \A a \in todo'[t] : Seen(a, lev'[t]))
      BY <2>2, <2>3, <2>4, <3>1
    <3> QED
      BY <2>4, <3>2 DEF PathNext
<1>5. CASE \E e \in Elements : Relink(t, e)
  <2>1. cand' = cand /\ pc[t] = "relink" /\ obj' = obj
        /\ (pc'[t] \in {"onehop", "repair"} \/ (pc' = pc /\ lev' = lev))
    BY <1>0, <1>5 DEF Relink, NextLayer, TypeOK, queues
  <2> QED
    BY <1>0, <2>1 DEF PathNext, PathInv
<1> QED
  BY <1>3, <1>4, <1>5

LEMMA PathsLink ==
  ASSUME IInv, WaitInv, NEW t \in Threads, Select(t) \/ SelectAgain(t) \/ LinkBack(t)
  PROVE  PathNext(t)
<1> USE DEF Goto
<1>0. TypeOK /\ pc[t] \in {"search", "link"} /\ Works(t) /\ Settled(obj[t])
  BY DEF IInv, Select, SelectAgain, LinkBack, Works, WaitInv, PathInv
<1>1. ASSUME GoDown(t), obj' = obj PROVE PathNext(t)
  <2>1. CASE pc'[t] = "publish"
    BY <2>1 DEF PathNext
  <2>2. CASE StartSearch(t, obj[t], lev[t] - 1)
    BY <1>0, <1>1, <2>2, SearchSeen
  <2> QED
    BY <1>0, <1>1, <2>1, <2>2 DEF GoDown, TypeOK
<1>2. ASSUME NEW how \in {"threw", "undefined"}, Fail(t, how) PROVE PathNext(t)
  BY <1>0, <1>2 DEF Fail, TypeOK, PathNext
<1>3. ASSUME NEW found \in SUBSET top[t], t \in updating => cur[t] \notin found, pc[t] = "search",
             SearchOver(t), Connect(t, Heuristic(Candidates(t, found), cur[t], M))
      PROVE  PathNext(t)
  <2> DEFINE S == Heuristic(Candidates(t, found), cur[t], M)
  <2>1. S \in SUBSET Elements /\ \A x \in S : Settled(x)
    BY <1>3, Selected
  <2>2. Connect(t, S)
    BY <1>3
  <2> HIDE DEF S
  <2>3. CASE \E how \in {"threw", "undefined"} : Fail(t, how)
    BY <1>2, <2>3
  <2>4. CASE ~ \E how \in {"threw", "undefined"} : Fail(t, how)
    <3>1. S # {} /\ pc'[t] = "link" /\ obj'[t] = Closest(S, cur[t])
      BY <1>0, <2>2, <2>4 DEF Connect, TypeOK
    <3>2. Closest(S, cur[t]) \in S
      BY <1>0, <2>1, <3>1, HasClosest, AtWork DEF IInv
    <3> QED
      BY <2>1, <3>1, <3>2 DEF PathNext
  <2> QED
    BY <2>3, <2>4
<1>4. CASE Select(t)
  <2>1. t \notin updating /\ pc[t] = "search" /\ SearchOver(t)
        /\ Connect(t, Heuristic(Candidates(t, top[t]), cur[t], M))
    BY <1>4 DEF Select
  <2> QED
    BY <1>3, <2>1
<1>5. CASE SelectAgain(t)
  <2> DEFINE found == top[t] \ {cur[t]}
  <2>1. CASE found = {}
    BY <1>1, <1>5, <2>1 DEF SelectAgain
  <2>2. CASE found # {}
    <3>1. pc[t] = "search" /\ SearchOver(t) /\ Connect(t, Heuristic(Candidates(t, found), cur[t], M))
      BY <1>5, <2>2 DEF SelectAgain
    <3>2. found \in SUBSET top[t] /\ cur[t] \notin found
      OBVIOUS
    <3> QED
      BY <1>3, <3>1, <3>2
  <2> QED
    BY <2>1, <2>2
<1>6. CASE LinkBack(t)
  <2>1. \/ Fail(t, "threw")
        \/ obj' = obj /\ (GoDown(t) \/ (UNCHANGED <<pc, lev>> /\ pc[t] = "link"))
    BY <1>6 DEF LinkBack
  <2>2. CASE obj' = obj /\ UNCHANGED <<pc, lev>> /\ pc[t] = "link"
    BY <1>0, <2>2 DEF PathNext
  <2> QED
    BY <1>1, <1>2, <2>1, <2>2
<1> QED
  BY <1>4, <1>5, <1>6

LEMMA WaitMoves ==
  ASSUME IInv, HopInv, WaitInv, NEW t \in Threads, Moves(t)
  PROVE  WaitInv'
<1>0. TypeOK /\ IInv' /\ TypeOK' /\ \A u \in Threads \ {t} : Same(u)
  <2>1. IInv'
    BY EveryStep DEF Moves, Next
  <2> QED
    BY <2>1, OthersSame DEF Moves, IInv
<1>1. \A e \in Elements : e < count =>
        /\ \A l \in Levels : Seen(e, l) => Seen(e, l)'
        /\ Settled(e) => Settled(e)'
  BY SeenStays
<1>2. ListsSeen'
  BY <1>1, ListsSeenBefore DEF ListsSeen
<1>3. ASSUME NEW u \in Threads \ {t} PROVE PathInv(u)'
  <2>1. PathInv(u) /\ PlaceInv(u) /\ lev[u] \in Levels
    BY <1>0 DEF WaitInv, IInv, TypeOK
  <2>2. pc[u] \in {"descend", "search", "link"} => obj[u] \in Elements /\ obj[u] < count
    BY <2>1 DEF PlaceInv, Has
  <2>3. pc[u] \in {"search", "twohop", "relink"} => \A e \in cand[u] : e \in Elements /\ e < count
    BY <2>1 DEF PlaceInv, Has
  <2>4. pc[u] = "twohop" => \A e \in todo[u] : e \in Elements /\ e < count
    BY <2>1 DEF PlaceInv, Has
  <2>5. pc'[u] = pc[u] /\ obj'[u] = obj[u] /\ cand'[u] = cand[u] /\ todo'[u] = todo[u] /\ lev'[u] = lev[u]
    BY <1>0 DEF Same
  <2> QED
    BY <1>1, <2>1, <2>2, <2>3, <2>4, <2>5 DEF PathInv
<1>4. PathInv(t)'
  <2>1. CASE pc'[t] \in {"descend", "search", "link", "twohop", "relink"}
    <3>1. PathNext(t)
      <4>1. CASE \/ Claim(t) \/ Global(t) \/ ReadEntry(t) \/ First(t) \/ Publish(t)
                 \/ CopyEntryForUpdate(t) \/ \E e \in Elements, p \in Places : BeginUpdate(t, e, p)
        BY <1>0, <2>1, <4>1 DEF Claim, Global, ReadEntry, First, Publish, CopyEntryForUpdate, Leave,
                                BeginUpdate, Goto, TypeOK
      <4> QED
        BY <4>1, PathsBegin, PathsDescend, PathsSearch, PathsHop, PathsLink DEF Moves, Step
    <3>2. count' = count /\ PlaceInv(t)' /\ lev'[t] \in Levels
      BY <1>0, <2>1, Onwards DEF IInv, TypeOK
    <3>3. pc'[t] \in {"descend", "search", "link"} => obj'[t] \in Elements /\ obj'[t] < count
      BY <3>2 DEF PlaceInv, Has
    <3>4. pc'[t] \in {"search", "twohop", "relink"} => \A e \in cand'[t] : e \in Elements /\ e < count
      BY <3>2 DEF PlaceInv, Has
    <3>5. pc'[t] = "twohop" => \A e \in todo'[t] : e \in Elements /\ e < count
      BY <3>2 DEF PlaceInv, Has
    <3> QED
      BY <1>1, <3>1, <3>2, <3>3, <3>4, <3>5 DEF PathNext, PathInv
  <2>2. CASE pc'[t] \notin {"descend", "search", "link", "twohop", "relink"}
    BY <2>2 DEF PathInv
  <2> QED
    BY <2>1, <2>2
<1> QED
  BY <1>2, <1>3, <1>4 DEF WaitInv

LEMMA WaitStep ==
  ASSUME IInv, HopInv, WaitInv, [Next]_vars
  PROVE  WaitInv'
<1>1. CASE UNCHANGED vars \/ \E e \in Elements : SetMark(e)
  BY <1>1 DEF vars, SetMark, graph, place, queues, update,
              WaitInv, ListsSeen, PathInv, Seen, Settled, LinkedAt, Inserts, Works
<1> QED
  BY <1>1, WaitMoves DEF Moves, Next, Terminated

LEMMA WaitStart == Init => WaitInv
<1> SUFFICES ASSUME Init PROVE WaitInv
  OBVIOUS
<1>1. ListsSeen
  BY DEF Init, ListsSeen
<1>2. \A t \in Threads : PathInv(t)
  BY DEF Init, PathInv
<1> QED
  BY <1>1, <1>2 DEF WaitInv

LEMMA WaitInvariance == Spec => []WaitInv
<1>1. IInv /\ HopInv /\ WaitInv /\ [Next]_vars => WaitInv'
  BY WaitStep
<1> QED
  BY <1>1, WaitStart, FullInvariance, PTL DEF Spec

(* The thread that holds the lock of an element another one comes to has   *)
(* linked the element at the level the other one works on.                 *)
LEMMA WaitsForLinked ==
  ASSUME IInv, WaitInv, NEW t \in Threads, NEW u \in Threads,
         NEW e \in Elements, Visits(t, e), linkLock[e] = u
  PROVE  pc[t] \in {"descend", "search", "twohop"} /\ LinkedAt(u, lev[t])
<1>0. PathInv(t) /\ PlaceInv(t) /\ Works(t)
  BY DEF WaitInv, IInv, Visits, Works
<1>1. u # None /\ Inserts(u) /\ cur[u] = e
  BY NoneAssumption DEF IInv, OwnerInv, Locks
<1>2. ~Settled(e)
  BY <1>1 DEF Settled
<1>3. t \in updating => e # cur[t]
  BY <1>0, <1>2, AtWork, DoneSettled
<1>4. pc[t] # "onehop" /\ ~(pc[t] = "search" /\ SearchOver(t))
  BY <1>3 DEF Visits, IInv, OwnerInv, Owns
<1>5. pc[t] # "relink"
  BY <1>0, <1>2 DEF Visits, PlaceInv
<1>6. pc[t] # "link"
  <2> SUFFICES ASSUME pc[t] = "link" PROVE FALSE
    OBVIOUS
  <2>1. todo[t] # {} /\ \A a \in todo[t] : Settled(a)
    BY <1>0 DEF PlaceInv
  <2>2. Farthest(todo[t], cur[t]) \in todo[t]
    BY <1>0, <2>1, AtWork, HasFarthest DEF IInv
  <2> QED
    BY <1>2, <2>1, <2>2 DEF Visits
<1>7. pc[t] = "search" => e \in cand[t]
  <2> SUFFICES ASSUME pc[t] = "search" PROVE e \in cand[t]
    OBVIOUS
  <2>1. cand[t] # {} /\ e = Closest(cand[t], cur[t])
    BY <1>4 DEF Visits, SearchOver
  <2> QED
    BY <1>0, <2>1, AtWork, HasClosest DEF IInv
<1>8. pc[t] \in {"descend", "search", "twohop"}
  BY <1>4, <1>5, <1>6 DEF Visits
<1>9. Seen(e, lev[t])
  BY <1>0, <1>7, <1>8 DEF PathInv, Visits
<1> QED
  BY <1>1, <1>8, <1>9 DEF Seen

(* A set of numbers that is not empty has a least one.                     *)
LEMMA LeastNumber ==
  ASSUME NEW X \in SUBSET Nat, X # {}
  PROVE  \E m \in X : \A n \in X : m <= n
<1> DEFINE Upto == {0..n : n \in X}
           R == StrictSubsetOrdering(Nat)
<1>1. \A n \in X : 0..n \in FiniteSubsetsOf(Nat)
  <2> TAKE n \in X
  <2>1. n \in Int /\ 0..n \in SUBSET Nat
    OBVIOUS
  <2> QED
    BY <2>1, FS_Interval DEF FiniteSubsetsOf
<1>2. Upto \subseteq FiniteSubsetsOf(Nat) /\ Upto # {}
  BY <1>1
<1>3. IsWellFoundedOn(R, FiniteSubsetsOf(Nat))
  BY FS_StrictSubsetOrderingWellFounded
<1> HIDE DEF Upto, R
<1>4. PICK B \in Upto : \A C \in Upto : ~ (<<C, B>> \in R)
  BY <1>2, <1>3, WFMin
<1>5. PICK m \in X : B = 0..m
  BY <1>4 DEF Upto
<1>6. ASSUME NEW n \in X, ~(m <= n) PROVE FALSE
  <2>1. 0..n \subseteq 0..m /\ 0..n # 0..m /\ 0..n \in SUBSET Nat /\ 0..m \in SUBSET Nat
    <3>1. n < m /\ n \in Nat /\ m \in Nat
      BY <1>6
    <3>2. m \in 0..m /\ m \notin 0..n
      BY <3>1
    <3>3. \A i \in 0..n : i \in 0..m
      BY <3>1
    <3> QED
      BY <3>1, <3>2, <3>3
  <2>2. 0..n \in Upto
    BY DEF Upto
  <2>3. <<0..n, B>> \in R
    BY <2>1, <1>5 DEF R, StrictSubsetOrdering
  <2> QED
    BY <2>2, <2>3, <1>4
<1> QED
  BY <1>6

(* No two insertions or updates, and no larger circle of them, wait for    *)
(* each other: of the threads that wait for a link lock, one at the lowest *)
(* level waits for an insertion that waits for nobody.                     *)
THEOREM NoCircularWaitHolds == Spec => []NoCircularWait
<1>1. ASSUME IInv, WaitInv PROVE NoCircularWait
  <2> SUFFICES ASSUME NEW S \in SUBSET Threads, S # {}, \A t \in S : \E u \in S : Waits(t, u)
               PROVE  FALSE
    BY DEF NoCircularWait
  <2> DEFINE OnLink(t) == \E u \in S, e \in Elements : Visits(t, e) /\ linkLock[e] = u
             Heights == {lev[t] : t \in {v \in S : OnLink(v)}}
  <2>0. \A t \in Threads : lev[t] \in Nat
    <3>1. TypeOK
      BY <1>1 DEF IInv
    <3>2. \A l \in Levels : l \in Nat
      BY <3>1, DoneExists
    <3> QED
      BY <3>1, <3>2 DEF TypeOK
  <2>1. \A t \in S : OnLink(t) \/ (pc[t] = "global" /\ global \in S)
    BY DEF Waits
  <2>2. \E t \in S : OnLink(t)
    <3>1. PICK t \in S : TRUE
      OBVIOUS
    <3>2. CASE pc[t] = "global" /\ global \in S
      <4>1. pc[global] # "global"
        BY <1>1, <3>2 DEF IInv, EntryInv, Rises
      <4> QED
        BY <2>1, <3>2, <4>1
    <3> QED
      BY <2>1, <3>2
  <2>3. Heights \in SUBSET Nat /\ Heights # {}
    BY <2>0, <2>2
  <2>4. PICK m \in Heights : \A n \in Heights : m <= n
    <3> HIDE DEF Heights
    <3> QED
      BY <2>3, LeastNumber
  <2>5. PICK t \in S : OnLink(t) /\ lev[t] = m
    BY <2>4
  <2>6. PICK u \in S, e \in Elements : Visits(t, e) /\ linkLock[e] = u
    BY <2>5
  <2>7. LinkedAt(u, m)
    BY <1>1, <2>5, <2>6, WaitsForLinked
  <2>8. OnLink(u)
    BY <2>1, <2>7 DEF LinkedAt
  <2>9. pc[u] \in {"descend", "search", "twohop"}
    BY <1>1, <2>8, WaitsForLinked
  <2>10. lev[u] < m
    BY <2>7, <2>9 DEF LinkedAt
  <2>11. lev[u] \in Heights
    BY <2>8
  <2>12. lev[u] \in Nat /\ m \in Nat /\ m <= lev[u]
    <3> HIDE DEF Heights
    <3> QED
      BY <2>3, <2>4, <2>11
  <2> QED
    BY <2>10, <2>12
<1> QED
  BY <1>1, Invariance, WaitInvariance, PTL

-----------------------------------------------------------------------------
(* As long as nothing has been updated no list names an element twice: an  *)
(* insertion that adds its element to a list for the first time finds it in*)
(* none at that level, for before it has linked itself there none leads to *)
(* it.                                                                     *)
NoUpdates == updates = 0 => updating = {}
NoneTwice == \A e \in Elements, l \in Levels : again[e][l] = 0
LinksOnce(t) == pc[t] = "link" => \A e \in todo[t] : cur[t] \notin links[e][lev[t]]

OnceInv ==
  /\ NoUpdates
  /\ updates = 0 => NoneTwice /\ \A t \in Threads : LinksOnce(t)

LEMMA NoUpdatesStep ==
  ASSUME IInv, NoUpdates, [Next]_vars, updates' = 0
  PROVE  updates = 0 /\ updating = {} /\ updating' = {}
<1> SUFFICES updating' = {} /\ updates = 0
  BY DEF NoUpdates
<1>1. updates \in Nat /\ (updates = 0 => updating = {})
  BY DEF IInv, TypeOK, NoUpdates
<1>2. CASE UNCHANGED vars \/ \E e \in Elements : SetMark(e)
  BY <1>1, <1>2 DEF vars, SetMark, update
<1>3. ASSUME NEW t \in Threads, Moves(t) PROVE updating' = {} /\ updates = 0
  <2>1. CASE \E e \in Elements, p \in Places : BeginUpdate(t, e, p)
    BY <1>1, <2>1 DEF BeginUpdate
  <2>2. CASE Publish(t) \/ CopyEntryForUpdate(t)
    BY <1>1, <2>2 DEF Publish, CopyEntryForUpdate, Leave, update
  <2>3. CASE \/ Claim(t) \/ Global(t) \/ ReadEntry(t) \/ First(t) \/ CopyEntry(t) \/ Descend(t)
             \/ Expand(t) \/ OneHop(t) \/ \E e \in Elements : TwoHop(t, e) \/ Relink(t, e)
    BY <1>1, <2>3 DEF Claim, Global, ReadEntry, First, CopyEntry, Descend, Expand, OneHop,
                            TwoHop, Relink, update
  <2>4. CASE Select(t) \/ SelectAgain(t) \/ LinkBack(t) \/ StartRepair(t)
    BY <1>1, <2>4 DEF Select, SelectAgain, LinkBack, StartRepair, Connect, Fail, update
  <2> QED
    BY <1>3, <2>1, <2>2, <2>3, <2>4 DEF Moves, Step
<1> QED
  BY <1>2, <1>3 DEF Next, Terminated, Moves

(* Only the step of an insertion that adds its element can repeat one.     *)
LEMMA NoneTwiceStep ==
  ASSUME IInv, OnceInv, updates = 0, NEW t \in Threads, Moves(t)
  PROVE  NoneTwice'
<1> USE DEF Goto, graph, deletes, entry, update, queues
<1>0. TypeOK /\ NoneTwice /\ LinksOnce(t) /\ updating = {}
  BY DEF IInv, OnceInv, NoUpdates
<1>1. ASSUME NEW x \in Elements, NEW l \in Levels, again' = [again EXCEPT ![x][l] = 0]
      PROVE  NoneTwice'
  BY <1>0, <1>1 DEF NoneTwice, TypeOK
<1>2. CASE LinkBack(t)
  <2> DEFINE e == Farthest(todo[t], cur[t])
  <2>0. Works(t) /\ pc[t] = "link" /\ lev[t] \in Levels
    BY <1>0, <1>2 DEF LinkBack, Works, TypeOK
  <2>1. e \in todo[t] /\ e \in Elements
    <3>1. todo[t] # {} /\ todo[t] \in SUBSET Elements /\ cur[t] \in Elements
      BY <2>0, AtWork DEF IInv, PlaceInv
    <3> QED
      BY <3>1, HasFarthest DEF IInv
  <2>2. again' = again \/ again' = [again EXCEPT ![e][lev[t]] = RepeatsWith(e, cur[t], lev[t])]
    BY <1>2 DEF LinkBack, Fail, AddEntry
  <2>3. cur[t] \notin links[e][lev[t]] /\ again[e][lev[t]] = 0
    BY <1>0, <2>0, <2>1 DEF LinksOnce, NoneTwice
  <2> HIDE DEF e
  <2>4. RepeatsWith(e, cur[t], lev[t]) = 0
    <3> DEFINE more == IF cur[t] \in links[e][lev[t]] THEN 1 ELSE 0
    <3>1. more = 0
      BY <2>3
    <3>2. RepeatsWith(e, cur[t], lev[t]) = IF Size(e, lev[t]) < Capacity(lev[t]) THEN again[e][lev[t]] + more ELSE 0
      BY DEF RepeatsWith
    <3> HIDE DEF more
    <3>3. again[e][lev[t]] + more = 0
      BY <2>3, <3>1
    <3> QED
      BY <3>2, <3>3
  <2>5. again' = again \/ again' = [again EXCEPT ![e][lev[t]] = 0]
    BY <2>2, <2>4
  <2> QED
    BY <1>0, <1>1, <2>0, <2>1, <2>5 DEF NoneTwice
<1>3. CASE Select(t) \/ SelectAgain(t)
  <2>1. Works(t) /\ lev[t] \in Levels
    BY <1>0, <1>3 DEF Select, SelectAgain, Works, TypeOK
  <2>2. again' = again \/ again' = [again EXCEPT ![cur[t]][lev[t]] = 0]
    BY <1>3 DEF Select, SelectAgain, Connect, Fail, Write
  <2> QED
    BY <1>0, <1>1, <2>1, <2>2, AtWork DEF NoneTwice
<1>4. CASE ~(LinkBack(t) \/ Select(t) \/ SelectAgain(t))
  <2>1. \A e \in Elements : ~Relink(t, e)
    BY <1>0 DEF Relink, IInv, OwnerInv, Owns
  <2>2. again' = again
    BY <1>4, <2>1 DEF Moves, Step, Claim, Global, ReadEntry, First, CopyEntry, Descend, Expand, Publish,
                      CopyEntryForUpdate, OneHop, StartRepair, TwoHop, BeginUpdate, Leave, Fail
  <2> QED
    BY <1>0, <2>2 DEF NoneTwice
<1> QED
  BY <1>2, <1>3, <1>4

LEMMA LinksOnceStep ==
  ASSUME IInv, HopInv, WaitInv, OnceInv, updates = 0, NEW t \in Threads, Moves(t)
  PROVE  \A u \in Threads : LinksOnce(u)'
<1>0. TypeOK /\ (\A u \in Threads : LinksOnce(u)) /\ updating = {}
  BY DEF IInv, OnceInv, NoUpdates
<1>1. (\A u \in Threads \ {t} : Same(u)) /\ (Kind(t) \/ Stops(t))
  BY KindOfStep
<1>2. ASSUME links' = links, pc'[t] # "link" PROVE \A u \in Threads : LinksOnce(u)'
  BY <1>0, <1>1, <1>2 DEF LinksOnce, Same
<1>3. \A u \in Threads : pc[u] = "link" =>
         /\ cur[u] \in Elements /\ lev[u] \in Levels
         /\ \A e \in todo[u] : e \in Elements /\ Settled(e)
  BY AtWork DEF Works, IInv, PlaceInv, Settled
<1>4. ASSUME NEW S, Joins(t, S) PROVE \A u \in Threads : LinksOnce(u)'
  <2>1. Works(t) /\ Inserts(t) /\ pc[t] = "search"
    BY <1>0, <1>4 DEF Joins, Works, Inserts
  <2>2. cur[t] \in Elements /\ lev[t] \in Levels /\ lev[t] \in Nat /\ ~Settled(cur[t])
    BY <2>1, AtWork, NoneAssumption DEF IInv, OwnerInv, Owns, Settled
  <2>3. \A e \in Elements : e # cur[t] => links'[e] = links[e]
    BY <1>0, <1>4, <2>2 DEF Joins, TypeOK
  <2>4. ASSUME NEW u \in Threads \ {t} PROVE LinksOnce(u)'
    BY <1>0, <1>1, <1>3, <2>2, <2>3 DEF LinksOnce, Same
  <2>5. ASSUME NEW e \in S PROVE cur[t] \notin links[e][lev[t]] /\ e \in Elements /\ e # cur[t]
    <3>1. e \in Elements /\ e # cur[t]
      BY <1>4 DEF Joins
    <3>2. ~LinkedAt(t, lev[t])
      BY <2>1, <2>2 DEF LinkedAt
    <3> QED
      BY <2>1, <2>2, <3>1, <3>2 DEF WaitInv, ListsSeen, Seen
  <2>6. LinksOnce(t)'
    BY <1>4, <2>3, <2>5 DEF LinksOnce, Joins
  <2> QED
    BY <2>4, <2>6
<1>5. ASSUME NEW e \in Elements, NEW S, Adds(t, e, S) PROVE \A u \in Threads : LinksOnce(u)'
  <2>1. Works(t) /\ pc[t] = "link" /\ cur[t] \in Elements /\ lev[t] \in Levels
    BY <1>3, <1>5 DEF Adds, Works
  <2>2. \A a \in Elements, l \in Levels :
          /\ links'[a][l] \subseteq links[a][l] \cup {cur[t]}
          /\ a # e => links'[a][l] = links[a][l]
    BY <1>0, <1>5, <2>1 DEF Adds, TypeOK
  <2>3. ASSUME NEW u \in Threads \ {t}, pc[u] = "link"
        PROVE  \A a \in todo[u] : cur[u] \notin links'[a][lev[u]]
    <3>1. cur[u] # cur[t]
      BY <1>3, <2>1, <2>3, NoneAssumption DEF IInv, OwnerInv, Owns, Elements
    <3> QED
      BY <1>0, <1>3, <2>2, <2>3, <3>1 DEF LinksOnce
  <2>4. pc'[t] = "link" => \A a \in todo'[t] : cur'[t] \notin links'[a][lev'[t]]
    <3> SUFFICES ASSUME pc'[t] = "link", NEW a \in todo'[t] PROVE cur'[t] \notin links'[a][lev'[t]]
      OBVIOUS
    <3>1. lev'[t] = lev[t] /\ cur'[t] = cur[t] /\ a \in todo[t] /\ a # e
      BY <1>5 DEF Adds
    <3>2. links'[a][lev[t]] = links[a][lev[t]]
      BY <1>3, <2>1, <2>2, <3>1
    <3> QED
      BY <1>0, <2>1, <3>1, <3>2 DEF LinksOnce
  <2> QED
    BY <1>1, <2>3, <2>4 DEF LinksOnce, Same
<1>6. ASSUME NEW e \in Elements, NEW S PROVE ~Replaces(t, e, S)
  BY <1>0 DEF Replaces
<1>7. Quiet(t) \/ Completes(t) \/ Stops(t) => links' = links /\ pc'[t] # "link"
  BY DEF Quiet, Completes, Stops
<1> QED
  BY <1>1, <1>2, <1>4, <1>5, <1>6, <1>7 DEF Kind

LEMMA OnceStep ==
  ASSUME IInv, HopInv, WaitInv, OnceInv, [Next]_vars
  PROVE  OnceInv'
<1> SUFFICES ASSUME updates' = 0
             PROVE  updating' = {} /\ NoneTwice' /\ \A t \in Threads : LinksOnce(t)'
  BY DEF OnceInv, NoUpdates
<1>1. updates = 0 /\ updating' = {}
  BY NoUpdatesStep DEF OnceInv
<1>2. CASE UNCHANGED vars \/ \E e \in Elements : SetMark(e)
  BY <1>1, <1>2 DEF vars, SetMark, graph, place, OnceInv, NoneTwice, LinksOnce
<1>3. ASSUME NEW t \in Threads, Moves(t) PROVE NoneTwice' /\ \A u \in Threads : LinksOnce(u)'
  BY <1>1, <1>3, NoneTwiceStep, LinksOnceStep
<1> QED
  BY <1>1, <1>2, <1>3 DEF Next, Terminated, Moves

LEMMA OnceInvariance == Spec => []OnceInv
<1>1. Init => OnceInv
  BY DEF Init, OnceInv, NoUpdates, NoneTwice, LinksOnce
<1>2. IInv /\ HopInv /\ WaitInv /\ OnceInv /\ [Next]_vars => OnceInv'
  BY OnceStep
<1> QED
  BY <1>1, <1>2, FullInvariance, WaitInvariance, PTL DEF Spec

(* What checkIntegrity asserts of a list of any element at any level: it   *)
(* fits, leads to elements of that level and never to its own, and, as long*)
(* as nothing has been updated, names none of them twice, though insertions*)
(* that link the same elements at the same time never look.                *)
THEOREM IntegrityHolds == Spec => []Integrity
<1>1. Tidy /\ OnceInv => Integrity
  BY DEF Tidy, OnceInv, NoneTwice, Integrity
<1> QED
  BY <1>1, Invariance, OnceInvariance, PTL DEF IInv

-----------------------------------------------------------------------------
(* Without updates, and as long as no list of level 0 can be full, a link  *)
(* is answered or is about to be; an insertion that has linked its element *)
(* at level 0 has linked it to complete ones; and no set of complete       *)
(* elements but all of them is closed.                                     *)
Small == SelectionNotEmpty /\ updates = 0 /\ count <= 2 * M + 1

Awaits(t, b) == pc[t] = "link" /\ lev[t] = 0 /\ b \in todo[t]
OneSided == \A t \in Threads, b \in Elements :
  Awaits(t, b) => b \in links[cur[t]][0] /\ cur[t] \notin links[b][0]
Answered == \A a, b \in Elements : b \in links[a][0] =>
  a \in links[b][0] \/ \E t \in Threads : cur[t] = a /\ Awaits(t, b)
Complete(t) == Shared(t, 0) /\ LinkedAt(t, 0) => links[cur[t]][0] \subseteq Done
Leaves0(C) == \A c \in C : links[c][0] \cap Done \subseteq C
Whole == \A C \in SUBSET Done : C # {} /\ Leaves0(C) => C = Done

ConnInv == Small => OneSided /\ Answered /\ (\A t \in Threads : Complete(t)) /\ Whole

LEMMA StillAwaits ==
  ASSUME NEW u \in Threads, Same(u), NEW b
  PROVE  (Awaits(u, b)' <=> Awaits(u, b)) /\ cur'[u] = cur[u]
BY DEF Awaits, Same

LEMMA ConnQuiet ==
  ASSUME IInv, ConnInv, Small, Small', NEW t \in Threads, Quiet(t)
  PROVE  OneSided' /\ Answered' /\ (\A u \in Threads : Complete(u)') /\ Whole'
<1>0. OneSided /\ Answered /\ (\A u \in Threads : Complete(u)) /\ Whole
  BY DEF ConnInv
<1>1. links' = links /\ Done' = Done /\ \A e \in Elements : e < count => level'[e] = level[e]
  BY DEF Quiet
<1>2. \A u \in Threads, b \in Elements :
        (Awaits(u, b)' <=> Awaits(u, b)) /\ (Awaits(u, b) => cur'[u] = cur[u])
  <2>1. \A b \in Elements : ~Awaits(t, b) /\ ~Awaits(t, b)'
    BY DEF Quiet, Awaits
  <2> QED
    BY <2>1, StillAwaits DEF Quiet
<1>3. OneSided'
  BY <1>0, <1>1, <1>2 DEF OneSided
<1>4. Answered'
  BY <1>0, <1>1, <1>2 DEF Answered
<1>5. Whole'
  BY <1>0, <1>1 DEF Whole, Leaves0
<1>6. 0 \in Levels
  BY SizeAssumption DEF Levels
<1>7. ASSUME NEW u \in Threads PROVE Complete(u)'
  <2>1. CASE u = t
    BY <1>0, <1>1, <1>6, <2>1 DEF Complete, Quiet
  <2>2. CASE u # t
    BY <1>0, <1>1, <1>6, <2>2, StandsStill DEF Complete, Quiet
  <2> QED
    BY <2>1, <2>2
<1> QED
  BY <1>3, <1>4, <1>5, <1>7

LEMMA ConnJoins ==
  ASSUME IInv, OnceInv, ConnInv, Small, NEW t \in Threads, NEW S, Joins(t, S),
         \A u \in Threads \ {t} : Same(u)
  PROVE  OneSided' /\ Answered' /\ (\A u \in Threads : Complete(u)') /\ Whole'
<1> DEFINE x == cur[t]
<1>0. TypeOK /\ OneSided /\ Answered /\ (\A u \in Threads : Complete(u)) /\ Whole /\ updating = {}
  BY DEF ConnInv, IInv, Small, OnceInv, NoUpdates
<1>1. /\ level' = level /\ Done' = Done /\ updating' = updating /\ cur' = cur /\ maxCopy' = maxCopy
      /\ pc[t] = "search" /\ pc'[t] = "link" /\ lev'[t] = lev[t] /\ todo'[t] = S
      /\ S \in SUBSET Elements
  BY DEF Joins, Done
<1>2. Inserts(t) /\ x \in Elements /\ lev[t] \in Nat /\ lev[t] \in Levels /\ 0 \in Levels
  <2>1. Works(t) /\ Inserts(t)
    BY <1>0, <1>1 DEF Inserts, Works
  <2>2. 0 \in Levels
    BY SizeAssumption DEF Levels
  <2> QED
    BY <2>1, <2>2, AtWork
<1>3. x \notin Done /\ linkLock[x] = t /\ t # None
  <2>1. linkLock[x] = t
    BY <1>2 DEF IInv, OwnerInv, Owns
  <2>2. x \notin Done
    BY <1>0 DEF Done
  <2> QED
    BY <2>1, <2>2, NoneAssumption
<1>4. S \subseteq Done /\ x \notin S
  BY SettledDone DEF Joins, Small
<1>5. links' = [links EXCEPT ![x][lev[t]] = S] /\ links[x][lev[t]] = {}
  BY <1>0 DEF Joins
<1>6. \A a \in Elements : links'[a][0] = IF a = x /\ lev[t] = 0 THEN S ELSE links[a][0]
  BY <1>0, <1>2, <1>5 DEF TypeOK
<1>7. \A u \in Threads \ {t}, b \in Elements : (Awaits(u, b)' <=> Awaits(u, b)) /\ cur'[u] = cur[u]
  BY StillAwaits
<1>8. \A b \in Elements : ~Awaits(t, b) /\ (Awaits(t, b)' <=> lev[t] = 0 /\ b \in S)
  BY <1>1 DEF Awaits
<1>9. \A u \in Threads \ {t} : cur[u] # x
  BY <1>2, NoneAssumption DEF IInv, OwnerInv, Owns, Elements
<1>10. \A u \in Threads : ~Awaits(u, x)
  BY <1>3 DEF Awaits, IInv, PlaceInv, Settled
<1>11. lev[t] = 0 => \A a \in Elements : x \notin links[a][0]
  <2> SUFFICES ASSUME lev[t] = 0, NEW a \in Elements, x \in links[a][0] PROVE FALSE
    OBVIOUS
  <2>1. a \in links[x][0] \/ \E u \in Threads : Awaits(u, x)
    BY <1>0, <1>2 DEF Answered
  <2> QED
    BY <1>5, <1>10, <2>1
<1>12. 0 \in Levels /\ \A e \in Done : e \in Elements
  BY <1>0, <1>2, DoneExists
<1> HIDE DEF x
<1>13. OneSided'
  <2> SUFFICES ASSUME NEW u \in Threads, NEW b \in Elements, Awaits(u, b)'
               PROVE  b \in links'[cur[u]][0] /\ cur[u] \notin links'[b][0]
    BY <1>1 DEF OneSided
  <2>1. CASE u = t
    BY <1>4, <1>6, <1>8, <1>2, <1>11, <2>1 DEF x
  <2>2. CASE u # t
    <3>1. Awaits(u, b) /\ b # x /\ cur[u] # x
      BY <1>7, <1>9, <1>10, <2>2
    <3>2. cur[u] \in Elements
      <4>1. Works(u)
        BY <3>1 DEF Awaits, Works
      <4> QED
        BY <4>1, AtWork
    <3> QED
      BY <1>0, <1>6, <3>1, <3>2 DEF OneSided
  <2> QED
    BY <2>1, <2>2
<1>14. Answered'
  <2> SUFFICES ASSUME NEW a \in Elements, NEW b \in Elements, b \in links'[a][0]
               PROVE  a \in links'[b][0] \/ \E u \in Threads : cur[u] = a /\ Awaits(u, b)'
    BY <1>1 DEF Answered
  <2>1. CASE a = x /\ lev[t] = 0
    BY <1>6, <1>8, <2>1 DEF x
  <2>2. CASE ~(a = x /\ lev[t] = 0)
    <3>1. b \in links[a][0]
      BY <1>6, <2>2
    <3>2. ~(b = x /\ lev[t] = 0)
      BY <1>11, <3>1
    <3>3. a \in links[b][0] \/ \E u \in Threads : cur[u] = a /\ Awaits(u, b)
      BY <1>0, <3>1 DEF Answered
    <3> QED
      BY <1>6, <1>7, <1>8, <3>2, <3>3
  <2> QED
    BY <2>1, <2>2
<1>15. Whole'
  BY <1>0, <1>1, <1>3, <1>6, <1>12 DEF Whole, Leaves0
<1>16. ASSUME NEW u \in Threads PROVE Complete(u)'
  <2> SUFFICES ASSUME (Shared(u, 0) /\ LinkedAt(u, 0))' PROVE links'[cur[u]][0] \subseteq Done
    BY <1>1 DEF Complete
  <2>1. CASE u = t
    <3>1. lev[t] = 0
      BY <1>1, <1>2, <2>1 DEF LinkedAt
    <3> QED
      BY <1>2, <1>4, <1>6, <2>1, <3>1 DEF x
  <2>2. CASE u # t
    <3>1. Shared(u, 0) /\ LinkedAt(u, 0) /\ cur[u] \in Elements
      BY <1>1, <1>12, <2>2, StandsStill
    <3> QED
      BY <1>0, <1>6, <1>9, <2>2, <3>1 DEF Complete
  <2> QED
    BY <2>1, <2>2
<1> QED
  BY <1>13, <1>14, <1>15, <1>16

LEMMA ConnAdds ==
  ASSUME IInv, OnceInv, ConnInv, Small, NEW t \in Threads, NEW e \in Elements, NEW S, Adds(t, e, S),
         \A u \in Threads \ {t} : Same(u)
  PROVE  OneSided' /\ Answered' /\ (\A u \in Threads : Complete(u)') /\ Whole'
<1> DEFINE x == cur[t]
<1>0. TypeOK /\ OneSided /\ Answered /\ (\A u \in Threads : Complete(u)) /\ Whole /\ updating = {}
  BY DEF ConnInv, IInv, Small, OnceInv, NoUpdates
<1>1. /\ level' = level /\ Done' = Done /\ cur' = cur /\ pc[t] = "link" /\ e \in todo[t]
      /\ todo'[t] = todo[t] \ {e} /\ S = WithElement(e, x, lev[t])
      /\ links' = [links EXCEPT ![e][lev[t]] = S]
  BY <1>0 DEF Adds, Done
<1>2. Inserts(t) /\ x \in Elements /\ lev[t] \in Nat /\ lev[t] \in Levels /\ 0 \in Levels
  <2>1. Works(t) /\ Inserts(t)
    BY <1>0, <1>1 DEF Inserts, Works
  <2>2. 0 \in Levels
    BY SizeAssumption DEF Levels
  <2> QED
    BY <2>1, <2>2, AtWork
<1>3. e # x /\ Settled(e)
  BY <1>1 DEF IInv, PlaceInv
<1>4. lev[t] = 0 => e \in links[x][0] /\ x \notin links[e][0]
  BY <1>0, <1>1 DEF OneSided, Awaits
<1>5. lev[t] = 0 => S = links[e][0] \cup {x}
  <2> SUFFICES ASSUME lev[t] = 0 PROVE Cardinality(links[e][0]) < Capacity(0)
    <3>1. links[e][0] \in SUBSET Elements /\ again[e][0] = 0
      BY <1>0, <1>2 DEF Small, OnceInv, NoneTwice, TypeOK
    <3>2. Size(e, 0) = Cardinality(links[e][0])
      BY <3>1, Finite DEF Size
    <3> QED
      BY <1>1, <3>2 DEF WithElement
  <2> DEFINE Rest == (0..(count - 1)) \ {e, x}
  <2>1. count \in Nat /\ count <= MaxElements /\ MaxElements \in Nat /\ M \in Nat
    BY <1>0, DoneExists, SizeAssumption
  <2>2. 0..(count - 1) \in SUBSET Elements /\ e \in 0..(count - 1) /\ x \in 0..(count - 1)
    <3>1. Works(t)
      BY <1>1 DEF Works
    <3> QED
      BY <1>3, <2>1, <3>1, AtWork DEF Elements, Settled
  <2>3. links[e][0] \in SUBSET Rest
    <3>1. \A a \in links[e][0] : a \in Elements /\ a < count /\ a # e /\ a # x
      BY <1>2, <1>4, ListHas DEF Has
    <3> QED
      BY <2>1, <3>1 DEF Elements
  <2>4. Cardinality(0..(count - 1)) = count
    BY <2>1, FS_Interval
  <2>5. Cardinality(0..(count - 1)) = Cardinality(Rest) + 2
    <3>1. Cardinality(0..(count - 1)) = Cardinality((0..(count - 1)) \ {e}) + 1
      BY <2>2, Finite
    <3>2. Cardinality((0..(count - 1)) \ {e}) = Cardinality(((0..(count - 1)) \ {e}) \ {x}) + 1
      BY <1>3, <2>2, Finite
    <3>3. ((0..(count - 1)) \ {e}) \ {x} = Rest
      OBVIOUS
    <3>4. Rest \in SUBSET Elements
      BY <2>2
    <3>5. Cardinality(Rest) \in Nat
      BY <3>4, Finite
    <3> HIDE DEF Rest
    <3>6. Cardinality((0..(count - 1)) \ {e}) = Cardinality(Rest) + 1
      BY <3>2, <3>3
    <3> QED
      BY <3>1, <3>5, <3>6
  <2>6. Cardinality(links[e][0]) <= Cardinality(Rest) /\ Cardinality(Rest) \in Nat
        /\ Cardinality(links[e][0]) \in Nat
    BY <2>2, <2>3, Finite
  <2> QED
    BY <2>1, <2>4, <2>5, <2>6 DEF Capacity, Small
<1>6. \A a \in Elements : links'[a][0] = IF a = e /\ lev[t] = 0 THEN links[e][0] \cup {x} ELSE links[a][0]
  BY <1>0, <1>1, <1>2, <1>5 DEF TypeOK
<1>7. \A u \in Threads \ {t}, b \in Elements : (Awaits(u, b)' <=> Awaits(u, b)) /\ cur'[u] = cur[u]
  BY StillAwaits
<1>8. \A b \in Elements : Awaits(t, b)' <=> Awaits(t, b) /\ b # e
  BY <1>1, <1>2 DEF Adds, Awaits
<1>9. \A u \in Threads \ {t} : cur[u] # x
  BY <1>2, NoneAssumption DEF IInv, OwnerInv, Owns, Elements
<1>10. \A u \in Threads, b \in Elements : Awaits(u, b) => cur[u] \in Elements
  <2> SUFFICES ASSUME NEW u \in Threads, NEW b \in Elements, Awaits(u, b) PROVE cur[u] \in Elements
    OBVIOUS
  <2>1. Works(u)
    BY DEF Awaits, Works
  <2> QED
    BY <2>1, AtWork
<1>11. \A a \in Done : a \in Elements
  BY <1>0, DoneExists
<1> HIDE DEF x
<1>12. OneSided'
  <2> SUFFICES ASSUME NEW u \in Threads, NEW b \in Elements, Awaits(u, b)'
               PROVE  b \in links'[cur[u]][0] /\ cur[u] \notin links'[b][0]
    BY <1>1 DEF OneSided
  <2>1. Awaits(u, b) /\ (u = t => b # e)
    BY <1>7, <1>8
  <2>2. b \in links[cur[u]][0] /\ cur[u] \notin links[b][0] /\ cur[u] \in Elements
    BY <1>0, <1>10, <2>1 DEF OneSided
  <2>3. u # t => cur[u] # x
    BY <1>9
  <2> QED
    BY <1>6, <2>1, <2>2, <2>3
<1>13. Answered'
  <2> SUFFICES ASSUME NEW a \in Elements, NEW b \in Elements, b \in links'[a][0]
               PROVE  a \in links'[b][0] \/ \E u \in Threads : cur[u] = a /\ Awaits(u, b)'
    BY <1>1 DEF Answered
  <2>1. CASE a = e /\ b = x /\ lev[t] = 0
    BY <1>2, <1>4, <1>6, <2>1 DEF x
  <2>2. CASE ~(a = e /\ b = x /\ lev[t] = 0)
    <3>1. b \in links[a][0]
      BY <1>6, <2>2
    <3>2. CASE a \in links[b][0]
      BY <1>6, <3>2
    <3>3. CASE \E u \in Threads : cur[u] = a /\ Awaits(u, b)
      <4>1. PICK u \in Threads : cur[u] = a /\ Awaits(u, b)
        BY <3>3
      <4>2. CASE u = t /\ b = e
        <5>1. a = x /\ lev[t] = 0
          BY <4>1, <4>2 DEF x, Awaits
        <5> QED
          BY <1>6, <4>2, <5>1
      <4>3. CASE ~(u = t /\ b = e)
        BY <1>7, <1>8, <4>1, <4>3
      <4> QED
        BY <4>2, <4>3
    <3> QED
      BY <1>0, <3>1, <3>2, <3>3 DEF Answered
  <2> QED
    BY <2>1, <2>2
<1>14. Whole'
  <2>1. \A a \in Done : links[a][0] \subseteq links'[a][0]
    BY <1>6, <1>11
  <2> QED
    BY <1>0, <1>1, <2>1 DEF Whole, Leaves0
<1>15. ASSUME NEW u \in Threads PROVE Complete(u)'
  <2> SUFFICES ASSUME (Shared(u, 0) /\ LinkedAt(u, 0))' PROVE links'[cur[u]][0] \subseteq Done
    BY <1>1 DEF Complete
  <2>1. Shared(u, 0) /\ LinkedAt(u, 0) /\ cur[u] \in Elements
    <3>1. CASE u = t
      <4>1. Shared(t, 0)
        BY <1>1, <1>2, <3>1 DEF Shared, Adds
      <4>2. LinkedAt(t, 0)
        BY <1>1, <1>2, <3>1 DEF LinkedAt, Adds
      <4> QED
        BY <1>2, <3>1, <4>1, <4>2 DEF x
    <3>2. CASE u # t
      BY <1>1, <1>2, <3>2, StandsStill
    <3> QED
      BY <3>1, <3>2
  <2>2. cur[u] # e
    BY <1>3, <2>1, NoneAssumption DEF Shared, Settled, IInv, OwnerInv, Owns
  <2> QED
    BY <1>0, <1>6, <2>1, <2>2 DEF Complete
<1> QED
  BY <1>12, <1>13, <1>14, <1>15

LEMMA ConnCompletes ==
  ASSUME IInv, FullInv, ConnInv, Small, NEW t \in Threads, Completes(t)
  PROVE  OneSided' /\ Answered' /\ (\A u \in Threads : Complete(u)') /\ Whole'
<1> DEFINE b == cur[t]
<1>0. TypeOK /\ OneSided /\ Answered /\ (\A u \in Threads : Complete(u)) /\ Whole
  BY DEF ConnInv, IInv
<1>1. links' = links /\ level' = level /\ Done' = Done \cup {b}
  BY DEF Completes
<1>2. Works(t) /\ Inserts(t) /\ pc[t] = "publish" /\ ~Works(t)'
  BY DEF Completes, Inserts, Works
<1>3. b \in Elements /\ 0 \in Levels /\ (\A a \in Elements : level[a] \in Nat) /\ \A a \in Done : a \in Elements
  <2>1. 0 \in Levels
    BY SizeAssumption DEF Levels
  <2> QED
    BY <1>0, <1>2, <2>1, AtWork, DoneExists DEF Levels
<1>4. \A u \in Threads, a \in Elements :
        (Awaits(u, a)' <=> Awaits(u, a)) /\ (Awaits(u, a) => cur'[u] = cur[u] /\ u # t)
  <2>1. \A a \in Elements : ~Awaits(t, a) /\ ~Awaits(t, a)'
    BY DEF Completes, Awaits
  <2> QED
    BY <2>1, StillAwaits DEF Completes
<1>5. \A u \in Threads : u # t => cur[u] # b
  BY <1>3, NoneAssumption DEF IInv, OwnerInv, Owns, Elements
<1>6. OneSided'
  BY <1>0, <1>1, <1>4 DEF OneSided
<1>7. Answered'
  BY <1>0, <1>1, <1>4 DEF Answered
<1>8. ASSUME NEW u \in Threads PROVE Complete(u)'
  <2>1. CASE u = t
    BY <1>2, <2>1 DEF Complete, Shared, Inserts
  <2>2. CASE u # t
    BY <1>0, <1>1, <1>3, <2>2, StandsStill DEF Complete, Completes
  <2> QED
    BY <2>1, <2>2
<1>9. ASSUME Done # {} PROVE links[b][0] \subseteq Done /\ links[b][0] # {}
  <2>1. \E a \in Done : 0 <= level[a]
    BY <1>3, <1>9
  <2>2. Shared(t, 0) /\ LinkedAt(t, 0)
    BY <1>2, <1>3, <2>1, SeenLevels DEF LinkedAt
  <2> QED
    BY <1>0, <1>3, <2>2 DEF Complete, FullInv, FilledAt, Small
<1>10. \A a \in links[b][0] : b \in links[a][0]
  BY <1>0, <1>3, <1>4, <1>5, ListHas DEF Answered, Has
<1> HIDE DEF b
<1>11. Whole'
  <2> SUFFICES ASSUME NEW C \in SUBSET (Done \cup {b}), C # {},
                      \A c \in C : links[c][0] \cap (Done \cup {b}) \subseteq C
               PROVE  C = Done \cup {b}
    BY <1>1 DEF Whole, Leaves0
  <2>1. CASE Done = {}
    BY <2>1
  <2>2. CASE Done # {}
    <3>1. links[b][0] \subseteq Done /\ links[b][0] # {}
      BY <1>9, <2>2
    <3>2. C \cap Done # {}
      BY <3>1
    <3>3. C \cap Done = Done
      <4>1. Leaves0(C \cap Done)
        BY DEF Leaves0
      <4> QED
        BY <1>0, <3>2, <4>1 DEF Whole
    <3>4. b \in C
      BY <1>10, <3>1, <3>3
    <3> QED
      BY <3>3, <3>4
  <2> QED
    BY <2>1, <2>2
<1> QED
  BY <1>6, <1>7, <1>8, <1>11

LEMMA ConnStep ==
  ASSUME IInv, HopInv, FullInv, OnceInv, ConnInv, [Next]_vars
  PROVE  ConnInv'
<1>1. updates' = 0 => updates = 0 /\ updating' = {}
  BY NoUpdatesStep DEF OnceInv, NoUpdates
<1>2. SUFFICES ASSUME Small'
               PROVE  OneSided' /\ Answered' /\ (\A t \in Threads : Complete(t)') /\ Whole'
  BY <1>1 DEF ConnInv, Small
<1>3. SelectionNotEmpty /\ updates = 0 /\ updates' = 0
  BY <1>1, <1>2, Kinds DEF Small
<1>4. CASE UNCHANGED <<count, level, links, pc, cur, maxCopy, lev, todo, updating, updates>>
  <2>1. Done' = Done /\ Small
    BY <1>2, <1>4, <1>3 DEF Done, Small
  <2> QED
    BY <1>4, <2>1 DEF ConnInv, OneSided, Answered, Complete, Whole, Leaves0, Awaits,
                      Shared, LinkedAt, Inserts, Works
<1>5. ASSUME NEW t \in Threads, \A u \in Threads \ {t} : Same(u), Kind(t)
      PROVE  OneSided' /\ Answered' /\ (\A u \in Threads : Complete(u)') /\ Whole'
  <2>1. count <= count'
    <3>1. count \in Nat
      BY DoneExists DEF IInv
    <3>2. CASE Quiet(t)
      BY <3>2 DEF Quiet
    <3>3. ASSUME NEW S, Joins(t, S) PROVE count' = count
      BY <3>3 DEF Joins
    <3>4. ASSUME NEW S, NEW e \in Elements, Adds(t, e, S) \/ Replaces(t, e, S) PROVE count' = count
      BY <3>4 DEF Adds, Replaces
    <3>5. CASE Completes(t)
      BY <3>1, <3>5 DEF Completes
    <3> QED
      BY <1>5, <3>1, <3>2, <3>3, <3>4, <3>5 DEF Kind
  <2>2. Small
    <3>1. count \in Nat /\ count' \in Nat /\ M \in Nat
      BY EveryStep, DoneExists, SizeAssumption DEF IInv, TypeOK
    <3> QED
      BY <1>2, <1>3, <2>1, <3>1 DEF Small
  <2>3. ASSUME NEW e \in Elements, NEW S PROVE ~Replaces(t, e, S)
    BY <1>3 DEF Replaces, OnceInv, NoUpdates
  <2> QED
    BY <1>2, <1>5, <2>2, <2>3, ConnQuiet, ConnJoins, ConnAdds, ConnCompletes DEF Kind
<1> QED
  BY <1>3, <1>2, <1>4, <1>5, Kinds DEF Small

-----------------------------------------------------------------------------
(* What holds of 0, and of the successor of a number it holds of, holds of *)
(* every number.                                                           *)
LEMMA ByNumbers ==
  ASSUME NEW X, 0 \in X, \A n \in Nat : n \in X => n + 1 \in X
  PROVE  Nat \subseteq X
<1> DEFINE Y == Nat \ X
<1>1. SUFFICES ASSUME Y # {} PROVE FALSE
  OBVIOUS
<1>2. PICK m \in Y : \A n \in Y : m <= n
  BY <1>1, LeastNumber
<1>3. m \in Nat /\ m # 0
  OBVIOUS
<1>4. m - 1 \in Nat /\ ~(m <= m - 1) /\ (m - 1) + 1 = m
  BY <1>3
<1>5. m - 1 \in X
  BY <1>2, <1>4
<1> QED
  BY <1>4, <1>5

(* The sets that Reach passes through: step by step the elements that the  *)
(* lists of level 0 lead to.                                               *)
Onward(T) == T \cup UNION {links[e][0] : e \in T}
Walk(g, S, n) == g = [i \in 0..n |-> IF i = 0 THEN S ELSE Onward(g[i - 1])]

LEMMA WalkExists ==
  ASSUME NEW S
  PROVE  \A n \in Nat : \E g : Walk(g, S, n)
<1> DEFINE X == {n \in Nat : \E g : Walk(g, S, n)}
<1>1. 0 \in X
  <2>1. Walk([i \in 0..0 |-> S], S, 0)
    BY DEF Walk
  <2> QED
    BY <2>1
<1>2. ASSUME NEW n \in Nat, n \in X PROVE n + 1 \in X
  <2>1. PICK g : Walk(g, S, n)
    BY <1>2
  <2> DEFINE h == [i \in 0..(n + 1) |-> IF i = n + 1 THEN Onward(g[n]) ELSE g[i]]
  <2>2. \A i \in 0..n : g[i] = IF i = 0 THEN S ELSE Onward(g[i - 1])
    BY <2>1 DEF Walk
  <2>3. ASSUME NEW i \in 0..(n + 1)
        PROVE  h[i] = IF i = 0 THEN S ELSE Onward(h[i - 1])
    <3>1. CASE i = n + 1
      <4>1. i # 0 /\ i - 1 = n /\ n \in 0..(n + 1) /\ n # n + 1
        BY <3>1
      <4>2. h[i - 1] = g[n] /\ h[i] = Onward(g[n])
        BY <3>1, <4>1
      <4> QED
        BY <4>1, <4>2
    <3>2. CASE i # n + 1
      <4>1. i \in 0..n
        BY <3>2
      <4>2. h[i] = g[i]
        BY <3>2
      <4>3. i # 0 => i - 1 \in 0..(n + 1) /\ i - 1 # n + 1
        BY <4>1
      <4>4. i # 0 => h[i - 1] = g[i - 1]
        BY <4>3
      <4> HIDE DEF h
      <4> QED
        BY <2>2, <4>1, <4>2, <4>4
    <3> QED
      BY <3>1, <3>2
  <2>4. h = [i \in 0..(n + 1) |-> h[i]]
    OBVIOUS
  <2> HIDE DEF h
  <2>5. Walk(h, S, n + 1)
    BY <2>3, <2>4 DEF Walk
  <2> QED
    BY <2>5
<1>3. Nat \subseteq X
  <2> HIDE DEF X
  <2> QED
    BY <1>1, <1>2, ByNumbers
<1> QED
  BY <1>3

LEMMA ReachWalks ==
  ASSUME NEW S
  PROVE  \E g : Walk(g, S, MaxElements) /\ Reach(S) = g[MaxElements]
<1> DEFINE step == CHOOSE g : Walk(g, S, MaxElements)
<1>1. Walk(step, S, MaxElements)
  BY WalkExists, SizeAssumption
<1>2. Reach(S) = step[MaxElements]
  BY DEF Reach, Walk, Onward
<1> QED
  BY <1>1, <1>2

(* From an element of a set that the lists of level 0 do not leave, Reach  *)
(* comes to a set that they do not leave either, inside the first.         *)
LEMMA ReachClosed ==
  ASSUME TypeOK, NEW D \in SUBSET Elements, \A c \in D : links[c][0] \subseteq D, NEW e \in D
  PROVE  LET R == Reach({e}) IN e \in R /\ R \subseteq D /\ \A c \in R : links[c][0] \subseteq R
<1>1. PICK g : Walk(g, {e}, MaxElements) /\ Reach({e}) = g[MaxElements]
  BY ReachWalks
<1>2. MaxElements \in Nat
  BY SizeAssumption
<1> DEFINE Closed(T) == \A c \in T : links[c][0] \subseteq T
           Good(T, i) == e \in T /\ T \subseteq D /\ (Closed(T) \/ Cardinality(T) >= i + 1)
           X == {i \in Nat : i <= MaxElements => Good(g[i], i)}
<1>3. g[0] = {e} /\ \A i \in Nat : i + 1 <= MaxElements => g[i + 1] = Onward(g[i])
  <2>1. \A i \in 0..MaxElements : g[i] = IF i = 0 THEN {e} ELSE Onward(g[i - 1])
    BY <1>1 DEF Walk
  <2>2. ASSUME NEW i \in Nat, i + 1 <= MaxElements
        PROVE  i + 1 \in 0..MaxElements /\ i + 1 # 0 /\ (i + 1) - 1 = i
    BY <1>2, <2>2
  <2> QED
    BY <1>2, <2>1, <2>2
<1>4. Good({e}, 0)
  <2>1. Cardinality({e}) = 1
    BY FS_Singleton
  <2> QED
    BY <2>1
<1>5. ASSUME NEW i \in Nat, i + 1 <= MaxElements, Good(g[i], i)
      PROVE  Good(g[i + 1], i + 1)
  <2>1. g[i + 1] = Onward(g[i])
    BY <1>3, <1>5
  <2>2. g[i] \subseteq g[i + 1] /\ g[i + 1] \subseteq D
    BY <1>5, <2>1 DEF Onward
  <2>3. CASE Closed(g[i])
    <3>1. g[i + 1] = g[i]
      BY <2>1, <2>3 DEF Onward
    <3> QED
      BY <1>5, <2>3, <3>1
  <2>4. CASE ~Closed(g[i])
    <3>1. g[i + 1] # g[i]
      <4>1. PICK c \in g[i] : ~(links[c][0] \subseteq g[i])
        BY <2>4
      <4>2. links[c][0] \subseteq g[i + 1]
        BY <2>1 DEF Onward
      <4> QED
        BY <4>1, <4>2
    <3>2. Cardinality(g[i]) < Cardinality(g[i + 1])
          /\ Cardinality(g[i]) \in Nat /\ Cardinality(g[i + 1]) \in Nat
      <4>1. g[i + 1] \in SUBSET Elements /\ g[i] \in SUBSET Elements
        BY <2>2
      <4> QED
        BY <2>2, <3>1, <4>1, Finite
    <3>3. Cardinality(g[i]) >= i + 1
      BY <1>5, <2>4
    <3>4. Cardinality(g[i + 1]) >= (i + 1) + 1
      BY <3>2, <3>3
    <3> QED
      BY <1>5, <2>2, <3>4
  <2> QED
    BY <2>3, <2>4
<1> HIDE DEF Good
<1>6. 0 \in X
  BY <1>3, <1>4
<1>7. ASSUME NEW i \in Nat, i \in X PROVE i + 1 \in X
  BY <1>2, <1>5, <1>7
<1>8. MaxElements \in X
  <2> HIDE DEF X
  <2> QED
    BY <1>2, <1>6, <1>7, ByNumbers
<1>9. Good(g[MaxElements], MaxElements)
  BY <1>2, <1>8
<1>10. ~(Cardinality(g[MaxElements]) >= MaxElements + 1)
  <2>1. g[MaxElements] \in SUBSET Elements
    BY <1>9 DEF Good
  <2>2. Cardinality(Elements) = MaxElements
    <3>1. 0 \in Int /\ MaxElements - 1 \in Int
      BY <1>2
    <3>2. Cardinality(0..(MaxElements - 1)) = IF 0 > MaxElements - 1 THEN 0 ELSE (MaxElements - 1) - 0 + 1
      BY <3>1, FS_Interval
    <3> QED
      BY <1>2, <3>2 DEF Elements
  <2>3. Cardinality(g[MaxElements]) <= Cardinality(Elements) /\ Cardinality(g[MaxElements]) \in Nat
    BY <2>1, Finite
  <2> QED
    BY <1>2, <2>2, <2>3
<1> QED
  BY <1>1, <1>9, <1>10 DEF Good

LEMMA ConnStart == Init => ConnInv
<1> SUFFICES ASSUME Init PROVE ConnInv
  OBVIOUS
<1>1. Done = {}
  BY DEF Init, Done
<1>2. 0 \in Levels
  BY SizeAssumption DEF Levels
<1>3. OneSided /\ (\A t \in Threads : Complete(t)) /\ Whole
  BY <1>1 DEF Init, OneSided, Awaits, Complete, Shared, Inserts, Works, Whole
<1>4. Answered
  BY <1>2 DEF Init, Answered
<1>5. updating = {}
  BY DEF Init
<1> QED
  BY <1>3, <1>4, <1>5 DEF ConnInv

LEMMA ConnInvariance == Spec => []ConnInv
<1>1. Init => ConnInv
  BY ConnStart
<1>2. IInv /\ HopInv /\ FullInv /\ OnceInv /\ ConnInv /\ [Next]_vars => ConnInv'
  BY ConnStep
<1> QED
  BY <1>1, <1>2, FullInvariance, OnceInvariance, PTL DEF Spec

(* Elements inserted at the same time are, when all is quiet, in one graph *)
(* at level 0, in which every element leads to every other, as long as no  *)
(* list had to be pruned.                                                  *)
THEOREM ConnectedHolds == Spec => []Connected
<1>1. ASSUME IInv, ConnInv PROVE Connected
  <2> SUFFICES ASSUME Idle, count <= 2 * M + 1, updates = 0, NEW e \in 0..(count - 1)
               PROVE  Reach({e}) = 0..(count - 1)
    BY DEF Connected
  <2>1. Done = 0..(count - 1) /\ Whole /\ TypeOK
    BY <1>1, IdleDone DEF ConnInv, Small, IInv
  <2>2. Done \in SUBSET Elements /\ count \in Nat
    BY <2>1, DoneExists
  <2>3. \A c \in Done : links[c][0] \subseteq Done
    <3>1. 0 \in Levels
      BY SizeAssumption DEF Levels
    <3>2. ASSUME NEW c \in Done, NEW a \in links[c][0] PROVE a \in Done
      <4>1. c \in Elements
        BY <2>2
      <4>2. a \in Elements /\ a < count
        BY <1>1, <3>1, <4>1, ListHas DEF Has
      <4> QED
        BY <2>1, <2>2, <4>2 DEF Elements
    <3> QED
      BY <3>2
  <2>4. LET R == Reach({e}) IN e \in R /\ R \subseteq Done /\ \A c \in R : links[c][0] \subseteq R
    BY <2>1, <2>2, <2>3, ReachClosed
  <2>5. Reach({e}) = Done
    BY <2>1, <2>4 DEF Whole, Leaves0
  <2> QED
    BY <2>1, <2>5
<1> QED
  BY <1>1, FullInvariance, ConnInvariance, PTL

-----------------------------------------------------------------------------
(* When a selection finds nothing.  What a search returns is not deleted,  *)
(* and it returns something unless all it has come to is deleted.  The     *)
(* searches of an insertion below its highest level begin at an element    *)
(* that is not deleted, or else enterpoint_copy is deleted and a candidate.*)
HighestLevel(t) == SmallerOf(level[cur[t]], maxCopy[t])
Sound(t) == obj[t] \notin marked \/ epCopy[t] \in marked

FoundNone(t) ==
  /\ t \notin updating /\ lev[t] = HighestLevel(t)
  /\ cand[t] = {} /\ obj[t] \in visited[t] /\ visited[t] \subseteq marked
  /\ epCopy[t] \notin marked

SearchInv(t) ==
  /\ pc[t] = "search" =>
       /\ obj[t] \in visited[t] /\ top[t] \cap marked = {}
       /\ visited[t] \subseteq marked \/ top[t] # {}
       /\ t \notin updating => lev[t] = HighestLevel(t) \/ Sound(t)
  /\ pc[t] = "link" /\ t \notin updating => Sound(t)
  /\ pc[t] = "undefined" => FoundNone(t)

(* Where there is one level only a search begins at enterpoint_copy, for   *)
(* the entry point stays once there is one.                                *)
OneLevel(t) ==
  /\ pc[t] = "copy" /\ obj[t] # None => obj[t] = enterpoint
  /\ pc[t] = "search" /\ t \notin updating => obj[t] = epCopy[t]
  /\ pc[t] = "undefined" => obj[t] = epCopy[t]

MarkInv ==
  /\ \A t \in Threads : SearchInv(t)
  /\ TopLevel = 0 => \A t \in Threads : OneLevel(t)
  /\ MaxMarks = 0 => marked = {}

(* Marks change in quiet states only, and levels of elements never.        *)
LEMMA MarksStay ==
  ASSUME IInv, NEW t \in Threads, Moves(t)
  PROVE  /\ marked' = marked \/ (Idle /\ marked' \subseteq marked /\ pc'[t] = "upentry")
         /\ \A e \in Elements : e < count => level'[e] = level[e]
<1> USE DEF Goto, graph, deletes
<1>0. TypeOK /\ count \in Nat
  BY DoneExists DEF IInv
<1>1. CASE Claim(t)
  <2>1. marked' = marked /\ \E l \in Levels : level' = [level EXCEPT ![count] = l]
    BY <1>1 DEF Claim
  <2>2. \A e \in Elements : e < count => e # count
    BY <1>0, DoneExists
  <2> QED
    BY <1>0, <2>1, <2>2 DEF TypeOK
<1>2. CASE \E e \in Elements, p \in Places : BeginUpdate(t, e, p)
  <2>1. PICK e \in Elements, p \in Places : BeginUpdate(t, e, p)
    BY <1>2
  <2>2. level' = level /\ marked' = marked \ {e} /\ (e \in marked => Idle) /\ pc'[t] = "upentry"
    BY <1>0, <2>1 DEF BeginUpdate, TypeOK
  <2> QED
    BY <2>2
<1>3. CASE Step(t)
  <2>1. CASE \/ Global(t) \/ ReadEntry(t) \/ CopyEntry(t) \/ First(t) \/ Descend(t) \/ Expand(t)
             \/ OneHop(t) \/ StartRepair(t) \/ \E e \in Elements : TwoHop(t, e) \/ Relink(t, e)
    BY <2>1 DEF Global, ReadEntry, CopyEntry, First, Descend, Expand, OneHop, StartRepair, TwoHop, Relink
  <2>2. CASE Select(t) \/ SelectAgain(t) \/ LinkBack(t)
    BY <2>2 DEF Select, SelectAgain, LinkBack
  <2>3. CASE Publish(t) \/ CopyEntryForUpdate(t)
    BY <2>3 DEF Publish, CopyEntryForUpdate, Leave
  <2> QED
    BY <1>3, <2>1, <2>2, <2>3 DEF Step
<1> QED
  BY <1>1, <1>2, <1>3 DEF Moves

(* A thread that stands still keeps what it knows of the marks.            *)
LEMMA MarksBeside ==
  ASSUME IInv, NEW u \in Threads, Same(u), SearchInv(u),
         marked' = marked \/ Idle, \A e \in Elements : e < count => level'[e] = level[e]
  PROVE  SearchInv(u)'
<1>1. CASE pc[u] = "idle"
  BY <1>1 DEF SearchInv, Same
<1>2. CASE pc[u] # "idle"
  <2>1. marked' = marked
    BY <1>2 DEF Idle
  <2>2. cur[u] \in Elements /\ cur[u] < count
    BY <1>2 DEF IInv, OwnerInv, Owns, TypeOK
  <2>3. level'[cur'[u]] = level[cur[u]]
    BY <2>2 DEF Same
  <2>4. HighestLevel(u)' = HighestLevel(u) /\ Sound(u)' = Sound(u)
    BY <2>1, <2>3 DEF HighestLevel, SmallerOf, Sound, Same
  <2> QED
    BY <2>1, <2>4 DEF SearchInv, FoundNone, Same
<1> QED
  BY <1>1, <1>2

(* A search begins.                                                        *)
LEMMA SearchBegins ==
  ASSUME IInv, NEW t \in Threads, NEW s, NEW l, StartSearch(t, s, l), obj'[t] = s,
         UNCHANGED <<marked, level, cur, maxCopy, updating>>,
         t \notin updating => l = HighestLevel(t) \/ s \notin marked \/ epCopy'[t] \in marked
  PROVE  SearchInv(t)'
<1>1. pc'[t] = "search" /\ lev'[t] = l /\ visited'[t] = {s} /\ top'[t] = {s} \ marked
  BY DEF StartSearch, Goto, IInv, TypeOK
<1>2. HighestLevel(t)' = HighestLevel(t)
  BY DEF HighestLevel, SmallerOf
<1> QED
  BY <1>1, <1>2 DEF SearchInv, Sound

LEMMA BeginsSound ==
  ASSUME IInv, NEW t \in Threads, CopyEntry(t) \/ Descend(t) \/ StartRepair(t)
  PROVE  SearchInv(t)'
<1> USE DEF Goto, deletes, graph, update
<1>0. TypeOK /\ UNCHANGED <<marked, level, cur, maxCopy, updating>>
  BY DEF IInv, CopyEntry, Descend, StartRepair, Fail, place
<1>1. ASSUME pc'[t] \in {"first", "descend", "threw"} PROVE SearchInv(t)'
  BY <1>1 DEF SearchInv
<1>2. CASE CopyEntry(t)
  <2>1. obj' = obj /\ (pc'[t] \in {"first", "descend"} \/ StartSearch(t, obj[t], HighestLevel(t)))
    BY <1>0, <1>2 DEF CopyEntry, StartDescent, TypeOK, HighestLevel
  <2> QED
    BY <1>0, <1>1, <2>1, SearchBegins
<1>3. CASE Descend(t)
  <2>1. \/ pc'[t] = "descend"
        \/ StartSearch(t, obj[t], level[cur[t]]) /\ obj'[t] = obj[t]
    BY <1>0, <1>3 DEF Descend, TypeOK
  <2>2. level[cur[t]] = HighestLevel(t)
    <3>1. Works(t) /\ lev[t] <= maxCopy[t] /\ level[cur[t]] < lev[t]
      BY <1>3 DEF Descend, Works, IInv, PlaceInv
    <3>2. level[cur[t]] \in Int /\ lev[t] \in Int /\ maxCopy[t] \in Int
      BY <3>1, AtWork DEF Levels
    <3> QED
      BY <3>1, <3>2 DEF HighestLevel, SmallerOf
  <2> QED
    BY <1>0, <1>1, <2>1, <2>2, SearchBegins
<1>4. CASE StartRepair(t)
  <2>1. t \in updating
    BY <1>4 DEF StartRepair, IInv, OwnerInv, Owns
  <2>2. \/ pc'[t] \in {"threw", "descend"}
        \/ StartSearch(t, epCopy[t], level[cur[t]]) /\ obj'[t] = epCopy[t]
    BY <1>0, <1>4 DEF StartRepair, StartDescent, Fail, TypeOK
  <2> QED
    BY <1>0, <1>1, <2>1, <2>2, SearchBegins
<1> QED
  BY <1>2, <1>3, <1>4

(* A result is only pushed out by a nearer one.                            *)
LEMMA ExpandSound ==
  ASSUME IInv, NEW t \in Threads, SearchInv(t), Expand(t)
  PROVE  SearchInv(t)'
<1> DEFINE e == Closest(cand[t], cur[t])
           new == links[e][lev[t]] \ visited[t]
<1>0. TypeOK /\ Works(t) /\ pc[t] = "search" /\ UNCHANGED <<marked, level, pc, cur, maxCopy, obj, epCopy, lev, updating>>
  BY DEF IInv, Expand, Works, deletes, graph, place, update
<1>1. cur[t] \in Elements /\ top[t] \in SUBSET Elements /\ cand[t] \in SUBSET Elements
  BY <1>0, AtWork
<1>2. visited'[t] = visited[t] \cup new
      /\ top'[t] = Nearest(top[t] \cup (new \ marked), cur[t], EfConstruction)
  BY <1>0 DEF Expand, TypeOK
<1>3. new \in SUBSET Elements
  <2>1. cand[t] # {}
    BY DEF Expand, SearchOver
  <2>2. e \in Elements
    BY <1>1, <2>1, HasClosest DEF IInv
  <2>3. lev[t] \in Levels
    BY <1>0, AtWork
  <2> QED
    BY <1>0, <2>2, <2>3 DEF TypeOK
<1> HIDE DEF e, new
<1>4. EfConstruction \in Nat /\ EfConstruction # 0
  BY SizeAssumption
<1>5. top[t] \cup (new \ marked) \in SUBSET Elements
  BY <1>1, <1>3
<1>6. top'[t] \subseteq top[t] \cup (new \ marked)
  BY <1>1, <1>2, <1>4, <1>5, NearestBounded DEF IInv
<1>7. top[t] \cup (new \ marked) # {} => top'[t] # {}
  BY <1>1, <1>2, <1>4, <1>5, NearestFull DEF IInv
<1>8. obj[t] \in visited[t] /\ top[t] \cap marked = {} /\ (visited[t] \subseteq marked \/ top[t] # {})
      /\ (t \notin updating => lev[t] = HighestLevel(t) \/ Sound(t))
  BY <1>0 DEF SearchInv
<1>9. top'[t] \cap marked = {} /\ (visited'[t] \subseteq marked \/ top'[t] # {})
  BY <1>2, <1>6, <1>7, <1>8
<1>10. HighestLevel(t)' = HighestLevel(t) /\ Sound(t)' = Sound(t)
  BY <1>0 DEF HighestLevel, SmallerOf, Sound
<1> QED
  BY <1>0, <1>2, <1>8, <1>9, <1>10 DEF SearchInv

(* A selection is empty only if nothing was found and enterpoint_copy is   *)
(* no candidate; the nearest of it is deleted only if enterpoint_copy is.  *)
LEMMA SelectionFull ==
  ASSUME IInv, NEW t \in Threads, Works(t), NEW found \in SUBSET top[t], EntryCopied(t)
  PROVE  LET S == Heuristic(Candidates(t, found), cur[t], M)
         IN  /\ S \in SUBSET Elements
             /\ S = {} => found = {} /\ epCopy[t] \notin marked
             /\ epCopy[t] \in marked \/ S \subseteq found
<1> DEFINE C == Candidates(t, found)
           S == Heuristic(C, cur[t], M)
<1>1. M \in Nat /\ M # 0 /\ EfConstruction \in Nat /\ EfConstruction # 0
  BY SizeAssumption
<1>2. cur[t] \in Elements /\ found \in SUBSET Elements /\ epCopy[t] \in Elements
  BY AtWork, DoneSettled DEF EntryCopied
<1>3. found \cup {epCopy[t]} \in SUBSET Elements /\ found \cup {epCopy[t]} # {}
  BY <1>2
<1>4. CASE epCopy[t] \in marked
  <2>1. C = Nearest(found \cup {epCopy[t]}, cur[t], EfConstruction)
    BY <1>4 DEF Candidates
  <2>2. C \subseteq found \cup {epCopy[t]} /\ C # {}
    BY <1>1, <1>2, <1>3, <2>1, NearestFull, NearestBounded DEF IInv
  <2> HIDE DEF C
  <2>3. C \in SUBSET Elements
    BY <1>3, <2>2
  <2>4. S # {} /\ S \subseteq C
    BY <1>1, <1>2, <2>2, <2>3, HeuristicFull, HeuristicBounded DEF IInv
  <2> HIDE DEF S
  <2>5. S \in SUBSET Elements
    BY <2>3, <2>4
  <2> QED
    BY <1>4, <2>4, <2>5 DEF C, S
<1>5. CASE epCopy[t] \notin marked
  <2>1. C = found
    BY <1>5 DEF Candidates
  <2> HIDE DEF C
  <2>2. S \subseteq found /\ (found # {} => S # {})
    BY <1>1, <1>2, <2>1, HeuristicFull, HeuristicBounded DEF IInv
  <2> HIDE DEF S
  <2> QED
    BY <1>2, <1>5, <2>2 DEF C, S
<1> QED
  BY <1>4, <1>5

LEMMA ConnectSound ==
  ASSUME IInv, NEW t \in Threads, SearchInv(t), pc[t] = "search",
         NEW found \in SUBSET top[t], t \notin updating => found = top[t] /\ SearchOver(t),
         t \in updating => found # {},
         Connect(t, Heuristic(Candidates(t, found), cur[t], M)),
         UNCHANGED <<count, level, vec, entry, deletes>>
  PROVE  SearchInv(t)'
<1> DEFINE S == Heuristic(Candidates(t, found), cur[t], M)
<1>0. TypeOK /\ Works(t) /\ EntryCopied(t)
  BY DEF IInv, Works, PlaceInv
<1>1. /\ S \in SUBSET Elements
      /\ S = {} => found = {} /\ epCopy[t] \notin marked
      /\ epCopy[t] \in marked \/ S \subseteq found
  BY <1>0, SelectionFull
<1>2. Connect(t, S)
  OBVIOUS
<1> HIDE DEF S
<1>3. marked' = marked /\ level' = level /\ updating' = updating /\ cur' = cur /\ maxCopy' = maxCopy
      /\ epCopy' = epCopy
  BY <1>2 DEF deletes, update, Connect, Fail, place
<1>4. CASE S = {}
  <2>1. found = {} /\ epCopy[t] \notin marked /\ t \notin updating /\ top[t] = {} /\ SearchOver(t)
    BY <1>1, <1>4
  <2>2. cand[t] = {}
    <3>1. Cardinality(top[t]) = 0 /\ EfConstruction # 0
      BY <2>1, FS_EmptySet, SizeAssumption
    <3> QED
      BY <2>1, <3>1 DEF SearchOver
  <2>3. pc'[t] = "undefined" /\ obj' = obj /\ lev' = lev /\ cand' = cand /\ visited' = visited
    BY <1>0, <1>2, <1>4 DEF Connect, Fail, Goto, TypeOK, place, queues
  <2>4. obj[t] \in visited[t] /\ visited[t] \subseteq marked
    BY <2>1 DEF SearchInv
  <2>5. lev[t] = HighestLevel(t)
    BY <2>1, <2>4 DEF SearchInv, Sound
  <2>6. FoundNone(t)'
    BY <1>3, <2>1, <2>2, <2>3, <2>4, <2>5 DEF FoundNone, HighestLevel, SmallerOf
  <2> QED
    BY <2>3, <2>6 DEF SearchInv
<1>5. CASE S # {}
  <2>1. pc'[t] = "threw" \/ (pc'[t] = "link" /\ obj'[t] = Closest(S, cur[t]))
    BY <1>0, <1>2, <1>5 DEF Connect, Fail, Goto, TypeOK
  <2>2. pc'[t] = "link" /\ t \notin updating => Sound(t)'
    <3> SUFFICES ASSUME pc'[t] = "link" PROVE Sound(t)'
      OBVIOUS
    <3>1. obj'[t] \in S
      <4>1. cur[t] \in Elements /\ VectorInv
        BY <1>0, AtWork DEF IInv
      <4>2. Closest(S, cur[t]) \in S
        BY <1>1, <1>5, <4>1, HasClosest
      <4> QED
        BY <2>1, <4>2
    <3>2. epCopy[t] \in marked \/ obj'[t] \in top[t]
      BY <1>1, <3>1
    <3>3. top[t] \cap marked = {}
      BY DEF SearchInv
    <3> QED
      BY <1>3, <3>2, <3>3 DEF Sound
  <2> QED
    BY <1>3, <2>1, <2>2 DEF SearchInv
<1> QED
  BY <1>4, <1>5

LEMMA DownSound ==
  ASSUME IInv, NEW t \in Threads, GoDown(t), t \notin updating => Sound(t),
         UNCHANGED <<marked, level, cur, maxCopy, updating, obj, epCopy>>
  PROVE  SearchInv(t)'
<1>1. CASE lev[t] = 0
  <2>1. pc'[t] = "publish"
    BY <1>1 DEF GoDown, Goto, IInv, TypeOK
  <2> QED
    BY <2>1 DEF SearchInv
<1>2. CASE lev[t] # 0
  BY <1>2, SearchBegins DEF GoDown, Sound
<1> QED
  BY <1>1, <1>2

LEMMA SelectSound ==
  ASSUME IInv, NEW t \in Threads, SearchInv(t), Select(t) \/ SelectAgain(t) \/ LinkBack(t)
  PROVE  SearchInv(t)'
<1>0. TypeOK
  BY DEF IInv
<1>1. CASE Select(t)
  <2>1. pc[t] = "search" /\ t \notin updating /\ SearchOver(t)
        /\ Connect(t, Heuristic(Candidates(t, top[t]), cur[t], M))
        /\ UNCHANGED <<count, level, vec, entry, deletes>>
    BY <1>1 DEF Select
  <2> QED
    BY <2>1, ConnectSound
<1>2. CASE SelectAgain(t)
  <2> DEFINE found == top[t] \ {cur[t]}
  <2>1. pc[t] = "search" /\ t \in updating /\ UNCHANGED <<count, level, vec, entry, deletes>>
    BY <1>2 DEF SelectAgain
  <2>2. CASE found = {}
    <3>1. GoDown(t) /\ UNCHANGED <<marked, level, cur, maxCopy, updating, obj, epCopy>>
      BY <1>2, <2>2 DEF SelectAgain, deletes, update
    <3> QED
      BY <2>1, <3>1, DownSound
  <2>3. CASE found # {}
    <3>1. Connect(t, Heuristic(Candidates(t, found), cur[t], M))
      BY <1>2, <2>3 DEF SelectAgain
    <3>2. found \in SUBSET top[t]
      OBVIOUS
    <3> QED
      BY <2>1, <2>3, <3>1, <3>2, ConnectSound
  <2> QED
    BY <2>2, <2>3
<1>3. CASE LinkBack(t)
  <2>1. pc[t] = "link" /\ UNCHANGED <<count, level, vec, entry, deletes>> /\ (t \notin updating => Sound(t))
    BY <1>3 DEF LinkBack, SearchInv
  <2>2. \/ Fail(t, "threw")
        \/ /\ UNCHANGED <<update, cur, maxCopy, obj, epCopy>>
           /\ GoDown(t) \/ UNCHANGED <<pc, lev, queues>>
    BY <1>3 DEF LinkBack
  <2>3. CASE Fail(t, "threw")
    <3>1. pc'[t] = "threw"
      BY <1>0, <2>3 DEF Fail, Goto, TypeOK
    <3> QED
      BY <3>1 DEF SearchInv
  <2>4. CASE UNCHANGED <<update, cur, maxCopy, obj, epCopy>> /\ GoDown(t)
    BY <2>1, <2>4, DownSound DEF update, deletes
  <2>5. CASE UNCHANGED <<update, cur, maxCopy, obj, epCopy>> /\ UNCHANGED <<pc, lev, queues>>
    BY <2>1, <2>5 DEF SearchInv, Sound, update, deletes
  <2> QED
    BY <2>2, <2>3, <2>4, <2>5
<1> QED
  BY <1>1, <1>2, <1>3

LEMMA SearchSound ==
  ASSUME IInv, NEW t \in Threads, SearchInv(t), Moves(t)
  PROVE  SearchInv(t)'
<1>0. TypeOK
  BY DEF IInv
<1>1. CASE \/ Claim(t) \/ Global(t) \/ ReadEntry(t) \/ First(t) \/ Publish(t) \/ CopyEntryForUpdate(t)
           \/ OneHop(t) \/ (\E e \in Elements : TwoHop(t, e) \/ Relink(t, e))
           \/ \E e \in Elements, p \in Places : BeginUpdate(t, e, p)
  <2>1. pc'[t] \notin {"search", "link", "undefined"}
    <3>1. CASE Claim(t) \/ Global(t) \/ ReadEntry(t) \/ First(t) \/ Publish(t) \/ CopyEntryForUpdate(t)
      BY <1>0, <3>1 DEF Claim, Global, ReadEntry, First, Publish, CopyEntryForUpdate, Leave, Goto, TypeOK
    <3>2. CASE OneHop(t)
      BY <1>0, <3>2 DEF OneHop, NextLayer, Goto, TypeOK
    <3>3. CASE \E e \in Elements : TwoHop(t, e)
      BY <1>0, <3>3 DEF TwoHop, Goto, TypeOK
    <3>4. CASE \E e \in Elements : Relink(t, e)
      BY <1>0, <3>4 DEF Relink, NextLayer, Goto, TypeOK
    <3>5. CASE \E e \in Elements, p \in Places : BeginUpdate(t, e, p)
      BY <1>0, <3>5 DEF BeginUpdate, Goto, TypeOK
    <3> QED
      BY <1>1, <3>1, <3>2, <3>3, <3>4, <3>5
  <2> QED
    BY <2>1 DEF SearchInv
<1> QED
  BY <1>1, BeginsSound, ExpandSound, SelectSound DEF Moves, Step

(* With one level, an insertion that finds a complete element does not     *)
(* become the entry point.                                                 *)
LEMMA EntryStays ==
  ASSUME TopLevel = 0, IInv, NEW t \in Threads, Moves(t), Done # {}
  PROVE  enterpoint' = enterpoint
<1> USE DEF entry
<1>1. ~First(t)
  BY DEF First, IInv, EntryInv, Rises
<1>2. CASE Publish(t)
  <2>1. Works(t) /\ pc[t] = "publish"
    BY <1>2 DEF Publish, Works
  <2>2. level[cur[t]] \in Int /\ maxCopy[t] \in Int /\ level[cur[t]] = 0
    BY <2>1, AtWork DEF Levels
  <2>3. ~(level[cur[t]] > maxCopy[t])
    <3>1. CASE t \in updating
      BY <2>2, <3>1 DEF IInv, OwnerInv, Owns
    <3>2. CASE t \notin updating
      <4>1. ASSUME level[cur[t]] > maxCopy[t] PROVE maxCopy[t] = maxlevel
        BY <2>1, <3>2, <4>1 DEF Inserts, IInv, EntryInv, Rises
      <4>2. maxlevel \in Levels
        BY EntryDone
      <4> QED
        BY <2>2, <4>1, <4>2 DEF Levels
    <3> QED
      BY <3>1, <3>2
  <2> QED
    BY <1>2, <2>3 DEF Publish
<1>3. CASE ~Publish(t)
  BY <1>1, <1>3 DEF Moves, Step, Claim, Global, ReadEntry, CopyEntry, Descend, Expand, Select, SelectAgain,
                    LinkBack, CopyEntryForUpdate, OneHop, StartRepair, TwoHop, Relink, BeginUpdate
<1> QED
  BY <1>2, <1>3

LEMMA OneLevelStep ==
  ASSUME TopLevel = 0, IInv, NEW t \in Threads, Moves(t), \A u \in Threads : OneLevel(u), SearchInv(t)'
  PROVE  \A u \in Threads : OneLevel(u)'
<1> USE DEF Goto, update
<1>0. TypeOK /\ \A u \in Threads \ {t} : Same(u)
  BY OthersSame DEF Moves, IInv
<1>1. ASSUME NEW u \in Threads \ {t} PROVE OneLevel(u)'
  <2>1. pc[u] = "copy" /\ obj[u] # None => enterpoint' = enterpoint
    BY EntryStays DEF IInv, PlaceInv
  <2> QED
    BY <1>0, <2>1 DEF OneLevel, Same
<1>2. OneLevel(t)'
  <2>1. CASE CopyEntry(t)
    <3>1. epCopy'[t] = enterpoint /\ obj'[t] = obj[t] /\ pc[t] = "copy"
          /\ (pc'[t] = "search" => obj[t] # None) /\ pc'[t] \in {"first", "descend", "search"}
      BY <1>0, <2>1 DEF CopyEntry, StartDescent, StartSearch, TypeOK
    <3> QED
      BY <3>1 DEF OneLevel
  <2>2. ~Descend(t)
    <3> SUFFICES ASSUME Descend(t) PROVE FALSE
      OBVIOUS
    <3>1. Works(t) /\ level[cur[t]] < lev[t]
      BY DEF Descend, Works, IInv, PlaceInv
    <3>2. lev[t] = 0 /\ level[cur[t]] = 0
      BY <3>1, AtWork DEF Levels
    <3> QED
      BY <3>1, <3>2
  <2>3. CASE Expand(t)
    BY <2>3 DEF Expand, OneLevel, place
  <2>4. CASE Select(t)
    <3>1. pc[t] = "search" /\ t \notin updating /\ pc'[t] \in {"undefined", "threw", "link"}
          /\ (pc'[t] = "undefined" => obj' = obj /\ epCopy' = epCopy)
      BY <1>0, <2>4 DEF Select, Connect, Fail, TypeOK, place
    <3> QED
      BY <3>1 DEF OneLevel
  <2>5. CASE SelectAgain(t) \/ StartRepair(t)
    <3>1. t \in updating /\ updating' = updating /\ pc'[t] # "copy"
      BY <1>0, <2>5 DEF SelectAgain, StartRepair, StartDescent, StartSearch, GoDown, Connect, Fail,
                        TypeOK, IInv, OwnerInv, Owns
    <3>2. pc'[t] # "undefined"
      BY <3>1 DEF SearchInv, FoundNone
    <3> QED
      BY <3>1, <3>2 DEF OneLevel
  <2>6. CASE LinkBack(t)
    <3>1. pc[t] = "link" /\ lev[t] = 0
      BY <1>0, <2>6 DEF LinkBack, TypeOK, Levels
    <3>2. pc'[t] \in {"link", "publish", "threw"}
      BY <1>0, <2>6, <3>1 DEF LinkBack, GoDown, Fail, TypeOK
    <3> QED
      BY <3>2 DEF OneLevel
  <2>7. CASE Claim(t) \/ Global(t) \/ ReadEntry(t) \/ First(t) \/ Publish(t) \/ CopyEntryForUpdate(t)
    BY <1>0, <2>7 DEF Claim, Global, ReadEntry, First, Publish, CopyEntryForUpdate, Leave, TypeOK,
                      entry, OneLevel
  <2>8. CASE OneHop(t) \/ \E e \in Elements : TwoHop(t, e) \/ Relink(t, e)
    <3>1. pc'[t] \in {"onehop", "twohop", "relink", "repair"}
      <4>1. CASE OneHop(t)
        BY <1>0, <4>1 DEF OneHop, NextLayer, TypeOK
      <4>2. CASE \E e \in Elements : TwoHop(t, e)
        BY <1>0, <4>2 DEF TwoHop, TypeOK
      <4>3. CASE \E e \in Elements : Relink(t, e)
        BY <1>0, <4>3 DEF Relink, NextLayer, TypeOK
      <4> QED
        BY <2>8, <4>1, <4>2, <4>3
    <3> QED
      BY <3>1 DEF OneLevel
  <2>9. CASE \E e \in Elements, p \in Places : BeginUpdate(t, e, p)
    BY <1>0, <2>9 DEF BeginUpdate, TypeOK, OneLevel
  <2> QED
    BY <2>1, <2>2, <2>3, <2>4, <2>5, <2>6, <2>7, <2>8, <2>9 DEF Moves, Step
<1> QED
  BY <1>1, <1>2

LEMMA MarkStep ==
  ASSUME IInv, MarkInv, [Next]_vars
  PROVE  MarkInv'
<1>1. ASSUME NEW t \in Threads, Moves(t) PROVE MarkInv'
  <2>1. (marked' = marked \/ Idle) /\ marked' \subseteq marked
        /\ \A e \in Elements : e < count => level'[e] = level[e]
    BY <1>1, MarksStay
  <2>2. \A u \in Threads \ {t} : Same(u)
    BY <1>1, OthersSame DEF Moves, IInv
  <2>3. \A u \in Threads \ {t} : SearchInv(u)'
    BY <2>1, <2>2, MarksBeside DEF MarkInv
  <2>4. SearchInv(t)'
    BY <1>1, SearchSound DEF MarkInv
  <2>5. TopLevel = 0 => \A u \in Threads : OneLevel(u)'
    BY <1>1, <2>4, OneLevelStep DEF MarkInv
  <2>6. MaxMarks = 0 => marked' = {}
    BY <2>1 DEF MarkInv
  <2> QED
    BY <2>3, <2>4, <2>5, <2>6 DEF MarkInv
<1>2. ASSUME NEW e \in Elements, SetMark(e) PROVE MarkInv'
  <2>1. \A t \in Threads : pc'[t] = "idle"
    BY <1>2 DEF SetMark, Idle
  <2>2. MaxMarks # 0
    BY <1>2, SizeAssumption DEF SetMark, IInv, TypeOK
  <2> QED
    BY <2>1, <2>2 DEF MarkInv, SearchInv, OneLevel
<1>3. CASE UNCHANGED vars
  BY <1>3 DEF vars, graph, entry, deletes, update, place, queues, MarkInv, SearchInv, OneLevel, FoundNone,
              HighestLevel, SmallerOf, Sound
<1> QED
  BY <1>1, <1>2, <1>3 DEF Moves, Next, Terminated

LEMMA MarkInvariance == Spec => []MarkInv
<1>1. Init => MarkInv
  BY DEF Init, MarkInv, SearchInv, OneLevel
<1>2. IInv /\ MarkInv /\ [Next]_vars => MarkInv'
  BY MarkStep
<1> QED
  BY <1>1, <1>2, Invariance, PTL DEF Spec

(* When back() of an empty selection is taken, with elements deleted: never*)
(* by an update, and by an insertion only at the highest level it links at,*)
(* when its search, which began at an element other than enterpoint_copy,  *)
(* has come to deleted elements only and enterpoint_copy is not deleted.   *)
THEOREM SelectionFails ==
  Spec => [](\A t \in Threads : pc[t] = "undefined" =>
               FoundNone(t) /\ obj[t] # epCopy[t])
<1>1. MarkInv => \A t \in Threads : pc[t] = "undefined" => FoundNone(t) /\ obj[t] # epCopy[t]
  BY DEF MarkInv, SearchInv, FoundNone
<1> QED
  BY <1>1, MarkInvariance, PTL

(* There is always an element to link a new or an updated element to, for  *)
(* every number of threads, elements, deletions and updates, where all     *)
(* elements are on one level; and on any number of levels as long as       *)
(* nothing is deleted.                                                     *)
THEOREM SelectionNotEmptyHolds ==
  Spec => [](TopLevel = 0 \/ MaxMarks = 0 => SelectionNotEmpty)
<1>1. MarkInv => (TopLevel = 0 \/ MaxMarks = 0 => SelectionNotEmpty)
  BY DEF MarkInv, SearchInv, OneLevel, FoundNone, SelectionNotEmpty
<1> QED
  BY <1>1, MarkInvariance, PTL

-----------------------------------------------------------------------------
(* What is left of an operation: stages, which it passes one after the     *)
(* other, and within a stage the elements it has still to do with. A later *)
(* stage may have more of them than an earlier one, so a stage counts for  *)
(* more than all elements that can be left in it.                          *)
StageAt(p, l) ==
  CASE p = "publish" -> 1
    [] p = "first"   -> 2
    [] p = "link"    -> 2 * l + 3
    [] p = "search"  -> 2 * l + 4
    [] p = "descend" -> 2 * TopLevel + 5 + l
    [] p \in {"copy", "repair"} -> 3 * TopLevel + 6
    [] p = "entry"   -> 3 * TopLevel + 7
    [] p = "global"  -> 3 * TopLevel + 8
    [] p = "relink"  -> 3 * TopLevel + 7 + 3 * (TopLevel - l)
    [] p = "twohop"  -> 3 * TopLevel + 8 + 3 * (TopLevel - l)
    [] p = "onehop"  -> 3 * TopLevel + 9 + 3 * (TopLevel - l)
    [] p = "upentry" -> 6 * TopLevel + 10
    [] OTHER -> 0
Stage(t) == StageAt(pc[t], lev[t])

(* A descent comes nearer to its element with every pass over a list; a    *)
(* search visits no element twice, and takes up a candidate once.          *)
Ahead(a, q) == {b \in Elements : Dist(b, q) < Dist(a, q)}
Rest(t) ==
  CASE pc[t] = "descend" -> Cardinality(Ahead(obj[t], cur[t]))
    [] pc[t] = "search"  -> Cardinality(Elements \ visited[t]) + Cardinality(cand[t])
    [] pc[t] \in {"link", "twohop", "relink"} -> Cardinality(todo[t])
    [] OTHER -> 0

Left(t) == Stage(t) * (2 * MaxElements + 1) + Rest(t)

(* Every step of an operation brings it nearer to its end, whatever other  *)
(* threads do to the lists it reads, and nothing that others do takes it   *)
(* farther away.                                                           *)
Progress ==
  [][\A t \in Threads : IF Step(t) THEN Left(t)' < Left(t)
                        ELSE pc[t] # "idle" => Left(t)' = Left(t)]_vars

LEMMA StageRange ==
  \A p \in Points, l \in Levels : StageAt(p, l) \in Nat
<1> SUFFICES ASSUME NEW p \in Points, NEW l \in Levels PROVE StageAt(p, l) \in Nat
  OBVIOUS
<1>1. TopLevel \in Nat /\ l \in Nat /\ TopLevel - l \in Nat
  BY SizeAssumption DEF Levels
<1> QED
  BY <1>1 DEF StageAt, Points

LEMMA Sizes ==
  ASSUME NEW S \in SUBSET Elements
  PROVE  Cardinality(S) \in Nat /\ Cardinality(S) <= MaxElements /\ MaxElements \in Nat
<1>1. MaxElements \in Nat /\ 0 \in Int /\ MaxElements - 1 \in Int
  BY SizeAssumption
<1>2. Cardinality(Elements) = MaxElements
  <2>1. Cardinality(Elements) = IF 0 > MaxElements - 1 THEN 0 ELSE (MaxElements - 1) - 0 + 1
    BY <1>1, FS_Interval DEF Elements
  <2> QED
    BY <1>1, <2>1
<1>3. Elements \in SUBSET Elements
  OBVIOUS
<1>4. Cardinality(S) \in Nat /\ Cardinality(S) <= Cardinality(Elements)
  BY <1>3, Finite
<1> QED
  BY <1>1, <1>2, <1>4

LEMMA LeftRange ==
  ASSUME TypeOK, NEW t \in Threads
  PROVE  Rest(t) \in 0..(2 * MaxElements) /\ Stage(t) \in Nat
<1>1. /\ pc[t] \in Points /\ lev[t] \in Levels
      /\ cand[t] \in SUBSET Elements /\ todo[t] \in SUBSET Elements
  BY DEF TypeOK, Points
<1>2. Elements \ visited[t] \in SUBSET Elements /\ Ahead(obj[t], cur[t]) \in SUBSET Elements
  BY DEF Ahead
<1> DEFINE a == Cardinality(Ahead(obj[t], cur[t]))
           b == Cardinality(Elements \ visited[t])
           c == Cardinality(cand[t])
           d == Cardinality(todo[t])
<1>3. /\ a \in Nat /\ b \in Nat /\ c \in Nat /\ d \in Nat /\ MaxElements \in Nat
      /\ a <= MaxElements /\ b <= MaxElements /\ c <= MaxElements /\ d <= MaxElements
  BY <1>1, <1>2, Sizes
<1>4. Rest(t) \in {a, b + c, d, 0}
  BY DEF Rest
<1> HIDE DEF a, b, c, d
<1>5. Rest(t) \in 0..(2 * MaxElements)
  BY <1>3, <1>4
<1> QED
  BY <1>1, <1>5, StageRange DEF Stage

(* The same after a step.                                                  *)
LEMMA LeftRangeNext ==
  ASSUME TypeOK', NEW t \in Threads
  PROVE  Rest(t)' \in 0..(2 * MaxElements) /\ Stage(t)' \in Nat
<1>1. /\ pc'[t] \in Points /\ lev'[t] \in Levels
      /\ cand'[t] \in SUBSET Elements /\ todo'[t] \in SUBSET Elements
  BY DEF TypeOK, Points
<1>2. Elements \ visited'[t] \in SUBSET Elements /\ Ahead(obj[t], cur[t])' \in SUBSET Elements
  BY DEF Ahead
<1> DEFINE a == Cardinality(Ahead(obj[t], cur[t])')
           b == Cardinality(Elements \ visited'[t])
           c == Cardinality(cand'[t])
           d == Cardinality(todo'[t])
<1>3. /\ a \in Nat /\ b \in Nat /\ c \in Nat /\ d \in Nat /\ MaxElements \in Nat
      /\ a <= MaxElements /\ b <= MaxElements /\ c <= MaxElements /\ d <= MaxElements
  BY <1>1, <1>2, Sizes
<1>4. Rest(t)' \in {a, b + c, d, 0}
  BY DEF Rest
<1> HIDE DEF a, b, c, d
<1>5. Rest(t)' \in 0..(2 * MaxElements)
  BY <1>3, <1>4
<1> QED
  BY <1>1, <1>5, StageRange DEF Stage

(* The order of stages, and of what is left within one.                    *)
LEMMA StagesFirst ==
  ASSUME NEW n \in Nat, NEW s \in Nat, NEW z \in Nat, NEW r \in 0..n, NEW y \in 0..n,
         z < s \/ (z = s /\ y < r)
  PROVE  z * (n + 1) + y < s * (n + 1) + r
<1>1. CASE z = s /\ y < r
  <2> DEFINE p == s * (n + 1)
  <2>1. p \in Int
    OBVIOUS
  <2>2. z * (n + 1) = p
    BY <1>1
  <2> HIDE DEF p
  <2>3. p + y < p + r
    BY <1>1, <2>1
  <2> QED
    BY <2>2, <2>3 DEF p
<1>2. CASE z < s
  <2> DEFINE d == s - z - 1
             k == n + 1
             a == z * k
             b == d * k
  <2>1. d \in Nat /\ k \in Nat /\ s = z + d + 1
    BY <1>2
  <2>2. a \in Nat /\ b \in Nat
    BY <2>1
  <2>3. s * k = a + b + k
    <3>1. s * k = (z + d + 1) * k
      BY <2>1
    <3> HIDE DEF d, k
    <3>2. (z + d + 1) * k = z * k + d * k + k
      BY <2>1
    <3> QED
      BY <3>1, <3>2
  <2>4. k = n + 1
    OBVIOUS
  <2> HIDE DEF d, a, b, k
  <2>5. a + y < a + b + k + r
    BY <2>1, <2>2, <2>4
  <2> QED
    BY <2>3, <2>4, <2>5 DEF a
<1> QED
  BY <1>1, <1>2

LEMMA LessLeft ==
  ASSUME TypeOK, TypeOK', NEW t \in Threads,
         Stage(t)' < Stage(t) \/ (Stage(t)' = Stage(t) /\ Rest(t)' < Rest(t))
  PROVE  Left(t)' < Left(t)
<1> DEFINE n == 2 * MaxElements
           s == Stage(t)
           z == Stage(t)'
           r == Rest(t)
           y == Rest(t)'
<1>1. n \in Nat /\ s \in Nat /\ z \in Nat /\ r \in 0..n /\ y \in 0..n
  BY LeftRange, LeftRangeNext, SizeAssumption
<1>2. z < s \/ (z = s /\ y < r)
  OBVIOUS
<1>3. Left(t) = s * (n + 1) + r
  BY DEF Left
<1>4. Left(t)' = z * (n + 1) + y
  BY DEF Left
<1> HIDE DEF n, s, z, r, y
<1>5. z * (n + 1) + y < s * (n + 1) + r
  BY <1>1, <1>2, StagesFirst
<1> QED
  BY <1>3, <1>4, <1>5

(* A step nearer to the end: to a later stage, or further within one.      *)
Advances(t) == Stage(t)' < Stage(t) \/ (Stage(t)' = Stage(t) /\ Rest(t)' < Rest(t))

(* The order of the stages.                                                *)
LEMMA StageOrder ==
  ASSUME NEW l \in Levels, NEW k \in Levels
  PROVE  /\ \A p \in {"publish", "idle", "threw", "undefined"} : StageAt(p, k) < StageAt("link", l)
         /\ StageAt("idle", k) < StageAt("publish", l)
         /\ StageAt("publish", k) < StageAt("first", l)
         /\ \A p \in {"publish", "threw", "undefined"} : StageAt(p, k) < StageAt("search", l)
         /\ StageAt("link", l) < StageAt("search", l)
         /\ k < l => StageAt("search", k) < StageAt("link", l) /\ StageAt("search", k) < StageAt("search", l)
         /\ StageAt("search", k) < StageAt("descend", l)
         /\ k < l => StageAt("descend", k) < StageAt("descend", l)
         /\ \A p \in {"first", "descend", "search", "threw"}, q \in {"copy", "repair"} :
              StageAt(p, k) < StageAt(q, l)
         /\ StageAt("copy", k) < StageAt("entry", l)
         /\ StageAt("entry", k) < StageAt("global", l)
         /\ \A p \in {"relink", "onehop"} : StageAt("repair", k) < StageAt(p, l)
         /\ l < k => StageAt("onehop", k) < StageAt("relink", l) /\ StageAt("onehop", k) < StageAt("onehop", l)
         /\ StageAt("relink", l) < StageAt("twohop", l)
         /\ StageAt("twohop", l) < StageAt("onehop", l)
         /\ \A p \in {"idle", "onehop"} : StageAt(p, k) < StageAt("upentry", l)
<1>1. /\ TopLevel \in Nat /\ l \in Nat /\ k \in Nat /\ l <= TopLevel /\ k <= TopLevel
  BY SizeAssumption DEF Levels
<1> QED
  BY <1>1 DEF StageAt

LEMMA OneLess ==
  ASSUME TypeOK, NEW t \in Threads, NEW e \in Elements, e \in todo[t], todo'[t] = todo[t] \ {e},
         pc[t] \in {"link", "twohop", "relink"}, pc'[t] = pc[t], lev'[t] = lev[t]
  PROVE  Advances(t)
<1>1. todo[t] \in SUBSET Elements
  BY DEF TypeOK
<1>2. Cardinality(todo[t]) = Cardinality(todo[t] \ {e}) + 1 /\ Cardinality(todo[t]) \in Nat
      /\ Cardinality(todo[t] \ {e}) \in Nat
  BY <1>1, Finite
<1>3. Rest(t) = Cardinality(todo[t])
  BY DEF Rest
<1>4. Rest(t)' = Cardinality(todo[t] \ {e})
  BY DEF Rest
<1>5. Stage(t)' = Stage(t)
  BY DEF Stage
<1> QED
  BY <1>2, <1>3, <1>4, <1>5 DEF Advances

LEMMA StartsAdvances ==
  ASSUME IInv, IInv', NEW t \in Threads,
         Global(t) \/ ReadEntry(t) \/ CopyEntry(t) \/ First(t) \/ StartRepair(t)
           \/ Publish(t) \/ CopyEntryForUpdate(t)
  PROVE  Advances(t)
<1>0. TypeOK /\ lev[t] \in Levels /\ lev'[t] \in Levels
  BY DEF IInv, TypeOK
<1>1. \/ pc[t] = "global" /\ pc'[t] = "entry"
      \/ pc[t] = "entry" /\ pc'[t] = "copy"
      \/ pc[t] = "first" /\ pc'[t] = "publish"
      \/ pc[t] \in {"copy", "repair"} /\ pc'[t] \in {"first", "descend", "search", "threw"}
      \/ pc[t] = "publish" /\ pc'[t] = "idle"
      \/ pc[t] = "upentry" /\ pc'[t] \in {"idle", "onehop"}
  <2>1. CASE Global(t) \/ ReadEntry(t) \/ First(t)
    BY <1>0, <2>1 DEF Global, ReadEntry, First, Goto, TypeOK
  <2>2. CASE CopyEntry(t)
    BY <1>0, <2>2 DEF CopyEntry, StartDescent, StartSearch, Goto, TypeOK
  <2>3. CASE StartRepair(t)
    BY <1>0, <2>3 DEF StartRepair, StartDescent, StartSearch, Fail, Goto, TypeOK
  <2>4. CASE Publish(t) \/ CopyEntryForUpdate(t)
    BY <1>0, <2>4 DEF Publish, CopyEntryForUpdate, Leave, Goto, TypeOK
  <2> QED
    BY <2>1, <2>2, <2>3, <2>4
<1>2. Stage(t) = StageAt(pc[t], lev[t]) /\ Stage(t)' = StageAt(pc'[t], lev'[t])
  BY DEF Stage
<1> QED
  BY <1>0, <1>1, <1>2, StageOrder DEF Advances

LEMMA HopsAdvances ==
  ASSUME IInv, IInv', NEW t \in Threads,
         OneHop(t) \/ \E e \in Elements : TwoHop(t, e) \/ Relink(t, e)
  PROVE  Advances(t)
<1>0. TypeOK /\ lev[t] \in Levels /\ lev'[t] \in Levels
  BY DEF IInv, TypeOK
<1>1. Stage(t) = StageAt(pc[t], lev[t]) /\ Stage(t)' = StageAt(pc'[t], lev'[t])
  BY DEF Stage
<1>2. ASSUME NextLayer(t), pc[t] \in {"onehop", "relink"} PROVE Advances(t)
  <2>1. (pc'[t] = "onehop" /\ lev'[t] = lev[t] + 1) \/ pc'[t] = "repair"
    BY <1>0, <1>2 DEF NextLayer, Goto, TypeOK
  <2>2. lev[t] < lev[t] + 1
    BY <1>0 DEF Levels
  <2> QED
    BY <1>0, <1>1, <1>2, <2>1, <2>2, StageOrder DEF Advances
<1>3. CASE OneHop(t)
  <2>1. pc[t] = "onehop" /\ (NextLayer(t) \/ (pc'[t] = "twohop" /\ lev' = lev))
    BY <1>0, <1>3 DEF OneHop, Goto, TypeOK
  <2> QED
    BY <1>0, <1>1, <1>2, <2>1, StageOrder DEF Advances
<1>4. ASSUME NEW e \in Elements, TwoHop(t, e) PROVE Advances(t)
  <2>1. /\ pc[t] = "twohop" /\ e \in todo[t] /\ lev' = lev
        /\ (pc'[t] = "relink") \/ (pc' = pc /\ todo'[t] = todo[t] \ {e})
    BY <1>0, <1>4 DEF TwoHop, Goto, TypeOK, place
  <2> QED
    BY <1>0, <1>1, <2>1, OneLess, StageOrder DEF Advances
<1>5. ASSUME NEW e \in Elements, Relink(t, e) PROVE Advances(t)
  <2>1. /\ pc[t] = "relink" /\ e \in todo[t] /\ todo'[t] = todo[t] \ {e}
        /\ NextLayer(t) \/ (pc' = pc /\ lev' = lev)
    BY <1>0, <1>5 DEF Relink, TypeOK
  <2> QED
    BY <1>0, <1>2, <2>1, OneLess
<1> QED
  BY <1>3, <1>4, <1>5

(* A pass over a list finds something nearer, or goes down.                *)
LEMMA DescendAdvances ==
  ASSUME IInv, IInv', NEW t \in Threads, Descend(t)
  PROVE  Advances(t)
<1> DEFINE next == Closest({obj[t]} \cup links[obj[t]][lev[t]], cur[t])
<1>0. TypeOK /\ lev[t] \in Levels /\ lev'[t] \in Levels /\ pc[t] = "descend" /\ Works(t) /\ VectorInv
  BY DEF IInv, TypeOK, Descend, Works
<1>1. Stage(t) = StageAt("descend", lev[t]) /\ Stage(t)' = StageAt(pc'[t], lev'[t])
  BY <1>0 DEF Stage
<1>2. obj'[t] = next /\ vec' = vec /\ cur' = cur
  BY <1>0 DEF Descend, TypeOK, graph
<1>3. obj[t] \in Elements /\ cur[t] \in Elements /\ links[obj[t]][lev[t]] \in SUBSET Elements
  <2>1. obj[t] \in Elements
    BY <1>0 DEF IInv, PlaceInv, Has
  <2> QED
    BY <1>0, <2>1, AtWork DEF TypeOK
<1>4. next \in Elements /\ Dist(next, cur[t]) <= Dist(obj[t], cur[t])
  <2> DEFINE S == {obj[t]} \cup links[obj[t]][lev[t]]
  <2>1. S \in SUBSET Elements /\ S # {} /\ obj[t] \in S
    BY <1>3
  <2> HIDE DEF S
  <2>2. Closest(S, cur[t]) \in S /\ \A b \in S : Dist(Closest(S, cur[t]), cur[t]) <= Dist(b, cur[t])
    BY <1>0, <1>3, <2>1, HasClosest
  <2>3. Closest(S, cur[t]) \in Elements /\ Dist(Closest(S, cur[t]), cur[t]) <= Dist(obj[t], cur[t])
    BY <2>1, <2>2
  <2> QED
    BY <2>3 DEF S
<1>5. CASE next # obj[t]
  <2>1. pc' = pc /\ lev' = lev
    BY <1>5 DEF Descend
  <2> HIDE DEF next
  <2>2. /\ Dist(next, cur[t]) \in Nat /\ Dist(obj[t], cur[t]) \in Nat
        /\ Dist(next, cur[t]) # Dist(obj[t], cur[t])
    BY <1>0, <1>3, <1>4, <1>5, Distances
  <2>3. \A b \in Elements : Dist(b, cur[t]) \in Nat
    BY <1>0, <1>3, Distances
  <2> DEFINE A == Ahead(next, cur[t])
             B == Ahead(obj[t], cur[t])
  <2>4. A \subseteq B /\ next \in B /\ next \notin A
    BY <1>4, <2>2, <2>3 DEF Ahead
  <2>5. B \in SUBSET Elements
    BY DEF Ahead
  <2>6. Rest(t) = Cardinality(B)
    BY <1>0 DEF Rest
  <2>7. Rest(t)' = Cardinality(A)
    BY <1>0, <1>2, <2>1 DEF Rest, Ahead, Dist
  <2>8. Stage(t)' = Stage(t)
    BY <2>1 DEF Stage
  <2> HIDE DEF A, B
  <2>9. Cardinality(A) < Cardinality(B)
    BY <2>4, <2>5, Finite
  <2> QED
    BY <2>6, <2>7, <2>8, <2>9 DEF Advances
<1>6. CASE next = obj[t]
  <2>1. \/ pc' = pc /\ lev'[t] = lev[t] - 1
        \/ pc'[t] = "search" /\ lev'[t] = level[cur[t]]
    BY <1>0, <1>6 DEF Descend, StartSearch, Goto, TypeOK
  <2>2. lev[t] - 1 < lev[t]
    BY <1>0 DEF Levels
  <2> QED
    BY <1>0, <1>1, <2>1, <2>2, StageOrder DEF Advances
<1> QED
  BY <1>5, <1>6

(* What a search visits anew it takes up once, as a candidate.             *)
LEMMA ExpandAdvances ==
  ASSUME IInv, IInv', NEW t \in Threads, Expand(t)
  PROVE  Advances(t)
<1> DEFINE e == Closest(cand[t], cur[t])
           new == links[e][lev[t]] \ visited[t]
           V == Elements \ visited[t]
           C == cand[t] \ {e}
<1>0. TypeOK /\ pc[t] = "search" /\ Works(t) /\ VectorInv /\ lev' = lev /\ pc' = pc
  BY DEF IInv, Expand, Works, place
<1>1. cand[t] # {} /\ cand[t] \in SUBSET Elements /\ cur[t] \in Elements /\ lev[t] \in Levels
      /\ visited[t] \in SUBSET Elements
  BY <1>0, AtWork DEF Expand, SearchOver
<1>2. e \in cand[t]
  BY <1>0, <1>1, HasClosest
<1>3. new \in SUBSET Elements
  BY <1>0, <1>1, <1>2 DEF TypeOK
<1>4. cand'[t] = C \cup new /\ visited'[t] = visited[t] \cup new
  BY <1>0 DEF Expand, TypeOK
<1>5. Elements \ visited'[t] = V \ new /\ new \subseteq V /\ V \in SUBSET Elements
  BY <1>3, <1>4
<1> HIDE DEF e, new, V
<1>6. Cardinality(V) = Cardinality(V \ new) + Cardinality(new)
  <2>1. IsFiniteSet(V) /\ IsFiniteSet(new) /\ IsFiniteSet(V \ new)
    BY <1>5, <1>3, Finite
  <2>2. V = (V \ new) \cup new /\ (V \ new) \cap new = {}
    BY <1>5
  <2>3. Cardinality((V \ new) \cup new) =
          Cardinality(V \ new) + Cardinality(new) - Cardinality((V \ new) \cap new)
    BY <2>1, FS_Union
  <2>4. Cardinality({}) = 0
    BY FS_EmptySet
  <2>5. Cardinality(V \ new) \in Nat /\ Cardinality(new) \in Nat
    BY <1>3, <1>5, Finite
  <2>6. Cardinality((V \ new) \cap new) = 0
    BY <2>2, <2>4
  <2>7. Cardinality(V) = Cardinality((V \ new) \cup new)
    BY <2>2
  <2> QED
    BY <2>3, <2>5, <2>6, <2>7
<1>7. Cardinality(cand[t]) = Cardinality(C) + 1
  BY <1>1, <1>2, Finite
<1> HIDE DEF C
<1>8. Cardinality(C \cup new) <= Cardinality(C) + Cardinality(new)
  <2>1. C \in SUBSET Elements
    BY <1>1 DEF C
  <2>2. IsFiniteSet(C) /\ IsFiniteSet(new)
    BY <1>3, <2>1, Finite
  <2>3. Cardinality(C \cup new) = Cardinality(C) + Cardinality(new) - Cardinality(C \cap new)
    BY <2>2, FS_Union
  <2>4. C \cap new \in SUBSET Elements
    BY <1>3
  <2>5. Cardinality(C) \in Nat /\ Cardinality(new) \in Nat /\ Cardinality(C \cap new) \in Nat
    BY <1>3, <2>1, <2>4, Finite
  <2> QED
    BY <2>3, <2>5
<1>9. /\ Cardinality(V) \in Nat /\ Cardinality(V \ new) \in Nat /\ Cardinality(new) \in Nat
      /\ Cardinality(C) \in Nat /\ Cardinality(C \cup new) \in Nat
  <2>1. V \ new \in SUBSET Elements /\ C \in SUBSET Elements /\ C \cup new \in SUBSET Elements
    BY <1>1, <1>3, <1>5 DEF C
  <2> QED
    BY <1>3, <1>5, <2>1, Finite
<1>10. Rest(t) = Cardinality(V) + Cardinality(cand[t])
  BY <1>0 DEF Rest, V
<1>11. Rest(t)' = Cardinality(V \ new) + Cardinality(C \cup new)
  BY <1>0, <1>4, <1>5 DEF Rest
<1>12. Rest(t)' < Rest(t)
  BY <1>6, <1>7, <1>8, <1>9, <1>10, <1>11
<1>13. Stage(t)' = Stage(t)
  BY <1>0 DEF Stage
<1> QED
  BY <1>12, <1>13 DEF Advances

LEMMA LinksAdvances ==
  ASSUME IInv, IInv', NEW t \in Threads, Select(t) \/ SelectAgain(t) \/ LinkBack(t)
  PROVE  Advances(t)
<1>0. TypeOK /\ lev[t] \in Levels /\ lev'[t] \in Levels
  BY DEF IInv, TypeOK
<1>1. Stage(t) = StageAt(pc[t], lev[t]) /\ Stage(t)' = StageAt(pc'[t], lev'[t])
  BY DEF Stage
<1>2. CASE LinkBack(t)
  <2>1. PICK e \in Elements : \E S : Adds(t, e, S)
    BY <1>2, AddsStep
  <2>2. /\ pc[t] = "link" /\ e \in todo[t] /\ todo'[t] = todo[t] \ {e}
        /\ \/ pc'[t] = "link" /\ lev'[t] = lev[t]
           \/ pc'[t] = "publish"
           \/ pc'[t] = "search" /\ lev'[t] = lev[t] - 1
    BY <2>1 DEF Adds
  <2>3. lev[t] - 1 < lev[t]
    BY <1>0 DEF Levels
  <2> QED
    BY <1>0, <1>1, <2>2, <2>3, OneLess, StageOrder DEF Advances
<1>3. CASE Select(t) \/ SelectAgain(t)
  <2>1. /\ pc[t] = "search"
        /\ \/ \E found : Connect(t, Heuristic(Candidates(t, found), cur[t], M))
           \/ GoDown(t)
    BY <1>3 DEF Select, SelectAgain
  <2>2. \/ pc'[t] \in {"undefined", "threw", "publish"}
        \/ pc'[t] = "link" /\ lev'[t] = lev[t]
        \/ pc'[t] = "search" /\ lev'[t] = lev[t] - 1
    <3>1. ASSUME NEW S, Connect(t, S)
          PROVE  pc'[t] \in {"undefined", "threw"} \/ (pc'[t] = "link" /\ lev' = lev)
      BY <1>0, <3>1 DEF Connect, Fail, Goto, TypeOK
    <3>2. GoDown(t) => pc'[t] = "publish" \/ (pc'[t] = "search" /\ lev'[t] = lev[t] - 1)
      BY <1>0 DEF GoDown, StartSearch, Goto, TypeOK
    <3> QED
      BY <2>1, <3>1, <3>2
  <2>3. lev[t] - 1 < lev[t]
    BY <1>0 DEF Levels
  <2> QED
    BY <1>0, <1>1, <2>1, <2>2, <2>3, StageOrder DEF Advances
<1> QED
  BY <1>2, <1>3

LEMMA StepAdvances ==
  ASSUME IInv, IInv', NEW t \in Threads, Step(t)
  PROVE  Left(t)' < Left(t)
<1>1. Advances(t)
  BY StartsAdvances, HopsAdvances, DescendAdvances, ExpandAdvances, LinksAdvances DEF Step
<1> QED
  BY <1>1, LessLeft DEF Advances, IInv

(* A vector moves only while no operation is under way.                    *)
LEMMA OthersWait ==
  ASSUME IInv, [Next]_vars, NEW t \in Threads, ~Step(t), pc[t] # "idle"
  PROVE  Left(t)' = Left(t)
<1> USE DEF graph, place, queues, vars
<1>0. TypeOK
  BY DEF IInv
<1>1. ASSUME Same(t), vec' = vec PROVE Left(t)' = Left(t)
  BY <1>1 DEF Same, Left, Stage, Rest, Ahead, Dist
<1>2. ASSUME NEW u \in Threads, Claim(u) \/ Step(u) PROVE Left(t)' = Left(t)
  <2>1. u # t
    BY <1>2 DEF Claim
  <2>2. Same(t)
    BY <1>0, <1>2, <2>1, OthersSame
  <2>3. vec' = vec
    BY <1>2 DEF Claim, Step, Global, ReadEntry, CopyEntry, First, CopyEntryForUpdate, Leave, OneHop,
       StartRepair, TwoHop, Relink, Descend, Expand, Select, SelectAgain, LinkBack, Publish
  <2> QED
    BY <1>1, <2>2, <2>3
<1>3. ASSUME NEW u \in Threads, NEW e \in Elements, NEW p \in Places, BeginUpdate(u, e, p)
      PROVE  Left(t)' = Left(t)
  <2>1. u # t
    BY <1>3 DEF BeginUpdate
  <2>2. Same(t)
    BY <1>0, <1>3, <2>1, OthersSame
  <2>3. vec' = vec
    BY <1>0, <1>3 DEF BeginUpdate, Idle, TypeOK
  <2> QED
    BY <1>1, <2>2, <2>3
<1>4. CASE UNCHANGED vars
  BY <1>4, <1>1 DEF Same, update
<1>5. ~Idle
  BY DEF Idle
<1> QED
  BY <1>2, <1>3, <1>4, <1>5 DEF Next, SetMark, Terminated

(* Every operation is bounded: it takes no more steps than it had left when*)
(* it began, whatever other threads do to the lists it walks along.        *)
THEOREM ProgressHolds == Spec => [](\A t \in Threads : Left(t) \in Nat) /\ Progress
<1>1. IInv => \A t \in Threads : Left(t) \in Nat
  <2> SUFFICES ASSUME IInv, NEW t \in Threads PROVE Left(t) \in Nat
    OBVIOUS
  <2>1. Rest(t) \in Nat /\ Stage(t) \in Nat /\ 2 * MaxElements + 1 \in Nat
    BY LeftRange, SizeAssumption DEF IInv
  <2> DEFINE k == 2 * MaxElements + 1
  <2>2. Stage(t) * k \in Nat
    <3>1. k \in Nat
      BY <2>1
    <3> HIDE DEF k
    <3> QED
      BY <2>1, <3>1
  <2>3. Left(t) = Stage(t) * k + Rest(t)
    BY DEF Left
  <2> HIDE DEF k
  <2> QED
    BY <2>1, <2>2, <2>3
<1>2. IInv /\ IInv' /\ [Next]_vars =>
        [\A t \in Threads : IF Step(t) THEN Left(t)' < Left(t)
                            ELSE pc[t] # "idle" => Left(t)' = Left(t)]_vars
  BY StepAdvances, OthersWait
<1> QED
  BY <1>1, <1>2, Invariance, PTL DEF Spec, Progress

(* While an operation is under way there is one that waits for no lock:    *)
(* global and the link locks are only ever held by insertions under way.   *)
SomeoneProceeds ==
  (\E t \in Threads : Works(t)) => \E t \in Threads : Works(t) /\ \A u \in Threads : ~Waits(t, u)

(* The build never comes to a stop: together with ProgressHolds, as long as*)
(* operations are under way one of them can take a step nearer to its end. *)
THEOREM SomeoneProceedsHolds == Spec => []SomeoneProceeds
<1>1. ASSUME IInv, NoCircularWait, NEW w \in Threads, Works(w)
      PROVE  \E t \in Threads : Works(t) /\ \A u \in Threads : ~Waits(t, u)
  <2> DEFINE S == {t \in Threads : Works(t)}
  <2>1. S # {} /\ S \in SUBSET Threads
    BY <1>1
  <2>2. PICK t \in S : \A u \in S : ~Waits(t, u)
    BY <1>1, <2>1 DEF NoCircularWait
  <2>3. ASSUME NEW u \in Threads, Waits(t, u) PROVE u \in S
    <3>1. CASE global = u
      BY <1>1, <3>1 DEF IInv, EntryInv, Rises, Inserts
    <3>2. ASSUME NEW e \in Elements, linkLock[e] = u PROVE u \in S
      BY <1>1, <3>2, NoneAssumption DEF IInv, OwnerInv, Locks, Inserts
    <3> QED
      BY <2>3, <3>1, <3>2 DEF Waits
  <2> QED
    BY <2>2, <2>3
<1>2. IInv /\ NoCircularWait => SomeoneProceeds
  BY <1>1 DEF SomeoneProceeds
<1> QED
  BY <1>2, Invariance, NoCircularWaitHolds, PTL
===============================================================================
