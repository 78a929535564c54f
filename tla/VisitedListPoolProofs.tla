----------------------- MODULE VisitedListPoolProofs -----------------------
(***************************************************************************)
(* The pool of visited lists for any number of threads and elements, any   *)
(* width of the tag and any contents of uninitialised memory.              *)
(***************************************************************************)
EXTENDS VisitedListPool, FiniteSetTheorems, TLAPS

Searching == {t \in Threads : held[t] # None}

(* The allocated lists are the free ones, the held ones and the lost ones. *)
PlaceInv ==
  /\ \A t \in Threads : pc[t] = "idle" <=> held[t] = None
  /\ \A i \in 1..Len(pool) : pool[i] \in created
  /\ \A t \in Threads : held[t] # None => held[t] \in created

(* No mark is ahead of the tag of its list, so that a tag that has just    *)
(* been advanced marks nothing.                                            *)
MarksInv == \A l \in Lists, e \in Elements : mass[l][e] <= curV[l]

(* Every allocated list is accounted for.                                  *)
CountInv ==
  /\ IsFiniteSet(created)
  /\ Cardinality(created) = Len(pool) + Cardinality(Searching) + lost

IInv ==
  TypeOK /\ PlaceInv /\ OneOwner /\ MarksInv /\ VisitedExact /\ CountInv /\ Bounded

-----------------------------------------------------------------------------
(* A set of threads is finite, and smaller than Threads if one is missing. *)
LEMMA ThreadSets ==
  ASSUME NEW S \in SUBSET Threads
  PROVE  /\ IsFiniteSet(S)
         /\ Cardinality(S) \in Nat /\ Cardinality(Threads) \in Nat
         /\ Cardinality(S) <= Cardinality(Threads)
         /\ S # Threads => Cardinality(S) < Cardinality(Threads)
<1>1. IsFiniteSet(S) /\ Cardinality(S) <= Cardinality(Threads)
      /\ (Cardinality(S) = Cardinality(Threads) => S = Threads)
  BY ThreadsAssumption, FS_Subset
<1>2. Cardinality(S) \in Nat /\ Cardinality(Threads) \in Nat
  BY ThreadsAssumption, <1>1, FS_CardinalityType
<1>3. QED BY <1>1, <1>2

(* Threads is not empty.                                                   *)
LEMMA SomeThread == Cardinality(Threads) \in Nat /\ Cardinality(Threads) >= 1
<1>1. Cardinality(Threads) # 0
  BY ThreadsAssumption, FS_EmptySet
<1>2. QED BY <1>1, ThreadsAssumption, FS_CardinalityType

LEMMA InitInv == ASSUME Init PROVE IInv
<1> USE TagAssumption, NoneAssumption
<1>1. PICK l \in Lists : pool = <<l>> /\ created = {l}
  BY DEF Init
<1>2. TypeOK
  BY <1>1 DEF Init, TypeOK, Tags
<1>3. PlaceInv /\ OneOwner /\ VisitedExact
  BY <1>1 DEF Init, PlaceInv, OneOwner, VisitedExact, Free
<1>4. MarksInv
  BY DEF Init, MarksInv, Tags
<1>5. CountInv /\ Bounded
  <2>1. Searching = {}
    BY DEF Init, Searching
  <2>2. Cardinality(Searching) = 0
    BY <2>1, FS_EmptySet
  <2>3. IsFiniteSet(created) /\ Cardinality(created) = 1
    BY <1>1, FS_Singleton
  <2>4. Len(pool) = 1 /\ lost = 0
    BY <1>1 DEF Init
  <2>5. QED BY <2>2, <2>3, <2>4, SomeThread DEF CountInv, Bounded
<1>6. QED BY <1>2, <1>3, <1>4, <1>5 DEF IInv

(* A thread that gets a list, from the pool or a new one.                  *)
LEMMA GetFreeStep ==
  ASSUME IInv, NEW t \in Threads, GetFree(t)
  PROVE  IInv'
<1> USE NoneAssumption
<1>1. TypeOK /\ pc[t] = "idle" /\ held[t] = None /\ pool \in Seq(Lists)
  BY DEF IInv, TypeOK, PlaceInv, GetFree
<1>2. UNCHANGED <<lost, curV, mass, visited>> /\ pc' = [pc EXCEPT ![t] = "reset"]
  BY DEF GetFree
<1>3. MarksInv'
  BY <1>2 DEF IInv, MarksInv
<1>4. Searching \in SUBSET Threads /\ t \notin Searching
  BY <1>1 DEF Searching
<1>5. Cardinality(Searching) \in Nat /\ Cardinality(Searching) < Cardinality(Threads)
      /\ IsFiniteSet(Searching) /\ Cardinality(Threads) \in Nat
  BY <1>4, ThreadSets
<1>6. IsFiniteSet(created) /\ Cardinality(created) = Len(pool) + Cardinality(Searching) + lost
      /\ Cardinality(created) <= Cardinality(Threads) + lost /\ lost \in Nat
  BY <1>1 DEF IInv, CountInv, Bounded, TypeOK
<1>7. CASE pool # <<>> /\ PopFront /\ held' = [held EXCEPT ![t] = Head(pool)]
           /\ UNCHANGED created
  <2>1. Head(pool) = pool[1] /\ pool[1] \in Lists /\ Len(pool) \in Nat \ {0}
        /\ pool' \in Seq(Lists) /\ Len(pool') = Len(pool) - 1
        /\ \A i \in 1..Len(pool') : pool'[i] = pool[i + 1] /\ i + 1 \in 1..Len(pool)
    BY <1>1, <1>7 DEF PopFront
  <2>2. TypeOK'
    BY <1>1, <1>2, <1>7, <2>1 DEF TypeOK
  <2>3. PlaceInv'
    <3>1. /\ held'[t] = pool[1] /\ pc'[t] = "reset"
          /\ \A u \in Threads : u # t => held'[u] = held[u] /\ pc'[u] = pc[u]
      BY <1>1, <1>2, <1>7, <2>1 DEF TypeOK
    <3>2. 1 \in 1..Len(pool) /\ pool[1] # None
      BY <2>1
    <3>3. \A i \in 1..Len(pool') : pool'[i] \in created'
      BY <1>7, <2>1 DEF IInv, PlaceInv
    <3>4. QED BY <1>7, <3>1, <3>2, <3>3 DEF IInv, PlaceInv
  <2>4. OneOwner'
    <3>1. \A i, j \in 1..Len(pool') : pool'[i] = pool'[j] => i = j
      BY <2>1 DEF IInv, OneOwner
    <3>2. \A i \in 1..Len(pool') : pool'[i] # pool[1]
      BY <2>1 DEF IInv, OneOwner
    <3>3. \A u \in Threads : u # t => held'[u] = held[u] /\ held[u] # pool[1]
      BY <1>1, <1>7, <2>1 DEF IInv, OneOwner, Free, TypeOK
    <3>4. held'[t] = pool[1]
      BY <1>1, <1>7, <2>1 DEF TypeOK
    <3>5. \A u \in Threads : held'[u] \notin Free'
      BY <2>1, <3>2, <3>3, <3>4 DEF IInv, OneOwner, Free
    <3>6. QED BY <3>1, <3>3, <3>4, <3>5 DEF IInv, OneOwner
  <2>5. VisitedExact'
    BY <1>1, <1>2, <1>7 DEF IInv, VisitedExact, TypeOK
  <2>6. Searching' = Searching \cup {t}
    BY <1>1, <1>7, <2>1 DEF Searching, TypeOK
  <2>7. CountInv' /\ Bounded'
    <3>1. Cardinality(Searching') = Cardinality(Searching) + 1
      BY <1>4, <1>5, <2>6, FS_AddElement
    <3>2. QED BY <1>2, <1>5, <1>6, <1>7, <2>1, <3>1 DEF CountInv, Bounded
  <2>8. QED BY <1>3, <2>2, <2>3, <2>4, <2>5, <2>7 DEF IInv
<1>8. ASSUME pool = <<>>, UNCHANGED pool, NEW l \in Lists \ created,
             held' = [held EXCEPT ![t] = l], created' = created \cup {l}
      PROVE  IInv'
  <2>1. TypeOK'
    BY <1>1, <1>2, <1>8 DEF TypeOK
  <2>2. PlaceInv' /\ OneOwner'
    BY <1>1, <1>2, <1>8 DEF IInv, PlaceInv, OneOwner, Free, TypeOK
  <2>3. VisitedExact'
    BY <1>1, <1>2, <1>8 DEF IInv, VisitedExact, TypeOK
  <2>4. Searching' = Searching \cup {t}
    BY <1>1, <1>8 DEF Searching, TypeOK
  <2>5. Cardinality(created') = Cardinality(created) + 1 /\ IsFiniteSet(created')
    BY <1>6, <1>8, FS_AddElement
  <2>6. Cardinality(Searching') = Cardinality(Searching) + 1
    BY <1>4, <1>5, <2>4, FS_AddElement
  <2>7. Len(pool) = 0
    BY <1>8
  <2>8. CountInv' /\ Bounded'
    BY <1>2, <1>5, <1>6, <1>8, <2>5, <2>6, <2>7 DEF CountInv, Bounded
  <2>9. QED BY <1>3, <2>1, <2>2, <2>3, <2>8 DEF IInv
<1>9. QED BY <1>7, <1>8 DEF GetFree

(* A tag that advances is ahead of every mark of its list.                 *)
LEMMA ResetStep ==
  ASSUME IInv, NEW t \in Threads, Reset(t)
  PROVE  IInv'
<1> USE TagAssumption, NoneAssumption
<1> DEFINE l == held[t]
           next == Advance(curV[l])
<1>1. TypeOK /\ pc[t] = "reset" /\ l \in Lists /\ curV[l] \in Tags
  BY DEF IInv, TypeOK, PlaceInv, Reset
<1>2. UNCHANGED <<pool, created, lost, held>>
  BY DEF Reset
<1>3. next \in Tags /\ Advance(next) \in Tags /\ Advance(0) = 1
      /\ (next # 0 => next = curV[l] + 1)
  BY <1>1 DEF Advance, Tags
<1>4. TypeOK'
  <2>1. mass' \in [Lists -> [Elements -> Tags]] /\ curV' \in [Lists -> Tags]
    <3>1. 0 \in Tags
      BY DEF Tags
    <3>2. CASE next = 0
      <4>1. curV' = [curV EXCEPT ![l] = Advance(next)]
            /\ mass' = [mass EXCEPT ![l] = [e \in Elements |-> 0]]
        BY <3>2 DEF Reset
      <4>2. [e \in Elements |-> 0] \in [Elements -> Tags]
        BY <3>1
      <4>3. curV' \in [Lists -> Tags]
        BY <1>1, <1>3, <4>1 DEF TypeOK
      <4>4. mass' \in [Lists -> [Elements -> Tags]]
        BY <1>1, <4>1, <4>2 DEF TypeOK
      <4>5. QED BY <4>3, <4>4
    <3>3. CASE next # 0
      BY <1>1, <1>3, <3>3 DEF Reset, TypeOK
    <3>4. QED BY <3>2, <3>3
  <2>2. pc' \in [Threads -> {"idle", "reset", "search"}] /\ visited' \in [Threads -> SUBSET Elements]
    BY <1>1 DEF Reset, TypeOK
  <2>3. QED BY <1>1, <1>2, <2>1, <2>2 DEF TypeOK
<1>5. PlaceInv' /\ OneOwner'
  BY <1>1, <1>2 DEF Reset, IInv, PlaceInv, OneOwner, Free, TypeOK
<1>6. /\ \A m \in Lists : m # l => curV'[m] = curV[m] /\ mass'[m] = mass[m]
      /\ \A e \in Elements : mass'[l][e] < curV'[l]
  <2>1. CASE next = 0
    BY <1>1, <1>3, <2>1 DEF Reset, TypeOK, Tags
  <2>2. CASE next # 0
    BY <1>1, <1>3, <2>2 DEF Reset, IInv, MarksInv, TypeOK, Tags
  <2>3. QED BY <2>1, <2>2
<1>7. MarksInv'
  <2> SUFFICES ASSUME NEW m \in Lists, NEW f \in Elements
               PROVE  mass'[m][f] <= curV'[m]
    BY DEF MarksInv
  <2>1. mass[m][f] <= curV[m]
    BY DEF IInv, MarksInv
  <2>2. mass'[m][f] \in Int /\ curV'[m] \in Int
    BY <1>4 DEF TypeOK, Tags
  <2>3. QED BY <1>6, <2>1, <2>2
<1>8. VisitedExact'
  <2>1. {e \in Elements : mass'[l][e] = curV'[l]} = {}
    BY <1>1, <1>4, <1>6 DEF TypeOK, Tags
  <2>2. visited'[t] = {} /\ \A u \in Threads : u # t => visited'[u] = visited[u] /\ pc'[u] = pc[u]
    BY <1>1 DEF Reset, TypeOK
  <2>3. \A u \in Threads : u # t /\ pc[u] = "search" => held[u] \in Lists /\ held[u] # l
    BY <1>1 DEF IInv, PlaceInv, OneOwner, TypeOK
  <2>4. QED BY <1>2, <1>6, <2>1, <2>2, <2>3 DEF IInv, VisitedExact
<1>9. CountInv' /\ Bounded'
  BY <1>2 DEF IInv, CountInv, Bounded, Searching
<1>10. QED BY <1>4, <1>5, <1>7, <1>8, <1>9 DEF IInv

LEMMA VisitStep ==
  ASSUME IInv, NEW t \in Threads, NEW e \in Elements, Visit(t, e)
  PROVE  IInv'
<1> USE NoneAssumption
<1> DEFINE l == held[t]
<1>1. TypeOK /\ pc[t] = "search" /\ l \in Lists /\ curV[l] \in Tags
  BY DEF IInv, TypeOK, PlaceInv, Visit
<1>2. UNCHANGED <<pool, created, lost, curV, pc, held>>
  BY DEF Visit
<1>3. TypeOK'
  BY <1>1, <1>2 DEF Visit, TypeOK
<1>4. PlaceInv' /\ OneOwner' /\ CountInv' /\ Bounded'
  BY <1>2 DEF IInv, PlaceInv, OneOwner, Free, CountInv, Bounded, Searching
<1>5. /\ \A m \in Lists : m # l => mass'[m] = mass[m]
      /\ \A f \in Elements : mass'[l][f] = IF f = e THEN curV[l] ELSE mass[l][f]
  BY <1>1 DEF Visit, TypeOK
<1>6. MarksInv'
  <2> SUFFICES ASSUME NEW m \in Lists, NEW f \in Elements
               PROVE  mass'[m][f] <= curV'[m]
    BY DEF MarksInv
  <2>1. mass[m][f] <= curV[m] /\ curV'[m] = curV[m] /\ curV[m] \in Int
    BY <1>1, <1>2 DEF IInv, MarksInv, TypeOK, Tags
  <2>2. QED BY <1>5, <2>1
<1>7. VisitedExact'
  <2>1. {f \in Elements : mass'[l][f] = curV[l]} = visited[t] \cup {e}
    BY <1>1, <1>5 DEF IInv, VisitedExact
  <2>2. visited'[t] = visited[t] \cup {e} /\ \A u \in Threads : u # t => visited'[u] = visited[u]
    BY <1>1 DEF Visit, TypeOK
  <2>3. \A u \in Threads : u # t /\ pc[u] = "search" => held[u] \in Lists /\ held[u] # l
    BY <1>1 DEF IInv, PlaceInv, OneOwner, TypeOK
  <2>4. QED BY <1>2, <1>5, <2>1, <2>2, <2>3 DEF IInv, VisitedExact
<1>8. QED BY <1>3, <1>4, <1>6, <1>7 DEF IInv

(* A search that ends leaves everyone else as they were.                   *)
LEMMA DoneStep ==
  ASSUME IInv, NEW t \in Threads, pc[t] = "search", Done(t)
  PROVE  /\ held[t] \in Lists /\ held[t] \in created /\ held[t] \notin Free
         /\ \A u \in Threads : u # t => held'[u] = held[u] /\ held[u] # held[t]
         /\ held'[t] = None
         /\ MarksInv' /\ VisitedExact'
         /\ held' \in [Threads -> Lists \cup {None}]
         /\ pc' \in [Threads -> {"idle", "reset", "search"}]
         /\ visited' \in [Threads -> SUBSET Elements]
         /\ \A u \in Threads : pc'[u] = "idle" <=> held'[u] = None
         /\ IsFiniteSet(Searching') /\ Cardinality(Searching') = Cardinality(Searching) - 1
         /\ Cardinality(Searching) \in Nat
<1> USE NoneAssumption
<1>1. TypeOK /\ held[t] \in Lists /\ held[t] \in created /\ held[t] \notin Free
  BY DEF IInv, TypeOK, PlaceInv, OneOwner
<1>2. held'[t] = None /\ pc'[t] = "idle"
      /\ \A u \in Threads : u # t => held'[u] = held[u] /\ held[u] # held[t] /\ pc'[u] = pc[u]
                                       /\ visited'[u] = visited[u]
  BY <1>1 DEF Done, IInv, OneOwner, TypeOK
<1>3. MarksInv' /\ VisitedExact'
  BY <1>1, <1>2 DEF Done, IInv, MarksInv, VisitedExact
<1>4. /\ held' \in [Threads -> Lists \cup {None}]
      /\ pc' \in [Threads -> {"idle", "reset", "search"}]
      /\ visited' \in [Threads -> SUBSET Elements]
      /\ \A u \in Threads : pc'[u] = "idle" <=> held'[u] = None
  BY <1>1, <1>2 DEF Done, IInv, PlaceInv, TypeOK
<1>5. Searching' = Searching \ {t} /\ t \in Searching /\ Searching \in SUBSET Threads
  BY <1>1, <1>2 DEF Searching
<1>6. IsFiniteSet(Searching) /\ Cardinality(Searching) \in Nat
  BY <1>5, ThreadSets
<1>7. QED BY <1>1, <1>2, <1>3, <1>4, <1>5, <1>6, FS_RemoveElement

LEMMA ReleaseStep ==
  ASSUME IInv, NEW t \in Threads, Release(t)
  PROVE  IInv'
<1> USE NoneAssumption
<1>1. pc[t] = "search" /\ Done(t) /\ pool' = <<held[t]>> \o pool /\ UNCHANGED lost
  BY DEF Release
<1>2. TypeOK /\ pool \in Seq(Lists) /\ UNCHANGED <<created, curV, mass>>
  BY <1>1 DEF IInv, TypeOK, Done
<1>3. held[t] \in Lists /\ held[t] \in created /\ held[t] \notin Free
  BY <1>1, DoneStep
<1>4. /\ pool' \in Seq(Lists) /\ Len(pool') = Len(pool) + 1 /\ Len(pool) \in Nat
      /\ pool'[1] = held[t]
      /\ \A i \in 2..Len(pool') : pool'[i] = pool[i - 1] /\ i - 1 \in 1..Len(pool)
  BY <1>1, <1>2, <1>3
<1>5. TypeOK'
  BY <1>1, <1>2, <1>4, DoneStep DEF TypeOK
<1>6. PlaceInv'
  <2>1. \A i \in 1..Len(pool') : pool'[i] \in created'
    BY <1>2, <1>3, <1>4 DEF IInv, PlaceInv
  <2>2. QED BY <1>1, <1>2, <2>1, DoneStep DEF IInv, PlaceInv
<1>7. OneOwner'
  <2>1. Free' \subseteq Free \cup {held[t]}
    <3>1. \A i \in 1..Len(pool') : i = 1 \/ i \in 2..Len(pool')
      BY <1>4
    <3>2. QED BY <1>4, <3>1 DEF Free
  <2>2. \A i, j \in 1..Len(pool') : pool'[i] = pool'[j] => i = j
    BY <1>3, <1>4 DEF IInv, OneOwner, Free
  <2>3. None \notin Free'
    BY <1>3, <1>4, <1>5 DEF TypeOK, Free
  <2>4. \A u \in Threads : u # t => held'[u] = held[u] /\ held[u] # held[t]
    BY <1>1, DoneStep
  <2>5. held'[t] = None
    BY <1>1, DoneStep
  <2>6. \A u \in Threads : held'[u] \notin Free'
    BY <2>1, <2>3, <2>4, <2>5 DEF IInv, OneOwner
  <2>7. QED BY <2>2, <2>4, <2>5, <2>6 DEF IInv, OneOwner
<1>8. CountInv' /\ Bounded'
  BY <1>1, <1>2, <1>4, DoneStep DEF IInv, CountInv, Bounded, TypeOK
<1>9. QED BY <1>1, <1>5, <1>6, <1>7, <1>8, DoneStep DEF IInv

LEMMA AbandonStep ==
  ASSUME IInv, NEW t \in Threads, Abandon(t)
  PROVE  IInv'
<1> USE NoneAssumption
<1>1. pc[t] = "search" /\ Done(t) /\ UNCHANGED <<pool, created, curV, mass>>
      /\ lost' = lost + 1 /\ TypeOK /\ lost \in Nat /\ Len(pool) \in Nat
  BY DEF Abandon, Done, IInv, TypeOK
<1>2. TypeOK' /\ PlaceInv'
  BY <1>1, DoneStep DEF IInv, TypeOK, PlaceInv
<1>3. OneOwner'
  <2>1. None \notin Free
    BY <1>1 DEF TypeOK, Free
  <2>2. QED BY <1>1, <2>1, DoneStep DEF IInv, OneOwner, Free
<1>4. CountInv' /\ Bounded'
  <2>1. Cardinality(created) \in Nat /\ Cardinality(Threads) \in Nat
    BY SomeThread, FS_CardinalityType DEF IInv, CountInv
  <2>2. QED BY <1>1, <2>1, DoneStep DEF IInv, CountInv, Bounded
<1>5. QED BY <1>1, <1>2, <1>3, <1>4, DoneStep DEF IInv

LEMMA NextInv == ASSUME IInv, [Next]_vars PROVE IInv'
<1>1. CASE Next
  BY <1>1, GetFreeStep, ResetStep, ReleaseStep, AbandonStep, VisitStep DEF Next
<1>2. CASE UNCHANGED vars
  BY <1>2 DEF vars, IInv, TypeOK, PlaceInv, OneOwner, Free, MarksInv,
              VisitedExact, CountInv, Searching, Bounded
<1>3. QED BY <1>1, <1>2

-----------------------------------------------------------------------------
(* The inductive invariant of the pool.                                    *)
THEOREM Invariance == Spec => []IInv
BY InitInv, NextInv, PTL DEF Spec

(* The pool, the tags and the marks keep their types: no tag leaves 16 bits*)
THEOREM TypeCorrect == Spec => []TypeOK
<1>1. IInv => TypeOK
  BY DEF IInv
<1>2. QED BY <1>1, Invariance, PTL

(* A visited list is free once, or held by one search.                     *)
THEOREM OneOwnerHolds == Spec => []OneOwner
<1>1. IInv => OneOwner
  BY DEF IInv
<1>2. QED BY <1>1, Invariance, PTL

(* A search sees its own marks and no others, wrap-around included.        *)
THEOREM VisitedExactHolds == Spec => []VisitedExact
<1>1. IInv => VisitedExact
  BY DEF IInv
<1>2. QED BY <1>1, Invariance, PTL

(* The pool grows no larger than the number of concurrent searches.        *)
THEOREM BoundedHolds == Spec => []Bounded
<1>1. IInv => Bounded
  BY DEF IInv
<1>2. QED BY <1>1, Invariance, PTL
=============================================================================
