-------------------------- MODULE VisitedListPool --------------------------
(***************************************************************************)
(* The pool of visited lists that the searches of one index share          *)
(* (hnswlib/visited_list_pool.h, used by every search of hnswalg.h).  A    *)
(* search takes a list, advances the list's tag, so that the list counts   *)
(* as empty without being cleared, marks the elements it meets with the    *)
(* tag, and gives the list back.  The tag has 16 bits and wraps around.    *)
(***************************************************************************)
EXTENDS Integers, Sequences, FiniteSets

CONSTANTS
  Threads,   \* the threads that search
  Elements,  \* the ids below numelements
  Lists,     \* the lists that may be allocated (a bound)
  MaxLost,   \* how many searches may leave by an exception (a bound)
  TagMax,    \* the largest value of vl_type
  None       \* holding no list

ASSUME TagAssumption == TagMax \in Nat \ {0}
ASSUME ThreadsAssumption == IsFiniteSet(Threads) /\ Threads # {}
ASSUME NoneAssumption == None \notin Lists

Tags == 0..TagMax

VARIABLES
  pool,     \* the deque of free lists, front first
  created,  \* the lists that have been allocated
  lost,     \* how many lists a search has abandoned
  curV,     \* curV[l]: the tag of list l
  mass,     \* mass[l][e]: the tag element e was last marked with in list l
  pc,       \* per thread: "idle", "reset" or "search"
  held,     \* per thread: the list it got from the pool, or None
  visited   \* history: the elements the search of the thread has marked

vars == <<pool, created, lost, curV, mass, pc, held, visited>>

(* VisitedListPool(1, max_elements).  new vl_type[numelements] leaves mass *)
(* uninitialised: its tags may be anything.                                *)
Init ==
  /\ \E l \in Lists : pool = <<l>> /\ created = {l}
  /\ lost = 0
  /\ curV = [l \in Lists |-> TagMax]
  /\ mass \in [Lists -> [Elements -> Tags]]
  /\ pc = [t \in Threads |-> "idle"]
  /\ held = [t \in Threads |-> None]
  /\ visited = [t \in Threads |-> {}]

-----------------------------------------------------------------------------
Free == {pool[i] : i \in 1..Len(pool)}

\* Mutant: the list handed out stays in the pool.
PopFrontKept == UNCHANGED pool
PopFront == pool' = Tail(pool)

(* getFreeVisitedList, under poolguard: the front list, or a new one.      *)
GetFree(t) ==
  /\ pc[t] = "idle"
  /\ \/ /\ pool # <<>>
        /\ held' = [held EXCEPT ![t] = Head(pool)]
        /\ PopFront
        /\ UNCHANGED created
     \/ /\ pool = <<>>
        /\ \E l \in Lists \ created :
             held' = [held EXCEPT ![t] = l] /\ created' = created \cup {l}
        /\ UNCHANGED pool
  /\ pc' = [pc EXCEPT ![t] = "reset"]
  /\ UNCHANGED <<lost, curV, mass, visited>>

(* curV++ on 16 bits.                                                      *)
Advance(v) == IF v = TagMax THEN 0 ELSE v + 1

\* Mutant: the marks are not cleared when the tag wraps around.
ResetUncleared(t) ==
  /\ pc[t] = "reset"
  /\ LET next == Advance(curV[held[t]]) IN
     curV' = [curV EXCEPT ![held[t]] = IF next = 0 THEN Advance(next) ELSE next]
  /\ visited' = [visited EXCEPT ![t] = {}]
  /\ pc' = [pc EXCEPT ![t] = "search"]
  /\ UNCHANGED <<pool, created, lost, mass, held>>

(* VisitedList::reset, which getFreeVisitedList calls outside the lock.    *)
Reset(t) ==
  /\ pc[t] = "reset"
  /\ LET next == Advance(curV[held[t]]) IN
     IF next = 0
     THEN /\ mass' = [mass EXCEPT ![held[t]] = [e \in Elements |-> 0]]
          /\ curV' = [curV EXCEPT ![held[t]] = Advance(next)]
     ELSE /\ curV' = [curV EXCEPT ![held[t]] = next]
          /\ UNCHANGED mass
  /\ visited' = [visited EXCEPT ![t] = {}]
  /\ pc' = [pc EXCEPT ![t] = "search"]
  /\ UNCHANGED <<pool, created, lost, held>>

(* A search meets an element: unless it carries the tag, mark and admit it.*)
Visit(t, e) ==
  /\ pc[t] = "search"
  /\ mass[held[t]][e] # curV[held[t]]
  /\ mass' = [mass EXCEPT ![held[t]][e] = curV[held[t]]]
  /\ visited' = [visited EXCEPT ![t] = @ \cup {e}]
  /\ UNCHANGED <<pool, created, lost, curV, pc, held>>

Done(t) ==
  /\ pc' = [pc EXCEPT ![t] = "idle"]
  /\ held' = [held EXCEPT ![t] = None]
  /\ visited' = [visited EXCEPT ![t] = {}]
  /\ UNCHANGED <<created, curV, mass>>

\* Mutant: the list is never given back.
ReleaseLost(t) ==
  /\ pc[t] = "search"
  /\ Done(t)
  /\ UNCHANGED <<pool, lost>>

(* releaseVisitedList, under poolguard.                                    *)
Release(t) ==
  /\ pc[t] = "search"
  /\ pool' = <<held[t]>> \o pool
  /\ Done(t)
  /\ UNCHANGED lost

(* The filter of a search throws: nothing gives the list back.             *)
Abandon(t) ==
  /\ pc[t] = "search"
  /\ lost < MaxLost
  /\ lost' = lost + 1
  /\ Done(t)
  /\ UNCHANGED pool

Next ==
  \E t \in Threads :
    \/ GetFree(t) \/ Reset(t) \/ Release(t) \/ Abandon(t)
    \/ \E e \in Elements : Visit(t, e)

Spec == Init /\ [][Next]_vars

-----------------------------------------------------------------------------
TypeOK ==
  /\ pool \in Seq(Lists)
  /\ created \in SUBSET Lists
  /\ lost \in Nat
  /\ curV \in [Lists -> Tags]
  /\ mass \in [Lists -> [Elements -> Tags]]
  /\ pc \in [Threads -> {"idle", "reset", "search"}]
  /\ held \in [Threads -> Lists \cup {None}]
  /\ visited \in [Threads -> SUBSET Elements]

(* A list is in one place: free once, or held by one search.  Two searches *)
(* on one list would hide each other's elements.                           *)
OneOwner ==
  /\ \A i, j \in 1..Len(pool) : pool[i] = pool[j] => i = j
  /\ \A t \in Threads : held[t] \notin Free
  /\ \A t, u \in Threads : t # u /\ held[t] # None => held[t] # held[u]

(* The elements that count as visited are the ones this search has marked: *)
(* marks left by earlier searches, by uninitialised memory or by the tag's *)
(* previous round never hide an element, and none is admitted twice.       *)
VisitedExact ==
  \A t \in Threads : pc[t] = "search" =>
    {e \in Elements : mass[held[t]][e] = curV[held[t]]} = visited[t]

(* The pool allocates no more lists than there are concurrent searches,    *)
(* but for the ones that exceptions lose.                                  *)
Bounded == Cardinality(created) <= Cardinality(Threads) + lost
=============================================================================
