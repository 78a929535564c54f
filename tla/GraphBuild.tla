---------------------------- MODULE GraphBuild ------------------------------
(***************************************************************************)
(* The graph of HierarchicalNSW (hnswlib/hnswalg.h): the insertion of      *)
(* elements (addPoint(data_point, label, level), searchBaseLayer,          *)
(* getNeighborsByHeuristic2, mutuallyConnectNewElement) and the updating of*)
(* elements (updatePoint, repairConnectionsForUpdate) by concurrent threads*)
(*                                                                         *)
(* An insertion holds the link lock of its new element all along, and the  *)
(* lock "global" too if the element rises above the top level; it takes    *)
(* the link lock of another element for one visit at a time.  An update    *)
(* keeps no link lock between two visits.  Each visit is one step here,    *)
(* possible while no other thread holds the lock.  Queues are sets: their  *)
(* order shows only where distances tie, and DistanceAssumption rules ties *)
(* out.  A link list is the set of the elements it leads to and the number *)
(* of its entries that repeat one of them: an insertion appends its element*)
(* to a list in which an update may have written it before.                *)
(***************************************************************************)
EXTENDS Integers, FiniteSets

CONSTANTS
  Threads,
  MaxElements,     \* how many elements are inserted
  Position,        \* Position[e]: the place element e has when inserted, on a line
  NewPlaces,       \* the places an update may move an element to
  M,               \* M_ and maxM_; maxM0_ is twice M
  EfConstruction,  \* ef_construction_
  TopLevel,        \* the highest level getRandomLevel draws
  Alone,           \* how many elements may be inserted one at a time first
  MaxMarks,        \* how many times elements are marked deleted (a bound)
  MaxUpdates,      \* how many updates begin (a bound)
  None             \* no thread, no element

Elements == 0..(MaxElements - 1)
Levels   == 0..TopLevel

Places   == {Position[e] : e \in Elements} \cup NewPlaces
Abs(n) == IF n < 0 THEN -n ELSE n

ASSUME SizeAssumption ==
  /\ MaxElements \in Nat /\ TopLevel \in Nat /\ Alone \subseteq Nat
  /\ MaxMarks \in Nat /\ MaxUpdates \in Nat
  /\ M \in Nat \ {0, 1} /\ EfConstruction \in Nat \ {0} /\ EfConstruction >= M
ASSUME PositionAssumption == Position \in [Elements -> Int] /\ NewPlaces \subseteq Int
ASSUME DistanceAssumption ==
  /\ \A a, b \in Elements : a # b => Position[a] # Position[b]
  /\ \A q, a, b \in Places : a # b => Abs(a - q) # Abs(b - q)
ASSUME NoneAssumption == None \notin Threads \cup Int

VARIABLES
  count,     \* cur_element_count
  level,     \* element_levels_
  vec,       \* the place of each element's vector
  links,     \* links[e][l]: what the link list of element e at level l leads to
  again,     \* again[e][l]: how many of its entries stand there a second time
  enterpoint,\* enterpoint_node_, or None
  maxlevel,  \* maxlevel_
  global,    \* the thread that holds global, or None
  linkLock,  \* link_list_locks_: the thread that inserts the element, or None
  marked,    \* the elements that carry DELETE_MARK
  marks,     \* how often an element has been marked
  pc,        \* per thread: the next step
  updating,  \* the threads whose operation is an update
  updates,   \* how many updates have begun
  alone,     \* bound: so many elements are inserted one at a time, before any
             \* deletion; without them there are no updates
  cur,       \* per thread: cur_c, or the element it updates
  maxCopy,   \* per thread: maxlevelcopy
  obj,       \* per thread: currObj
  epCopy,    \* per thread: enterpoint_copy
  lev,       \* per thread: the level it works on
  top,       \* per thread: top_candidates
  cand,      \* per thread: candidate_set, or sCand
  visited,   \* per thread: the visited list, or sNeigh
  todo       \* per thread: the neighbours still to be visited

graph   == <<count, level, vec, links, again>>
entry   == <<enterpoint, maxlevel>>
deletes == <<marked, marks>>
update  == <<updating, updates, alone>>
queues  == <<top, cand, visited>>
place   == <<cur, maxCopy, obj, epCopy, lev>>
vars == <<graph, entry, global, linkLock, deletes, update, pc, place, queues, todo>>

Idle == \A t \in Threads : pc[t] = "idle"

Init ==
  /\ count = 0
  /\ level = [e \in Elements |-> 0]
  /\ vec = Position
  /\ links = [e \in Elements |-> [l \in Levels |-> {}]]
  /\ again = [e \in Elements |-> [l \in Levels |-> 0]]
  /\ enterpoint = None
  /\ maxlevel = -1
  /\ global = None
  /\ linkLock = [e \in Elements |-> None]
  /\ marked = {} /\ marks = 0
  /\ updating = {} /\ updates = 0 /\ alone \in Alone
  /\ pc = [t \in Threads |-> "idle"]
  /\ cur = [t \in Threads |-> None]
  /\ maxCopy = [t \in Threads |-> -1]
  /\ obj = [t \in Threads |-> None]
  /\ epCopy = [t \in Threads |-> None]
  /\ lev = [t \in Threads |-> 0]
  /\ top = [t \in Threads |-> {}]
  /\ cand = [t \in Threads |-> {}]
  /\ visited = [t \in Threads |-> {}]
  /\ todo = [t \in Threads |-> {}]

-----------------------------------------------------------------------------
(* Distances and the neighbour heuristic.                                  *)
Dist(a, b) == Abs(vec[a] - vec[b])
Closest(S, q)  == CHOOSE a \in S : \A b \in S : Dist(a, q) <= Dist(b, q)
Farthest(S, q) == CHOOSE a \in S : \A b \in S : Dist(a, q) >= Dist(b, q)

(* The n elements of S closest to q.                                       *)
Nearest(S, q, n) ==
  {a \in S : Cardinality({b \in S : Dist(b, q) < Dist(a, q)}) < n}

(* getNeighborsByHeuristic2: from the closest to the farthest, an element  *)
(* is kept unless it is closer to an element kept before than to q; it ends*)
(* with m elements.                                                        *)
Kept(S, q) ==
  CHOOSE K \in SUBSET S :
    \A a \in S : a \in K <=>
      \A b \in K : Dist(b, q) < Dist(a, q) => Dist(b, a) >= Dist(a, q)

Pruned(S, q, m) == Nearest(S \cap Kept(S, q), q, m)

Heuristic(S, q, m) == IF Cardinality(S) < m THEN S ELSE Pruned(S, q, m)

\* Mutant: the lists of level 0 have the size of the others.
CapacityFlat(l) == M

Capacity(l) == IF l = 0 THEN 2 * M ELSE M

(* getListCount: how many entries a list has.                              *)
Size(e, l) == Cardinality(links[e][l]) + again[e][l]

(* A list is written anew, from distinct candidates.                       *)
Write(e, l, S) ==
  /\ links' = [links EXCEPT ![e][l] = S]
  /\ again' = [again EXCEPT ![e][l] = 0]

Goto(t, next) == pc' = [pc EXCEPT ![t] = next]
Unlocked(e) == linkLock[e] = None

-----------------------------------------------------------------------------
\* Mutant: the new element's own link lock is not taken.
ClaimUnlocked(t) ==
  /\ pc[t] = "idle"
  /\ count < MaxElements
  /\ count < alone => Idle
  /\ cur' = [cur EXCEPT ![t] = count]
  /\ count' = count + 1
  /\ \E l \in Levels : level' = [level EXCEPT ![count] = l]
  /\ Goto(t, "global")
  /\ UNCHANGED <<vec, links, again, entry, global, linkLock, deletes, update, maxCopy, obj, epCopy, lev, queues, todo>>

(* A slot, its link lock (lock_el) and a random level.                     *)
Claim(t) ==
  /\ pc[t] = "idle"
  /\ count < MaxElements
  /\ count < alone => Idle
  /\ cur' = [cur EXCEPT ![t] = count]
  /\ count' = count + 1
  /\ linkLock' = [linkLock EXCEPT ![count] = t]
  /\ \E l \in Levels : level' = [level EXCEPT ![count] = l]
  /\ Goto(t, "global")
  /\ UNCHANGED <<vec, links, again, entry, global, deletes, update, maxCopy, obj, epCopy, lev, queues, todo>>

\* Mutant: global is released also by an element above the top level.
GlobalReleased(t) ==
  /\ pc[t] = "global"
  /\ global = None
  /\ maxCopy' = [maxCopy EXCEPT ![t] = maxlevel]
  /\ Goto(t, "entry")
  /\ UNCHANGED <<graph, entry, global, linkLock, deletes, update, cur, obj, epCopy, lev, queues, todo>>

(* templock: kept only by an element that rises above the top level.       *)
Global(t) ==
  /\ pc[t] = "global"
  /\ global = None
  /\ maxCopy' = [maxCopy EXCEPT ![t] = maxlevel]
  /\ global' = IF level[cur[t]] <= maxlevel THEN None ELSE t
  /\ Goto(t, "entry")
  /\ UNCHANGED <<graph, entry, linkLock, deletes, update, cur, obj, epCopy, lev, queues, todo>>

(* currObj = enterpoint_node_, then enterpoint_copy = enterpoint_node_.    *)
ReadEntry(t) ==
  /\ pc[t] = "entry"
  /\ obj' = [obj EXCEPT ![t] = enterpoint]
  /\ Goto(t, "copy")
  /\ UNCHANGED <<graph, entry, global, linkLock, deletes, update, cur, maxCopy, epCopy, lev, queues, todo>>

(* The base of the search at one level: currObj, unless it is deleted.     *)
StartSearch(t, start, l) ==
  /\ lev' = [lev EXCEPT ![t] = l]
  /\ top' = [top EXCEPT ![t] = {start} \ marked]
  /\ cand' = [cand EXCEPT ![t] = {start}]
  /\ visited' = [visited EXCEPT ![t] = {start}]
  /\ Goto(t, "search")

StartDescent(t) ==
  /\ lev' = [lev EXCEPT ![t] = maxCopy[t]]
  /\ Goto(t, "descend")
  /\ UNCHANGED queues

SmallerOf(a, b) == IF a <= b THEN a ELSE b

CopyEntry(t) ==
  /\ pc[t] = "copy"
  /\ epCopy' = [epCopy EXCEPT ![t] = enterpoint]
  /\ IF obj[t] = None THEN Goto(t, "first") /\ UNCHANGED <<lev, queues>>
     ELSE IF level[cur[t]] < maxCopy[t] THEN StartDescent(t)
     ELSE StartSearch(t, obj[t], SmallerOf(level[cur[t]], maxCopy[t]))
  /\ UNCHANGED <<graph, entry, global, linkLock, deletes, update, cur, maxCopy, obj, todo>>

(* The first element is the entry point by the name of slot 0.             *)
First(t) ==
  /\ pc[t] = "first"
  /\ enterpoint' = 0
  /\ maxlevel' = level[cur[t]]
  /\ Goto(t, "publish")
  /\ UNCHANGED <<graph, global, linkLock, deletes, update, place, queues, todo>>

(* One pass of the greedy descent over the list of currObj.                *)
Descend(t) ==
  /\ pc[t] = "descend"
  /\ Unlocked(obj[t])
  /\ LET next == Closest({obj[t]} \cup links[obj[t]][lev[t]], cur[t]) IN
     /\ obj' = [obj EXCEPT ![t] = next]
     /\ IF next # obj[t] THEN UNCHANGED <<pc, lev, queues>>
        ELSE IF lev[t] - 1 > level[cur[t]]
        THEN lev' = [lev EXCEPT ![t] = @ - 1] /\ UNCHANGED <<pc, queues>>
        ELSE StartSearch(t, obj[t], level[cur[t]])
  /\ UNCHANGED <<graph, entry, global, linkLock, deletes, update, cur, maxCopy, epCopy, todo>>

(* The search ends when no candidate is left, or when the best one is      *)
(* farther than every one of ef_construction_ results.                     *)
SearchOver(t) ==
  \/ cand[t] = {}
  \/ /\ Cardinality(top[t]) = EfConstruction
     /\ \A a \in top[t], c \in cand[t] : Dist(a, cur[t]) < Dist(c, cur[t])

(* The closest candidate's list is read under its lock.                    *)
Expand(t) ==
  /\ pc[t] = "search"
  /\ ~SearchOver(t)
  /\ LET e == Closest(cand[t], cur[t])
         new == links[e][lev[t]] \ visited[t]
     IN  /\ Unlocked(e)
         /\ visited' = [visited EXCEPT ![t] = @ \cup new]
         /\ cand' = [cand EXCEPT ![t] = (@ \ {e}) \cup new]
         /\ top' = [top EXCEPT ![t] =
                      Nearest(@ \cup (new \ marked), cur[t], EfConstruction)]
  /\ UNCHANGED <<graph, entry, global, linkLock, deletes, update, pc, place, todo>>

\* Mutant: a deleted entry point is no candidate.
CandidatesLive(t, found) == found

(* What was found, with the entry point if it is deleted (epDeleted).      *)
Candidates(t, found) ==
  IF epCopy[t] \in marked
  THEN Nearest(found \cup {epCopy[t]}, cur[t], EfConstruction)
  ELSE found

(* An exception leaves the element as it is and releases the locks.        *)
Fail(t, how) ==
  /\ Goto(t, how)
  /\ linkLock' = [linkLock EXCEPT ![cur[t]] = None]
  /\ global' = IF global = t THEN None ELSE global
  /\ UNCHANGED <<links, again, update, place, queues, todo>>

(* mutuallyConnectNewElement up to the writing of the element's own list:  *)
(* without a candidate, back() of an empty vector is undefined; the list of*)
(* an element that is inserted must be blank.                              *)
Connect(t, selected) ==
  IF selected = {} THEN Fail(t, "undefined")
  ELSE IF \/ t \notin updating /\ links[cur[t]][lev[t]] # {}
          \/ \E e \in selected : lev[t] > level[e]
  THEN Fail(t, "threw")
  ELSE /\ Write(cur[t], lev[t], selected)
       /\ obj' = [obj EXCEPT ![t] = Closest(selected, cur[t])]
       /\ todo' = [todo EXCEPT ![t] = selected]
       /\ Goto(t, "link")
       /\ UNCHANGED <<global, linkLock, update, cur, maxCopy, epCopy, lev, queues>>

Select(t) ==
  /\ pc[t] = "search" /\ t \notin updating
  /\ SearchOver(t)
  /\ Connect(t, Heuristic(Candidates(t, top[t]), cur[t], M))
  /\ UNCHANGED <<count, level, vec, entry, deletes>>

(* One level is done.                                                      *)
GoDown(t) ==
  IF lev[t] = 0 THEN Goto(t, "publish") /\ UNCHANGED <<lev, queues>>
  ELSE StartSearch(t, obj[t], lev[t] - 1)

\* Mutant: where nothing else is found the element's list is emptied.
SelectAgainBlank(t) ==
  /\ pc[t] = "search" /\ t \in updating
  /\ SearchOver(t)
  /\ LET found == top[t] \ {cur[t]} IN
     IF found = {}
     THEN /\ Write(cur[t], lev[t], {})
          /\ GoDown(t) /\ UNCHANGED <<global, linkLock, update, cur, maxCopy, obj, epCopy, todo>>
     ELSE Unlocked(cur[t]) /\ Connect(t, Heuristic(Candidates(t, found), cur[t], M))
  /\ UNCHANGED <<count, level, vec, entry, deletes>>

(* repairConnectionsForUpdate: the element itself is no candidate, and     *)
(* where nothing else is found its list stays.                             *)
SelectAgain(t) ==
  /\ pc[t] = "search" /\ t \in updating
  /\ SearchOver(t)
  /\ LET found == top[t] \ {cur[t]} IN
     IF found = {}
     THEN GoDown(t) /\ UNCHANGED <<links, again, global, linkLock, update, cur, maxCopy, obj, epCopy, todo>>
     ELSE Unlocked(cur[t]) /\ Connect(t, Heuristic(Candidates(t, found), cur[t], M))
  /\ UNCHANGED <<count, level, vec, entry, deletes>>

(* What a neighbour's list leads to with the new element: a full list is   *)
(* pruned.  Of two entries for one element the second is never kept: it is *)
(* nearer to the first, at distance 0, than to the neighbour.              *)
WithElement(e, x, l) ==
  IF Size(e, l) < Capacity(l) THEN links[e][l] \cup {x}
  ELSE Pruned(links[e][l] \cup {x}, e, Capacity(l))

(* Only an update looks whether its element is in the list already; an     *)
(* insertion appends it whatever the list holds.                           *)
RepeatsWith(e, x, l) ==
  IF Size(e, l) < Capacity(l)
  THEN again[e][l] + (IF x \in links[e][l] THEN 1 ELSE 0)
  ELSE 0

AddEntry(e, x, l) ==
  /\ links' = [links EXCEPT ![e][l] = WithElement(e, x, l)]
  /\ again' = [again EXCEPT ![e][l] = RepeatsWith(e, x, l)]

(* The rest of mutuallyConnectNewElement: one selected neighbour at a time,*)
(* farthest first, under its lock; then the next level down, or the end.   *)
LinkBack(t) ==
  /\ pc[t] = "link"
  /\ LET e == Farthest(todo[t], cur[t]) IN
     /\ Unlocked(e)
     /\ IF e = cur[t] \/ Size(e, lev[t]) > Capacity(lev[t]) \/ lev[t] > level[e]
        THEN Fail(t, "threw")
        ELSE /\ IF t \in updating /\ cur[t] \in links[e][lev[t]] THEN UNCHANGED <<links, again>>
                ELSE AddEntry(e, cur[t], lev[t])
             /\ todo' = [todo EXCEPT ![t] = @ \ {e}]
             /\ IF todo[t] # {e} THEN UNCHANGED <<pc, lev, queues>> ELSE GoDown(t)
             /\ UNCHANGED <<global, linkLock, update, cur, maxCopy, obj, epCopy>>
  /\ UNCHANGED <<count, level, vec, entry, deletes>>

Leave(t) ==
  /\ linkLock' = [linkLock EXCEPT ![cur[t]] = None]
  /\ Goto(t, "idle")
  /\ cur' = [cur EXCEPT ![t] = None]
  /\ maxCopy' = [maxCopy EXCEPT ![t] = -1]
  /\ obj' = [obj EXCEPT ![t] = None]
  /\ epCopy' = [epCopy EXCEPT ![t] = None]
  /\ lev' = [lev EXCEPT ![t] = 0]
  /\ top' = [top EXCEPT ![t] = {}]
  /\ cand' = [cand EXCEPT ![t] = {}]
  /\ visited' = [visited EXCEPT ![t] = {}]
  /\ updating' = updating \ {t}
  /\ UNCHANGED <<graph, deletes, updates, alone, todo>>

\* Mutant: an element above the top level keeps global.
PublishKeepsGlobal(t) ==
  /\ pc[t] = "publish"
  /\ IF level[cur[t]] > maxCopy[t]
     THEN enterpoint' = cur[t] /\ maxlevel' = level[cur[t]]
     ELSE UNCHANGED entry
  /\ Leave(t)
  /\ UNCHANGED global

(* The entry point is set under global; the locks are released.            *)
Publish(t) ==
  /\ pc[t] = "publish"
  /\ IF level[cur[t]] > maxCopy[t]
     THEN enterpoint' = cur[t] /\ maxlevel' = level[cur[t]]
     ELSE UNCHANGED entry
  /\ global' = IF global = t THEN None ELSE global
  /\ Leave(t)

-----------------------------------------------------------------------------
(* addPoint for a label that is in the index, or for a vacant slot: a mark *)
(* is taken away and the vector overwritten.  The label's mutex keeps other*)
(* operations on the element away.  While other threads hold distances in  *)
(* their queues the vector keeps its place.                                *)
BeginUpdate(t, e, p) ==
  /\ pc[t] = "idle"
  /\ updates < MaxUpdates /\ alone > 0 /\ count >= alone
  /\ e < count /\ \A u \in Threads : cur[u] # e
  /\ p = vec[e] \/ (Idle /\ \A a \in Elements : p # vec[a])
  /\ e \in marked => Idle
  /\ marked' = marked \ {e}
  /\ vec' = [vec EXCEPT ![e] = p]
  /\ updating' = updating \cup {t} /\ updates' = updates + 1 /\ UNCHANGED alone
  /\ cur' = [cur EXCEPT ![t] = e]
  /\ maxCopy' = [maxCopy EXCEPT ![t] = maxlevel]
  /\ Goto(t, "upentry")
  /\ UNCHANGED <<count, level, links, again, entry, global, linkLock, marks, obj, epCopy, lev, queues, todo>>

(* entryPointCopy, read after maxlevel_ and without global either.         *)
CopyEntryForUpdate(t) ==
  /\ pc[t] = "upentry"
  /\ IF enterpoint = cur[t] /\ count = 1 THEN Leave(t)
     ELSE /\ epCopy' = [epCopy EXCEPT ![t] = enterpoint]
          /\ Goto(t, "onehop")
          /\ UNCHANGED <<graph, linkLock, deletes, update, cur, maxCopy, obj, lev, queues, todo>>
  /\ UNCHANGED <<entry, global>>

(* The loop over the layers of updatePoint goes on, or is over.            *)
NextLayer(t) ==
  IF lev[t] < level[cur[t]]
  THEN lev' = [lev EXCEPT ![t] = @ + 1] /\ Goto(t, "onehop")
  ELSE Goto(t, "repair") /\ UNCHANGED lev

(* sCand and sNeigh of one layer.  The neighbours are all updated: callers *)
(* pass an updateNeighborProbability of 1.                                 *)
OneHop(t) ==
  /\ pc[t] = "onehop"
  /\ Unlocked(cur[t])
  /\ LET near == links[cur[t]][lev[t]] IN
     /\ cand' = [cand EXCEPT ![t] = near \cup {cur[t]}]
     /\ visited' = [visited EXCEPT ![t] = near]
     /\ todo' = [todo EXCEPT ![t] = near]
     /\ IF near = {} THEN NextLayer(t) ELSE Goto(t, "twohop") /\ UNCHANGED lev
  /\ UNCHANGED <<graph, entry, global, linkLock, deletes, update, cur, maxCopy, obj, epCopy, top>>

(* The list of one neighbour is read, in the order of a list: any.         *)
TwoHop(t, e) ==
  /\ pc[t] = "twohop"
  /\ e \in todo[t] /\ Unlocked(e)
  /\ cand' = [cand EXCEPT ![t] = @ \cup links[e][lev[t]]]
  /\ IF todo[t] = {e}
     THEN todo' = [todo EXCEPT ![t] = visited[t]] /\ Goto(t, "relink")
     ELSE todo' = [todo EXCEPT ![t] = @ \ {e}] /\ UNCHANGED pc
  /\ UNCHANGED <<graph, entry, global, linkLock, deletes, update, place, top, visited>>

\* Mutant: the neighbour is not taken out of its own candidates.
RelinkSelf(t, e) ==
  /\ pc[t] = "relink"
  /\ e \in todo[t] /\ Unlocked(e)
  /\ Write(e, lev[t], Heuristic(Nearest(cand[t], e, EfConstruction), e, Capacity(lev[t])))
  /\ todo' = [todo EXCEPT ![t] = @ \ {e}]
  /\ IF todo[t] = {e} THEN NextLayer(t) ELSE UNCHANGED <<pc, lev>>
  /\ UNCHANGED <<count, level, vec, entry, global, linkLock, deletes, update, cur, maxCopy, obj, epCopy, queues>>

(* A neighbour's list is chosen from sCand and written under its lock,     *)
(* whatever has been added to it since it was read.                        *)
Relink(t, e) ==
  /\ pc[t] = "relink"
  /\ e \in todo[t] /\ Unlocked(e)
  /\ Write(e, lev[t], Heuristic(Nearest(cand[t] \ {e}, e, EfConstruction), e, Capacity(lev[t])))
  /\ todo' = [todo EXCEPT ![t] = @ \ {e}]
  /\ IF todo[t] = {e} THEN NextLayer(t) ELSE UNCHANGED <<pc, lev>>
  /\ UNCHANGED <<count, level, vec, entry, global, linkLock, deletes, update, cur, maxCopy, obj, epCopy, queues>>

(* repairConnectionsForUpdate up to its first search.                      *)
StartRepair(t) ==
  /\ pc[t] = "repair"
  /\ IF level[cur[t]] > maxCopy[t] THEN Fail(t, "threw")
     ELSE /\ obj' = [obj EXCEPT ![t] = epCopy[t]]
          /\ IF level[cur[t]] < maxCopy[t] THEN StartDescent(t)
             ELSE StartSearch(t, epCopy[t], level[cur[t]])
          /\ UNCHANGED <<links, again, global, linkLock, update, cur, maxCopy, epCopy, todo>>
  /\ UNCHANGED <<count, level, vec, entry, deletes>>

(* markDelete and unmarkDelete, while no insertion or update is under way. *)
SetMark(e) ==
  /\ Idle
  /\ marks < MaxMarks /\ count >= alone
  /\ marks' = marks + 1
  /\ e < count
  /\ marked' = IF e \in marked THEN marked \ {e} ELSE marked \cup {e}
  /\ UNCHANGED <<graph, entry, global, linkLock, update, pc, place, queues, todo>>

Step(t) ==
  \/ Global(t) \/ ReadEntry(t) \/ CopyEntry(t) \/ First(t)
  \/ CopyEntryForUpdate(t) \/ OneHop(t) \/ StartRepair(t)
  \/ \E e \in Elements : TwoHop(t, e) \/ Relink(t, e)
  \/ Descend(t) \/ Expand(t) \/ Select(t) \/ SelectAgain(t) \/ LinkBack(t) \/ Publish(t)

Terminated == Idle /\ count = MaxElements /\ UNCHANGED vars

Next ==
  \/ \E t \in Threads : Claim(t) \/ Step(t)
  \/ \E t \in Threads, e \in Elements, p \in Places : BeginUpdate(t, e, p)
  \/ \E e \in Elements : SetMark(e)
  \/ Terminated

(* An operation that has begun goes on whenever it can.                    *)
Spec == Init /\ [][Next]_vars /\ \A t \in Threads : WF_vars(Step(t))

-----------------------------------------------------------------------------
(* Counters, levels, lists and the state of each thread have their types.  *)
TypeOK ==
  /\ count \in 0..MaxElements
  /\ level \in [Elements -> Levels]
  /\ vec \in [Elements -> Int]
  /\ links \in [Elements -> [Levels -> SUBSET Elements]]
  /\ again \in [Elements -> [Levels -> Nat]]
  /\ enterpoint \in Elements \cup {None}
  /\ maxlevel \in Levels \cup {-1}
  /\ global \in Threads \cup {None}
  /\ linkLock \in [Elements -> Threads \cup {None}]
  /\ marked \in SUBSET Elements /\ marks \in 0..MaxMarks
  /\ updating \in SUBSET Threads /\ updates \in 0..MaxUpdates /\ alone \in Nat
  /\ pc \in [Threads -> {"idle", "global", "entry", "copy", "first", "descend",
                         "search", "link", "publish", "upentry", "onehop", "twohop",
                         "relink", "repair", "threw", "undefined"}]
  /\ cur \in [Threads -> Elements \cup {None}]
  /\ maxCopy \in [Threads -> Levels \cup {-1}]
  /\ obj \in [Threads -> Elements \cup {None}]
  /\ epCopy \in [Threads -> Elements \cup {None}]
  /\ lev \in [Threads -> Levels]
  /\ top \in [Threads -> SUBSET Elements]
  /\ cand \in [Threads -> SUBSET Elements]
  /\ visited \in [Threads -> SUBSET Elements]
  /\ todo \in [Threads -> SUBSET Elements]

(* None of the code's own consistency checks fires during an insertion or  *)
(* an update: blank list, existing level, no self link, bounded list, level*)
(* of the updated element not above maxlevel_.                             *)
NoInternalError == \A t \in Threads : pc[t] # "threw"

(* There is always an element to link to, also when every element a search *)
(* can return is deleted.                                                  *)
SelectionNotEmpty == \A t \in Threads : pc[t] # "undefined"

(* No list is read or written at a level its element does not have, though *)
(* maxlevel_ and enterpoint_node_ are read at different moments without a  *)
(* common lock: there is no memory behind such a list.                     *)
ListsExist ==
  \A t \in Threads :
    /\ pc[t] = "descend" => lev[t] <= level[obj[t]]
    /\ pc[t] = "search"  => \A e \in cand[t] : lev[t] <= level[e]
    /\ pc[t] \in {"onehop", "link"} => lev[t] <= level[cur[t]]
    /\ pc[t] \in {"twohop", "relink", "link"} => \A e \in todo[t] : lev[t] <= level[e]

(* At every moment a list leads to elements that exist, at the list's level*)
(* too, and never back to its own element, and its entries, those that     *)
(* stand there twice too, fit in the memory reserved for it.  As long as   *)
(* nothing has been updated none stands there twice, though no insertion   *)
(* looks: this is the rest of what checkIntegrity asserts of a list.       *)
Integrity ==
  \A e \in Elements, l \in Levels :
    /\ Size(e, l) <= Capacity(l)
    /\ \A a \in links[e][l] : a # e /\ a < count /\ l <= level[a] /\ l <= level[e]
    /\ updates = 0 => again[e][l] = 0

(* When all is quiet a search can leave every element at every level that  *)
(* the element shares with another one, whatever pruning and updates have  *)
(* made of the lists.                                                      *)
NoDeadEnd ==
  Idle => \A a, b \in 0..(count - 1), l \in Levels :
    a # b /\ l <= level[a] /\ l <= level[b] => links[a][l] # {}

(* Whenever nobody holds global the entry point is on the top level, which *)
(* no element exceeds but the ones on their way in.                        *)
EntryOnTop ==
  global = None /\ enterpoint # None =>
    /\ level[enterpoint] = maxlevel
    /\ \A e \in 0..(count - 1) :
         level[e] > maxlevel => \E t \in Threads \ updating : cur[t] = e

(* The element whose link lock the next step of a thread may need.         *)
Visits(t, e) ==
  \/ pc[t] = "descend" /\ e = obj[t]
  \/ pc[t] = "search" /\ ~SearchOver(t) /\ e = Closest(cand[t], cur[t])
  \/ pc[t] = "search" /\ SearchOver(t) /\ t \in updating /\ e = cur[t]
  \/ pc[t] = "onehop" /\ e = cur[t]
  \/ pc[t] \in {"twohop", "relink"} /\ e \in todo[t]
  \/ pc[t] = "link" /\ e = Farthest(todo[t], cur[t])

Waits(t, u) ==
  \/ pc[t] = "global" /\ global = u
  \/ \E e \in Elements : Visits(t, e) /\ linkLock[e] = u

(* An insertion keeps the lock of its own element, and global, while it    *)
(* takes the locks of others in no fixed order; nevertheless no set of     *)
(* threads all wait for one of the set, nor does a thread for itself.      *)
NoCircularWait ==
  \A S \in SUBSET Threads : S # {} => \E t \in S : \A u \in S : ~Waits(t, u)

(* No thread waits for ever and no two wait for each other: every insertion*)
(* and every update that begins comes to its end.                          *)
OperationsEnd == \A t \in Threads : pc[t] # "idle" ~> pc[t] = "idle"

(* The elements that can be reached at level 0 from a set of elements.     *)
Reach(S) ==
  LET step[i \in 0..MaxElements] ==
        IF i = 0 THEN S
        ELSE step[i - 1] \cup UNION {links[e][0] : e \in step[i - 1]}
  IN  step[MaxElements]

(* Elements inserted at the same time do not see each other; when all is   *)
(* quiet they are nevertheless in one graph, in which every element leads  *)
(* to every other, as long as no list had to be pruned.                    *)
Connected ==
  Idle /\ count <= 2 * M + 1 /\ updates = 0 =>
    \A e \in 0..(count - 1) : Reach({e}) = 0..(count - 1)

(* checkIntegrity: "assert(inbound_connections_num[i] > 0)".               *)
InboundConnected ==
  Idle /\ count > 1 =>
    \A e \in 0..(count - 1) : \E n \in Elements, l \in Levels : e \in links[n][l]
=============================================================================
