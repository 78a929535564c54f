----------------------------- MODULE LabelSlots -----------------------------
(***************************************************************************)
(* The element table of HierarchicalNSW (hnswlib/hnswalg.h): which label   *)
(* lives in which slot, which slots are marked deleted, and which deleted  *)
(* slots wait to be replaced, under concurrent addPoint, markDelete,       *)
(* unmarkDelete and getDataByLabel.                                        *)
(*                                                                         *)
(* An operation holds the mutex of its label (getLabelOpMutex) from its    *)
(* first step to its last.  The sections under label_lookup_lock and under *)
(* deleted_elements_lock are single steps; the delete mark, num_deleted_   *)
(* and the vector have no lock of their own and are written step by step.  *)
(* The links of the graph are the subject of other modules.                *)
(***************************************************************************)
EXTENDS Integers, FiniteSets

CONSTANTS
  Threads, Labels, Values,
  MaxElements,   \* max_elements_
  AllowReplace,  \* allow_replace_deleted_
  AnyReplace,    \* callers pass replace_deleted for labels already present
  LockOf,        \* LockOf[x]: the mutex of label x in label_op_locks_
  None,          \* no slot, no label, no thread
  Torn           \* a vector in the middle of a memcpy

ASSUME SizeAssumption == MaxElements \in Nat
ASSUME ThreadsAssumption == IsFiniteSet(Threads)
ASSUME ModeAssumption == AllowReplace \in BOOLEAN /\ AnyReplace \in BOOLEAN
ASSUME NoneAssumption ==
  /\ None \notin Labels \cup Threads \cup Values \cup Nat
  /\ Torn \notin Values \cup {None}

Slots == 0 .. (MaxElements - 1)
Locks == {LockOf[x] : x \in Labels}

VARIABLES
  lookup,      \* label_lookup_: the slot of each label, or None
  count,       \* cur_element_count
  slotLabel,   \* the external label stored in each slot
  data,        \* the vector stored in each slot
  marked,      \* the slots that carry DELETE_MARK
  numDeleted,  \* num_deleted_
  vacant,      \* deleted_elements
  labelLock,   \* the thread that holds each label mutex, or None
  pc, call,    \* per thread: the next step, and the operation in progress
  slot,        \* per thread: internalId, internal_id_replaced or cur_c
  oldLabel,    \* per thread: label_replaced
  result,      \* per thread: what its last operation returned or threw
  before       \* history: the element of the label when the call began

table   == <<lookup, count, slotLabel, data>>
deletes == <<marked, numDeleted, vacant>>
vars == <<table, deletes, labelLock, pc, call, slot, oldLabel, result, before>>

Request ==
  [op : {"add"}, label : Labels, value : Values, replace : BOOLEAN]
    \cup [op : {"mark", "unmark", "get"}, label : Labels]

ASSUME NoElementAssumption ==
  None \notin Request /\ None \notin [value : Values, deleted : BOOLEAN]

Steps == {"idle", "find", "read", "mark", "countMark", "offer", "unmark",
          "countUnmark", "withdraw", "takeVacant", "relabel", "rebind",
          "findOrClaim", "update", "initialise", "startWrite", "endWrite"}

Busy(t)  == pc[t] # "idle"
Label(t) == call[t].label

(* What the table says of a label that no operation is working on.         *)
Settled(x) ==
  IF lookup[x] = None THEN None
  ELSE [value |-> data[lookup[x]], deleted |-> lookup[x] \in marked]

Init ==
  /\ lookup = [x \in Labels |-> None]
  /\ count = 0
  /\ slotLabel = [s \in Slots |-> None]
  /\ data = [s \in Slots |-> None]
  /\ marked = {}
  /\ numDeleted = 0
  /\ vacant = {}
  /\ labelLock = [l \in Locks |-> None]
  /\ pc = [t \in Threads |-> "idle"]
  /\ call = [t \in Threads |-> None]
  /\ slot = [t \in Threads |-> None]
  /\ oldLabel = [t \in Threads |-> None]
  /\ result = [t \in Threads |-> None]
  /\ before = [t \in Threads |-> None]

-----------------------------------------------------------------------------
(* Callers keep to what the code assumes when replacement is enabled: no   *)
(* operation on a deleted element and no unmarkDelete.  Unless AnyReplace, *)
(* they also ask for replacement only with labels that are not in the      *)
(* index.  The code neither says nor checks that: it is a restriction of   *)
(* the callers, made to see what holds under it, and UpdatesInPlace is     *)
(* checked without it.                                                     *)
Replaces(r) == r.op = "add" /\ r.replace

Permitted(r) ==
  IF ~AllowReplace THEN ~Replaces(r)
  ELSE /\ r.op # "unmark"
       /\ \/ lookup[r.label] = None
          \/ lookup[r.label] \notin marked /\ ~Replaces(r)
          \/ Replaces(r) /\ AnyReplace

Goto(t, next) == pc' = [pc EXCEPT ![t] = next]

(* The end of an operation, by return or by exception: the label mutex is  *)
(* released.                                                               *)
Return(t, r) ==
  /\ Goto(t, "idle")
  /\ call' = [call EXCEPT ![t] = None]
  /\ slot' = [slot EXCEPT ![t] = None]
  /\ oldLabel' = [oldLabel EXCEPT ![t] = None]
  /\ before' = [before EXCEPT ![t] = None]
  /\ result' = [result EXCEPT ![t] = r]
  /\ labelLock' = [labelLock EXCEPT ![LockOf[Label(t)]] = None]

Stay(t) == UNCHANGED <<labelLock, call, result, before>>

LockFree(r) == labelLock[LockOf[r.label]] = None

(* A call enters once it has the mutex of its label.                       *)
Begin(t, r) ==
  /\ pc[t] = "idle"
  /\ LockFree(r)
  /\ Permitted(r)
  /\ labelLock' = [labelLock EXCEPT ![LockOf[r.label]] = t]
  /\ call' = [call EXCEPT ![t] = r]
  /\ before' = [before EXCEPT ![t] = Settled(r.label)]
  /\ Goto(t, IF r.op # "add" THEN "find"
             ELSE IF r.replace THEN "takeVacant" ELSE "findOrClaim")
  /\ result' = [result EXCEPT ![t] = None]
  /\ UNCHANGED <<table, deletes, slot, oldLabel>>

(* label_lookup_.find in markDelete, unmarkDelete and getDataByLabel.      *)
Find(t) ==
  /\ pc[t] = "find"
  /\ LET s == lookup[Label(t)] IN
     IF s = None \/ (call[t].op = "get" /\ s \in marked)
     THEN Return(t, "threw")
     ELSE /\ slot' = [slot EXCEPT ![t] = s]
          /\ Goto(t, CASE call[t].op = "get"    -> "read"
                       [] call[t].op = "mark"   -> "mark"
                       [] call[t].op = "unmark" -> "unmark")
          /\ UNCHANGED oldLabel /\ Stay(t)
  /\ UNCHANGED <<table, deletes>>

Read(t) ==
  /\ pc[t] = "read"
  /\ Return(t, data[slot[t]])
  /\ UNCHANGED <<table, deletes>>

(* markDeletedInternal: the mark, the counter, the set of vacant slots.    *)
Mark(t) ==
  /\ pc[t] = "mark"
  /\ IF slot[t] \in marked
     THEN Return(t, "threw") /\ UNCHANGED marked
     ELSE /\ marked' = marked \cup {slot[t]}
          /\ Goto(t, "countMark")
          /\ UNCHANGED <<slot, oldLabel>> /\ Stay(t)
  /\ UNCHANGED <<table, numDeleted, vacant>>

CountMark(t) ==
  /\ pc[t] = "countMark"
  /\ numDeleted' = numDeleted + 1
  /\ IF AllowReplace
     THEN Goto(t, "offer") /\ UNCHANGED <<slot, oldLabel>> /\ Stay(t)
     ELSE Return(t, "ok")
  /\ UNCHANGED <<table, marked, vacant>>

Offer(t) ==
  /\ pc[t] = "offer"
  /\ vacant' = vacant \cup {slot[t]}
  /\ Return(t, "ok")
  /\ UNCHANGED <<table, marked, numDeleted>>

\* Mutant: the call of updatePoint that follows unmarkDeletedInternal is missing.
AfterUnmarkReturns(t) == Return(t, "ok")

(* unmarkDeletedInternal, called by unmarkDelete and by addPoint.          *)
AfterUnmark(t) ==
  IF call[t].op = "add"
  THEN Goto(t, "startWrite") /\ UNCHANGED <<slot, oldLabel>> /\ Stay(t)
  ELSE Return(t, "ok")

Unmark(t) ==
  /\ pc[t] = "unmark"
  /\ IF slot[t] \notin marked
     THEN Return(t, "threw") /\ UNCHANGED marked
     ELSE /\ marked' = marked \ {slot[t]}
          /\ Goto(t, "countUnmark")
          /\ UNCHANGED <<slot, oldLabel>> /\ Stay(t)
  /\ UNCHANGED <<table, numDeleted, vacant>>

\* Mutant: the revived element stays counted.
CountUnmarkLost(t) ==
  /\ pc[t] = "countUnmark"
  /\ IF AllowReplace
     THEN Goto(t, "withdraw") /\ UNCHANGED <<slot, oldLabel>> /\ Stay(t)
     ELSE AfterUnmark(t)
  /\ UNCHANGED <<table, deletes>>

CountUnmark(t) ==
  /\ pc[t] = "countUnmark"
  /\ numDeleted' = numDeleted - 1
  /\ IF AllowReplace
     THEN Goto(t, "withdraw") /\ UNCHANGED <<slot, oldLabel>> /\ Stay(t)
     ELSE AfterUnmark(t)
  /\ UNCHANGED <<table, marked, vacant>>

Withdraw(t) ==
  /\ pc[t] = "withdraw"
  /\ vacant' = vacant \ {slot[t]}
  /\ AfterUnmark(t)
  /\ UNCHANGED <<table, marked, numDeleted>>

\* Mutant: deleted_elements.erase(internal_id_replaced) is missing.
TakeVacantKept(t) ==
  /\ pc[t] = "takeVacant"
  /\ \E s \in vacant :
       slot' = [slot EXCEPT ![t] = s] /\ Goto(t, "relabel")
  /\ UNCHANGED <<table, deletes, oldLabel>> /\ Stay(t)

(* addPoint(replace_deleted = true): take any vacant slot.                 *)
TakeVacant(t) ==
  /\ pc[t] = "takeVacant"
  /\ \/ /\ vacant = {}
        /\ Goto(t, "findOrClaim")
        /\ UNCHANGED <<vacant, slot>>
     \/ \E s \in vacant :
          /\ vacant' = vacant \ {s}
          /\ slot' = [slot EXCEPT ![t] = s]
          /\ Goto(t, "relabel")
  /\ UNCHANGED <<table, marked, numDeleted, oldLabel>> /\ Stay(t)

Relabel(t) ==
  /\ pc[t] = "relabel"
  /\ oldLabel' = [oldLabel EXCEPT ![t] = slotLabel[slot[t]]]
  /\ slotLabel' = [slotLabel EXCEPT ![slot[t]] = Label(t)]
  /\ Goto(t, "rebind")
  /\ UNCHANGED <<lookup, count, data, deletes, slot>> /\ Stay(t)

\* Mutant: label_lookup_.erase(label_replaced) is missing.
RebindKeepsOld(t) ==
  /\ pc[t] = "rebind"
  /\ lookup' = [lookup EXCEPT ![Label(t)] = slot[t]]
  /\ Goto(t, "unmark")
  /\ UNCHANGED <<count, slotLabel, data, deletes, slot, oldLabel>> /\ Stay(t)

(* label_lookup_.erase(label_replaced); label_lookup_[label] = slot.       *)
Rebind(t) ==
  /\ pc[t] = "rebind"
  /\ lookup' = [lookup EXCEPT ![oldLabel[t]] = None, ![Label(t)] = slot[t]]
  /\ Goto(t, "unmark")
  /\ UNCHANGED <<count, slotLabel, data, deletes, slot, oldLabel>> /\ Stay(t)

(* addPoint(data_point, label, level): the section under label_lookup_lock *)
(* finds the slot to update, or claims the next one.                       *)
FindOrClaim(t) ==
  /\ pc[t] = "findOrClaim"
  /\ LET s == lookup[Label(t)] IN
     \/ /\ \/ s # None /\ AllowReplace /\ s \in marked
           \/ s = None /\ count >= MaxElements
        /\ Return(t, "threw")
        /\ UNCHANGED <<lookup, count>>
     \/ /\ s # None
        /\ ~(AllowReplace /\ s \in marked)
        /\ slot' = [slot EXCEPT ![t] = s]
        /\ Goto(t, "update")
        /\ UNCHANGED <<lookup, count, oldLabel>> /\ Stay(t)
     \/ /\ s = None
        /\ count < MaxElements
        /\ slot' = [slot EXCEPT ![t] = count]
        /\ count' = count + 1
        /\ lookup' = [lookup EXCEPT ![Label(t)] = count]
        /\ Goto(t, "initialise")
        /\ UNCHANGED oldLabel /\ Stay(t)
  /\ UNCHANGED <<slotLabel, data, deletes>>

Update(t) ==
  /\ pc[t] = "update"
  /\ Goto(t, IF slot[t] \in marked THEN "unmark" ELSE "startWrite")
  /\ UNCHANGED <<table, deletes, slot, oldLabel>> /\ Stay(t)

(* memset of the element, and its label.                                   *)
Initialise(t) ==
  /\ pc[t] = "initialise"
  /\ marked' = marked \ {slot[t]}
  /\ slotLabel' = [slotLabel EXCEPT ![slot[t]] = Label(t)]
  /\ Goto(t, "startWrite")
  /\ UNCHANGED <<lookup, count, data, numDeleted, vacant, slot, oldLabel>> /\ Stay(t)

(* The memcpy of the vector, in addPoint and in updatePoint.               *)
StartWrite(t) ==
  /\ pc[t] = "startWrite"
  /\ data' = [data EXCEPT ![slot[t]] = Torn]
  /\ Goto(t, "endWrite")
  /\ UNCHANGED <<lookup, count, slotLabel, deletes, slot, oldLabel>> /\ Stay(t)

EndWrite(t) ==
  /\ pc[t] = "endWrite"
  /\ data' = [data EXCEPT ![slot[t]] = call[t].value]
  /\ Return(t, "ok")
  /\ UNCHANGED <<lookup, count, slotLabel, deletes>>

Step(t) ==
  \/ Find(t) \/ Read(t)
  \/ Mark(t) \/ CountMark(t) \/ Offer(t)
  \/ Unmark(t) \/ CountUnmark(t) \/ Withdraw(t)
  \/ TakeVacant(t) \/ Relabel(t) \/ Rebind(t)
  \/ FindOrClaim(t) \/ Update(t) \/ Initialise(t)
  \/ StartWrite(t) \/ EndWrite(t)

Next == \E t \in Threads : Step(t) \/ \E r \in Request : Begin(t, r)

Spec == Init /\ [][Next]_vars

-----------------------------------------------------------------------------
TypeOK ==
  /\ lookup \in [Labels -> Slots \cup {None}]
  /\ count \in 0..MaxElements
  /\ slotLabel \in [Slots -> Labels \cup {None}]
  /\ data \in [Slots -> Values \cup {None, Torn}]
  /\ marked \in SUBSET Slots
  /\ numDeleted \in Nat
  /\ vacant \in SUBSET Slots
  /\ labelLock \in [Locks -> Threads \cup {None}]
  /\ pc \in [Threads -> Steps]
  /\ call \in [Threads -> Request \cup {None}]
  /\ slot \in [Threads -> Slots \cup {None}]
  /\ oldLabel \in [Threads -> Labels \cup {None}]
  /\ result \in [Threads -> Values \cup {"ok", "threw", None}]
  /\ before \in [Threads -> [value : Values, deleted : BOOLEAN] \cup {None}]

(* The element of a label as its callers may rely on it: while an          *)
(* operation on the label is under way, what it was before the operation.  *)
Element(x) ==
  IF \E t \in Threads : Busy(t) /\ Label(t) = x
  THEN before[CHOOSE t \in Threads : Busy(t) /\ Label(t) = x]
  ELSE Settled(x)

InUse(s) == \E t \in Threads : slot[t] = s

(* label_lookup_ and the labels written in the slots agree on every slot   *)
(* no operation is working on: no live or deleted element is out of reach  *)
(* of its label, and no label leads to another label's element.            *)
TableAgrees ==
  /\ \A s \in 0..(count - 1) :
       ~InUse(s) => \E x \in Labels : slotLabel[s] = x /\ lookup[x] = s
  /\ \A x \in Labels :
       lookup[x] # None /\ ~InUse(lookup[x]) => slotLabel[lookup[x]] = x

(* num_deleted_ is the number of marked slots, up to the operations that   *)
(* stand between writing a mark and counting it.                           *)
NumDeletedExact ==
  numDeleted = Cardinality(marked)
                 - Cardinality({t \in Threads : pc[t] = "countMark"})
                 + Cardinality({t \in Threads : pc[t] = "countUnmark"})

(* A search skips the marks while num_deleted_ is zero                     *)
(* (bare_bone_search): once a label has been deleted, the counter sends    *)
(* every later search through them until another operation on the label.   *)
DeletedForcesCheck ==
  \A x \in Labels :
    /\ \A t \in Threads : Busy(t) => Label(t) # x
    /\ lookup[x] # None /\ lookup[x] \in marked
    => numDeleted > 0

(* A vacant slot is deleted and nobody's; a slot taken for replacement, or *)
(* claimed, or found by label, is worked on by one operation only.         *)
SlotOwnership ==
  /\ \A s \in vacant : s \in marked /\ ~InUse(s)
  /\ \A t, u \in Threads : t # u /\ slot[t] # None => slot[t] # slot[u]

(* "Adds point. Updates the point if it is already in the index", says the *)
(* comment of addPoint: two live elements never carry the same label.      *)
UpdatesInPlace ==
  \A s, u \in 0..(count - 1) :
    s \notin marked /\ u \notin marked /\ ~InUse(s) /\ ~InUse(u)
      /\ slotLabel[s] = slotLabel[u] => s = u

(* The table implements the label map: every operation takes effect, as a  *)
(* whole, at its end, a replaced label being forgotten at Rebind.          *)
Store == INSTANCE LabelStore WITH store <- [x \in Labels |-> Element(x)]
ImplementsStore == Store!Spec
=============================================================================
