-------------------------- MODULE LabelSlotsProofs --------------------------
(***************************************************************************)
(* The element table of HierarchicalNSW for any number of threads, labels, *)
(* vectors and slots and any assignment of labels to mutexes, as long as   *)
(* callers do not pass replace_deleted for labels that are in the index.   *)
(***************************************************************************)
EXTENDS LabelSlots, FiniteSetTheorems, TLAPS

Used == 0 .. (count - 1)

(* TypeOK, but for the sign of num_deleted_, which depends on the counting.*)
TableTypes ==
  /\ lookup \in [Labels -> Slots \cup {None}]
  /\ count \in 0..MaxElements
  /\ slotLabel \in [Slots -> Labels \cup {None}]
  /\ data \in [Slots -> Values \cup {None, Torn}]

DeleteTypes ==
  /\ marked \in SUBSET Slots
  /\ numDeleted \in Int
  /\ vacant \in SUBSET Slots

ThreadTypes ==
  /\ labelLock \in [Locks -> Threads \cup {None}]
  /\ pc \in [Threads -> Steps]
  /\ call \in [Threads -> Request \cup {None}]
  /\ slot \in [Threads -> Slots \cup {None}]
  /\ oldLabel \in [Threads -> Labels \cup {None}]
  /\ result \in [Threads -> Values \cup {"ok", "threw", None}]
  /\ before \in [Threads -> [value : Values, deleted : BOOLEAN] \cup {None}]

TypeInv == TableTypes /\ DeleteTypes /\ ThreadTypes

(* The steps of a thread that has the slot of its label, and of one that is*)
(* about to give the slot it has taken to its label.                       *)
Bound     == {"read", "mark", "countMark", "offer", "unmark", "countUnmark",
              "withdraw", "update", "initialise", "startWrite", "endWrite"}
Replacing == {"relabel", "rebind"}
Adding    == {"takeVacant", "relabel", "rebind", "findOrClaim", "update",
              "initialise", "startWrite", "endWrite"}

(* The label written in a slot leads back to the slot.                     *)
Tidy(s) == slotLabel[s] \in Labels /\ lookup[slotLabel[s]] = s

(* A thread in an operation holds the mutex of its label.                  *)
CallInv(t) ==
  /\ pc[t] = "idle" => call[t] = None
  /\ pc[t] # "idle" => call[t] \in Request /\ labelLock[LockOf[Label(t)]] = t
  /\ pc[t] \in Adding => call[t].op = "add"
  /\ pc[t] \in {"unmark", "countUnmark", "withdraw"} => call[t].op \in {"add", "unmark"}
  /\ pc[t] = "find" => call[t].op # "add"
  /\ pc[t] \in Replacing \cup {"takeVacant", "offer"} => AllowReplace

(* What a thread knows of the slot it works on.                            *)
SlotInv(t) ==
  /\ slot[t] # None <=> pc[t] \in Bound \cup Replacing
  /\ slot[t] # None => slot[t] \in Used
  /\ pc[t] \in Bound => lookup[Label(t)] = slot[t]
  /\ pc[t] \in Bound \ {"initialise"} => slotLabel[slot[t]] = Label(t)
  /\ pc[t] = "initialise" => slot[t] \notin marked
  /\ pc[t] \in {"relabel", "rebind", "countMark", "offer"} => slot[t] \in marked
  /\ pc[t] = "relabel" => Tidy(slot[t])
  /\ pc[t] = "rebind" =>
       /\ oldLabel[t] \in Labels /\ lookup[oldLabel[t]] = slot[t]
       /\ slotLabel[slot[t]] = Label(t)

(* A thread that replaces has a label that is not in the index; one that   *)
(* looks its label up finds no deleted element where they are replaced.    *)
FreshInv(t) ==
  /\ pc[t] \in Replacing \cup {"takeVacant"} => lookup[Label(t)] = None
  /\ AllowReplace /\ pc[t] \in {"find", "findOrClaim"} /\ lookup[Label(t)] # None
       => lookup[Label(t)] \notin marked

Local(t) == CallInv(t) /\ SlotInv(t) /\ FreshInv(t)

LookupInv ==
  /\ \A x \in Labels : lookup[x] # None => lookup[x] \in Used
  /\ \A x, y \in Labels : lookup[x] # None /\ lookup[x] = lookup[y] => x = y
  /\ \A s \in Used :
       Tidy(s) \/ \E t \in Threads : slot[t] = s /\ pc[t] \in {"initialise", "rebind"}

VacantInv ==
  /\ marked \subseteq Used
  /\ vacant # {} => AllowReplace
  /\ \A s \in vacant : s \in marked /\ Tidy(s) /\ \A t \in Threads : slot[t] # s

DistinctInv == \A t, u \in Threads : t # u /\ slot[t] # None => slot[t] # slot[u]

(* A vector is torn only while the operation that writes it is under way.  *)
DataInv ==
  \A s \in Used :
    \/ data[s] \in Values
    \/ \E t \in Threads : slot[t] = s /\ pc[t] \in {"initialise", "startWrite", "endWrite"}

Marking   == {t \in Threads : pc[t] = "countMark"}
Unmarking == {t \in Threads : pc[t] = "countUnmark"}

CountInv == numDeleted = Cardinality(marked) - Cardinality(Marking) + Cardinality(Unmarking)

Shared == LookupInv /\ VacantInv /\ DistinctInv /\ DataInv

IInv == TypeInv /\ (\A t \in Threads : Local(t)) /\ Shared /\ CountInv

-----------------------------------------------------------------------------
(* What a step leaves alone: the other threads ...                         *)
Same(u) ==
  /\ pc'[u] = pc[u] /\ call'[u] = call[u] /\ slot'[u] = slot[u] /\ oldLabel'[u] = oldLabel[u]
  /\ pc[u] # "idle" => labelLock'[LockOf[Label(u)]] = labelLock[LockOf[Label(u)]]

(* ... and all of the table but slot s and what leads to it: label x may   *)
(* be led to s, and the label that led to s may lose it.                   *)
Confined(x, s) ==
  /\ Used \subseteq Used' /\ Used' \subseteq Used \cup {s}
  /\ \A r \in Slots \ {s} : slotLabel'[r] = slotLabel[r] /\ data'[r] = data[r]
  /\ marked' \ {s} = marked \ {s} /\ vacant' \ {s} = vacant \ {s}
  /\ \A y \in Labels :
       \/ lookup'[y] = lookup[y]
       \/ y = x /\ lookup[x] = None /\ lookup'[x] = s
       \/ lookup[y] = s /\ lookup'[y] = None
  /\ s \in marked' => s \in marked \/ lookup[x] = s

(* What holds of slot s, and of the thread t that may have it, afterwards. *)
AtSlot(t, s) ==
  /\ slot[t] \in {s, None} /\ slot'[t] \in {s, None}
  /\ s \in Used' =>
       /\ Tidy(s)' \/ (slot'[t] = s /\ pc'[t] \in {"initialise", "rebind"})
       /\ \/ data'[s] \in Values
          \/ slot'[t] = s /\ pc'[t] \in {"initialise", "startWrite", "endWrite"}
  /\ s \in marked' => s \in Used'
  /\ s \in vacant' => AllowReplace /\ s \in marked' /\ Tidy(s)' /\ slot'[t] # s
  /\ s # None => \A y, z \in Labels :
       lookup'[y] = s => s \in Used' /\ (lookup'[z] = s => y = z)

(* A thread other than t is not working on label x or slot s.              *)
Apart(t, x, s) ==
  \A u \in Threads \ {t} : (pc[u] # "idle" => Label(u) # x) /\ (s # None => slot[u] # s)

Effect(t, x, s) == Confined(x, s) /\ AtSlot(t, s) /\ Apart(t, x, s)

-----------------------------------------------------------------------------
(* The other threads keep what they know.                                  *)
LEMMA OthersKeep ==
  ASSUME IInv, NEW t \in Threads, NEW x \in Labels, NEW s \in Slots \cup {None},
         Effect(t, x, s), NEW u \in Threads \ {t}, Same(u)
  PROVE  Local(u)'
<1> USE DEF Effect
<1>1. CallInv(u) /\ SlotInv(u) /\ FreshInv(u)
  BY DEF IInv, Local
<1>2. CallInv(u)'
  BY <1>1 DEF CallInv, Same, Label
<1>3. pc[u] # "idle" => Label(u) \in Labels /\ Label(u) # x /\ Label(u)' = Label(u)
  BY <1>1 DEF CallInv, Same, Label, Request, Apart
<1>4. slot[u] # None => slot[u] \in Slots \ {s}
  BY DEF Apart, IInv, TypeInv, ThreadTypes
<1>5. slot[u] # None => /\ slot[u] \in Used' /\ slotLabel'[slot[u]] = slotLabel[slot[u]]
                        /\ slot[u] \in marked' <=> slot[u] \in marked
  BY <1>1, <1>4 DEF Confined, SlotInv
<1>6. \A y \in Labels \ {x} : lookup[y] # s => lookup'[y] = lookup[y]
  BY DEF Confined
<1>7. SlotInv(u)'
  <2>1. (slot[u] # None <=> pc[u] \in Bound \cup Replacing)'
    BY <1>1 DEF SlotInv, Same, Bound, Replacing
  <2>2. (slot[u] # None => slot[u] \in Used)'
    BY <1>5 DEF Same
  <2>3. (pc[u] \in Bound => lookup[Label(u)] = slot[u])'
    <3> SUFFICES ASSUME pc[u] \in Bound PROVE lookup'[Label(u)] = slot[u]
      BY <1>3 DEF Same, Bound
    <3>1. slot[u] # None /\ lookup[Label(u)] = slot[u] /\ pc[u] # "idle"
      BY <1>1 DEF SlotInv, Bound
    <3>2. QED BY <3>1, <1>3, <1>4, <1>6
  <2>4. (pc[u] \in Bound \ {"initialise"} => slotLabel[slot[u]] = Label(u))'
    BY <1>1, <1>3, <1>5 DEF SlotInv, Same, Bound
  <2>5. (pc[u] = "initialise" => slot[u] \notin marked)'
    BY <1>1, <1>5 DEF SlotInv, Same, Bound
  <2>6. (pc[u] \in {"relabel", "rebind", "countMark", "offer"} => slot[u] \in marked)'
    BY <1>1, <1>5 DEF SlotInv, Same, Bound, Replacing
  <2>7. (pc[u] = "relabel" => Tidy(slot[u]))'
    <3> SUFFICES ASSUME pc[u] = "relabel" PROVE Tidy(slot[u])'
      BY DEF Same
    <3>1. slot[u] # None /\ Tidy(slot[u]) /\ lookup[Label(u)] = None
      BY <1>1 DEF SlotInv, Replacing, FreshInv
    <3>2. lookup'[slotLabel[slot[u]]] = slot[u]
      BY <3>1, <1>4 DEF Tidy, Confined
    <3>3. QED BY <3>1, <3>2, <1>5 DEF Tidy, Same
  <2>8. (pc[u] = "rebind" =>
          /\ oldLabel[u] \in Labels /\ lookup[oldLabel[u]] = slot[u]
          /\ slotLabel[slot[u]] = Label(u))'
    <3> SUFFICES ASSUME pc[u] = "rebind"
                 PROVE  /\ oldLabel[u] \in Labels /\ lookup'[oldLabel[u]] = slot[u]
                        /\ slotLabel'[slot[u]] = Label(u)
      BY <1>3 DEF Same
    <3>1. /\ slot[u] # None /\ oldLabel[u] \in Labels
          /\ lookup[oldLabel[u]] = slot[u] /\ slotLabel[slot[u]] = Label(u)
      BY <1>1 DEF SlotInv, Replacing
    <3>2. QED BY <3>1, <1>4, <1>5 DEF Confined
  <2>9. QED BY <2>1, <2>2, <2>3, <2>4, <2>5, <2>6, <2>7, <2>8 DEF SlotInv
<1>8. FreshInv(u)'
  <2>1. (pc[u] \in Replacing \cup {"takeVacant"} => lookup[Label(u)] = None)'
    BY <1>1, <1>3 DEF FreshInv, Same, Confined, Replacing
  <2>2. ASSUME AllowReplace, pc[u] \in {"find", "findOrClaim"}, lookup'[Label(u)] # None
        PROVE  lookup'[Label(u)] \notin marked'
    <3>1. Label(u) \in Labels /\ Label(u) # x /\ lookup'[Label(u)] = lookup[Label(u)]
      BY <2>2, <1>3 DEF Confined
    <3>2. lookup[Label(u)] \notin marked
      BY <2>2, <3>1, <1>1 DEF FreshInv
    <3>3. lookup[Label(u)] # s \/ s \notin marked'
      BY <2>2, <3>1, <3>2 DEF Confined, IInv, Shared, LookupInv
    <3>4. QED BY <3>1, <3>2, <3>3 DEF Confined
  <2>3. QED BY <2>1, <2>2, <1>3 DEF FreshInv, Same
<1>9. QED BY <1>2, <1>7, <1>8 DEF Local

(* The table stays consistent.                                             *)
LEMMA SharedKept ==
  ASSUME IInv, NEW t \in Threads, NEW x \in Labels, NEW s \in Slots \cup {None},
         Effect(t, x, s), \A u \in Threads \ {t} : Same(u)
  PROVE  Shared'
<1> USE DEF Effect
<1>1. LookupInv /\ VacantInv /\ DistinctInv /\ DataInv
  BY DEF IInv, Shared
<1>2. None \notin Used /\ None \notin Used' /\ Used \subseteq Slots /\ None \notin Slots
  BY NoneAssumption, SizeAssumption DEF Used, Slots, IInv, TypeInv, TableTypes, Confined
<1>3. \A r \in Used : r # s /\ Tidy(r) => Tidy(r)'
  BY <1>1, <1>2 DEF Tidy, Confined
<1>4. \A r \in Used' \ {s} : r \in Used
  BY DEF Confined
<1>5. LookupInv'
  <2>1. ASSUME NEW y \in Labels, lookup'[y] # None PROVE lookup'[y] \in Used'
    BY <2>1, <1>1 DEF LookupInv, Confined, AtSlot
  <2>2. ASSUME NEW y \in Labels, NEW z \in Labels, lookup'[y] # None, lookup'[y] = lookup'[z]
        PROVE  y = z
    <3>1. CASE lookup'[y] = s
      BY <2>2, <3>1 DEF AtSlot
    <3>2. CASE lookup'[y] # s
      BY <2>2, <3>2, <1>1 DEF LookupInv, Confined
    <3>3. QED BY <3>1, <3>2
  <2>3. ASSUME NEW r \in Used'
        PROVE  Tidy(r)' \/ \E w \in Threads : slot'[w] = r /\ pc'[w] \in {"initialise", "rebind"}
    <3>1. CASE r = s
      BY <3>1 DEF AtSlot
    <3>2. CASE r # s /\ Tidy(r)
      BY <3>2, <1>3, <1>4
    <3>3. CASE r # s /\ ~Tidy(r)
      <4>1. PICK w \in Threads : slot[w] = r /\ pc[w] \in {"initialise", "rebind"}
        BY <3>3, <1>1, <1>4 DEF LookupInv
      <4>2. w # t
        BY <4>1, <3>3, <1>2 DEF AtSlot
      <4>3. QED BY <4>1, <4>2 DEF Same
    <3>4. QED BY <3>1, <3>2, <3>3
  <2>4. QED BY <2>1, <2>2, <2>3 DEF LookupInv
<1>6. VacantInv'
  <2>1. marked' \subseteq Used'
    BY <1>1 DEF VacantInv, Confined, AtSlot
  <2>2. vacant' # {} => AllowReplace
    BY <1>1 DEF VacantInv, Confined, AtSlot
  <2>3. ASSUME NEW r \in vacant'
        PROVE  r \in marked' /\ Tidy(r)' /\ \A w \in Threads : slot'[w] # r
    <3>1. CASE r = s
      <4>1. r \in Used' /\ s # None
        BY <3>1, <2>1, <2>3, <1>2 DEF AtSlot
      <4>2. QED BY <3>1, <2>3, <4>1 DEF AtSlot, Apart, Same
    <3>2. CASE r # s
      <4>1. r \in vacant /\ r \in marked /\ r \in marked' /\ r \in Used /\ Tidy(r)
        BY <3>2, <2>3, <1>1 DEF VacantInv, Confined
      <4>2. Tidy(r)'
        BY <3>2, <4>1, <1>3
      <4>3. \A w \in Threads : slot'[w] # r
        BY <3>2, <4>1, <1>1, <1>2 DEF VacantInv, AtSlot, Same
      <4>4. QED BY <4>1, <4>2, <4>3
    <3>3. QED BY <3>1, <3>2
  <2>4. QED BY <2>1, <2>2, <2>3 DEF VacantInv
<1>7. DistinctInv'
  BY <1>1 DEF DistinctInv, AtSlot, Apart, Same
<1>8. DataInv'
  <2> SUFFICES ASSUME NEW r \in Used'
               PROVE  \/ data'[r] \in Values
                      \/ \E w \in Threads : /\ slot'[w] = r
                                            /\ pc'[w] \in {"initialise", "startWrite", "endWrite"}
    BY DEF DataInv
  <2>1. CASE r = s
    BY <2>1 DEF AtSlot
  <2>2. CASE r # s /\ data[r] \in Values
    BY <2>2, <1>2, <1>4 DEF Confined
  <2>3. CASE r # s /\ data[r] \notin Values
    <3>1. PICK w \in Threads : slot[w] = r /\ pc[w] \in {"initialise", "startWrite", "endWrite"}
      BY <2>3, <1>1, <1>4 DEF DataInv
    <3>2. w # t
      BY <3>1, <2>3, <1>2, <1>4 DEF AtSlot
    <3>3. QED BY <3>1, <3>2 DEF Same
  <2>4. QED BY <2>1, <2>2, <2>3
<1>9. QED BY <1>5, <1>6, <1>7, <1>8 DEF Shared

-----------------------------------------------------------------------------
(* What the ends and the continuations of an operation do to its thread.   *)
Left(t) == pc'[t] = "idle" /\ call'[t] = None /\ slot'[t] = None

LEMMA ReturnEffect ==
  ASSUME IInv, NEW t \in Threads, NEW r \in Values \cup {"ok", "threw"},
         pc[t] # "idle", Return(t, r)
  PROVE  ThreadTypes' /\ Left(t) /\ \A u \in Threads \ {t} : Same(u)
<1>1. ThreadTypes /\ \A u \in Threads : CallInv(u)
  BY DEF IInv, TypeInv, Local
<1>2. Label(t) \in Labels /\ LockOf[Label(t)] \in Locks
  BY <1>1 DEF CallInv, Label, Request, Locks
<1>3. ThreadTypes'
  BY <1>1, <1>2 DEF ThreadTypes, Return, Goto, Steps
<1>4. Left(t)
  BY <1>1 DEF ThreadTypes, Return, Goto, Left
<1>5. ASSUME NEW u \in Threads \ {t} PROVE Same(u)
  <2>1. /\ pc'[u] = pc[u] /\ call'[u] = call[u] /\ slot'[u] = slot[u]
        /\ oldLabel'[u] = oldLabel[u]
    BY <1>1 DEF ThreadTypes, Return, Goto
  <2>2. ASSUME pc[u] # "idle" PROVE labelLock'[LockOf[Label(u)]] = labelLock[LockOf[Label(u)]]
    <3>1. labelLock[LockOf[Label(u)]] = u /\ Label(u) \in Labels
      BY <2>2, <1>1 DEF CallInv, Label, Request
    <3>2. labelLock[LockOf[Label(t)]] = t
      BY <1>1 DEF CallInv
    <3>3. LockOf[Label(u)] # LockOf[Label(t)]
      BY <3>1, <3>2
    <3>4. QED BY <3>3, <1>1 DEF Return, ThreadTypes
  <2>3. QED BY <2>1, <2>2 DEF Same
<1>6. QED BY <1>3, <1>4, <1>5

(* The thread goes on with the slot and the old label it has from now on.  *)
LEMMA StayEffect ==
  ASSUME IInv, NEW t \in Threads, NEW next \in Steps, Goto(t, next), Stay(t),
         NEW s \in Slots \cup {None}, NEW o \in Labels \cup {None},
         slot' = [slot EXCEPT ![t] = s], oldLabel' = [oldLabel EXCEPT ![t] = o]
  PROVE  /\ ThreadTypes' /\ \A u \in Threads \ {t} : Same(u)
         /\ pc'[t] = next /\ call'[t] = call[t] /\ slot'[t] = s /\ oldLabel'[t] = o
         /\ labelLock' = labelLock
<1>1. ThreadTypes
  BY DEF IInv, TypeInv
<1>2. ThreadTypes'
  BY <1>1 DEF ThreadTypes, Goto, Stay
<1>3. QED BY <1>1, <1>2 DEF ThreadTypes, Goto, Stay, Same

LEMMA GoOnEffect ==
  ASSUME IInv, NEW t \in Threads, NEW next \in Steps, Goto(t, next), Stay(t),
         UNCHANGED <<slot, oldLabel>>
  PROVE  /\ ThreadTypes' /\ \A u \in Threads \ {t} : Same(u)
         /\ pc'[t] = next /\ call'[t] = call[t]
         /\ slot'[t] = slot[t] /\ oldLabel'[t] = oldLabel[t] /\ labelLock' = labelLock
<1>1. ThreadTypes
  BY DEF IInv, TypeInv
<1>2. QED BY <1>1 DEF ThreadTypes, Goto, Stay, Same

LEMMA Assemble ==
  ASSUME IInv, NEW t \in Threads, NEW x \in Labels, NEW s \in Slots \cup {None},
         Effect(t, x, s), \A u \in Threads \ {t} : Same(u),
         TypeInv', Local(t)', CountInv'
  PROVE  IInv'
<1>1. \A u \in Threads \ {t} : Local(u)'
  BY OthersKeep
<1>2. Shared'
  BY SharedKept
<1>3. QED BY <1>1, <1>2 DEF IInv

LEMMA LeftLocal ==
  ASSUME NEW t \in Threads, Left(t) PROVE Local(t)'
BY DEF Left, Local, CallInv, SlotInv, FreshInv, Bound, Replacing, Adding

(* The counter needs attention only around the steps that count.           *)
LEMMA CountSame ==
  ASSUME CountInv, NEW t \in Threads, \A u \in Threads \ {t} : Same(u),
         pc[t] \notin {"countMark", "countUnmark"}, pc'[t] \notin {"countMark", "countUnmark"},
         marked' = marked, numDeleted' = numDeleted
  PROVE  CountInv'
<1>1. Marking' = Marking /\ Unmarking' = Unmarking
  BY DEF Marking, Unmarking, Same
<1>2. QED BY <1>1 DEF CountInv

(* A thread that is in an operation, and the slot it has.                  *)
LEMMA Owner ==
  ASSUME IInv, NEW t \in Threads, pc[t] # "idle"
  PROVE  /\ call[t] \in Request /\ Label(t) \in Labels
         /\ \A u \in Threads \ {t} : pc[u] # "idle" => Label(u) # Label(t)
<1>1. \A u \in Threads : CallInv(u)
  BY DEF IInv, Local
<1>2. QED BY <1>1 DEF CallInv, Request, Label

LEMMA OwnSlot ==
  ASSUME IInv, NEW t \in Threads, slot[t] # None
  PROVE  /\ slot[t] \in Used /\ slot[t] \in Slots /\ slot[t] \notin vacant
         /\ \A u \in Threads \ {t} : slot[u] # slot[t]
         /\ pc[t] \in (Bound \ {"initialise"}) \cup {"relabel"} => Tidy(slot[t])
         /\ pc[t] \notin {"initialise", "startWrite", "endWrite"} => data[slot[t]] \in Values
<1>1. SlotInv(t) /\ VacantInv /\ DistinctInv /\ DataInv /\ ThreadTypes
  BY DEF IInv, Local, Shared, TypeInv
<1>2. slot[t] \in Used /\ slot[t] \in Slots /\ slot[t] \notin vacant
      /\ \A u \in Threads \ {t} : slot[u] # slot[t]
  BY <1>1 DEF SlotInv, VacantInv, DistinctInv, ThreadTypes
<1>3. pc[t] \in (Bound \ {"initialise"}) \cup {"relabel"} => Tidy(slot[t])
  <2>1. pc[t] # "idle" => Label(t) \in Labels
    BY Owner
  <2>2. QED BY <1>1, <2>1 DEF SlotInv, Tidy, Bound
<1>4. pc[t] \notin {"initialise", "startWrite", "endWrite"} => data[slot[t]] \in Values
  BY <1>1, <1>2 DEF DataInv
<1>5. QED BY <1>2, <1>3, <1>4

(* A step that writes nothing but the mark of its own slot.                *)
Writing == {"rebind", "initialise", "startWrite", "endWrite"}

LEMMA MarkingEffect ==
  ASSUME IInv, NEW t \in Threads, pc[t] \notin Writing \cup {"idle"},
         NEW s \in Slots \cup {None}, s = slot[t], NEW x \in Labels, x = Label(t),
         UNCHANGED <<table, vacant>>, slot'[t] \in {s, None},
         s = None => marked' = marked,
         marked' \ {s} = marked \ {s},
         s \in marked' => s \in marked \/ lookup[x] = s
  PROVE  Effect(t, x, s)
<1>1. LookupInv /\ VacantInv /\ ThreadTypes /\ None \notin Slots /\ None \notin Used
      /\ SlotInv(t) /\ DeleteTypes
  BY NoneAssumption DEF IInv, Local, Shared, TypeInv, Slots, Used
<1>2. lookup' = lookup /\ count' = count /\ slotLabel' = slotLabel /\ data' = data
      /\ vacant' = vacant
  BY DEF table
<1>3. Used' = Used /\ (Tidy(s) => Tidy(s)')
  BY <1>2 DEF Used, Tidy
<1>4. s # None => /\ s \in Used /\ Tidy(s) /\ data[s] \in Values /\ s \notin vacant
                  /\ \A u \in Threads \ {t} : slot[u] # s
  <2> SUFFICES ASSUME s # None
               PROVE  /\ s \in Used /\ Tidy(s) /\ data[s] \in Values /\ s \notin vacant
                      /\ \A u \in Threads \ {t} : slot[u] # s
    OBVIOUS
  <2>1. pc[t] \in (Bound \ {"initialise"}) \cup {"relabel"}
        /\ pc[t] \notin {"initialise", "startWrite", "endWrite"}
    BY <1>1 DEF SlotInv, Bound, Replacing, Writing
  <2>2. QED BY <2>1, OwnSlot
<1>5. Confined(x, s)
  BY <1>2, <1>3 DEF Confined
<1>6. AtSlot(t, s)
  <2>1. s \in Used' => Tidy(s)' /\ data'[s] \in Values
    BY <1>2, <1>1, <1>3, <1>4
  <2>2. s \in marked' => s \in Used'
    BY <1>1, <1>3, <1>4 DEF VacantInv
  <2>3. s \notin vacant'
    BY <1>2, <1>1, <1>4 DEF DeleteTypes
  <2>4. s # None => \A y, z \in Labels :
          lookup'[y] = s => s \in Used' /\ (lookup'[z] = s => y = z)
    BY <1>2, <1>1, <1>3, <1>4 DEF LookupInv
  <2>5. QED BY <2>1, <2>2, <2>3, <2>4 DEF AtSlot
<1>7. Apart(t, x, s)
  BY <1>4, Owner DEF Apart
<1>8. QED BY <1>5, <1>6, <1>7 DEF Effect

-----------------------------------------------------------------------------
(* An operation ends, or goes on, without another write.                   *)
LEMMA EndInv ==
  ASSUME IInv, NEW t \in Threads, NEW r \in Values \cup {"ok", "threw"}, Return(t, r),
         pc[t] \notin Writing \cup {"idle", "countMark", "countUnmark"},
         UNCHANGED <<table, deletes>>
  PROVE  IInv'
<1>1. ThreadTypes' /\ Left(t) /\ \A u \in Threads \ {t} : Same(u)
  BY ReturnEffect
<1>2. TypeInv'
  BY <1>1 DEF IInv, TypeInv, TableTypes, DeleteTypes, table, deletes
<1>3. PICK s \in Slots \cup {None} : s = slot[t]
  BY DEF IInv, TypeInv, ThreadTypes
<1>4. PICK x \in Labels : x = Label(t)
  BY Owner
<1>5. Effect(t, x, s)
  BY <1>1, <1>3, <1>4, MarkingEffect DEF Left, deletes
<1>6. CountInv'
  BY <1>1, CountSame DEF IInv, Left, deletes
<1>7. QED BY <1>1, <1>2, <1>5, <1>6, LeftLocal, Assemble

LEMMA GoOnInv ==
  ASSUME IInv, NEW t \in Threads, NEW next \in Steps, Goto(t, next), Stay(t),
         UNCHANGED <<slot, oldLabel>>,
         pc[t] \notin Writing \cup {"idle", "countMark", "countUnmark"},
         next \notin {"countMark", "countUnmark"},
         UNCHANGED <<table, deletes>>, Local(t)'
  PROVE  IInv'
<1>1. ThreadTypes' /\ pc'[t] = next /\ slot'[t] = slot[t] /\ \A u \in Threads \ {t} : Same(u)
  BY GoOnEffect
<1>2. TypeInv'
  BY <1>1 DEF IInv, TypeInv, TableTypes, DeleteTypes, table, deletes
<1>3. PICK s \in Slots \cup {None} : s = slot[t]
  BY DEF IInv, TypeInv, ThreadTypes
<1>4. PICK x \in Labels : x = Label(t)
  BY Owner
<1>5. Effect(t, x, s)
  BY <1>1, <1>3, <1>4, MarkingEffect DEF deletes
<1>6. CountInv'
  BY <1>1, CountSame DEF IInv, deletes
<1>7. QED BY <1>1, <1>2, <1>5, <1>6, Assemble

LEMMA ReadInv ==
  ASSUME IInv, NEW t \in Threads, Read(t)
  PROVE  IInv'
<1>1. pc[t] = "read" /\ slot[t] # None
  BY DEF Read, IInv, Local, SlotInv, Bound
<1>2. data[slot[t]] \in Values
  BY <1>1, OwnSlot
<1>3. QED BY <1>1, <1>2, EndInv DEF Read, Writing

LEMMA UpdateInv ==
  ASSUME IInv, NEW t \in Threads, Update(t)
  PROVE  IInv'
<1> DEFINE next == IF slot[t] \in marked THEN "unmark" ELSE "startWrite"
<1>1. next \in Steps /\ Goto(t, next) /\ Stay(t) /\ pc[t] = "update"
      /\ UNCHANGED <<slot, oldLabel>> /\ UNCHANGED <<table, deletes>>
  BY DEF Update, Steps
<1>2. /\ pc'[t] = next /\ call'[t] = call[t] /\ slot'[t] = slot[t]
      /\ labelLock' = labelLock
  BY <1>1, GoOnEffect
<1>3. CallInv(t) /\ SlotInv(t)
  BY DEF IInv, Local
<1>4. CallInv(t)'
  BY <1>1, <1>2, <1>3 DEF CallInv, Label, Adding, Replacing
<1>5. SlotInv(t)' /\ FreshInv(t)'
  BY <1>1, <1>2, <1>3 DEF SlotInv, FreshInv, Label, Bound, Replacing, Used, table, deletes
<1>6. QED BY <1>1, <1>4, <1>5, GoOnInv DEF Local, Writing

-----------------------------------------------------------------------------
(* The slot a label is found in is nobody's.                               *)
LEMMA FoundSlot ==
  ASSUME IInv, NEW t \in Threads, pc[t] \in {"find", "findOrClaim"},
         NEW s \in Slots, s = lookup[Label(t)]
  PROVE  /\ s \in Used /\ Tidy(s) /\ data[s] \in Values /\ s \notin vacant
         /\ \A u \in Threads : slot[u] # s
<1>1. /\ LookupInv /\ VacantInv /\ DataInv /\ None \notin Slots
      /\ \A u \in Threads : CallInv(u) /\ SlotInv(u) /\ FreshInv(u)
  BY NoneAssumption DEF IInv, Shared, Local, Slots
<1>2. Label(t) \in Labels /\ \A u \in Threads \ {t} : pc[u] # "idle" => Label(u) # Label(t)
  BY Owner
<1>3. AllowReplace => s \notin marked
  BY <1>1 DEF FreshInv
<1>4. ASSUME NEW u \in Threads, slot[u] = s PROVE FALSE
  <2>1. pc[u] \in Bound \cup Replacing /\ u # t /\ pc[u] # "idle"
    BY <1>1, <1>4 DEF SlotInv, Bound, Replacing
  <2>2. Label(u) \in Labels /\ Label(u) # Label(t)
    BY <2>1, <1>2, Owner
  <2>3. CASE pc[u] \in Bound
    BY <2>2, <2>3, <1>1, <1>2, <1>4 DEF SlotInv, LookupInv
  <2>4. CASE pc[u] \in Replacing
    BY <2>4, <1>1, <1>3, <1>4 DEF SlotInv, CallInv, Replacing
  <2>5. QED BY <2>1, <2>3, <2>4
<1>5. s \notin vacant
  BY <1>1, <1>3 DEF VacantInv
<1>6. s \in Used /\ Tidy(s) /\ data[s] \in Values
  BY <1>1, <1>2, <1>4 DEF LookupInv, DataInv
<1>7. QED BY <1>4, <1>5, <1>6

LEMMA FoundEffect ==
  ASSUME IInv, NEW t \in Threads, pc[t] \in {"find", "findOrClaim"},
         NEW x \in Labels, x = Label(t), NEW s \in Slots, s = lookup[x],
         UNCHANGED <<table, deletes>>, slot'[t] = s
  PROVE  Effect(t, x, s)
<1>1. /\ s \in Used /\ Tidy(s) /\ data[s] \in Values /\ s \notin vacant
      /\ \A u \in Threads : slot[u] # s
  BY FoundSlot
<1>2. /\ lookup' = lookup /\ count' = count /\ slotLabel' = slotLabel /\ data' = data
      /\ marked' = marked /\ vacant' = vacant
  BY DEF table, deletes
<1>3. Used' = Used /\ Tidy(s)'
  BY <1>1, <1>2 DEF Used, Tidy
<1>4. LookupInv /\ SlotInv(t) /\ slot[t] = None
  BY DEF IInv, Shared, Local, SlotInv, Bound, Replacing
<1>5. Confined(x, s)
  BY <1>2, <1>3 DEF Confined
<1>6. AtSlot(t, s)
  BY <1>1, <1>2, <1>3, <1>4 DEF AtSlot, LookupInv
<1>7. Apart(t, x, s)
  BY <1>1, Owner DEF Apart
<1>8. QED BY <1>5, <1>6, <1>7 DEF Effect

LEMMA FindInv ==
  ASSUME IInv, NEW t \in Threads, Find(t)
  PROVE  IInv'
<1> DEFINE next == CASE call[t].op = "get"    -> "read"
                     [] call[t].op = "mark"   -> "mark"
                     [] call[t].op = "unmark" -> "unmark"
<1>1. pc[t] = "find" /\ UNCHANGED <<table, deletes>>
  BY DEF Find
<1>2. PICK x \in Labels : x = Label(t)
  BY <1>1, Owner
<1>3. PICK s \in Slots \cup {None} : s = lookup[x]
  BY DEF IInv, TypeInv, TableTypes
<1>4. CASE Return(t, "threw")
  BY <1>1, <1>4, EndInv DEF Writing
<1>5. CASE s # None /\ slot' = [slot EXCEPT ![t] = s] /\ Goto(t, next)
           /\ UNCHANGED oldLabel /\ Stay(t)
  <2>1. CallInv(t) /\ call[t] \in Request /\ call[t].op \in {"get", "mark", "unmark"}
    BY <1>1 DEF IInv, Local, CallInv, Request
  <2>2. PICK n \in Steps : n = next /\ n \in {"read", "mark", "unmark"}
                           /\ (n = "unmark" => call[t].op = "unmark")
    BY <2>1 DEF Steps
  <2>3. PICK o \in Labels \cup {None} : o = oldLabel[t] /\ oldLabel' = [oldLabel EXCEPT ![t] = o]
    BY <1>5 DEF IInv, TypeInv, ThreadTypes
  <2>4. /\ ThreadTypes' /\ \A u \in Threads \ {t} : Same(u)
        /\ pc'[t] = n /\ call'[t] = call[t] /\ slot'[t] = s /\ labelLock' = labelLock
    <3>1. Goto(t, n) /\ Stay(t) /\ slot' = [slot EXCEPT ![t] = s]
      BY <1>5, <2>2
    <3>2. QED BY <3>1, <2>3, StayEffect
  <2>5. s \in Slots /\ Effect(t, x, s)
    BY <1>1, <1>2, <1>3, <1>5, <2>4, FoundEffect
  <2>6. TypeInv'
    BY <1>1, <2>4 DEF IInv, TypeInv, TableTypes, DeleteTypes, table, deletes
  <2>7. s \in Used /\ Tidy(s) /\ LookupInv
    BY <1>1, <1>2, <1>3, <2>5, FoundSlot DEF IInv, Shared
  <2>8. slotLabel[s] = x
    BY <1>2, <1>3, <1>5, <2>7 DEF Tidy, LookupInv
  <2>9. Local(t)'
    <3>1. CallInv(t)'
      BY <1>1, <2>1, <2>2, <2>4 DEF CallInv, Label, Adding, Replacing
    <3>2. SlotInv(t)' /\ FreshInv(t)'
      BY <1>1, <1>2, <1>3, <1>5, <2>2, <2>4, <2>7, <2>8
      DEF SlotInv, FreshInv, Label, Bound, Replacing, Used, table, deletes
    <3>3. QED BY <3>1, <3>2 DEF Local
  <2>10. CountInv'
    BY <1>1, <2>2, <2>4, CountSame DEF IInv, deletes
  <2>11. QED BY <2>4, <2>5, <2>6, <2>9, <2>10, Assemble
<1>6. QED BY <1>2, <1>3, <1>4, <1>5 DEF Find

-----------------------------------------------------------------------------
(* A call begins.                                                          *)
LEMMA SettledTyped ==
  ASSUME IInv, NEW x \in Labels, labelLock[LockOf[x]] = None
  PROVE  Settled(x) \in [value : Values, deleted : BOOLEAN] \cup {None}
<1> SUFFICES ASSUME lookup[x] # None PROVE data[lookup[x]] \in Values
  BY DEF Settled
<1>1. LookupInv /\ DataInv /\ \A u \in Threads : CallInv(u) /\ SlotInv(u)
  BY DEF IInv, Shared, Local
<1>2. lookup[x] \in Used
  BY <1>1 DEF LookupInv
<1>3. ASSUME NEW w \in Threads, slot[w] = lookup[x],
             pc[w] \in {"initialise", "startWrite", "endWrite"}
      PROVE  FALSE
  <2>1. lookup[Label(w)] = lookup[x] /\ Label(w) \in Labels /\ labelLock[LockOf[Label(w)]] = w
    BY <1>1, <1>3, Owner DEF SlotInv, CallInv, Bound
  <2>2. Label(w) = x
    BY <2>1, <1>1 DEF LookupInv
  <2>3. QED BY <2>1, <2>2, NoneAssumption
<1>4. QED BY <1>1, <1>2, <1>3 DEF DataInv

LEMMA BeginInv ==
  ASSUME IInv, ~AnyReplace, NEW t \in Threads, NEW r \in Request, Begin(t, r)
  PROVE  IInv'
<1> DEFINE next == IF r.op # "add" THEN "find"
                   ELSE IF r.replace THEN "takeVacant" ELSE "findOrClaim"
<1>1. PICK x \in Labels : x = r.label
  BY DEF Request
<1>2. /\ pc[t] = "idle" /\ labelLock[LockOf[x]] = None /\ Permitted(r)
      /\ labelLock' = [labelLock EXCEPT ![LockOf[x]] = t]
      /\ call' = [call EXCEPT ![t] = r] /\ Goto(t, next)
      /\ UNCHANGED <<table, deletes>> /\ UNCHANGED <<slot, oldLabel>>
      /\ before' = [before EXCEPT ![t] = Settled(x)] /\ result' = [result EXCEPT ![t] = None]
  BY <1>1 DEF Begin, LockFree
<1>3. /\ LookupInv /\ VacantInv /\ ThreadTypes /\ None \notin Slots /\ None \notin Threads
      /\ \A u \in Threads : CallInv(u) /\ SlotInv(u) /\ FreshInv(u)
  BY NoneAssumption DEF IInv, Shared, Local, TypeInv, Slots
<1>4. next \in {"find", "takeVacant", "findOrClaim"} /\ next \in Steps
      /\ (next = "find" <=> r.op # "add")
      /\ (next = "takeVacant" <=> Replaces(r))
  <2>1. CASE r.op # "add"
    BY <2>1 DEF Steps, Replaces
  <2>2. CASE r.op = "add" /\ r.replace
    <3>1. next = "takeVacant"
      BY <2>2
    <3>2. Replaces(r)
      BY <2>2 DEF Replaces
    <3>3. QED BY <2>2, <3>1, <3>2 DEF Steps
  <2>3. CASE r.op = "add" /\ ~r.replace
    BY <2>3 DEF Steps, Replaces
  <2>4. QED BY <2>1, <2>2, <2>3
<1>5. Settled(x) \in [value : Values, deleted : BOOLEAN] \cup {None}
  BY <1>2, SettledTyped
<1>6. ThreadTypes'
  <2>1. labelLock' \in [Locks -> Threads \cup {None}]
    BY <1>2, <1>3 DEF ThreadTypes
  <2>2. pc' \in [Threads -> Steps] /\ call' \in [Threads -> Request \cup {None}]
    BY <1>2, <1>3, <1>4 DEF ThreadTypes, Goto
  <2>3. /\ slot' \in [Threads -> Slots \cup {None}]
        /\ oldLabel' \in [Threads -> Labels \cup {None}]
    BY <1>2, <1>3 DEF ThreadTypes
  <2>4. result' \in [Threads -> Values \cup {"ok", "threw", None}]
    BY <1>2, <1>3 DEF ThreadTypes
  <2>5. before' \in [Threads -> [value : Values, deleted : BOOLEAN] \cup {None}]
    BY <1>2, <1>3, <1>5 DEF ThreadTypes
  <2>6. QED BY <2>1, <2>2, <2>3, <2>4, <2>5 DEF ThreadTypes
<1>7. \A u \in Threads \ {t} : pc[u] # "idle" =>
        /\ Label(u) \in Labels /\ labelLock[LockOf[Label(u)]] = u
        /\ Label(u) # x /\ LockOf[Label(u)] # LockOf[x]
  BY <1>2, <1>3, Owner DEF CallInv
<1>8. ASSUME NEW u \in Threads \ {t} PROVE Same(u)
  <2>1. /\ pc'[u] = pc[u] /\ call'[u] = call[u] /\ slot'[u] = slot[u]
        /\ oldLabel'[u] = oldLabel[u]
    BY <1>2, <1>3 DEF ThreadTypes, Goto
  <2>2. pc[u] # "idle" => labelLock'[LockOf[Label(u)]] = labelLock[LockOf[Label(u)]]
    BY <1>2, <1>3, <1>7 DEF ThreadTypes
  <2>3. QED BY <2>1, <2>2 DEF Same
<1>9. Used' = Used /\ lookup' = lookup /\ marked' = marked /\ vacant' = vacant
  BY <1>2 DEF Used, table, deletes
<1>10. slot[t] = None /\ slot'[t] = None /\ None \notin Used /\ marked \subseteq Used
       /\ None \notin marked /\ None \notin vacant
  <2>1. slot[t] = None /\ slot'[t] = None
    BY <1>2, <1>3 DEF SlotInv, Bound, Replacing
  <2>2. None \notin Used
    BY NoneAssumption, SizeAssumption DEF Used, IInv, TypeInv, TableTypes
  <2>3. QED BY <2>1, <2>2, <1>3 DEF VacantInv
<1>11. Effect(t, x, None)
  <2>1. Confined(x, None)
    BY <1>2, <1>9 DEF Confined, table
  <2>2. AtSlot(t, None)
    BY <1>9, <1>10 DEF AtSlot
  <2>3. Apart(t, x, None)
    BY <1>7 DEF Apart
  <2>4. QED BY <2>1, <2>2, <2>3 DEF Effect
<1>12. pc'[t] = next /\ call'[t] = r /\ labelLock'[LockOf[x]] = t /\ Label(t)' = x
  BY <1>1, <1>2, <1>3 DEF ThreadTypes, Goto, Label, Locks
<1>13. Local(t)'
  <2>1. CallInv(t)'
    BY <1>4, <1>12, <1>2 DEF CallInv, Adding, Replacing, Permitted, Replaces
  <2>2. SlotInv(t)'
    BY <1>4, <1>10, <1>12 DEF SlotInv, Bound, Replacing
  <2>3. FreshInv(t)'
    BY <1>1, <1>2, <1>4, <1>9, <1>12 DEF FreshInv, Replacing, Permitted, Replaces
  <2>4. QED BY <2>1, <2>2, <2>3 DEF Local
<1>14. TypeInv'
  BY <1>2, <1>6 DEF IInv, TypeInv, TableTypes, DeleteTypes, table, deletes
<1>15. CountInv'
  BY <1>2, <1>4, <1>8, <1>12, CountSame DEF IInv, deletes
<1>16. QED BY <1>8, <1>11, <1>13, <1>14, <1>15, Assemble

-----------------------------------------------------------------------------
(* Deleting and reviving: the mark, the counter, the vacant slots.         *)
LEMMA BoundLocal ==
  ASSUME IInv, NEW t \in Threads,
         pc[t] \in Bound \ {"initialise"}, pc'[t] \in Bound \ {"initialise"},
         call'[t] = call[t], slot'[t] = slot[t], labelLock' = labelLock, UNCHANGED table,
         pc'[t] \in {"countMark", "offer"} => slot[t] \in marked',
         pc'[t] = "offer" => AllowReplace,
         pc'[t] \in Adding => call[t].op = "add",
         pc'[t] \in {"unmark", "countUnmark", "withdraw"} => call[t].op \in {"add", "unmark"}
  PROVE  Local(t)'
<1>1. CallInv(t) /\ SlotInv(t) /\ pc[t] # "idle"
  BY DEF IInv, Local, Bound
<1>2. lookup' = lookup /\ slotLabel' = slotLabel /\ Used' = Used /\ Label(t)' = Label(t)
  BY DEF table, Used, Label
<1>3. CallInv(t)'
  BY <1>1, <1>2 DEF CallInv, Bound, Replacing
<1>4. SlotInv(t)'
  BY <1>1, <1>2 DEF SlotInv, Bound, Replacing
<1>5. FreshInv(t)'
  BY DEF FreshInv, Bound, Replacing
<1>6. QED BY <1>3, <1>4, <1>5 DEF Local

(* Cardinalities of the sets that the counter is compared with.            *)
LEMMA FiniteParts ==
  ASSUME IInv
  PROVE  /\ IsFiniteSet(marked) /\ IsFiniteSet(Marking) /\ IsFiniteSet(Unmarking)
         /\ Cardinality(marked) \in Nat /\ Cardinality(Marking) \in Nat
         /\ Cardinality(Unmarking) \in Nat
<1>1. marked \in SUBSET (0 .. (MaxElements - 1))
  BY DEF IInv, TypeInv, DeleteTypes, Slots
<1>2. IsFiniteSet(0 .. (MaxElements - 1))
  BY SizeAssumption, FS_Interval
<1>3. IsFiniteSet(marked)
  BY <1>1, <1>2, FS_Subset
<1>4. IsFiniteSet(Marking) /\ IsFiniteSet(Unmarking)
  BY ThreadsAssumption, FS_Subset DEF Marking, Unmarking
<1>5. QED BY <1>3, <1>4, FS_CardinalityType

LEMMA MarkInv ==
  ASSUME IInv, NEW t \in Threads, Mark(t)
  PROVE  IInv'
<1>1. pc[t] = "mark" /\ UNCHANGED table /\ numDeleted' = numDeleted /\ vacant' = vacant
  BY DEF Mark
<1>2. CASE slot[t] \in marked
  BY <1>1, <1>2, EndInv DEF Mark, Writing, deletes
<1>3. CASE slot[t] \notin marked
  <2>1. /\ marked' = marked \cup {slot[t]} /\ Goto(t, "countMark")
        /\ UNCHANGED <<slot, oldLabel>> /\ Stay(t) /\ "countMark" \in Steps
    BY <1>3 DEF Mark, Steps
  <2>2. /\ ThreadTypes' /\ \A u \in Threads \ {t} : Same(u)
        /\ pc'[t] = "countMark" /\ call'[t] = call[t]
        /\ slot'[t] = slot[t] /\ labelLock' = labelLock
    BY <2>1, GoOnEffect
  <2>3. slot[t] \in Slots /\ SlotInv(t) /\ slot[t] # None /\ lookup[Label(t)] = slot[t]
    BY <1>1 DEF IInv, Local, SlotInv, Bound, TypeInv, ThreadTypes
  <2>4. TypeInv'
    <3>1. marked' \in SUBSET Slots
      BY <2>1, <2>3 DEF IInv, TypeInv, DeleteTypes
    <3>2. QED BY <1>1, <2>2, <3>1 DEF IInv, TypeInv, TableTypes, DeleteTypes, table
  <2>5. PICK s \in Slots : s = slot[t]
    BY <2>3
  <2>6. PICK x \in Labels : x = Label(t)
    BY <1>1, Owner
  <2>7. Effect(t, x, s)
    <3>1. UNCHANGED <<table, vacant>> /\ slot'[t] \in {s, None} /\ s # None
          /\ marked' \ {s} = marked \ {s} /\ lookup[x] = s
      BY <1>1, <2>1, <2>2, <2>3, <2>5, <2>6
    <3>2. QED BY <3>1, <1>1, <2>5, <2>6, MarkingEffect DEF Writing
  <2>8. Local(t)'
    BY <1>1, <2>1, <2>2, BoundLocal DEF Bound, Adding
  <2>9. CountInv'
    <3>1. Marking' = Marking \cup {t} /\ t \notin Marking /\ Unmarking' = Unmarking
      BY <1>1, <2>2 DEF Marking, Unmarking, Same
    <3>2. /\ Cardinality(Marking') = Cardinality(Marking) + 1
          /\ Cardinality(marked') = Cardinality(marked) + 1
      BY <1>3, <2>1, <3>1, FiniteParts, FS_AddElement
    <3>3. QED BY <1>1, <3>1, <3>2, FiniteParts DEF IInv, CountInv
  <2>10. QED BY <2>2, <2>4, <2>5, <2>7, <2>8, <2>9, Assemble
<1>4. QED BY <1>2, <1>3

LEMMA CountMarkInv ==
  ASSUME IInv, NEW t \in Threads, CountMark(t)
  PROVE  IInv'
<1>1. /\ pc[t] = "countMark" /\ numDeleted' = numDeleted + 1
      /\ UNCHANGED table /\ UNCHANGED <<marked, vacant>>
  BY DEF CountMark
<1>2. ThreadTypes' /\ (\A u \in Threads \ {t} : Same(u)) /\ Local(t)'
      /\ slot'[t] \in {slot[t], None} /\ pc'[t] \in {"idle", "offer"}
  <2>1. CASE AllowReplace
    <3>1. Goto(t, "offer") /\ UNCHANGED <<slot, oldLabel>> /\ Stay(t) /\ "offer" \in Steps
      BY <2>1 DEF CountMark, Steps
    <3>2. /\ ThreadTypes' /\ \A u \in Threads \ {t} : Same(u)
          /\ pc'[t] = "offer" /\ call'[t] = call[t]
          /\ slot'[t] = slot[t] /\ labelLock' = labelLock
      BY <3>1, GoOnEffect
    <3>3. slot[t] \in marked
      BY <1>1 DEF IInv, Local, SlotInv
    <3>4. Local(t)'
      BY <1>1, <2>1, <3>2, <3>3, BoundLocal DEF Bound, Adding
    <3>5. QED BY <3>2, <3>4
  <2>2. CASE ~AllowReplace
    <3>1. Return(t, "ok")
      BY <2>2 DEF CountMark
    <3>2. ThreadTypes' /\ Left(t) /\ \A u \in Threads \ {t} : Same(u)
      BY <1>1, <3>1, ReturnEffect
    <3>3. QED BY <3>2, LeftLocal DEF Left
  <2>3. QED BY <2>1, <2>2
<1>3. TypeInv'
  BY <1>1, <1>2 DEF IInv, TypeInv, TableTypes, DeleteTypes, table
<1>4. PICK s \in Slots \cup {None} : s = slot[t]
  BY DEF IInv, TypeInv, ThreadTypes
<1>5. PICK x \in Labels : x = Label(t)
  BY <1>1, Owner
<1>6. Effect(t, x, s)
  BY <1>1, <1>2, <1>4, <1>5, MarkingEffect DEF Writing
<1>7. CountInv'
  <2>1. Marking' = Marking \ {t} /\ t \in Marking /\ Unmarking' = Unmarking
    BY <1>1, <1>2 DEF Marking, Unmarking, Same
  <2>2. Cardinality(Marking') = Cardinality(Marking) - 1
    BY <2>1, FiniteParts, FS_RemoveElement
  <2>3. QED BY <1>1, <2>1, <2>2, FiniteParts DEF IInv, CountInv, TypeInv, DeleteTypes
<1>8. QED BY <1>2, <1>3, <1>6, <1>7, Assemble

LEMMA OfferInv ==
  ASSUME IInv, NEW t \in Threads, Offer(t)
  PROVE  IInv'
<1>1. /\ pc[t] = "offer" /\ vacant' = vacant \cup {slot[t]} /\ Return(t, "ok")
      /\ UNCHANGED table /\ UNCHANGED <<marked, numDeleted>>
  BY DEF Offer
<1>2. ThreadTypes' /\ Left(t) /\ \A u \in Threads \ {t} : Same(u)
  BY <1>1, ReturnEffect
<1>3. AllowReplace /\ slot[t] # None /\ slot[t] \in marked /\ LookupInv /\ None \notin Used
  BY <1>1, NoneAssumption, SizeAssumption
  DEF IInv, Local, CallInv, SlotInv, Bound, Shared, Used, TypeInv, TableTypes
<1>4. PICK s \in Slots : /\ s = slot[t] /\ s \in Used /\ Tidy(s) /\ data[s] \in Values
                         /\ \A u \in Threads \ {t} : slot[u] # s
  BY <1>1, <1>3, OwnSlot DEF Bound
<1>5. PICK x \in Labels : x = Label(t)
  BY <1>1, Owner
<1>6. lookup' = lookup /\ slotLabel' = slotLabel /\ data' = data /\ Used' = Used /\ Tidy(s)'
  BY <1>1, <1>4 DEF table, Used, Tidy
<1>7. Effect(t, x, s)
  <2>1. Confined(x, s)
    BY <1>1, <1>4, <1>6 DEF Confined
  <2>2. AtSlot(t, s)
    BY <1>1, <1>2, <1>3, <1>4, <1>6 DEF AtSlot, Left, LookupInv
  <2>3. Apart(t, x, s)
    BY <1>1, <1>4, <1>5, Owner DEF Apart
  <2>4. QED BY <2>1, <2>2, <2>3 DEF Effect
<1>8. TypeInv'
  BY <1>1, <1>2, <1>4 DEF IInv, TypeInv, TableTypes, DeleteTypes, table
<1>9. CountInv'
  BY <1>1, <1>2, CountSame DEF IInv, Left
<1>10. QED BY <1>2, <1>4, <1>7, <1>8, <1>9, LeftLocal, Assemble

LEMMA AfterUnmarkEffect ==
  ASSUME IInv, NEW t \in Threads, pc[t] \in {"countUnmark", "withdraw"}, AfterUnmark(t),
         UNCHANGED table
  PROVE  /\ ThreadTypes' /\ Local(t)' /\ \A u \in Threads \ {t} : Same(u)
         /\ slot'[t] \in {slot[t], None} /\ pc'[t] \in {"idle", "startWrite"}
<1>1. CASE call[t].op = "add"
  <2>1. Goto(t, "startWrite") /\ UNCHANGED <<slot, oldLabel>> /\ Stay(t)
        /\ "startWrite" \in Steps
    BY <1>1 DEF AfterUnmark, Steps
  <2>2. /\ ThreadTypes' /\ \A u \in Threads \ {t} : Same(u)
        /\ pc'[t] = "startWrite" /\ call'[t] = call[t]
        /\ slot'[t] = slot[t] /\ labelLock' = labelLock
    BY <2>1, GoOnEffect
  <2>3. Local(t)'
    BY <1>1, <2>2, BoundLocal DEF Bound
  <2>4. QED BY <2>2, <2>3
<1>2. CASE call[t].op # "add"
  <2>1. Return(t, "ok")
    BY <1>2 DEF AfterUnmark
  <2>2. ThreadTypes' /\ Left(t) /\ \A u \in Threads \ {t} : Same(u)
    BY <2>1, ReturnEffect
  <2>3. QED BY <2>2, LeftLocal DEF Left
<1>3. QED BY <1>1, <1>2

LEMMA UnmarkInv ==
  ASSUME IInv, NEW t \in Threads, Unmark(t)
  PROVE  IInv'
<1>1. pc[t] = "unmark" /\ UNCHANGED table /\ numDeleted' = numDeleted /\ vacant' = vacant
  BY DEF Unmark
<1>2. CASE slot[t] \notin marked
  BY <1>1, <1>2, EndInv DEF Unmark, Writing, deletes
<1>3. CASE slot[t] \in marked
  <2>1. /\ marked' = marked \ {slot[t]} /\ Goto(t, "countUnmark")
        /\ UNCHANGED <<slot, oldLabel>> /\ Stay(t) /\ "countUnmark" \in Steps
    BY <1>3 DEF Unmark, Steps
  <2>2. /\ ThreadTypes' /\ \A u \in Threads \ {t} : Same(u)
        /\ pc'[t] = "countUnmark" /\ call'[t] = call[t]
        /\ slot'[t] = slot[t] /\ labelLock' = labelLock
    BY <2>1, GoOnEffect
  <2>3. SlotInv(t) /\ slot[t] # None /\ call[t].op \in {"add", "unmark"}
    BY <1>1 DEF IInv, Local, SlotInv, CallInv, Bound
  <2>4. TypeInv'
    BY <1>1, <2>1, <2>2 DEF IInv, TypeInv, TableTypes, DeleteTypes, table
  <2>5. PICK s \in Slots : s = slot[t]
    BY <2>3 DEF IInv, TypeInv, ThreadTypes
  <2>6. PICK x \in Labels : x = Label(t)
    BY <1>1, Owner
  <2>7. Effect(t, x, s)
    BY <1>1, <2>1, <2>2, <2>3, <2>5, <2>6, MarkingEffect DEF Writing
  <2>8. Local(t)'
    BY <1>1, <2>2, <2>3, BoundLocal DEF Bound, Adding
  <2>9. CountInv'
    <3>1. Unmarking' = Unmarking \cup {t} /\ t \notin Unmarking /\ Marking' = Marking
      BY <1>1, <2>2 DEF Marking, Unmarking, Same
    <3>2. /\ Cardinality(Unmarking') = Cardinality(Unmarking) + 1
          /\ Cardinality(marked') = Cardinality(marked) - 1
      BY <1>3, <2>1, <3>1, FiniteParts, FS_AddElement, FS_RemoveElement
    <3>3. QED BY <1>1, <3>1, <3>2, FiniteParts DEF IInv, CountInv
  <2>10. QED BY <2>2, <2>4, <2>5, <2>7, <2>8, <2>9, Assemble
<1>4. QED BY <1>2, <1>3

LEMMA CountUnmarkInv ==
  ASSUME IInv, NEW t \in Threads, CountUnmark(t)
  PROVE  IInv'
<1>1. /\ pc[t] = "countUnmark" /\ numDeleted' = numDeleted - 1
      /\ UNCHANGED table /\ UNCHANGED <<marked, vacant>>
  BY DEF CountUnmark
<1>2. ThreadTypes' /\ (\A u \in Threads \ {t} : Same(u)) /\ Local(t)'
      /\ slot'[t] \in {slot[t], None} /\ pc'[t] \in {"idle", "startWrite", "withdraw"}
  <2>1. CASE AllowReplace
    <3>1. Goto(t, "withdraw") /\ UNCHANGED <<slot, oldLabel>> /\ Stay(t) /\ "withdraw" \in Steps
      BY <2>1 DEF CountUnmark, Steps
    <3>2. /\ ThreadTypes' /\ \A u \in Threads \ {t} : Same(u)
          /\ pc'[t] = "withdraw" /\ call'[t] = call[t]
          /\ slot'[t] = slot[t] /\ labelLock' = labelLock
      BY <3>1, GoOnEffect
    <3>3. call[t].op \in {"add", "unmark"}
      BY <1>1 DEF IInv, Local, CallInv
    <3>4. Local(t)'
      BY <1>1, <3>2, <3>3, BoundLocal DEF Bound, Adding
    <3>5. QED BY <3>2, <3>4
  <2>2. CASE ~AllowReplace
    BY <1>1, <2>2, AfterUnmarkEffect DEF CountUnmark
  <2>3. QED BY <2>1, <2>2
<1>3. TypeInv'
  BY <1>1, <1>2 DEF IInv, TypeInv, TableTypes, DeleteTypes, table
<1>4. PICK s \in Slots \cup {None} : s = slot[t]
  BY DEF IInv, TypeInv, ThreadTypes
<1>5. PICK x \in Labels : x = Label(t)
  BY <1>1, Owner
<1>6. Effect(t, x, s)
  BY <1>1, <1>2, <1>4, <1>5, MarkingEffect DEF Writing
<1>7. CountInv'
  <2>1. Unmarking' = Unmarking \ {t} /\ t \in Unmarking /\ Marking' = Marking
    BY <1>1, <1>2 DEF Marking, Unmarking, Same
  <2>2. Cardinality(Unmarking') = Cardinality(Unmarking) - 1
    BY <2>1, FiniteParts, FS_RemoveElement
  <2>3. QED BY <1>1, <2>1, <2>2, FiniteParts DEF IInv, CountInv, TypeInv, DeleteTypes
<1>8. QED BY <1>2, <1>3, <1>6, <1>7, Assemble

LEMMA WithdrawInv ==
  ASSUME IInv, NEW t \in Threads, Withdraw(t)
  PROVE  IInv'
<1>1. /\ pc[t] = "withdraw" /\ vacant' = vacant \ {slot[t]} /\ AfterUnmark(t)
      /\ UNCHANGED table /\ UNCHANGED <<marked, numDeleted>>
  BY DEF Withdraw
<1>2. /\ ThreadTypes' /\ Local(t)' /\ \A u \in Threads \ {t} : Same(u)
      /\ slot'[t] \in {slot[t], None} /\ pc'[t] \in {"idle", "startWrite"}
  BY <1>1, AfterUnmarkEffect
<1>3. slot[t] # None
  BY <1>1 DEF IInv, Local, SlotInv, Bound
<1>4. vacant' = vacant
  BY <1>1, <1>3, OwnSlot
<1>5. TypeInv'
  BY <1>1, <1>2, <1>4 DEF IInv, TypeInv, TableTypes, DeleteTypes, table
<1>6. PICK s \in Slots \cup {None} : s = slot[t]
  BY DEF IInv, TypeInv, ThreadTypes
<1>7. PICK x \in Labels : x = Label(t)
  BY <1>1, Owner
<1>8. Effect(t, x, s)
  BY <1>1, <1>2, <1>4, <1>6, <1>7, MarkingEffect DEF Writing
<1>9. CountInv'
  BY <1>1, <1>2, CountSame DEF IInv
<1>10. QED BY <1>2, <1>5, <1>8, <1>9, Assemble

-----------------------------------------------------------------------------
(* Replacing a deleted element.                                            *)
LEMMA TakeVacantInv ==
  ASSUME IInv, NEW t \in Threads, TakeVacant(t)
  PROVE  IInv'
<1>1. /\ pc[t] = "takeVacant" /\ UNCHANGED table /\ UNCHANGED <<marked, numDeleted, oldLabel>>
      /\ Stay(t)
  BY DEF TakeVacant
<1>2. /\ CallInv(t) /\ SlotInv(t) /\ FreshInv(t) /\ LookupInv /\ VacantInv /\ DataInv
      /\ ThreadTypes /\ DeleteTypes
  BY DEF IInv, Local, Shared, TypeInv
<1>3. Label(t)' = Label(t) /\ call'[t] = call[t] /\ labelLock' = labelLock
      /\ lookup' = lookup /\ slotLabel' = slotLabel /\ data' = data /\ Used' = Used
  BY <1>1 DEF Stay, Label, table, Used
<1>4. AllowReplace /\ call[t].op = "add" /\ lookup[Label(t)] = None /\ slot[t] = None
  BY <1>1, <1>2 DEF CallInv, FreshInv, SlotInv, Adding, Bound, Replacing
<1>5. ASSUME vacant = {}, Goto(t, "findOrClaim"), UNCHANGED <<vacant, slot>>
      PROVE  IInv'
  <2>1. pc'[t] = "findOrClaim" /\ "findOrClaim" \in Steps /\ slot'[t] = slot[t]
    BY <1>2, <1>5 DEF Goto, ThreadTypes, Steps
  <2>2. Local(t)'
    BY <1>1, <1>2, <1>3, <1>4, <2>1
    DEF Local, CallInv, SlotInv, FreshInv, Adding, Bound, Replacing
  <2>3. QED BY <1>1, <1>5, <2>1, <2>2, GoOnInv DEF Writing, deletes
<1>6. ASSUME NEW s \in vacant, vacant' = vacant \ {s}, slot' = [slot EXCEPT ![t] = s],
             Goto(t, "relabel")
      PROVE  IInv'
  <2>1. /\ s \in Slots /\ s \in Used /\ s \in marked /\ Tidy(s) /\ data[s] \in Values
        /\ \A u \in Threads : slot[u] # s
    BY <1>2 DEF VacantInv, DataInv, DeleteTypes
  <2>2. PICK o \in Labels \cup {None} : oldLabel' = [oldLabel EXCEPT ![t] = o]
    BY <1>1, <1>2 DEF ThreadTypes
  <2>3. /\ ThreadTypes' /\ \A u \in Threads \ {t} : Same(u)
        /\ pc'[t] = "relabel" /\ slot'[t] = s
    BY <1>1, <1>6, <2>1, <2>2, StayEffect DEF Steps
  <2>4. PICK x \in Labels : x = Label(t)
    BY <1>1, Owner
  <2>5. Tidy(s)'
    BY <1>3, <2>1 DEF Tidy
  <2>6. Effect(t, x, s)
    <3>1. Confined(x, s)
      BY <1>1, <1>3, <1>6, <2>1 DEF Confined
    <3>2. AtSlot(t, s)
      BY <1>1, <1>2, <1>3, <1>4, <1>6, <2>1, <2>3, <2>5 DEF AtSlot, LookupInv
    <3>3. Apart(t, x, s)
      BY <1>1, <2>1, <2>4, Owner DEF Apart
    <3>4. QED BY <3>1, <3>2, <3>3 DEF Effect
  <2>7. TypeInv'
    BY <1>1, <1>6, <2>3 DEF IInv, TypeInv, TableTypes, DeleteTypes, table
  <2>8. Local(t)'
    <3>1. Tidy(slot[t])'
      BY <1>3, <2>1, <2>3 DEF Tidy
    <3>2. SlotInv(t)'
      BY <1>1, <1>3, <2>1, <2>3, <3>1, NoneAssumption DEF SlotInv, Bound, Replacing, Slots
    <3>3. QED BY <1>1, <1>2, <1>3, <1>4, <2>3, <3>2 DEF Local, CallInv, FreshInv, Adding, Replacing
  <2>9. CountInv'
    BY <1>1, <2>3, CountSame DEF IInv
  <2>10. QED BY <2>1, <2>3, <2>6, <2>7, <2>8, <2>9, Assemble
<1>7. QED BY <1>5, <1>6 DEF TakeVacant

LEMMA RelabelInv ==
  ASSUME IInv, NEW t \in Threads, Relabel(t)
  PROVE  IInv'
<1>1. /\ pc[t] = "relabel" /\ Goto(t, "rebind") /\ Stay(t) /\ "rebind" \in Steps
      /\ oldLabel' = [oldLabel EXCEPT ![t] = slotLabel[slot[t]]]
      /\ slotLabel' = [slotLabel EXCEPT ![slot[t]] = Label(t)]
      /\ UNCHANGED <<lookup, count, data, deletes, slot>>
  BY DEF Relabel, Steps
<1>2. /\ CallInv(t) /\ SlotInv(t) /\ FreshInv(t) /\ LookupInv /\ VacantInv /\ DataInv
      /\ ThreadTypes /\ TableTypes
  BY DEF IInv, Local, Shared, TypeInv
<1>3. PICK x \in Labels : x = Label(t)
  BY <1>1, Owner
<1>4. slot[t] # None
  BY <1>1, <1>2 DEF SlotInv, Replacing
<1>5. PICK s \in Slots : /\ s = slot[t] /\ s \in Used /\ data[s] \in Values /\ s \notin vacant
                         /\ Tidy(s) /\ \A u \in Threads \ {t} : slot[u] # s
  BY <1>1, <1>4, OwnSlot
<1>6. slotLabel[s] \in Labels /\ lookup[slotLabel[s]] = s
  BY <1>5 DEF Tidy
<1>7. /\ ThreadTypes' /\ \A u \in Threads \ {t} : Same(u)
      /\ pc'[t] = "rebind" /\ call'[t] = call[t] /\ slot'[t] = s
      /\ oldLabel'[t] = slotLabel[s] /\ labelLock' = labelLock
  <2>1. PICK o \in Labels : o = slotLabel[s]
    BY <1>6
  <2>2. slot' = [slot EXCEPT ![t] = s]
    BY <1>1, <1>2, <1>5 DEF ThreadTypes
  <2>3. oldLabel' = [oldLabel EXCEPT ![t] = o]
    BY <1>1, <1>5, <2>1
  <2>4. PICK next \in Steps : next = "rebind"
    BY <1>1
  <2>5. Goto(t, next) /\ Stay(t)
    BY <1>1, <2>4
  <2>6. s \in Slots \cup {None} /\ o \in Labels \cup {None}
    OBVIOUS
  <2>7. ThreadTypes' /\ (\A u \in Threads \ {t} : Same(u)) /\ pc'[t] = next
        /\ call'[t] = call[t] /\ slot'[t] = s /\ oldLabel'[t] = o /\ labelLock' = labelLock
    BY <2>2, <2>3, <2>5, <2>6, StayEffect
  <2>8. QED BY <2>1, <2>4, <2>7
<1>8. /\ Used' = Used /\ marked' = marked /\ vacant' = vacant /\ numDeleted' = numDeleted
      /\ Label(t)' = x /\ slotLabel'[s] = x
      /\ \A r \in Slots \ {s} : slotLabel'[r] = slotLabel[r]
  BY <1>1, <1>2, <1>3, <1>5, <1>7 DEF Used, deletes, Label, TableTypes
<1>9. Effect(t, x, s)
  <2>1. Confined(x, s)
    BY <1>1, <1>8 DEF Confined
  <2>2. AtSlot(t, s)
    BY <1>1, <1>2, <1>5, <1>7, <1>8 DEF AtSlot, LookupInv, VacantInv
  <2>3. Apart(t, x, s)
    BY <1>1, <1>3, <1>5, Owner DEF Apart
  <2>4. QED BY <2>1, <2>2, <2>3 DEF Effect
<1>10. TypeInv'
  <2>1. slotLabel' \in [Slots -> Labels \cup {None}]
    BY <1>1, <1>2, <1>3 DEF TableTypes
  <2>2. QED BY <1>1, <1>7, <2>1 DEF IInv, TypeInv, TableTypes, DeleteTypes, deletes
<1>11. Local(t)'
  <2>1. SlotInv(t)'
    BY <1>1, <1>2, <1>4, <1>5, <1>6, <1>7, <1>8 DEF SlotInv, Bound, Replacing
  <2>2. QED BY <1>1, <1>2, <1>3, <1>7, <1>8, <2>1 DEF Local, CallInv, FreshInv, Adding, Replacing
<1>12. CountInv'
  BY <1>1, <1>7, <1>8, CountSame DEF IInv
<1>13. QED BY <1>7, <1>9, <1>10, <1>11, <1>12, Assemble

LEMMA RebindInv ==
  ASSUME IInv, NEW t \in Threads, Rebind(t)
  PROVE  IInv'
<1>1. /\ pc[t] = "rebind" /\ Goto(t, "unmark") /\ Stay(t) /\ "unmark" \in Steps
      /\ lookup' = [lookup EXCEPT ![oldLabel[t]] = None, ![Label(t)] = slot[t]]
      /\ UNCHANGED <<count, slotLabel, data, deletes, slot, oldLabel>>
  BY DEF Rebind, Steps
<1>2. /\ CallInv(t) /\ SlotInv(t) /\ FreshInv(t) /\ LookupInv /\ VacantInv /\ DataInv
      /\ ThreadTypes /\ TableTypes
  BY DEF IInv, Local, Shared, TypeInv
<1>3. PICK x \in Labels : x = Label(t)
  BY <1>1, Owner
<1>4. slot[t] # None
  BY <1>1, <1>2 DEF SlotInv, Replacing
<1>5. PICK s \in Slots : /\ s = slot[t] /\ s \in Used /\ data[s] \in Values /\ s \notin vacant
                         /\ \A u \in Threads \ {t} : slot[u] # s
  BY <1>1, <1>4, OwnSlot
<1>6. PICK o \in Labels : o = oldLabel[t] /\ lookup[o] = s /\ slotLabel[s] = x
                          /\ lookup[x] = None /\ o # x
  BY <1>1, <1>2, <1>3, <1>4, <1>5 DEF SlotInv, FreshInv, Replacing
<1>7. /\ ThreadTypes' /\ \A u \in Threads \ {t} : Same(u)
      /\ pc'[t] = "unmark" /\ call'[t] = call[t] /\ slot'[t] = s /\ labelLock' = labelLock
  BY <1>1, <1>5, GoOnEffect
<1>8. /\ lookup'[x] = s /\ lookup'[o] = None
      /\ \A y \in Labels \ {x, o} : lookup'[y] = lookup[y] /\ lookup[y] # s
  BY <1>1, <1>2, <1>3, <1>4, <1>5, <1>6 DEF TableTypes, LookupInv
<1>9. /\ Used' = Used /\ marked' = marked /\ vacant' = vacant /\ numDeleted' = numDeleted
      /\ Label(t)' = x /\ slotLabel'[s] = x
  BY <1>1, <1>3, <1>6, <1>7 DEF Used, deletes, Label
<1>10. Effect(t, x, s)
  <2>1. Confined(x, s)
    BY <1>1, <1>6, <1>8, <1>9 DEF Confined
  <2>2. AtSlot(t, s)
    <3>1. Tidy(s)'
      BY <1>8, <1>9 DEF Tidy
    <3>2. \A y, z \in Labels : lookup'[y] = s => (lookup'[z] = s => y = z)
      BY <1>4, <1>5, <1>8
    <3>3. QED BY <1>1, <1>2, <1>5, <1>7, <1>9, <3>1, <3>2 DEF AtSlot, VacantInv
  <2>3. Apart(t, x, s)
    BY <1>1, <1>3, <1>5, Owner DEF Apart
  <2>4. QED BY <2>1, <2>2, <2>3 DEF Effect
<1>11. TypeInv'
  <2>1. lookup' \in [Labels -> Slots \cup {None}]
    BY <1>1, <1>2, <1>5 DEF TableTypes
  <2>2. QED BY <1>1, <1>7, <2>1 DEF IInv, TypeInv, TableTypes, DeleteTypes, deletes
<1>12. Local(t)'
  <2>1. SlotInv(t)'
    BY <1>4, <1>5, <1>7, <1>8, <1>9 DEF SlotInv, Bound, Replacing
  <2>2. call[t] \in Request /\ labelLock[LockOf[x]] = t /\ call[t].op = "add"
    BY <1>1, <1>2, <1>3 DEF CallInv, Adding
  <2>3. CallInv(t)'
    BY <1>7, <1>9, <2>2 DEF CallInv, Adding, Replacing
  <2>4. FreshInv(t)'
    BY <1>7 DEF FreshInv, Replacing
  <2>5. QED BY <2>1, <2>3, <2>4 DEF Local
<1>13. CountInv'
  BY <1>1, <1>7, <1>9, CountSame DEF IInv
<1>14. QED BY <1>7, <1>10, <1>11, <1>12, <1>13, Assemble

-----------------------------------------------------------------------------
(* Adding a new element, and writing the vector.                           *)
LEMMA ClaimInv ==
  ASSUME IInv, NEW t \in Threads, pc[t] = "findOrClaim",
         NEW x \in Labels, x = Label(t), lookup[x] = None, NEW s \in Slots, s = count,
         NEW o \in Labels \cup {None}, oldLabel' = [oldLabel EXCEPT ![t] = o],
         slot' = [slot EXCEPT ![t] = s], count' = count + 1,
         lookup' = [lookup EXCEPT ![x] = s], Goto(t, "initialise"), Stay(t),
         UNCHANGED <<slotLabel, data, deletes>>
  PROVE  IInv'
<1>1. /\ CallInv(t) /\ LookupInv /\ VacantInv /\ ThreadTypes /\ TableTypes
      /\ \A u \in Threads : SlotInv(u)
  BY DEF IInv, Local, Shared, TypeInv
<1>2. "initialise" \in Steps
  BY DEF Steps
<1>3. s \notin Used /\ Used' = Used \cup {s} /\ s # None
  BY <1>1, NoneAssumption, SizeAssumption DEF Used, TableTypes
<1>4. s \notin marked /\ s \notin vacant /\ \A u \in Threads : slot[u] # s
  BY <1>1, <1>3 DEF VacantInv, SlotInv
<1>5. slot[t] = None
  BY <1>1 DEF SlotInv, Bound, Replacing
<1>6. marked' = marked /\ vacant' = vacant /\ numDeleted' = numDeleted
      /\ slotLabel' = slotLabel /\ data' = data
  BY DEF deletes
<1>7. lookup'[x] = s /\ \A y \in Labels \ {x} : lookup'[y] = lookup[y] /\ lookup[y] # s
  BY <1>1, <1>3 DEF TableTypes, LookupInv
<1>8. /\ ThreadTypes' /\ \A u \in Threads \ {t} : Same(u)
      /\ pc'[t] = "initialise" /\ call'[t] = call[t] /\ slot'[t] = s /\ labelLock' = labelLock
  BY <1>2, StayEffect
<1>9. Effect(t, x, s)
  <2>1. Confined(x, s)
    BY <1>3, <1>6, <1>7 DEF Confined
  <2>2. AtSlot(t, s)
    BY <1>3, <1>4, <1>5, <1>6, <1>7, <1>8 DEF AtSlot
  <2>3. Apart(t, x, s)
    BY <1>4, Owner DEF Apart
  <2>4. QED BY <2>1, <2>2, <2>3 DEF Effect
<1>10. TypeInv'
  <2>1. lookup' \in [Labels -> Slots \cup {None}] /\ count' \in 0..MaxElements
    BY <1>1, SizeAssumption DEF TableTypes, Slots
  <2>2. QED BY <1>6, <1>8, <2>1 DEF IInv, TypeInv, TableTypes, DeleteTypes
<1>11. Local(t)'
  <2>1. Label(t)' = x
    BY <1>8 DEF Label
  <2>2. SlotInv(t)'
    BY <1>3, <1>4, <1>6, <1>7, <1>8, <2>1 DEF SlotInv, Bound, Replacing
  <2>3. call[t] \in Request /\ labelLock[LockOf[x]] = t /\ call[t].op = "add"
    BY <1>1 DEF CallInv, Adding
  <2>4. CallInv(t)'
    BY <1>8, <2>1, <2>3 DEF CallInv, Adding, Replacing
  <2>5. FreshInv(t)'
    BY <1>8 DEF FreshInv, Replacing
  <2>6. QED BY <2>2, <2>4, <2>5 DEF Local
<1>12. CountInv'
  BY <1>6, <1>8, CountSame DEF IInv
<1>13. QED BY <1>8, <1>9, <1>10, <1>11, <1>12, Assemble

LEMMA FindOrClaimInv ==
  ASSUME IInv, NEW t \in Threads, FindOrClaim(t)
  PROVE  IInv'
<1>1. pc[t] = "findOrClaim" /\ UNCHANGED <<slotLabel, data, deletes>>
  BY DEF FindOrClaim
<1>2. PICK x \in Labels : x = Label(t)
  BY <1>1, Owner
<1>3. PICK s \in Slots \cup {None} : s = lookup[x]
  BY DEF IInv, TypeInv, TableTypes
<1>4. CASE Return(t, "threw") /\ UNCHANGED <<lookup, count>>
  <2>1. UNCHANGED <<table, deletes>>
    BY <1>1, <1>4 DEF table
  <2>2. QED BY <1>1, <1>4, <2>1, EndInv DEF Writing
<1>5. CASE /\ s # None /\ slot' = [slot EXCEPT ![t] = s] /\ Goto(t, "update")
           /\ UNCHANGED <<lookup, count, oldLabel>> /\ Stay(t)
  <2>1. call[t] \in Request /\ labelLock[LockOf[x]] = t /\ call[t].op = "add"
    BY <1>1, <1>2 DEF IInv, Local, CallInv, Adding
  <2>2. PICK o \in Labels \cup {None} : oldLabel' = [oldLabel EXCEPT ![t] = o]
    BY <1>5 DEF IInv, TypeInv, ThreadTypes
  <2>3. /\ ThreadTypes' /\ \A u \in Threads \ {t} : Same(u)
        /\ pc'[t] = "update" /\ call'[t] = call[t] /\ slot'[t] = s /\ labelLock' = labelLock
    BY <1>5, <2>2, StayEffect DEF Steps
  <2>4. UNCHANGED <<table, deletes>>
    BY <1>1, <1>5 DEF table
  <2>5. s \in Slots /\ Effect(t, x, s)
    BY <1>1, <1>2, <1>3, <1>5, <2>3, <2>4, FoundEffect
  <2>6. TypeInv'
    BY <2>3, <2>4 DEF IInv, TypeInv, TableTypes, DeleteTypes, table, deletes
  <2>7. s \in Used /\ Tidy(s) /\ LookupInv
    BY <1>1, <1>2, <1>3, <2>5, FoundSlot DEF IInv, Shared
  <2>8. slotLabel[s] = x
    BY <1>2, <1>3, <1>5, <2>7 DEF Tidy, LookupInv
  <2>9. Local(t)'
    <3>1. Label(t)' = x
      BY <1>2, <2>3 DEF Label
    <3>2. CallInv(t)'
      BY <2>1, <2>3, <3>1 DEF CallInv, Adding, Replacing
    <3>3. SlotInv(t)'
      BY <1>3, <1>5, <2>3, <2>4, <2>7, <2>8, <3>1
      DEF SlotInv, Bound, Replacing, Used, table, deletes
    <3>4. FreshInv(t)'
      BY <2>3 DEF FreshInv, Replacing
    <3>5. QED BY <3>2, <3>3, <3>4 DEF Local
  <2>10. CountInv'
    BY <1>1, <2>3, <2>4, CountSame DEF IInv, deletes
  <2>11. QED BY <2>3, <2>5, <2>6, <2>9, <2>10, Assemble
<1>6. CASE /\ s = None /\ count < MaxElements
           /\ slot' = [slot EXCEPT ![t] = count] /\ count' = count + 1
           /\ lookup' = [lookup EXCEPT ![Label(t)] = count]
           /\ Goto(t, "initialise") /\ UNCHANGED oldLabel /\ Stay(t)
  <2>1. PICK q \in Slots : q = count
    BY <1>6, SizeAssumption DEF IInv, TypeInv, TableTypes, Slots
  <2>2. PICK o \in Labels \cup {None} : oldLabel' = [oldLabel EXCEPT ![t] = o]
    BY <1>6 DEF IInv, TypeInv, ThreadTypes
  <2>3. slot' = [slot EXCEPT ![t] = q] /\ lookup' = [lookup EXCEPT ![x] = q] /\ lookup[x] = None
    BY <1>2, <1>3, <1>6, <2>1
  <2>4. QED BY <1>1, <1>2, <1>6, <2>1, <2>2, <2>3, ClaimInv
<1>7. QED BY <1>2, <1>3, <1>4, <1>5, <1>6 DEF FindOrClaim


LEMMA InitialiseInv ==
  ASSUME IInv, NEW t \in Threads, Initialise(t)
  PROVE  IInv'
<1>1. /\ pc[t] = "initialise" /\ Goto(t, "startWrite") /\ Stay(t) /\ "startWrite" \in Steps
      /\ marked' = marked \ {slot[t]} /\ slotLabel' = [slotLabel EXCEPT ![slot[t]] = Label(t)]
      /\ UNCHANGED <<lookup, count, data, numDeleted, vacant, slot, oldLabel>>
  BY DEF Initialise, Steps
<1>2. /\ CallInv(t) /\ SlotInv(t) /\ LookupInv /\ VacantInv /\ TableTypes
  BY DEF IInv, Local, Shared, TypeInv
<1>3. PICK x \in Labels : x = Label(t)
  BY <1>1, Owner
<1>4. slot[t] # None
  BY <1>1, <1>2 DEF SlotInv, Bound
<1>5. PICK s \in Slots : /\ s = slot[t] /\ s \in Used /\ s \notin vacant
                         /\ \A u \in Threads \ {t} : slot[u] # s
  BY <1>1, <1>4, OwnSlot
<1>6. lookup[x] = s /\ s \notin marked
  BY <1>1, <1>2, <1>3, <1>5 DEF SlotInv, Bound
<1>7. /\ ThreadTypes' /\ \A u \in Threads \ {t} : Same(u)
      /\ pc'[t] = "startWrite" /\ call'[t] = call[t] /\ slot'[t] = s /\ labelLock' = labelLock
  BY <1>1, <1>5, GoOnEffect
<1>8. /\ Used' = Used /\ marked' = marked /\ vacant' = vacant /\ numDeleted' = numDeleted
      /\ Label(t)' = x /\ slotLabel'[s] = x
      /\ \A r \in Slots \ {s} : slotLabel'[r] = slotLabel[r]
  BY <1>1, <1>2, <1>3, <1>5, <1>6, <1>7 DEF Used, Label, TableTypes
<1>9. Effect(t, x, s)
  <2>1. Confined(x, s)
    BY <1>1, <1>8 DEF Confined
  <2>2. AtSlot(t, s)
    <3>1. Tidy(s)'
      BY <1>1, <1>6, <1>8 DEF Tidy
    <3>2. QED BY <1>1, <1>2, <1>5, <1>6, <1>7, <1>8, <3>1 DEF AtSlot, LookupInv
  <2>3. Apart(t, x, s)
    BY <1>1, <1>3, <1>5, Owner DEF Apart
  <2>4. QED BY <2>1, <2>2, <2>3 DEF Effect
<1>10. TypeInv'
  <2>1. slotLabel' \in [Slots -> Labels \cup {None}]
    BY <1>1, <1>2, <1>3 DEF TableTypes
  <2>2. QED BY <1>1, <1>7, <1>8, <2>1 DEF IInv, TypeInv, TableTypes, DeleteTypes
<1>11. Local(t)'
  <2>1. SlotInv(t)'
    BY <1>1, <1>4, <1>5, <1>6, <1>7, <1>8 DEF SlotInv, Bound, Replacing
  <2>2. call[t] \in Request /\ labelLock[LockOf[x]] = t /\ call[t].op = "add"
    BY <1>1, <1>2, <1>3 DEF CallInv, Adding
  <2>3. CallInv(t)'
    BY <1>7, <1>8, <2>2 DEF CallInv, Adding, Replacing
  <2>4. FreshInv(t)'
    BY <1>7 DEF FreshInv, Replacing
  <2>5. QED BY <2>1, <2>3, <2>4 DEF Local
<1>12. CountInv'
  BY <1>1, <1>7, <1>8, CountSame DEF IInv
<1>13. QED BY <1>7, <1>9, <1>10, <1>11, <1>12, Assemble

(* The vector of slot s is written, by the thread that has the slot.       *)
LEMMA WriteEffect ==
  ASSUME IInv, NEW t \in Threads, pc[t] \in {"startWrite", "endWrite"},
         NEW x \in Labels, x = Label(t), NEW s \in Slots, s = slot[t],
         NEW v \in Values \cup {Torn}, data' = [data EXCEPT ![s] = v],
         UNCHANGED <<lookup, count, slotLabel, deletes>>, slot'[t] \in {s, None},
         v \in Values \/ (slot'[t] = s /\ pc'[t] = "endWrite")
  PROVE  Effect(t, x, s) /\ TableTypes' /\ DeleteTypes' /\ Used' = Used
<1>1. /\ LookupInv /\ VacantInv /\ TableTypes /\ DeleteTypes /\ SlotInv(t) /\ s # None
  BY NoneAssumption DEF IInv, Local, Shared, TypeInv, Slots
<1>2. /\ s \in Used /\ s \notin vacant /\ Tidy(s) /\ \A u \in Threads \ {t} : slot[u] # s
  BY <1>1, OwnSlot DEF Bound
<1>3. Used' = Used /\ Tidy(s)' /\ marked' = marked /\ vacant' = vacant
  BY <1>2 DEF Used, Tidy, deletes
<1>4. data'[s] = v /\ \A r \in Slots \ {s} : data'[r] = data[r]
  BY <1>1 DEF TableTypes
<1>5. Confined(x, s)
  BY <1>3, <1>4 DEF Confined
<1>6. AtSlot(t, s)
  BY <1>1, <1>2, <1>3, <1>4 DEF AtSlot, LookupInv
<1>7. Apart(t, x, s)
  BY <1>2, Owner DEF Apart
<1>8. data' \in [Slots -> Values \cup {None, Torn}]
  BY <1>1 DEF TableTypes
<1>9. QED BY <1>1, <1>3, <1>5, <1>6, <1>7, <1>8 DEF Effect, TableTypes, DeleteTypes, deletes

LEMMA StartWriteInv ==
  ASSUME IInv, NEW t \in Threads, StartWrite(t)
  PROVE  IInv'
<1>1. /\ pc[t] = "startWrite" /\ Goto(t, "endWrite") /\ Stay(t) /\ "endWrite" \in Steps
      /\ data' = [data EXCEPT ![slot[t]] = Torn]
      /\ UNCHANGED <<slot, oldLabel>> /\ UNCHANGED <<lookup, count, slotLabel, deletes>>
  BY DEF StartWrite, Steps
<1>2. CallInv(t) /\ SlotInv(t) /\ slot[t] # None
  BY <1>1 DEF IInv, Local, SlotInv, Bound
<1>3. PICK x \in Labels : x = Label(t)
  BY <1>1, Owner
<1>4. PICK s \in Slots : s = slot[t]
  BY <1>2, OwnSlot
<1>5. /\ ThreadTypes' /\ \A u \in Threads \ {t} : Same(u)
      /\ pc'[t] = "endWrite" /\ call'[t] = call[t] /\ slot'[t] = s /\ labelLock' = labelLock
  BY <1>1, <1>4, GoOnEffect
<1>6. data' = [data EXCEPT ![s] = Torn] /\ Torn \in Values \cup {Torn}
  BY <1>1, <1>4
<1>7. Effect(t, x, s) /\ TableTypes' /\ DeleteTypes' /\ Used' = Used
  BY <1>1, <1>3, <1>4, <1>5, <1>6, WriteEffect
<1>8. Local(t)'
  <2>1. Label(t)' = x
    BY <1>3, <1>5 DEF Label
  <2>2. SlotInv(t)'
    BY <1>1, <1>2, <1>3, <1>4, <1>5, <1>7, <2>1 DEF SlotInv, Bound, Replacing
  <2>3. call[t] \in Request /\ labelLock[LockOf[x]] = t /\ call[t].op = "add"
    BY <1>1, <1>2, <1>3 DEF CallInv, Adding
  <2>4. CallInv(t)'
    BY <1>5, <2>1, <2>3 DEF CallInv, Adding, Replacing
  <2>5. FreshInv(t)'
    BY <1>5 DEF FreshInv, Replacing
  <2>6. QED BY <2>2, <2>4, <2>5 DEF Local
<1>9. CountInv'
  BY <1>1, <1>5, CountSame DEF IInv, deletes
<1>10. QED BY <1>5, <1>7, <1>8, <1>9, Assemble DEF TypeInv

LEMMA EndWriteInv ==
  ASSUME IInv, NEW t \in Threads, EndWrite(t)
  PROVE  IInv'
<1>1. /\ pc[t] = "endWrite" /\ Return(t, "ok")
      /\ data' = [data EXCEPT ![slot[t]] = call[t].value]
      /\ UNCHANGED <<lookup, count, slotLabel, deletes>>
  BY DEF EndWrite
<1>2. CallInv(t) /\ SlotInv(t) /\ slot[t] # None
  BY <1>1 DEF IInv, Local, SlotInv, Bound
<1>3. PICK x \in Labels : x = Label(t)
  BY <1>1, Owner
<1>4. PICK s \in Slots : s = slot[t]
  BY <1>2, OwnSlot
<1>5. PICK v \in Values : v = call[t].value
  BY <1>1, <1>2 DEF CallInv, Request, Adding
<1>6. ThreadTypes' /\ Left(t) /\ \A u \in Threads \ {t} : Same(u)
  BY <1>1, ReturnEffect
<1>7. data' = [data EXCEPT ![s] = v] /\ slot'[t] = None /\ pc'[t] = "idle"
  BY <1>1, <1>4, <1>5, <1>6 DEF Left
<1>8. Effect(t, x, s) /\ TableTypes' /\ DeleteTypes'
  BY <1>1, <1>3, <1>4, <1>7, WriteEffect
<1>9. CountInv'
  BY <1>1, <1>6, <1>7, CountSame DEF IInv, deletes
<1>10. QED BY <1>6, <1>8, <1>9, LeftLocal, Assemble DEF TypeInv

-----------------------------------------------------------------------------
(* The strengthened invariant is inductive.                                *)
LEMMA InitInv == Init => IInv
<1> SUFFICES ASSUME Init PROVE IInv
  OBVIOUS
<1>1. TypeInv
  <2>1. TableTypes
    BY SizeAssumption DEF Init, TableTypes
  <2>2. DeleteTypes
    BY DEF Init, DeleteTypes
  <2>3. ThreadTypes
    BY DEF Init, ThreadTypes, Steps
  <2>4. QED BY <2>1, <2>2, <2>3 DEF TypeInv
<1>2. \A t \in Threads : Local(t)
  BY DEF Init, Local, CallInv, SlotInv, FreshInv, Bound, Replacing, Adding
<1>3. Shared
  <2>1. Used = {}
    BY DEF Init, Used
  <2>2. QED BY <2>1 DEF Init, Shared, LookupInv, VacantInv, DistinctInv, DataInv
<1>4. CountInv
  <2>1. marked = {} /\ Marking = {} /\ Unmarking = {} /\ numDeleted = 0
    BY DEF Init, Marking, Unmarking
  <2>2. QED BY <2>1, FS_EmptySet DEF CountInv
<1>5. QED BY <1>1, <1>2, <1>3, <1>4 DEF IInv

LEMMA StutterInv ==
  ASSUME IInv, UNCHANGED vars PROVE IInv'
<1>1. /\ UNCHANGED <<lookup, count, slotLabel, data>> /\ UNCHANGED <<marked, numDeleted, vacant>>
      /\ UNCHANGED <<labelLock, pc, call, slot, oldLabel, result, before>>
  BY DEF vars, table, deletes
<1>2. TypeInv'
  BY <1>1 DEF IInv, TypeInv, TableTypes, DeleteTypes, ThreadTypes
<1>3. \A t \in Threads : Local(t)'
  BY <1>1 DEF IInv, Local, CallInv, SlotInv, FreshInv, Label, Tidy, Used
<1>4. Shared'
  BY <1>1 DEF IInv, Shared, LookupInv, VacantInv, DistinctInv, DataInv, Tidy, Used
<1>5. CountInv'
  BY <1>1 DEF IInv, CountInv, Marking, Unmarking
<1>6. QED BY <1>2, <1>3, <1>4, <1>5 DEF IInv

LEMMA NextInv ==
  ASSUME IInv, ~AnyReplace, [Next]_vars PROVE IInv'
<1>1. ASSUME NEW t \in Threads, Step(t) PROVE IInv'
  <2>1. CASE Find(t)
    BY <2>1, FindInv
  <2>2. CASE Read(t)
    BY <2>2, ReadInv
  <2>3. CASE Mark(t)
    BY <2>3, MarkInv
  <2>4. CASE CountMark(t)
    BY <2>4, CountMarkInv
  <2>5. CASE Offer(t)
    BY <2>5, OfferInv
  <2>6. CASE Unmark(t)
    BY <2>6, UnmarkInv
  <2>7. CASE CountUnmark(t)
    BY <2>7, CountUnmarkInv
  <2>8. CASE Withdraw(t)
    BY <2>8, WithdrawInv
  <2>9. CASE TakeVacant(t)
    BY <2>9, TakeVacantInv
  <2>10. CASE Relabel(t)
    BY <2>10, RelabelInv
  <2>11. CASE Rebind(t)
    BY <2>11, RebindInv
  <2>12. CASE FindOrClaim(t)
    BY <2>12, FindOrClaimInv
  <2>13. CASE Update(t)
    BY <2>13, UpdateInv
  <2>14. CASE Initialise(t)
    BY <2>14, InitialiseInv
  <2>15. CASE StartWrite(t)
    BY <2>15, StartWriteInv
  <2>16. CASE EndWrite(t)
    BY <2>16, EndWriteInv
  <2>17. QED BY <1>1, <2>1, <2>2, <2>3, <2>4, <2>5, <2>6, <2>7, <2>8, <2>9, <2>10,
                <2>11, <2>12, <2>13, <2>14, <2>15, <2>16 DEF Step
<1>2. ASSUME NEW t \in Threads, NEW r \in Request, Begin(t, r) PROVE IInv'
  BY <1>2, BeginInv
<1>3. CASE UNCHANGED vars
  BY <1>3, StutterInv
<1>4. QED BY <1>1, <1>2, <1>3 DEF Next

(* The strengthened invariant holds throughout, as long as no caller passes*)
(* replace_deleted for a label that is in the index.                       *)
THEOREM Invariance ==
  ASSUME ~AnyReplace PROVE Spec => []IInv
<1>1. Init => IInv
  BY InitInv
<1>2. IInv /\ [Next]_vars => IInv'
  BY NextInv
<1>3. QED BY <1>1, <1>2, PTL DEF Spec

-----------------------------------------------------------------------------
(* The threads that have written a mark and not counted it have written    *)
(* different marks.                                                        *)
LEMMA MarkingFits ==
  ASSUME IInv, NEW S \in SUBSET marked, \A t \in Marking : slot[t] \in S
  PROVE  Cardinality(Marking) <= Cardinality(S) /\ Cardinality(S) \in Nat
<1>1. IsFiniteSet(S) /\ IsFiniteSet(Marking) /\ Cardinality(S) \in Nat
  BY FiniteParts, FS_Subset, FS_CardinalityType
<1>2. \A t \in Marking : t \in Threads /\ slot[t] # None
  BY DEF Marking, IInv, Local, SlotInv, Bound
<1>3. \A t, u \in Marking : slot[t] = slot[u] => t = u
  BY <1>2 DEF IInv, Shared, DistinctInv
<1>4. [t \in Marking |-> slot[t]] \in Injection(Marking, S)
  BY <1>3 DEF Injection, IsInjective
<1>5. QED BY <1>1, <1>4, FS_Injection

LEMMA MarkedByMarking ==
  ASSUME IInv, NEW t \in Marking
  PROVE  t \in Threads /\ slot[t] \in marked /\ lookup[Label(t)] = slot[t] /\ pc[t] # "idle"
BY DEF Marking, IInv, Local, SlotInv, Bound

(* The table is well typed and num_deleted_ never wraps below zero:        *)
(* unmarkDeletedInternal counts a mark down only after it was counted up.  *)
THEOREM TypeCorrect ==
  ASSUME ~AnyReplace PROVE Spec => []TypeOK
<1>1. IInv => TypeOK
  <2> SUFFICES ASSUME IInv PROVE TypeOK
    OBVIOUS
  <2>1. Cardinality(Marking) <= Cardinality(marked)
    BY MarkedByMarking, MarkingFits
  <2>2. numDeleted \in Nat
    BY <2>1, FiniteParts DEF IInv, CountInv
  <2>3. QED BY <2>2 DEF IInv, TypeInv, TableTypes, DeleteTypes, ThreadTypes, TypeOK
<1>2. QED BY <1>1, Invariance, PTL

(* num_deleted_ counts the marks, up to the operations that stand between  *)
(* writing a mark and counting it.                                         *)
THEOREM NumDeletedExactHolds ==
  ASSUME ~AnyReplace PROVE Spec => []NumDeletedExact
<1>1. IInv => NumDeletedExact
  BY DEF IInv, CountInv, NumDeletedExact, Marking, Unmarking
<1>2. QED BY <1>1, Invariance, PTL

(* Once a label has been deleted and no operation works on it, the counter *)
(* is not zero: searches look at the marks.                                *)
THEOREM DeletedForcesCheckHolds ==
  ASSUME ~AnyReplace PROVE Spec => []DeletedForcesCheck
<1>1. IInv => DeletedForcesCheck
  <2> SUFFICES ASSUME IInv, NEW x \in Labels,
                      \A t \in Threads : Busy(t) => Label(t) # x,
                      lookup[x] # None, lookup[x] \in marked
               PROVE  numDeleted > 0
    BY DEF DeletedForcesCheck
  <2>1. \A t \in Marking : slot[t] \in marked \ {lookup[x]}
    <3> SUFFICES ASSUME NEW t \in Marking PROVE slot[t] # lookup[x]
      BY MarkedByMarking
    <3>1. t \in Threads /\ Label(t) # x /\ lookup[Label(t)] = slot[t] /\ Label(t) \in Labels
      BY MarkedByMarking, Owner DEF Busy
    <3>2. QED BY <3>1 DEF IInv, Shared, LookupInv
  <2>2. Cardinality(Marking) <= Cardinality(marked \ {lookup[x]})
    BY <2>1, MarkingFits
  <2>3. Cardinality(marked \ {lookup[x]}) = Cardinality(marked) - 1
    BY FiniteParts, FS_RemoveElement
  <2>4. QED BY <2>2, <2>3, FiniteParts DEF IInv, CountInv
<1>2. QED BY <1>1, Invariance, PTL

(* No two operations work on one slot, and no vacant slot is worked on.    *)
THEOREM SlotOwnershipHolds ==
  ASSUME ~AnyReplace PROVE Spec => []SlotOwnership
<1>1. IInv => SlotOwnership
  BY DEF IInv, Shared, VacantInv, DistinctInv, SlotOwnership, InUse
<1>2. QED BY <1>1, Invariance, PTL

(* On every slot no operation works on, label_lookup_ and the label in the *)
(* slot agree.                                                             *)
THEOREM TableAgreesHolds ==
  ASSUME ~AnyReplace PROVE Spec => []TableAgrees
<1>1. IInv => TableAgrees
  <2> SUFFICES ASSUME IInv PROVE TableAgrees
    OBVIOUS
  <2>1. \A s \in Used : ~InUse(s) => Tidy(s)
    BY DEF IInv, Shared, LookupInv, InUse
  <2>2. \A x \in Labels : lookup[x] # None /\ ~InUse(lookup[x]) => slotLabel[lookup[x]] = x
    BY <2>1 DEF IInv, Shared, LookupInv, Tidy
  <2>3. QED BY <2>1, <2>2 DEF TableAgrees, Tidy, Used
<1>2. QED BY <1>1, Invariance, PTL

-----------------------------------------------------------------------------
(***************************************************************************)
(* The element table of HierarchicalNSW implements the label map of        *)
(* LabelStore, for any number of threads, labels, vectors and slots: every *)
(* operation takes effect as a whole at its end, whatever the others do.   *)
(***************************************************************************)

Pair(v, d) == [value |-> v, deleted |-> d]

(* How what thread t has found, and what its label's element was when the  *)
(* call began, are connected.                                              *)
Hist(t) ==
  /\ pc[t] \in {"find", "read", "mark", "takeVacant", "findOrClaim"} =>
       before[t] = Settled(Label(t))
  /\ pc[t] = "read" => call[t].op = "get" /\ slot[t] \notin marked
  /\ pc[t] \in {"mark", "countMark", "offer"} => call[t].op = "mark"
  /\ pc[t] \in {"countMark", "offer"} => before[t] = Pair(data[slot[t]], FALSE)
  /\ pc[t] = "unmark" =>
       IF call[t].op = "add" THEN slot[t] \in marked ELSE before[t] = Settled(Label(t))
  /\ pc[t] \in {"countUnmark", "withdraw"} =>
       /\ slot[t] \notin marked
       /\ call[t].op = "unmark" => before[t] = Pair(data[slot[t]], TRUE)
  /\ pc[t] \in {"startWrite", "endWrite"} => slot[t] \notin marked

HInv == IInv /\ \A t \in Threads : Hist(t)

(* The label whose slot thread t is about to give away.                    *)
Loses(t, y) == pc[t] = "rebind" /\ y = oldLabel[t]

(* A step of thread t writes to its own slot and moves its own label only. *)
Touches(t) ==
  /\ lookup \in [Labels -> Slots \cup {None}] /\ lookup' \in [Labels -> Slots \cup {None}]
  /\ \A y \in Labels : y = Label(t) \/ Loses(t, y) \/ lookup'[y] = lookup[y]
  /\ \A s \in Slots :
       \/ s = slot[t] /\ pc[t] \in Bound
       \/ data'[s] = data[s] /\ (s \in marked' <=> s \in marked)

(* ... and leaves the other threads where they are.                        *)
Undisturbed(u) ==
  pc'[u] = pc[u] /\ call'[u] = call[u] /\ slot'[u] = slot[u] /\ before'[u] = before[u]

-----------------------------------------------------------------------------
LEMMA OwnTypes ==
  ASSUME IInv, NEW t \in Threads
  PROVE  /\ TableTypes /\ DeleteTypes /\ ThreadTypes /\ None \notin Slots
         /\ CallInv(t) /\ SlotInv(t) /\ FreshInv(t)
         /\ LookupInv /\ VacantInv /\ DistinctInv /\ Used \subseteq Slots
BY NoneAssumption, SizeAssumption DEF IInv, TypeInv, Local, Shared, Slots, Used, TableTypes

LEMMA StepUndisturbed ==
  ASSUME IInv, NEW t \in Threads, Step(t)
  PROVE  /\ \A u \in Threads \ {t} : Undisturbed(u) /\ result'[u] = result[u]
         /\ pc[t] # "idle"
<1>1. ThreadTypes
  BY OwnTypes
<1> QED
  BY <1>1 DEF Step, Find, Read, Mark, CountMark, Offer, Unmark, CountUnmark, Withdraw,
     AfterUnmark, TakeVacant, Relabel, Rebind, FindOrClaim, Update, Initialise, StartWrite,
     EndWrite, Return, Stay, Goto, ThreadTypes, Undisturbed

LEMMA StepTouches ==
  ASSUME IInv, IInv', NEW t \in Threads, Step(t)
  PROVE  Touches(t)
<1>1. /\ TableTypes /\ DeleteTypes /\ ThreadTypes /\ CallInv(t) /\ SlotInv(t) /\ None \notin Slots
      /\ TableTypes'
  BY OwnTypes DEF IInv, TypeInv
<1>2. CASE Find(t) \/ Read(t) \/ CountMark(t) \/ Offer(t) \/ CountUnmark(t) \/ Withdraw(t)
        \/ TakeVacant(t) \/ Relabel(t) \/ Update(t)
  <2>1. lookup' = lookup /\ data' = data /\ marked' = marked
    BY <1>2 DEF Find, Read, CountMark, Offer, CountUnmark, Withdraw, TakeVacant, Relabel, Update,
       table, deletes
  <2> QED
    BY <1>1, <2>1 DEF Touches, TableTypes
<1>3. CASE Mark(t) \/ Unmark(t)
  <2>1. lookup' = lookup /\ data' = data /\ pc[t] \in Bound
        /\ marked' \in {marked, marked \cup {slot[t]}, marked \ {slot[t]}}
    BY <1>3 DEF Mark, Unmark, table, Bound
  <2> QED
    BY <1>1, <2>1 DEF Touches, TableTypes
<1>4. CASE Rebind(t)
  <2>1. /\ lookup' = [lookup EXCEPT ![oldLabel[t]] = None, ![Label(t)] = slot[t]]
        /\ data' = data /\ marked' = marked /\ pc[t] = "rebind"
    BY <1>4 DEF Rebind, deletes
  <2> QED
    BY <1>1, <2>1 DEF Touches, Loses, TableTypes
<1>5. CASE FindOrClaim(t)
  <2>1. /\ lookup' = lookup \/ lookup' = [lookup EXCEPT ![Label(t)] = count]
        /\ data' = data /\ marked' = marked
    BY <1>5 DEF FindOrClaim, deletes
  <2> QED
    BY <1>1, <2>1 DEF Touches, TableTypes
<1>6. CASE Initialise(t)
  <2>1. lookup' = lookup /\ data' = data /\ pc[t] \in Bound /\ marked' = marked \ {slot[t]}
    BY <1>6 DEF Initialise, Bound
  <2> QED
    BY <1>1, <2>1 DEF Touches, TableTypes
<1>7. CASE StartWrite(t) \/ EndWrite(t)
  <2>1. /\ lookup' = lookup /\ pc[t] \in Bound /\ marked' = marked
        /\ \E v : data' = [data EXCEPT ![slot[t]] = v]
    BY <1>7 DEF StartWrite, EndWrite, Bound, deletes
  <2> QED
    BY <1>1, <2>1 DEF Touches, TableTypes
<1> QED
  BY <1>2, <1>3, <1>4, <1>5, <1>6, <1>7 DEF Step

(* What the table says of any other label stays.                           *)
LEMMA OthersSettled ==
  ASSUME IInv, NEW t \in Threads, pc[t] # "idle", Touches(t),
         NEW y \in Labels, y # Label(t), ~Loses(t, y)
  PROVE  Settled(y)' = Settled(y)
<1>1. SlotInv(t) /\ LookupInv /\ None \notin Slots /\ Label(t) \in Labels
  BY OwnTypes, Owner
<1>2. lookup'[y] = lookup[y]
  BY DEF Touches
<1>3. CASE lookup[y] = None
  BY <1>2, <1>3 DEF Settled
<1>4. CASE lookup[y] # None
  <2>1. lookup[y] \in Slots
    BY <1>4 DEF Touches
  <2>2. pc[t] \in Bound => lookup[y] # slot[t]
    BY <1>1, <1>4 DEF SlotInv, LookupInv
  <2>3. data'[lookup[y]] = data[lookup[y]] /\ (lookup[y] \in marked' <=> lookup[y] \in marked)
    BY <2>1, <2>2 DEF Touches
  <2> QED
    BY <1>2, <1>4, <2>3 DEF Settled
<1> QED
  BY <1>3, <1>4

(* Nobody works on the label that loses its slot.                          *)
LEMMA NobodyLoses ==
  ASSUME IInv, NEW t \in Threads, pc[t] = "rebind", NEW u \in Threads, pc[u] # "idle"
  PROVE  Label(u) # oldLabel[t] /\ lookup[oldLabel[t]] = slot[t] /\ oldLabel[t] \in Labels
<1>1. /\ SlotInv(t) /\ CallInv(t) /\ FreshInv(t) /\ CallInv(u) /\ SlotInv(u) /\ FreshInv(u)
      /\ LookupInv /\ DistinctInv /\ None \notin Slots /\ ThreadTypes
  BY OwnTypes
<1>2. /\ oldLabel[t] \in Labels /\ lookup[oldLabel[t]] = slot[t] /\ slot[t] \in marked
      /\ lookup[Label(t)] = None /\ AllowReplace /\ slot[t] # None
  BY <1>1 DEF SlotInv, FreshInv, CallInv, Replacing
<1>3. ASSUME Label(u) = oldLabel[t] PROVE FALSE
  <2>1. u # t /\ lookup[Label(u)] = slot[t]
    BY <1>2, <1>3
  <2>2. slot[u] # slot[t]
    BY <1>1, <1>2, <2>1 DEF DistinctInv
  <2>3. pc[u] \notin Bound
    BY <1>1, <2>1, <2>2 DEF SlotInv
  <2>4. pc[u] \notin Replacing \cup {"takeVacant"}
    BY <1>1, <1>2, <2>1 DEF FreshInv
  <2>5. pc[u] \notin {"find", "findOrClaim"}
    BY <1>1, <1>2, <2>1 DEF FreshInv
  <2>6. pc[u] \in Steps
    BY <1>1 DEF ThreadTypes
  <2> QED
    BY <2>3, <2>4, <2>5, <2>6 DEF Steps, Bound, Replacing
<1> QED
  BY <1>2, <1>3

(* The other threads' histories stay true.                                 *)
LEMMA OthersHist ==
  ASSUME HInv, NEW t \in Threads, pc[t] # "idle", Touches(t),
         NEW u \in Threads \ {t}, Undisturbed(u)
  PROVE  Hist(u)'
<1>1. IInv /\ Hist(u)
  BY DEF HInv
<1>2. /\ ThreadTypes /\ DistinctInv /\ SlotInv(u) /\ CallInv(u) /\ None \notin Slots
  BY <1>1, OwnTypes
<1>3. CASE pc[u] = "idle"
  BY <1>3 DEF Hist, Undisturbed
<1>4. CASE pc[u] # "idle"
  <2>1. Label(u) \in Labels /\ Label(u) # Label(t) /\ Label(u)' = Label(u)
    BY <1>1, <1>4, Owner DEF Undisturbed, Label
  <2>2. ~Loses(t, Label(u))
    BY <1>1, <1>4, NobodyLoses DEF Loses
  <2>3. PICK x \in Labels : x = Label(u)
    BY <2>1
  <2>4. Settled(x)' = Settled(x)
    BY <1>1, <2>1, <2>2, <2>3, OthersSettled
  <2>5. slot[u] # None =>
          data'[slot[u]] = data[slot[u]] /\ (slot[u] \in marked' <=> slot[u] \in marked)
    <3> SUFFICES ASSUME slot[u] # None
                 PROVE  data'[slot[u]] = data[slot[u]] /\ (slot[u] \in marked' <=> slot[u] \in marked)
      OBVIOUS
    <3>1. slot[u] \in Slots /\ slot[u] # slot[t]
      BY <1>2 DEF ThreadTypes, DistinctInv
    <3> QED
      BY <3>1 DEF Touches
  <2>6. slot[u] # None <=> pc[u] \in Bound \cup Replacing
    BY <1>2 DEF SlotInv
  <2> QED
    BY <1>1, <2>1, <2>3, <2>4, <2>5, <2>6 DEF Hist, Undisturbed, Settled, Bound, Replacing
<1> QED
  BY <1>3, <1>4

-----------------------------------------------------------------------------
(* A step either goes on with the same call, or ends it.                   *)
LEMMA StepCall ==
  ASSUME IInv, NEW t \in Threads, Step(t)
  PROVE  \/ pc'[t] # "idle" /\ call' = call /\ before' = before /\ result' = result
         \/ pc'[t] = "idle" /\ \E r : Return(t, r)
<1>1. ThreadTypes
  BY OwnTypes
<1>2. CASE \E r : Return(t, r)
  BY <1>1, <1>2 DEF Return, Goto, ThreadTypes
<1>3. CASE Stay(t) /\ \E next \in Steps \ {"idle"} : Goto(t, next)
  BY <1>1, <1>3 DEF Stay, Goto, ThreadTypes
<1>4. \/ \E r : Return(t, r)
      \/ Stay(t) /\ \E next \in Steps \ {"idle"} : Goto(t, next)
  <2>1. CASE Find(t)
    <3>1. CallInv(t) /\ pc[t] = "find"
      BY <2>1, OwnTypes DEF Find
    <3>2. call[t].op \in {"get", "mark", "unmark"}
      BY <3>1 DEF CallInv, Request
    <3> QED
      BY <2>1, <3>2 DEF Find, Steps
  <2>2. CASE Read(t) \/ EndWrite(t) \/ Mark(t) \/ CountMark(t) \/ Offer(t)
    BY <2>2 DEF Read, EndWrite, Mark, CountMark, Offer, Steps
  <2>3. CASE Unmark(t) \/ CountUnmark(t) \/ Withdraw(t)
    BY <2>3 DEF Unmark, CountUnmark, Withdraw, AfterUnmark, Steps
  <2>4. CASE TakeVacant(t) \/ Relabel(t) \/ Rebind(t) \/ Update(t) \/ Initialise(t) \/ StartWrite(t)
    BY <2>4 DEF TakeVacant, Relabel, Rebind, Update, Initialise, StartWrite, Steps
  <2>5. CASE FindOrClaim(t)
    BY <2>5 DEF FindOrClaim, Steps
  <2> QED
    BY <2>1, <2>2, <2>3, <2>4, <2>5 DEF Step
<1> QED
  BY <1>2, <1>3, <1>4

(* The thread's own history.                                               *)
LEMMA StepHist ==
  ASSUME HInv, NEW t \in Threads, Step(t)
  PROVE  Hist(t)'
<1>1. IInv /\ Hist(t)
  BY DEF HInv
<1>2. /\ ThreadTypes /\ TableTypes /\ DeleteTypes /\ CallInv(t) /\ SlotInv(t) /\ None \notin Slots
  BY <1>1, OwnTypes
<1>3. CASE pc'[t] = "idle"
  BY <1>3 DEF Hist
<1>4. CASE pc'[t] # "idle"
  <2>1. call' = call /\ before' = before /\ Label(t)' = Label(t)
    BY <1>1, <1>4, StepCall DEF Label
  <2>2. CASE Find(t)
    <3>0. pc[t] = "find" /\ call[t].op \in {"get", "mark", "unmark"}
      BY <1>2, <2>2 DEF Find, CallInv, Request
    <3>1. /\ UNCHANGED <<table, deletes>> /\ slot'[t] = lookup[Label(t)]
          /\ call[t].op = "get" => slot'[t] \notin marked
      BY <1>2, <1>4, <2>2 DEF Find, Return, Goto, ThreadTypes
    <3>2. pc'[t] \in {"read", "mark", "unmark"}
          /\ (pc'[t] = "read" <=> call[t].op = "get")
          /\ (pc'[t] = "mark" <=> call[t].op = "mark")
      BY <1>2, <1>4, <2>2, <3>0 DEF Find, Return, Goto, ThreadTypes
    <3>3. Settled(Label(t))' = Settled(Label(t)) /\ before[t] = Settled(Label(t)) /\ marked' = marked
      BY <1>1, <2>1, <3>0, <3>1 DEF Settled, table, deletes, Hist
    <3> QED
      BY <2>1, <3>0, <3>1, <3>2, <3>3 DEF Hist
  <2>3. CASE Read(t)
    BY <1>2, <1>4, <2>3 DEF Read, Return, Goto, ThreadTypes
  <2>4. CASE Mark(t)
    <3>1. /\ pc[t] = "mark" /\ pc'[t] = "countMark" /\ slot'[t] = slot[t] /\ slot[t] \notin marked
          /\ UNCHANGED table
      BY <1>2, <1>4, <2>4 DEF Mark, Return, Goto, ThreadTypes
    <3>2. before[t] = Pair(data[slot[t]], FALSE)
      <4>1. lookup[Label(t)] = slot[t] /\ slot[t] # None
        BY <1>2, <3>1 DEF SlotInv, Bound
      <4>2. before[t] = Settled(Label(t)) /\ (slot[t] \in marked) = FALSE
        BY <1>1, <3>1 DEF Hist
      <4>3. Settled(Label(t)) = Pair(data[slot[t]], slot[t] \in marked)
        BY <4>1 DEF Settled, Pair
      <4> QED
        BY <4>2, <4>3
    <3>3. call[t].op = "mark"
      BY <1>1, <3>1 DEF Hist
    <3>4. before'[t] = Pair(data'[slot'[t]], FALSE) /\ call'[t].op = "mark"
      BY <2>1, <3>1, <3>2, <3>3 DEF table
    <3> QED
      BY <3>1, <3>4 DEF Hist, Pair
  <2>5. CASE CountMark(t)
    <3>1. /\ pc[t] = "countMark" /\ pc'[t] = "offer" /\ slot'[t] = slot[t]
          /\ UNCHANGED table
      BY <1>2, <1>4, <2>5 DEF CountMark, Return, Goto, ThreadTypes
    <3> QED
      BY <1>1, <2>1, <3>1 DEF Hist, table
  <2>6. CASE Offer(t)
    BY <1>2, <1>4, <2>6 DEF Offer, Return, Goto, ThreadTypes
  <2>7. CASE Unmark(t)
    <3>1. /\ pc[t] = "unmark" /\ pc'[t] = "countUnmark" /\ slot'[t] = slot[t] /\ slot[t] \in marked
          /\ marked' = marked \ {slot[t]} /\ UNCHANGED table
      BY <1>2, <1>4, <2>7 DEF Unmark, Return, Goto, ThreadTypes
    <3>2. call[t].op = "unmark" => before[t] = Pair(data[slot[t]], TRUE)
      BY <1>1, <1>2, <3>1 DEF Hist, Settled, SlotInv, Bound, Pair
    <3> QED
      BY <2>1, <3>1, <3>2 DEF Hist, table
  <2>8. CASE CountUnmark(t) \/ Withdraw(t)
    <3>1. /\ pc[t] \in {"countUnmark", "withdraw"} /\ pc'[t] \in {"withdraw", "startWrite"}
          /\ slot'[t] = slot[t] /\ marked' = marked /\ UNCHANGED table
      BY <1>2, <1>4, <2>8 DEF CountUnmark, Withdraw, AfterUnmark, Return, Goto, ThreadTypes
    <3> QED
      BY <1>1, <2>1, <3>1 DEF Hist, table
  <2>9. CASE TakeVacant(t)
    <3>1. /\ pc[t] = "takeVacant" /\ pc'[t] \in {"findOrClaim", "relabel"}
          /\ marked' = marked /\ UNCHANGED table
      BY <1>2, <2>9 DEF TakeVacant, Goto, ThreadTypes
    <3>2. Settled(Label(t))' = Settled(Label(t)) /\ before[t] = Settled(Label(t))
      BY <1>1, <2>1, <3>1 DEF Settled, table, Hist
    <3> QED
      BY <2>1, <3>1, <3>2 DEF Hist
  <2>10. CASE Relabel(t)
    <3>1. pc'[t] = "rebind"
      BY <1>2, <2>10 DEF Relabel, Goto, ThreadTypes
    <3> QED
      BY <3>1 DEF Hist
  <2>11. CASE Rebind(t)
    <3>1. pc[t] = "rebind" /\ pc'[t] = "unmark" /\ slot'[t] = slot[t] /\ marked' = marked
      BY <1>2, <2>11 DEF Rebind, Goto, ThreadTypes, deletes
    <3>2. slot[t] \in marked /\ call[t].op = "add"
      BY <1>2, <3>1 DEF SlotInv, CallInv, Adding
    <3> QED
      BY <2>1, <3>1, <3>2 DEF Hist
  <2>12. CASE FindOrClaim(t)
    <3>1. pc'[t] \in {"update", "initialise"}
      BY <1>2, <1>4, <2>12 DEF FindOrClaim, Return, Goto, ThreadTypes
    <3> QED
      BY <3>1 DEF Hist
  <2>13. CASE Update(t)
    <3>1. /\ pc[t] = "update" /\ slot'[t] = slot[t] /\ marked' = marked
          /\ pc'[t] = IF slot[t] \in marked THEN "unmark" ELSE "startWrite"
      BY <1>2, <2>13 DEF Update, Goto, ThreadTypes, deletes
    <3>2. call[t].op = "add"
      BY <1>2, <3>1 DEF CallInv, Adding
    <3> QED
      BY <2>1, <3>1, <3>2 DEF Hist
  <2>14. CASE Initialise(t)
    <3>1. pc'[t] = "startWrite" /\ slot'[t] = slot[t] /\ marked' = marked \ {slot[t]}
      BY <1>2, <2>14 DEF Initialise, Goto, ThreadTypes
    <3> QED
      BY <3>1 DEF Hist
  <2>15. CASE StartWrite(t)
    <3>1. pc[t] = "startWrite" /\ pc'[t] = "endWrite" /\ slot'[t] = slot[t] /\ marked' = marked
      BY <1>2, <2>15 DEF StartWrite, Goto, ThreadTypes, deletes
    <3> QED
      BY <1>1, <3>1 DEF Hist
  <2>16. CASE EndWrite(t)
    BY <1>2, <1>4, <2>16 DEF EndWrite, Return, Goto, ThreadTypes
  <2> QED
    BY <2>2, <2>3, <2>4, <2>5, <2>6, <2>7, <2>8, <2>9, <2>10, <2>11, <2>12, <2>13, <2>14,
       <2>15, <2>16 DEF Step
<1> QED
  BY <1>3, <1>4

LEMMA BeginHist ==
  ASSUME HInv, NEW t \in Threads, NEW r \in Request, Begin(t, r)
  PROVE  \A u \in Threads : Hist(u)'
<1>1. IInv /\ ThreadTypes /\ \A u \in Threads : Hist(u)
  BY OwnTypes DEF HInv
<1>2. /\ UNCHANGED <<table, deletes, slot>>
      /\ call' = [call EXCEPT ![t] = r] /\ before' = [before EXCEPT ![t] = Settled(r.label)]
      /\ Goto(t, IF r.op # "add" THEN "find"
                 ELSE IF r.replace THEN "takeVacant" ELSE "findOrClaim")
  BY DEF Begin
<1>3. \A x : Settled(x)' = Settled(x)
  BY <1>2 DEF Settled, table, deletes
<1>4. ASSUME NEW u \in Threads \ {t} PROVE Hist(u)'
  <2>1. Undisturbed(u) /\ Label(u)' = Label(u) /\ slot' = slot /\ data' = data /\ marked' = marked
    BY <1>1, <1>2 DEF Undisturbed, Label, ThreadTypes, Goto, table, deletes
  <2> QED
    BY <1>1, <1>3, <2>1 DEF Hist, Undisturbed
<1>5. Hist(t)'
  <2>1. /\ pc'[t] \in {"find", "takeVacant", "findOrClaim"}
        /\ before'[t] = Settled(r.label) /\ Label(t)' = r.label
    BY <1>1, <1>2 DEF ThreadTypes, Goto, Label
  <2> QED
    BY <1>3, <2>1 DEF Hist
<1> QED
  BY <1>4, <1>5

(* The invariant with the histories.                                       *)
LEMMA HistInvariance ==
  ASSUME ~AnyReplace PROVE Spec => []HInv
<1>1. Init => HInv
  <2>1. ASSUME Init PROVE \A t \in Threads : Hist(t)
    BY <2>1 DEF Init, Hist
  <2> QED
    BY <2>1, InitInv DEF HInv
<1>2. HInv /\ [Next]_vars => HInv'
  <2> SUFFICES ASSUME HInv, [Next]_vars PROVE HInv'
    OBVIOUS
  <2>1. IInv /\ IInv'
    BY NextInv DEF HInv
  <2>2. ASSUME NEW t \in Threads, Step(t) PROVE \A u \in Threads : Hist(u)'
    <3>1. Touches(t) /\ pc[t] # "idle" /\ \A u \in Threads \ {t} : Undisturbed(u)
      BY <2>1, <2>2, StepTouches, StepUndisturbed
    <3>2. \A u \in Threads \ {t} : Hist(u)'
      BY <3>1, OthersHist
    <3>3. Hist(t)'
      BY <2>2, StepHist
    <3> QED
      BY <3>2, <3>3
  <2>3. ASSUME NEW t \in Threads, NEW r \in Request, Begin(t, r) PROVE \A u \in Threads : Hist(u)'
    BY <2>3, BeginHist
  <2>4. CASE UNCHANGED vars
    <3>1. /\ UNCHANGED <<lookup, data, marked>> /\ UNCHANGED <<pc, call, slot, before>>
      BY <2>4 DEF vars, table, deletes
    <3>2. \A x : Settled(x)' = Settled(x)
      BY <3>1 DEF Settled
    <3>3. ASSUME NEW t \in Threads PROVE Hist(t)'
      <4>1. Label(t)' = Label(t) /\ Settled(Label(t))' = Settled(Label(t)) /\ Hist(t)
        BY <3>1, <3>2 DEF Label, Settled, HInv
      <4> QED
        BY <3>1, <4>1 DEF Hist
    <3> QED
      BY <2>1, <3>3 DEF HInv
  <2> QED
    BY <2>1, <2>2, <2>3, <2>4 DEF HInv, Next
<1> QED
  BY <1>1, <1>2, PTL DEF Spec

-----------------------------------------------------------------------------
(* What the callers see: the element table as a map from labels.           *)
Shown == [x \in Labels |-> Element(x)]

(* A label shows what it was when the operation on it began ...            *)
LEMMA ElementBusy ==
  IInv => \A t \in Threads : pc[t] # "idle" => Element(Label(t)) = before[t]
<1> SUFFICES ASSUME IInv, NEW t \in Threads, pc[t] # "idle"
             PROVE  Element(Label(t)) = before[t]
  OBVIOUS
<1>1. \A u \in Threads \ {t} : pc[u] # "idle" => Label(u) # Label(t)
  BY Owner
<1>2. (CHOOSE u \in Threads : Busy(u) /\ Label(u) = Label(t)) = t
  BY <1>1 DEF Busy
<1> QED
  BY <1>2 DEF Element, Busy

LEMMA ElementBusyAfter ==
  IInv' => \A t \in Threads : pc'[t] # "idle" => Element(Label(t))' = before'[t]
<1>1. (IInv => \A t \in Threads : pc[t] # "idle" => Element(Label(t)) = before[t])'
  BY ElementBusy, PTL
<1> QED
  BY <1>1

(* ... and what the table says if there is none.                           *)
LEMMA ElementIdle ==
  \A x \in Labels :
    (\A t \in Threads : pc[t] = "idle" \/ Label(t) # x) => Element(x) = Settled(x)
BY DEF Element, Busy

LEMMA ElementIdleAfter ==
  \A x \in Labels :
    (\A t \in Threads : pc'[t] = "idle" \/ Label(t)' # x) => Element(x)' = Settled(x)'
<1>1. (\A x \in Labels :
         (\A t \in Threads : pc[t] = "idle" \/ Label(t) # x) => Element(x) = Settled(x))'
  BY ElementIdle, PTL
<1> QED
  BY <1>1

(* A label keeps what it shows if the same operation goes on, or if none   *)
(* does and the table keeps what it says.                                  *)
LEMMA ElementKept ==
  ASSUME IInv, IInv', NEW y \in Labels,
         \/ \E u \in Threads : /\ pc[u] # "idle" /\ Label(u) = y
                               /\ pc'[u] # "idle" /\ Label(u)' = y /\ before'[u] = before[u]
         \/ /\ \A u \in Threads : pc[u] = "idle" \/ Label(u) # y
            /\ \A u \in Threads : pc'[u] = "idle" \/ Label(u)' # y
            /\ Settled(y)' = Settled(y)
  PROVE  Element(y)' = Element(y)
<1>1. ASSUME NEW u \in Threads, pc[u] # "idle", Label(u) = y,
             pc'[u] # "idle", Label(u)' = y, before'[u] = before[u]
      PROVE  Element(y)' = Element(y)
  <2>1. Element(Label(u)) = before[u] /\ Element(Label(u))' = before'[u]
    BY <1>1, ElementBusy, ElementBusyAfter
  <2>2. Element(Label(u)) = Element(y)
    BY <1>1
  <2>3. Element(Label(u))' = Element(y)'
    BY <1>1 DEF Element
  <2> QED
    BY <1>1, <2>1, <2>2, <2>3
<1>2. ASSUME \A u \in Threads : pc[u] = "idle" \/ Label(u) # y,
             \A u \in Threads : pc'[u] = "idle" \/ Label(u)' # y,
             Settled(y)' = Settled(y)
      PROVE  Element(y)' = Element(y)
  BY <1>2, ElementIdle, ElementIdleAfter
<1> QED
  BY <1>1, <1>2

(* A step of thread t changes what its own label shows, and the label that *)
(* loses its slot, only.                                                   *)
LEMMA Elsewhere ==
  ASSUME HInv, HInv', NEW t \in Threads, Step(t), NEW y \in Labels,
         y # Label(t), ~Loses(t, y)
  PROVE  Element(y)' = Element(y)
<1>1. IInv /\ IInv'
  BY DEF HInv
<1>2. /\ pc[t] # "idle" /\ Touches(t)
      /\ \A u \in Threads \ {t} : Undisturbed(u) /\ Label(u)' = Label(u)
  BY <1>1, StepTouches, StepUndisturbed DEF Undisturbed, Label
<1>3. CASE \E u \in Threads : pc[u] # "idle" /\ Label(u) = y
  BY <1>1, <1>2, <1>3, ElementKept DEF Undisturbed
<1>4. CASE \A u \in Threads : pc[u] = "idle" \/ Label(u) # y
  <2>1. pc'[t] = "idle" \/ Label(t)' = Label(t)
    BY <1>1, StepCall DEF Label
  <2>2. \A u \in Threads : pc'[u] = "idle" \/ Label(u)' # y
    BY <1>2, <1>4, <2>1 DEF Undisturbed
  <2>3. Settled(y)' = Settled(y)
    BY <1>1, <1>2, OthersSettled
  <2> QED
    BY <1>1, <1>4, <2>2, <2>3, ElementKept
<1> QED
  BY <1>3, <1>4

(* A step inside an operation shows nothing new, but for Rebind.           *)
LEMMA InsideKeeps ==
  ASSUME HInv, HInv', NEW t \in Threads, Step(t), pc'[t] # "idle", pc[t] # "rebind"
  PROVE  Shown' = Shown
<1>1. IInv /\ IInv' /\ pc[t] # "idle"
  BY StepUndisturbed DEF HInv
<1>2. Label(t)' = Label(t) /\ before' = before
  BY <1>1, StepCall DEF Label
<1>3. ASSUME NEW y \in Labels PROVE Element(y)' = Element(y)
  <2>1. CASE y = Label(t)
    BY <1>1, <1>2, <2>1, ElementKept
  <2>2. CASE y # Label(t)
    BY <2>2, Elsewhere DEF Loses
  <2> QED
    BY <2>1, <2>2
<1> QED
  BY <1>3 DEF Shown

(* Rebind is where the replaced label is forgotten.                        *)
LEMMA RebindForgets ==
  ASSUME HInv, HInv', NEW t \in Threads, Rebind(t), NEW x \in Labels, x = oldLabel[t]
  PROVE  Store!Forget(x)
<1>1. IInv /\ IInv' /\ Step(t) /\ pc[t] = "rebind"
  BY DEF HInv, Rebind, Step
<1>2. /\ ThreadTypes /\ TableTypes /\ CallInv(t) /\ SlotInv(t) /\ None \notin Slots
  BY <1>1, OwnTypes
<1>3. /\ lookup' = [lookup EXCEPT ![x] = None, ![Label(t)] = slot[t]]
      /\ marked' = marked /\ pc'[t] = "unmark" /\ Stay(t)
  BY <1>2 DEF Rebind, Goto, deletes, ThreadTypes
<1>4. /\ x # Label(t) /\ lookup[x] = slot[t] /\ x \in Labels
      /\ \A u \in Threads : pc[u] = "idle" \/ Label(u) # x
  BY <1>1, NobodyLoses
<1>5. /\ AllowReplace /\ slot[t] # None /\ slot[t] \in marked
  BY <1>1, <1>2 DEF CallInv, SlotInv, Replacing
<1>6. Element(x) = Pair(data[slot[t]], TRUE)
  <2>1. Element(x) = Settled(x) /\ (slot[t] \in marked) = TRUE
    BY <1>4, <1>5, ElementIdle
  <2>2. Settled(x) = Pair(data[slot[t]], slot[t] \in marked)
    BY <1>4, <1>5 DEF Settled, Pair
  <2> QED
    BY <2>1, <2>2
<1>7. Element(x)' = None
  <2>1. \A u \in Threads : pc'[u] = "idle" \/ Label(u)' # x
    BY <1>1, <1>3, <1>4, StepUndisturbed DEF Undisturbed, Label, Stay
  <2>2. lookup'[x] = None
    BY <1>2, <1>3, <1>4 DEF TableTypes
  <2> QED
    BY <2>1, <2>2, ElementIdleAfter DEF Settled
<1>8. \A y \in Labels \ {x} : Element(y)' = Element(y)
  <2> SUFFICES ASSUME NEW y \in Labels, y # x PROVE Element(y)' = Element(y)
    OBVIOUS
  <2>1. CASE y = Label(t)
    BY <1>1, <1>3, <2>1, ElementKept DEF Stay, Label
  <2>2. CASE y # Label(t)
    BY <1>1, <2>2, Elsewhere DEF Loses
  <2> QED
    BY <2>1, <2>2
<1>9. Shown' = [Shown EXCEPT ![x] = None] /\ Shown[x] = Pair(data[slot[t]], TRUE)
  BY <1>4, <1>6, <1>7, <1>8 DEF Shown
<1>10. Shown[x] # None
  <2>1. data[slot[t]] \in Values
    BY <1>1, <1>5, OwnSlot
  <2>2. Pair(data[slot[t]], TRUE) \in [value : Values, deleted : BOOLEAN]
    BY <2>1 DEF Pair
  <2> QED
    BY <1>9, <2>2, NoElementAssumption
<1>11. Shown[x].deleted
  BY <1>9 DEF Pair
<1> QED
  BY <1>3, <1>4, <1>5, <1>9, <1>10, <1>11 DEF Store!Forget, Store!Deleted, Shown, Stay

-----------------------------------------------------------------------------
(* The end of an operation c that found element b and leaves e, with       *)
(* result r, as the label map allows it.                                   *)
Failed(c, b) ==
  \/ b = None
  \/ b.deleted = TRUE /\ (c.op \in {"mark", "get"} \/ (c.op = "add" /\ AllowReplace))
  \/ b.deleted = FALSE /\ c.op = "unmark"

Outcome(c, b, e, r) ==
  \/ c.op = "add" /\ r = "ok" /\ e = Pair(c.value, FALSE)
  \/ c.op = "mark" /\ r = "ok" /\ b # None /\ b.deleted = FALSE /\ e = Pair(b.value, TRUE)
  \/ c.op = "unmark" /\ r = "ok" /\ b # None /\ b.deleted = TRUE /\ e = Pair(b.value, FALSE)
  \/ c.op = "get" /\ e = b /\ b # None /\ b.deleted = FALSE /\ r = b.value
  \/ r = "threw" /\ e = b /\ Failed(c, b)

(* What the table says of the label whose slot a thread has.               *)
LEMMA OwnSettled ==
  ASSUME IInv, NEW t \in Threads, pc[t] \in Bound
  PROVE  /\ Settled(Label(t)) = Pair(data[slot[t]], slot[t] \in marked)
         /\ lookup[Label(t)] = slot[t] /\ slot[t] # None /\ slot[t] \in Slots
<1>1. SlotInv(t) /\ None \notin Slots /\ ThreadTypes
  BY OwnTypes
<1>2. lookup[Label(t)] = slot[t] /\ slot[t] # None /\ slot[t] \in Slots
  BY <1>1 DEF SlotInv, ThreadTypes
<1> QED
  BY <1>2 DEF Settled, Pair

LEMMA OwnPair ==
  ASSUME IInv, NEW t \in Threads, pc[t] \in Bound \ {"initialise", "startWrite", "endWrite"},
         NEW d \in BOOLEAN
  PROVE  /\ Pair(data[slot[t]], d) # None
         /\ Pair(data[slot[t]], d).value = data[slot[t]] /\ Pair(data[slot[t]], d).deleted = d
<1>1. data[slot[t]] \in Values
  BY OwnSettled, OwnSlot
<1>2. Pair(data[slot[t]], d) \in [value : Values, deleted : BOOLEAN]
  BY <1>1 DEF Pair
<1> QED
  BY <1>2, NoElementAssumption DEF Pair

(* Operations that look their label up and fail.                           *)
LEMMA LookupOutcome ==
  ASSUME HInv, NEW t \in Threads, Find(t) \/ FindOrClaim(t), pc'[t] = "idle",
         NEW x \in Labels, x = Label(t)
  PROVE  Return(t, "threw") /\ Outcome(call[t], before[t], Settled(x)', "threw")
<1>1. IInv /\ Hist(t)
  BY DEF HInv
<1>2. /\ ThreadTypes /\ CallInv(t)
  BY <1>1, OwnTypes
<1>3. before[t] = Settled(x)
  BY <1>1 DEF Hist, Find, FindOrClaim
<1>4. /\ Return(t, "threw") /\ UNCHANGED <<lookup, data, marked>>
      /\ lookup[x] = None \/ (lookup[x] \in marked /\ (call[t].op = "get" \/ (FindOrClaim(t) /\ AllowReplace)))
  <2>1. CASE Find(t)
    <3>1. call[t].op \in {"get", "mark", "unmark"}
      BY <1>2, <2>1 DEF Find, CallInv, Request
    <3>2. lookup[x] = None \/ (call[t].op = "get" /\ lookup[x] \in marked)
      BY <1>2, <2>1, <3>1 DEF Find, Goto, ThreadTypes
    <3>3. Return(t, "threw")
      BY <2>1, <3>2 DEF Find
    <3>4. UNCHANGED <<lookup, data, marked>>
      BY <2>1 DEF Find, table, deletes
    <3> QED
      BY <3>2, <3>3, <3>4
  <2>2. CASE FindOrClaim(t)
    BY <1>2, <2>2 DEF FindOrClaim, Goto, ThreadTypes, deletes
  <2> QED
    BY <2>1, <2>2
<1>5. Settled(x)' = before[t]
  BY <1>3, <1>4 DEF Settled
<1>6. lookup[x] # None /\ lookup[x] \in marked => before[t].deleted = TRUE
  <2> SUFFICES ASSUME lookup[x] # None, lookup[x] \in marked PROVE before[t].deleted = TRUE
    OBVIOUS
  <2>1. before[t] = Pair(data[lookup[x]], lookup[x] \in marked)
    BY <1>3 DEF Settled, Pair
  <2>2. before[t].deleted = (lookup[x] \in marked)
    BY <2>1 DEF Pair
  <2> QED
    BY <2>2
<1>7. lookup[x] = None => before[t] = None
  BY <1>3 DEF Settled
<1>8. FindOrClaim(t) => call[t].op = "add"
  BY <1>2 DEF FindOrClaim, CallInv, Adding
<1> QED
  BY <1>4, <1>5, <1>6, <1>7, <1>8 DEF Outcome, Failed

LEMMA ReadOutcome ==
  ASSUME HInv, NEW t \in Threads, Read(t), NEW x \in Labels, x = Label(t)
  PROVE  /\ Return(t, data[slot[t]])
         /\ Outcome(call[t], before[t], Settled(x)', data[slot[t]])
<1>1. IInv /\ Hist(t) /\ pc[t] = "read" /\ pc[t] \in Bound
  BY DEF HInv, Read, Bound
<1>2. before[t] = Settled(x) /\ call[t].op = "get" /\ (slot[t] \in marked) = FALSE
  BY <1>1 DEF Hist
<1>3. Settled(x) = Pair(data[slot[t]], FALSE)
  BY <1>1, <1>2, OwnSettled
<1>4. Settled(x)' = Settled(x)
  BY DEF Read, table, deletes, Settled
<1>5. before[t] # None /\ before[t].deleted = FALSE /\ before[t].value = data[slot[t]]
  BY <1>1, <1>2, <1>3, OwnPair
<1> QED
  BY <1>2, <1>4, <1>5 DEF Read, Outcome

(* Operations that move their label between deleted and not.               *)
LEMMA RefusedOutcome ==
  ASSUME HInv, NEW t \in Threads, Mark(t) \/ Unmark(t), pc'[t] = "idle",
         NEW x \in Labels, x = Label(t)
  PROVE  Return(t, "threw") /\ Outcome(call[t], before[t], Settled(x)', "threw")
<1>1. IInv /\ Hist(t) /\ pc[t] \in {"mark", "unmark"} /\ pc[t] \in Bound
  BY DEF HInv, Mark, Unmark, Bound
<1>2. ThreadTypes /\ CallInv(t)
  BY <1>1, OwnTypes
<1>3. /\ Return(t, "threw") /\ UNCHANGED table /\ marked' = marked
      /\ IF pc[t] = "mark" THEN slot[t] \in marked ELSE slot[t] \notin marked
  BY <1>2 DEF Mark, Unmark, Goto, ThreadTypes
<1>4. /\ before[t] = Settled(x)
      /\ IF pc[t] = "mark" THEN call[t].op = "mark" ELSE call[t].op = "unmark"
  BY <1>1, <1>2, <1>3 DEF Hist, CallInv
<1>5. before[t] = Pair(data[slot[t]], slot[t] \in marked)
  BY <1>1, <1>4, OwnSettled
<1>6. Settled(x)' = before[t]
  BY <1>3, <1>4 DEF Settled, table
<1>7. before[t].deleted = (slot[t] \in marked)
  BY <1>5 DEF Pair
<1>8. Failed(call[t], before[t])
  <2>1. CASE pc[t] = "mark"
    <3>1. call[t].op = "mark" /\ before[t].deleted = TRUE
      BY <1>3, <1>4, <1>7, <2>1
    <3> QED
      BY <3>1 DEF Failed
  <2>2. CASE pc[t] = "unmark"
    <3>1. call[t].op = "unmark" /\ slot[t] \notin marked
      BY <1>3, <1>4, <2>2
    <3>2. (slot[t] \in marked) = FALSE
      BY <3>1
    <3>3. before[t].deleted = FALSE
      BY <1>7, <3>2, Zenon
    <3> QED
      BY <3>1, <3>3 DEF Failed
  <2> QED
    BY <1>1, <2>1, <2>2
<1> QED
  BY <1>3, <1>6, <1>8 DEF Outcome

LEMMA DoneOutcome ==
  ASSUME HInv, NEW t \in Threads, pc'[t] = "idle", NEW x \in Labels, x = Label(t),
         CountMark(t) \/ Offer(t) \/ CountUnmark(t) \/ Withdraw(t)
  PROVE  Return(t, "ok") /\ Outcome(call[t], before[t], Settled(x)', "ok")
<1>1. /\ IInv /\ Hist(t) /\ pc[t] \in {"countMark", "offer", "countUnmark", "withdraw"}
      /\ pc[t] \in Bound \ {"initialise", "startWrite", "endWrite"}
  BY DEF HInv, CountMark, Offer, CountUnmark, Withdraw, Bound
<1>2. ThreadTypes /\ CallInv(t) /\ SlotInv(t)
  BY <1>1, OwnTypes
<1>3. /\ Return(t, "ok") /\ UNCHANGED table /\ marked' = marked
      /\ pc[t] \in {"countUnmark", "withdraw"} => call[t].op = "unmark"
  BY <1>2 DEF CountMark, Offer, CountUnmark, Withdraw, AfterUnmark, Goto, ThreadTypes, CallInv
<1>4. Settled(x)' = Pair(data[slot[t]], slot[t] \in marked)
  <2>1. Settled(x)' = Settled(x)
    BY <1>3 DEF Settled, table
  <2> QED
    BY <1>1, <2>1, OwnSettled
<1>5. CASE pc[t] \in {"countMark", "offer"}
  <2>1. before[t] = Pair(data[slot[t]], FALSE) /\ call[t].op = "mark" /\ (slot[t] \in marked) = TRUE
    BY <1>1, <1>2, <1>5 DEF Hist, SlotInv
  <2>2. before[t] # None /\ before[t].deleted = FALSE /\ before[t].value = data[slot[t]]
    BY <1>1, <2>1, OwnPair
  <2> QED
    BY <1>3, <1>4, <2>1, <2>2 DEF Outcome
<1>6. CASE pc[t] \in {"countUnmark", "withdraw"}
  <2>0. call[t].op = "unmark" /\ slot[t] \notin marked
    BY <1>1, <1>3, <1>6 DEF Hist
  <2>1. before[t] = Pair(data[slot[t]], TRUE)
    BY <1>1, <1>6, <2>0 DEF Hist
  <2>2. before[t] # None /\ before[t].deleted = TRUE /\ before[t].value = data[slot[t]]
    BY <1>1, <2>1, OwnPair
  <2>3. (slot[t] \in marked) = FALSE
    BY <2>0
  <2>4. Settled(x)' = Pair(data[slot[t]], FALSE)
    BY <1>4, <2>3, Zenon
  <2> QED
    BY <1>3, <2>0, <2>2, <2>4 DEF Outcome
<1> QED
  BY <1>1, <1>5, <1>6

LEMMA EndWriteOutcome ==
  ASSUME HInv, NEW t \in Threads, EndWrite(t), NEW x \in Labels, x = Label(t)
  PROVE  Return(t, "ok") /\ Outcome(call[t], before[t], Settled(x)', "ok")
<1>1. IInv /\ Hist(t) /\ pc[t] = "endWrite" /\ pc[t] \in Bound
  BY DEF HInv, EndWrite, Bound
<1>2. TableTypes /\ CallInv(t)
  BY <1>1, OwnTypes
<1>3. call[t].op = "add" /\ (slot[t] \in marked) = FALSE
  BY <1>1, <1>2 DEF Hist, CallInv, Adding
<1>4. lookup[x] = slot[t] /\ slot[t] # None /\ slot[t] \in Slots
  BY <1>1, OwnSettled
<1>5. lookup' = lookup /\ marked' = marked /\ data'[slot[t]] = call[t].value
  BY <1>2, <1>4 DEF EndWrite, deletes, TableTypes
<1>6. Settled(x)' = Pair(call[t].value, FALSE)
  BY <1>3, <1>4, <1>5 DEF Settled, Pair
<1> QED
  BY <1>3, <1>6 DEF EndWrite, Outcome

(* Every operation ends as the label map allows.                           *)
LEMMA StepOutcome ==
  ASSUME HInv, NEW t \in Threads, Step(t), pc'[t] = "idle", NEW x \in Labels, x = Label(t)
  PROVE  \E r : Return(t, r) /\ Outcome(call[t], before[t], Settled(x)', r)
<1>1. ThreadTypes
  BY OwnTypes DEF HInv
<1>2. CASE TakeVacant(t) \/ Relabel(t) \/ Rebind(t) \/ Update(t) \/ Initialise(t) \/ StartWrite(t)
  BY <1>1, <1>2 DEF TakeVacant, Relabel, Rebind, Update, Initialise, StartWrite, Goto, ThreadTypes
<1> QED
  BY <1>2, LookupOutcome, ReadOutcome, RefusedOutcome, DoneOutcome, EndWriteOutcome DEF Step

-----------------------------------------------------------------------------
LEMMA FlipDeleted ==
  ASSUME NEW b, b \in [value : Values, deleted : BOOLEAN], NEW d \in BOOLEAN
  PROVE  [b EXCEPT !.deleted = d] = Pair(b.value, d)
BY DEF Pair

(* An allowed outcome is a response of the label map.                      *)
LEMMA OutcomeResponds ==
  ASSUME NEW t \in Threads, call[t] \in Request, NEW x \in Labels, x = Label(t), NEW r,
         NEW b, b \in [value : Values, deleted : BOOLEAN] \cup {None}, Shown[x] = b,
         NEW e, Shown' = [Shown EXCEPT ![x] = e],
         Outcome(call[t], b, e, r), Store!Finish(t, r)
  PROVE  Store!Respond(t)
<1>1. call[t] # None /\ call[t].label = x
  BY NoElementAssumption DEF Label
<1>2. b # None => b = Pair(b.value, b.deleted)
  BY DEF Pair
<1>3. CASE r = "threw" /\ e = b /\ Failed(call[t], b)
  <2>1. Shown' = Shown
    BY <1>3 DEF Shown
  <2>2. Store!Finish(t, "threw")
    BY <1>3
  <2>3. CASE call[t].op = "add"
    <3>1. Shown[x] = None \/ (AllowReplace /\ Store!Deleted(x))
      BY <1>3, <2>3 DEF Failed, Store!Deleted, Shown
    <3>2. Store!Add(t)
      BY <1>1, <2>1, <2>2, <3>1 DEF Store!Add, Shown
    <3> QED
      BY <1>1, <2>3, <3>2 DEF Store!Respond
  <2>4. CASE call[t].op = "mark"
    <3>1. ~Store!Live(x)
      BY <1>3, <2>4 DEF Failed, Store!Live, Shown
    <3>2. Store!SetDeleted(t, TRUE)
      BY <1>1, <2>1, <2>2, <3>1 DEF Store!SetDeleted, Shown
    <3> QED
      BY <1>1, <2>4, <3>2 DEF Store!Respond
  <2>5. CASE call[t].op = "unmark"
    <3>1. ~Store!Deleted(x)
      BY <1>3, <2>5 DEF Failed, Store!Deleted, Shown
    <3>2. Store!SetDeleted(t, FALSE)
      BY <1>1, <2>1, <2>2, <3>1 DEF Store!SetDeleted, Shown
    <3> QED
      BY <1>1, <2>5, <3>2 DEF Store!Respond
  <2>6. CASE call[t].op = "get"
    <3>1. ~Store!Live(x)
      BY <1>3, <2>6 DEF Failed, Store!Live, Shown
    <3>2. Store!Get(t)
      BY <1>1, <2>1, <2>2, <3>1 DEF Store!Get, Shown
    <3> QED
      BY <1>1, <2>6, <3>2 DEF Store!Respond
  <2> QED
    BY <2>3, <2>4, <2>5, <2>6 DEF Request
<1>4. CASE call[t].op = "add" /\ r = "ok" /\ e = Pair(call[t].value, FALSE)
  <2>1. Store!Add(t)
    BY <1>1, <1>4 DEF Store!Add, Shown, Pair
  <2> QED
    BY <1>1, <1>4, <2>1 DEF Store!Respond
<1>5. CASE call[t].op = "mark" /\ r = "ok" /\ b # None /\ b.deleted = FALSE /\ e = Pair(b.value, TRUE)
  <2>1. Store!Live(x)
    BY <1>5 DEF Store!Live, Shown
  <2>2. [b EXCEPT !.deleted = TRUE] = e
    BY <1>2, <1>5, FlipDeleted
  <2>3. Store!SetDeleted(t, TRUE)
    BY <1>1, <1>5, <2>1, <2>2 DEF Store!SetDeleted, Shown
  <2> QED
    BY <1>1, <1>5, <2>3 DEF Store!Respond
<1>6. CASE call[t].op = "unmark" /\ r = "ok" /\ b # None /\ b.deleted = TRUE /\ e = Pair(b.value, FALSE)
  <2>1. Store!Deleted(x)
    BY <1>6 DEF Store!Deleted, Shown
  <2>2. [b EXCEPT !.deleted = FALSE] = e
    BY <1>2, <1>6, FlipDeleted
  <2>3. Store!SetDeleted(t, FALSE)
    BY <1>1, <1>6, <2>1, <2>2 DEF Store!SetDeleted, Shown
  <2> QED
    BY <1>1, <1>6, <2>3 DEF Store!Respond
<1>7. CASE call[t].op = "get" /\ e = b /\ b # None /\ b.deleted = FALSE /\ r = b.value
  <2>1. Store!Live(x) /\ Shown' = Shown
    BY <1>7 DEF Store!Live, Shown
  <2>2. Store!Get(t)
    BY <1>1, <1>7, <2>1 DEF Store!Get, Shown
  <2> QED
    BY <1>1, <1>7, <2>2 DEF Store!Respond
<1> QED
  BY <1>3, <1>4, <1>5, <1>6, <1>7 DEF Outcome

(* The end of an operation is where the label map changes.                 *)
LEMMA EndResponds ==
  ASSUME HInv, HInv', NEW t \in Threads, Step(t), pc'[t] = "idle"
  PROVE  Store!Respond(t)
<1>1. IInv /\ IInv' /\ pc[t] # "idle"
  BY StepUndisturbed DEF HInv
<1>2. PICK x \in Labels : x = Label(t)
  BY <1>1, Owner
<1>3. PICK r : Return(t, r) /\ Outcome(call[t], before[t], Settled(x)', r)
  BY <1>2, StepOutcome
<1>4. Element(x) = before[t]
  BY <1>1, <1>2, ElementBusy
<1>5. Element(x)' = Settled(x)'
  <2>1. \A u \in Threads \ {t} : pc[u] = "idle" \/ Label(u) # x
    BY <1>1, <1>2, Owner
  <2>2. \A u \in Threads : pc'[u] = "idle" \/ Label(u)' # x
    BY <1>1, <2>1, StepUndisturbed DEF Undisturbed, Label
  <2> QED
    BY <2>2, ElementIdleAfter
<1>6. ~Rebind(t)
  BY <1>1, OwnTypes DEF Rebind, Goto, ThreadTypes
<1>7. \A y \in Labels \ {x} : Element(y)' = Element(y)
  <2>1. pc[t] # "rebind"
    BY <1>6 DEF Step, Find, Read, Mark, CountMark, Offer, Unmark, CountUnmark, Withdraw,
       TakeVacant, Relabel, FindOrClaim, Update, Initialise, StartWrite, EndWrite
  <2> QED
    BY <1>2, <2>1, Elsewhere DEF Loses
<1>8. Shown[x] = before[t] /\ Shown' = [Shown EXCEPT ![x] = Settled(x)']
  BY <1>4, <1>5, <1>7 DEF Shown
<1>9. Store!Finish(t, r)
  BY <1>3 DEF Return, Store!Finish
<1>10. call[t] \in Request /\ before[t] \in [value : Values, deleted : BOOLEAN] \cup {None}
  BY <1>1, Owner, OwnTypes DEF ThreadTypes
<1> QED
  BY <1>2, <1>3, <1>8, <1>9, <1>10, OutcomeResponds

(* A call shows nothing new.                                               *)
LEMMA BeginInvokes ==
  ASSUME HInv, HInv', NEW t \in Threads, NEW r \in Request, Begin(t, r)
  PROVE  Store!Invoke(t, r)
<1>1. IInv /\ IInv' /\ ThreadTypes /\ \A u \in Threads : CallInv(u)
  BY OwnTypes DEF HInv
<1>2. /\ pc[t] = "idle" /\ labelLock[LockOf[r.label]] = None /\ r.label \in Labels
      /\ UNCHANGED <<table, deletes>>
      /\ call' = [call EXCEPT ![t] = r] /\ before' = [before EXCEPT ![t] = Settled(r.label)]
      /\ result' = [result EXCEPT ![t] = None]
      /\ pc'[t] # "idle" /\ \A u \in Threads \ {t} : pc'[u] = pc[u]
  BY <1>1 DEF Begin, LockFree, Goto, ThreadTypes, Request
<1>3. call[t] = None
  BY <1>1, <1>2 DEF CallInv
<1>4. \A u \in Threads : pc[u] = "idle" \/ Label(u) # r.label
  BY <1>1, <1>2, NoneAssumption DEF CallInv
<1>5. Label(t)' = r.label /\ before'[t] = Settled(r.label)
      /\ \A u \in Threads \ {t} : Label(u)' = Label(u) /\ before'[u] = before[u]
  BY <1>1, <1>2 DEF Label, ThreadTypes
<1>6. ASSUME NEW y \in Labels PROVE Element(y)' = Element(y)
  <2>1. Settled(y)' = Settled(y)
    BY <1>2 DEF Settled, table, deletes
  <2>2. CASE y = r.label
    <3>1. Element(y) = Settled(y)
      BY <1>4, <2>2, ElementIdle
    <3>2. Element(Label(t))' = before'[t]
      BY <1>1, <1>2, ElementBusyAfter
    <3>3. Element(Label(t))' = Element(y)'
      BY <1>5, <2>2 DEF Element
    <3> QED
      BY <1>5, <2>2, <3>1, <3>2, <3>3
  <2>3. CASE y # r.label
    <3>1. CASE \E u \in Threads : pc[u] # "idle" /\ Label(u) = y
      BY <1>1, <1>2, <1>5, <3>1, ElementKept
    <3>2. CASE \A u \in Threads : pc[u] = "idle" \/ Label(u) # y
      <4>1. \A u \in Threads : pc'[u] = "idle" \/ Label(u)' # y
        BY <1>2, <1>5, <2>3, <3>2
      <4> QED
        BY <1>1, <2>1, <3>2, <4>1, ElementKept
    <3> QED
      BY <3>1, <3>2
  <2> QED
    BY <2>2, <2>3
<1> QED
  BY <1>2, <1>3, <1>6 DEF Store!Invoke, Shown

LEMMA StutterShows ==
  ASSUME HInv, HInv', UNCHANGED vars
  PROVE  UNCHANGED <<Shown, call, result>>
<1>1. IInv /\ IInv' /\ UNCHANGED <<lookup, data, marked>> /\ UNCHANGED <<pc, call, before, result>>
  BY DEF HInv, vars, table, deletes
<1>2. ASSUME NEW y \in Labels PROVE Element(y)' = Element(y)
  <2>1. Settled(y)' = Settled(y) /\ \A u \in Threads : Label(u)' = Label(u)
    BY <1>1 DEF Settled, Label
  <2> QED
    BY <1>1, <2>1, ElementKept
<1> QED
  BY <1>1, <1>2 DEF Shown

-----------------------------------------------------------------------------
LEMMA InitStores == ASSUME Init PROVE Store!Init
<1>1. \A x \in Labels : Element(x) = Settled(x)
  BY ElementIdle DEF Init
<1>2. \A x \in Labels : Settled(x) = None
  BY DEF Init, Settled
<1> QED
  BY <1>1, <1>2 DEF Init, Store!Init

(* Every step of the element table is a step of the label map, or shows    *)
(* the callers nothing.                                                    *)
LEMMA StepStores ==
  ASSUME HInv, HInv', [Next]_vars
  PROVE  [Store!Next]_<<Shown, call, result>>
<1>1. ASSUME NEW t \in Threads, NEW r \in Request, Begin(t, r) PROVE Store!Next
  BY <1>1, BeginInvokes DEF Store!Next, Request, Store!Request
<1>2. ASSUME NEW t \in Threads, Step(t), pc'[t] = "idle" PROVE Store!Next
  BY <1>2, EndResponds DEF Store!Next
<1>3. ASSUME NEW t \in Threads, Step(t), pc'[t] # "idle", pc[t] # "rebind"
      PROVE  UNCHANGED <<Shown, call, result>>
  BY <1>3, InsideKeeps, StepCall DEF HInv
<1>4. ASSUME NEW t \in Threads, Step(t), pc[t] = "rebind" PROVE Store!Next
  <2>1. Rebind(t)
    BY <1>4 DEF Step, Find, Read, Mark, CountMark, Offer, Unmark, CountUnmark, Withdraw,
       TakeVacant, Relabel, FindOrClaim, Update, Initialise, StartWrite, EndWrite
  <2>2. oldLabel[t] \in Labels
    BY <1>4, NobodyLoses DEF HInv
  <2>3. PICK x \in Labels : x = oldLabel[t]
    BY <2>2
  <2> QED
    BY <2>1, <2>3, RebindForgets DEF Store!Next
<1>5. CASE UNCHANGED vars
  BY <1>5, StutterShows
<1> QED
  BY <1>1, <1>2, <1>3, <1>4, <1>5 DEF Next

(* Seen through its labels the element table is a map whose operations     *)
(* take effect as a whole, whatever addPoint, markDelete, unmarkDelete and *)
(* getDataByLabel other threads call meanwhile.                            *)
THEOREM Implements ==
  ASSUME ~AnyReplace
  PROVE  Spec => ImplementsStore
<1>1. Init => Store!Init
  BY InitStores
<1>2. HInv /\ HInv' /\ [Next]_vars => [Store!Next]_<<Shown, call, result>>
  BY StepStores
<1> QED
  BY <1>1, <1>2, HistInvariance, PTL DEF Spec, ImplementsStore, Store!Spec, Shown
=============================================================================
