---------------------------- MODULE IndexSession ----------------------------
(***************************************************************************)
(* One Python process that works on an Index (python_bindings/bindings.cpp)*)
(* and on the file it is saved to: init_index, add_items, mark_deleted,    *)
(* unmark_deleted, resize_index, save_index, load_index, pickling, and the *)
(* end of the process at any moment, in the middle of a save included.     *)
(*                                                                         *)
(* Calls come one after the other, as EXAMPLES.md asks of pickling.  The   *)
(* rows of add_items are taken in any order (the order of its ParallelFor).*)
(* Of the file only its length matters besides what it is an image of: it  *)
(* is written from the front, unit by unit, and a torn file is a prefix.   *)
(***************************************************************************)
EXTENDS Integers, FiniteSets

CONSTANTS
  Labels,      \* labels, 0 .. some bound: default ids are counted upwards
  Values,      \* vectors
  Capacities,  \* the sizes asked for in init_index and resize_index
  MaxRows,     \* the most rows of one add_items
  MaxNext,     \* bound: cur_l does not pass it
  Offset,      \* Offset[i]: the length of the lists of slots 0 .. i - 1 in a file
  None

ASSUME LabelAssumption == Labels \subseteq Nat
ASSUME SizeAssumption == Capacities \subseteq Nat /\ MaxRows \in Nat /\ MaxNext \in Nat
ASSUME OffsetAssumption ==
  \A n \in Capacities \cup {0} : \A i, j \in 0..n :
    Offset[i] \in Nat /\ (i < j => Offset[i] < Offset[j])

(* A call of add_items, and the image of an index of n elements.           *)
Batches == [todo : SUBSET Labels, rows : Nat, replacing : BOOLEAN,
            default : BOOLEAN, failed : BOOLEAN]
Images(n) == [label : [0..(n - 1) -> Labels], data : [0..(n - 1) -> Values],
              marked : SUBSET (0..(n - 1)), count : {n},
              cap : Capacities \cup {0}, plain : BOOLEAN]
Elements == [value : Values, state : {"live", "deleted"}]

ASSUME NoneAssumption ==
  /\ None \notin Labels \cup Values \cup Nat \cup Batches \cup Elements
  /\ None \notin [Labels -> Elements \cup {None}]
  /\ \A size \in Capacities \cup {0} : \A n \in 0..size : None \notin Images(n)

VARIABLES
  obj,         \* appr_alg: "none", "ready", or "dangling" after a refused load
  lookup,      \* label_lookup_
  count,       \* cur_element_count
  slotLabel,   \* the label stored in each slot
  data,        \* the vector stored in each slot
  marked,      \* the slots that carry DELETE_MARK
  numDeleted,  \* num_deleted_
  vacant,      \* deleted_elements
  cap,         \* max_elements_
  allow,       \* allow_replace_deleted_
  curL,        \* cur_l: the next default label
  batch,       \* the add_items in progress, or None
  saving,      \* saveIndex is writing
  file,        \* the index the file is an image of, or None
  written,     \* the length of the file
  plain        \* history: add_items gave out default labels only and never
               \* failed, and none was missing when they were counted anew

table   == <<lookup, count, slotLabel, data>>
deletes == <<marked, numDeleted, vacant>>
memory  == <<obj, table, deletes, cap, allow, curL, plain>>
disk    == <<file, written>>
vars    == <<memory, batch, saving, disk>>

Used == 0 .. (count - 1)

Blank == [s \in {} |-> None]

(* No index: the process has just started, or its index is out of reach.   *)
Forget(state) ==
  /\ obj' = state
  /\ lookup' = [x \in Labels |-> None]
  /\ count' = 0 /\ slotLabel' = Blank /\ data' = Blank
  /\ marked' = {} /\ numDeleted' = 0 /\ vacant' = {}
  /\ cap' = 0 /\ allow' = FALSE /\ curL' = 0 /\ plain' = TRUE

Init ==
  /\ obj = "none"
  /\ lookup = [x \in Labels |-> None]
  /\ count = 0 /\ slotLabel = Blank /\ data = Blank
  /\ marked = {} /\ numDeleted = 0 /\ vacant = {}
  /\ cap = 0 /\ allow = FALSE /\ curL = 0 /\ plain = TRUE
  /\ batch = None /\ saving = FALSE /\ file = None /\ written = 0

Idle == batch = None /\ ~saving
Ready == obj = "ready" /\ Idle

Create(size, replacing) ==
  /\ obj = "none"
  /\ obj' = "ready" /\ cap' = size /\ allow' = replacing /\ curL' = 0
  /\ UNCHANGED <<table, deletes, plain, batch, saving, disk>>

-----------------------------------------------------------------------------
(* add_items: ids is a set of labels, or None for the default labels.      *)
(* Replacement has to be enabled, and callers ask for it with new labels.  *)
BeginAdd(ids, rows, replacing) ==
  LET todo == IF ids = None THEN curL .. (curL + rows - 1) ELSE ids IN
  /\ Ready
  /\ todo \subseteq Labels /\ Cardinality(todo) = rows
  /\ curL + rows <= MaxNext
  /\ replacing => allow /\ \A x \in todo : lookup[x] = None
  /\ batch' = [todo |-> todo, rows |-> rows, replacing |-> replacing,
               default |-> ids = None, failed |-> FALSE]
  /\ plain' = (plain /\ ids = None)
  /\ UNCHANGED <<obj, table, deletes, cap, allow, curL, saving, disk>>

(* A row's label leads to its slot, which holds label and vector.          *)
Place(s, x, v) ==
  /\ lookup' = [lookup EXCEPT ![x] = s]
  /\ slotLabel' = [t \in DOMAIN slotLabel \cup {s} |-> IF t = s THEN x ELSE slotLabel[t]]
  /\ data' = [t \in DOMAIN data \cup {s} |-> IF t = s THEN v ELSE data[t]]

Unmark(s) ==
  /\ marked' = marked \ {s}
  /\ numDeleted' = numDeleted - 1
  /\ vacant' = vacant \ {s}

(* addPoint for a label that is in the index; a deleted one comes back.    *)
Overwrite(x, v) ==
  LET s == lookup[x] IN
  /\ s # None
  /\ allow => s \notin marked
  /\ data' = [data EXCEPT ![s] = v]
  /\ IF s \in marked THEN Unmark(s) ELSE UNCHANGED deletes
  /\ UNCHANGED <<lookup, count, slotLabel, plain>>

Append(x, v) ==
  /\ lookup[x] = None /\ count < cap
  /\ Place(count, x, v)
  /\ count' = count + 1
  /\ UNCHANGED <<deletes, plain>>

Replace(x, v, s) ==
  /\ s \in vacant
  /\ lookup' = [lookup EXCEPT ![slotLabel[s]] = None, ![x] = s]
  /\ slotLabel' = [slotLabel EXCEPT ![s] = x]
  /\ data' = [data EXCEPT ![s] = v]
  /\ Unmark(s)
  /\ UNCHANGED <<count, plain>>

(* One row.                                                                *)
AddRow(x, v) ==
  /\ batch # None /\ x \in batch.todo
  /\ IF batch.replacing /\ vacant # {}
     THEN \E s \in vacant : Replace(x, v, s)
     ELSE Overwrite(x, v) \/ Append(x, v)
  /\ batch' = [batch EXCEPT !.todo = @ \ {x}]
  /\ UNCHANGED <<obj, cap, allow, curL, saving, disk>>

(* addPoint throws: the index is full, or the label is deleted in an index *)
(* that replaces.  Rows that other threads have begun are still added.     *)
FailRow(x) ==
  /\ batch # None /\ x \in batch.todo
  /\ ~(batch.replacing /\ vacant # {})
  /\ IF lookup[x] = None THEN count >= cap ELSE allow /\ lookup[x] \in marked
  /\ batch' = [batch EXCEPT !.todo = @ \ {x}, !.failed = TRUE]
  /\ plain' = FALSE
  /\ UNCHANGED <<obj, table, deletes, cap, allow, curL, saving, disk>>

(* The default label moves on only if every row was added.                 *)
EndAdd ==
  /\ batch # None
  /\ batch.todo = {} \/ batch.failed
  /\ curL' = IF batch.failed THEN curL ELSE curL + batch.rows
  /\ batch' = None
  /\ UNCHANGED <<obj, table, deletes, cap, allow, plain, saving, disk>>

-----------------------------------------------------------------------------
(* Both throw for a label that is not there or already in that state.      *)
MarkDeleted(x) ==
  /\ Ready
  /\ lookup[x] # None /\ lookup[x] \notin marked
  /\ marked' = marked \cup {lookup[x]}
  /\ numDeleted' = numDeleted + 1
  /\ vacant' = IF allow THEN vacant \cup {lookup[x]} ELSE vacant
  /\ UNCHANGED <<obj, table, cap, allow, curL, plain, batch, saving, disk>>

UnmarkDeleted(x) ==
  /\ Ready
  /\ lookup[x] # None /\ lookup[x] \in marked
  /\ Unmark(lookup[x])
  /\ UNCHANGED <<obj, table, cap, allow, curL, plain, batch, saving, disk>>

Resize(size) ==
  /\ Ready
  /\ size >= count
  /\ cap' = size
  /\ UNCHANGED <<obj, table, deletes, allow, curL, plain, batch, saving, disk>>

(* Pickling and unpickling: the session goes on with the copy.  Its default*)
(* labels start from the number of elements, which is not the number of    *)
(* labels given out if an element has been replaced.                       *)
Copy ==
  /\ Ready
  /\ curL' = count
  /\ plain' = (plain /\ curL = count)
  /\ numDeleted' = IF numDeleted > 0 THEN Cardinality(marked) ELSE 0
  /\ vacant' = IF numDeleted > 0 /\ allow THEN marked ELSE {}
  /\ UNCHANGED <<obj, table, marked, cap, allow, batch, saving, disk>>

-----------------------------------------------------------------------------
(* The file: two units of header (before and after cur_element_count), one *)
(* unit per slot of the base layer, then for every element the length of   *)
(* its upper lists, which may be zero, and the lists.                      *)
Header == 2
Position(n, i) == Header + n + Offset[i]
Length(n) == Position(n, n)

Image == [label |-> slotLabel, data |-> data, marked |-> marked,
          count |-> count, cap |-> cap, plain |-> plain /\ curL = count]

(* Opening the stream cuts the old file down to nothing.                   *)
BeginSave ==
  /\ Ready
  /\ saving' = TRUE
  /\ file' = Image /\ written' = 0
  /\ UNCHANGED <<memory, batch>>

Write ==
  /\ saving /\ written < Length(file.count)
  /\ written' = written + 1
  /\ UNCHANGED <<memory, batch, saving, file>>

(* saveIndex returns without a look at the state of the stream: the rest   *)
(* may never have reached the disk.                                        *)
EndSave ==
  /\ saving
  /\ saving' = FALSE
  /\ UNCHANGED <<memory, batch, disk>>

\* Mutant: only the starts of the elements are looked at.
IntactStarts ==
  /\ written >= Header
  /\ \A i \in 0..(file.count - 1) : Position(file.count, i) < written

(* The check of loadIndex: every element starts before the end of the file,*)
(* and the last one ends there.                                            *)
Intact ==
  /\ written >= Header
  /\ \A i \in 0..(file.count - 1) : Position(file.count, i) < written
  /\ Position(file.count, file.count) = written

(* loadIndex into a new object; one that was there is deleted first.       *)
Filled(size, replacing) ==
  /\ obj' = "ready"
  /\ count' = file.count
  /\ slotLabel' = file.label /\ data' = file.data /\ marked' = file.marked
  /\ lookup' = [x \in Labels |->
       IF \E s \in DOMAIN file.label : file.label[s] = x
       THEN CHOOSE s \in DOMAIN file.label : file.label[s] = x ELSE None]
  /\ cap' = IF size < file.count THEN file.cap ELSE size
  /\ allow' = replacing
  /\ numDeleted' = Cardinality(file.marked)
  /\ plain' = file.plain

\* Mutant: load_index that leaves cur_l at zero.
LoadRestarting(size, replacing) ==
  Filled(size, replacing)
    /\ vacant' = (IF replacing THEN file.marked ELSE {}) /\ curL' = 0
\* Mutant: load_index that offers the deleted slots whatever the flag says.
LoadOffering(size, replacing) ==
  Filled(size, replacing) /\ vacant' = file.marked /\ curL' = file.count

LoadInto(size, replacing) ==
  /\ Filled(size, replacing)
  /\ vacant' = IF replacing THEN file.marked ELSE {}
  /\ curL' = file.count

Load(size, replacing) ==
  /\ Idle /\ obj # "dangling"
  /\ file # None /\ Intact
  /\ LoadInto(size, replacing)
  /\ UNCHANGED <<batch, saving, disk>>

(* The constructor throws: appr_alg still points to the deleted object, or *)
(* is still null if there was none.                                        *)
LoadRefused ==
  /\ Idle /\ obj = "ready"
  /\ file # None => ~Intact
  /\ Forget("dangling")
  /\ UNCHANGED <<batch, saving, disk>>

(* The process ends, at any moment, and a new one starts.                  *)
Crash ==
  /\ obj # "none"
  /\ Forget("none")
  /\ batch' = None /\ saving' = FALSE
  /\ UNCHANGED disk

Next ==
  \/ \E size \in Capacities, replacing \in BOOLEAN : Create(size, replacing)
  \/ \E ids \in SUBSET Labels \cup {None}, rows \in 1..MaxRows,
        replacing \in BOOLEAN : BeginAdd(ids, rows, replacing)
  \/ \E x \in Labels, v \in Values : AddRow(x, v)
  \/ \E x \in Labels : FailRow(x) \/ MarkDeleted(x) \/ UnmarkDeleted(x)
  \/ EndAdd
  \/ \E size \in Capacities : Resize(size)
  \/ Copy
  \/ BeginSave \/ Write \/ EndSave
  \/ \E size \in Capacities \cup {0}, replacing \in BOOLEAN : Load(size, replacing)
  \/ LoadRefused
  \/ Crash

Spec == Init /\ [][Next]_vars

-----------------------------------------------------------------------------
(* Every variable has its type; the slots in use are those below count.    *)
TypeOK ==
  /\ obj \in {"none", "ready", "dangling"}
  /\ count \in Nat /\ cap \in Capacities \cup {0} /\ curL \in Nat /\ numDeleted \in Int
  /\ lookup \in [Labels -> Used \cup {None}]
  /\ slotLabel \in [Used -> Labels] /\ data \in [Used -> Values]
  /\ marked \subseteq Used /\ vacant \subseteq Used
  /\ allow \in BOOLEAN /\ plain \in BOOLEAN /\ saving \in BOOLEAN
  /\ batch = None \/ batch \in Batches
  /\ file # None => file \in Images(file.count) /\ file.count <= file.cap
  /\ written \in Nat

(* After any sequence of calls, crashes and loads the label table is the   *)
(* inverse of the labels in the slots, the counter counts the marks, the   *)
(* vacant slots are the deleted ones exactly if replacement is enabled, and*)
(* nothing exceeds the capacity, whatever max_elements load_index was given*)
TableExact ==
  /\ \A x \in Labels : lookup[x] # None => slotLabel[lookup[x]] = x
  /\ \A s \in Used : lookup[slotLabel[s]] = s
  /\ numDeleted = Cardinality(marked)
  /\ vacant = IF allow THEN marked ELSE {}
  /\ count <= cap

(* add_items without ids never overwrites an element, with replacement or  *)
(* without: the labels it is about to use are new.  This is as long as no  *)
(* ids were given and no call failed, in this process or in the one that   *)
(* wrote the file, and the index was not copied, saved or loaded when it   *)
(* held fewer elements than labels had been given out.                     *)
DefaultLabelsFresh ==
  plain /\ obj = "ready" =>
    \A x \in Labels : lookup[x] # None =>
      IF batch = None THEN x < curL ELSE x < curL + batch.rows /\ x \notin batch.todo

(* The session is a durable map: a save that was cut short is always       *)
(* refused, a completed one is always accepted, and it brings back the     *)
(* elements of the moment it began with their marks.                       *)
Entry(values, marks, s) ==
  [value |-> values[s], state |-> IF s \in marks THEN "deleted" ELSE "live"]

Element(labels, values, marks, x) ==
  IF \E s \in DOMAIN labels : labels[s] = x
  THEN Entry(values, marks, CHOOSE u \in DOMAIN labels : labels[u] = x)
  ELSE None

Index ==
  IF obj # "ready" THEN None
  ELSE [x \in Labels |->
         IF lookup[x] = None THEN None ELSE Entry(data, marked, lookup[x])]
Saved ==
  IF ~(file # None /\ written = Length(file.count)) THEN None
  ELSE [x \in Labels |-> Element(file.label, file.data, file.marked, x)]

Durable == INSTANCE DurableMap WITH
  index <- Index, saved <- Saved, broken <- (obj = "dangling")
ImplementsDurableMap == Durable!Spec
=============================================================================
