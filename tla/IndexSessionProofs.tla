------------------------- MODULE IndexSessionProofs -------------------------
(***************************************************************************)
(* A session on an index and its file, for any labels, vectors, capacities *)
(* and lists: the element table stays exact through adds, deletes, copies, *)
(* crashes and loads, default labels are new, and the whole is a durable   *)
(* map: a save that was cut short is never loaded.                         *)
(***************************************************************************)
EXTENDS IndexSession, FiniteSetTheorems, TLAPS

TableOK ==
  /\ count \in Nat /\ cap \in Capacities \cup {0} /\ numDeleted \in Int
  /\ lookup \in [Labels -> Used \cup {None}]
  /\ slotLabel \in [Used -> Labels] /\ data \in [Used -> Values]
  /\ marked \subseteq Used /\ vacant \subseteq Used
  /\ TableExact

FlagsOK == allow \in BOOLEAN /\ plain \in BOOLEAN /\ saving \in BOOLEAN

CallOK ==
  /\ obj \in {"none", "ready", "dangling"}
  /\ curL \in Nat
  /\ batch = None \/ batch \in Batches

(* What load_index relies on: the labels of an image are distinct.         *)
ImageExact(f) ==
  /\ f.count \in Nat /\ f.cap \in Nat /\ f \in Images(f.count)
  /\ \A s, t \in 0..(f.count - 1) : f.label[s] = f.label[t] => s = t
  /\ f.count <= f.cap
  /\ f.plain => \A s \in 0..(f.count - 1) : f.label[s] < f.count

FileInv == written \in Nat /\ (file # None => ImageExact(file))

(* Nothing happens to the index while it is written.                       *)
SaveInv == saving => obj = "ready" /\ batch = None /\ file = Image

(* Why default labels are new: every label in the index was given out.     *)
LabelsInv ==
  plain =>
    /\ \A s \in Used : slotLabel[s] < IF batch = None THEN curL ELSE curL + batch.rows
    /\ batch # None =>
         /\ batch.default
         /\ batch.todo \subseteq curL..(curL + batch.rows - 1)
         /\ \A x \in batch.todo : lookup[x] = None
         /\ ~batch.failed

EmptyInv ==
  obj # "ready" =>
    /\ count = 0 /\ marked = {} /\ vacant = {}
    /\ batch = None /\ ~saving

(* The rows of a replacing call are labels that are not in the index.      *)
ReplacingInv ==
  batch # None /\ batch.replacing => \A x \in batch.todo : lookup[x] = None

IInv == /\ TableOK /\ FlagsOK /\ CallOK /\ FileInv /\ SaveInv
        /\ LabelsInv /\ EmptyInv /\ ReplacingInv

LEMMA InvType == ASSUME IInv PROVE TypeOK
<1>1. allow \in BOOLEAN /\ plain \in BOOLEAN /\ saving \in BOOLEAN
  BY Zenon DEF IInv, FlagsOK
<1>2. QED BY <1>1 DEF IInv, TableOK, CallOK, FileInv, ImageExact, Batches, TypeOK

LEMMA UsedFinite ==
  ASSUME TableOK
  PROVE  /\ IsFiniteSet(Used) /\ IsFiniteSet(marked)
         /\ Cardinality(marked) \in Nat
         /\ None \notin Used /\ None \notin Labels /\ None \notin Nat
<1>1. IsFiniteSet(Used)
  BY FS_Interval DEF TableOK, Used
<1>2. IsFiniteSet(marked)
  BY <1>1, FS_Subset DEF TableOK
<1>3. QED BY <1>1, <1>2, FS_CardinalityType, NoneAssumption DEF Used

-----------------------------------------------------------------------------
(* An empty table is exact.                                                *)
LEMMA EmptyTable ==
  ASSUME count = 0, cap \in Capacities \cup {0}, marked = {}, numDeleted = 0, vacant = {},
         lookup = [x \in Labels |-> None], slotLabel = Blank, data = Blank
  PROVE  TableOK
<1>1. Used = {} /\ Cardinality({}) = 0
  BY FS_EmptySet DEF Used
<1>2. slotLabel \in [Used -> Labels] /\ data \in [Used -> Values]
  BY <1>1 DEF Blank
<1>3. lookup \in [Labels -> Used \cup {None}]
  OBVIOUS
<1>4. TableExact
  BY <1>1, SizeAssumption DEF TableExact
<1>5. QED BY <1>1, <1>2, <1>3, <1>4 DEF TableOK

LEMMA EmptyTableAfter ==
  ASSUME NEW state, Forget(state)
  PROVE  TableOK'
<1>1. Used' = {} /\ Cardinality({}) = 0
  BY FS_EmptySet DEF Used, Forget
<1>2. slotLabel' \in [Used' -> Labels] /\ data' \in [Used' -> Values]
  BY <1>1 DEF Blank, Forget
<1>3. lookup' \in [Labels -> Used' \cup {None}]
  BY DEF Forget
<1>4. TableExact'
  BY <1>1, SizeAssumption DEF TableExact, Forget
<1>5. QED BY <1>1, <1>2, <1>3, <1>4 DEF TableOK, Forget

LEMMA InitInv == ASSUME Init PROVE IInv
<1>1. TableOK
  BY EmptyTable DEF Init
<1>2. FlagsOK
  BY Zenon DEF Init, FlagsOK
<1>3. Used = {}
  BY DEF Init, Used
<1>4. QED
  BY <1>1, <1>2, <1>3 DEF Init, IInv, CallOK, FileInv, SaveInv, LabelsInv, EmptyInv, ReplacingInv

(* No index: LoadRefused and Crash.                                        *)
LEMMA ForgetInv ==
  ASSUME NEW state \in {"none", "dangling"}, IInv,
         Forget(state), batch' = None, ~saving', saving' = FALSE, UNCHANGED disk
  PROVE  IInv'
<1>1. TableOK'
  BY EmptyTableAfter
<1>2. FlagsOK'
  BY Zenon DEF Forget, FlagsOK
<1>3. Used' = {}
  BY DEF Forget, Used
<1>4. FileInv'
  BY DEF IInv, FileInv, ImageExact, disk
<1>5. QED
  BY <1>1, <1>2, <1>3, <1>4 DEF Forget, IInv, CallOK, SaveInv, LabelsInv, EmptyInv, ReplacingInv

-----------------------------------------------------------------------------
(* A step that leaves the table alone.                                     *)
LEMMA TableFrame ==
  ASSUME TableOK, UNCHANGED <<table, deletes, allow, cap>>
  PROVE  TableOK' /\ Used' = Used
<1>1. Used' = Used
  BY DEF table, Used
<1>2. QED BY <1>1 DEF TableOK, TableExact, table, deletes

LEMMA FileFrame ==
  ASSUME FileInv, UNCHANGED disk
  PROVE  FileInv'
BY DEF FileInv, ImageExact, disk

LEMMA CreateInv ==
  ASSUME IInv, NEW size \in Capacities, NEW replacing \in BOOLEAN, Create(size, replacing)
  PROVE  IInv'
<1>1. count = 0 /\ marked = {} /\ vacant = {} /\ batch = None /\ ~saving
  BY DEF Create, IInv, EmptyInv
<1>2. Used = {} /\ Used' = {}
  BY <1>1 DEF Create, Used, table
<1>3. TableOK'
  BY <1>1, <1>2, SizeAssumption DEF Create, IInv, TableOK, TableExact, table, deletes
<1>4. FlagsOK'
  BY Zenon DEF Create, FlagsOK, IInv
<1>5. FileInv'
  BY FileFrame DEF Create, IInv
<1>6. batch' = None /\ ~saving' /\ count' = 0
  BY <1>1 DEF Create, table
<1>7. QED
  BY <1>1, <1>2, <1>3, <1>4, <1>5, <1>6
     DEF Create, IInv, CallOK, SaveInv, LabelsInv, EmptyInv, ReplacingInv

-----------------------------------------------------------------------------
(* Operations on an index that is ready.                                   *)
LEMMA BeginAddInv ==
  ASSUME IInv, NEW ids \in SUBSET Labels \cup {None}, NEW rows \in 1..MaxRows,
         NEW replacing \in BOOLEAN, BeginAdd(ids, rows, replacing)
  PROVE  IInv'
<1> DEFINE todo == IF ids = None THEN curL .. (curL + rows - 1) ELSE ids
<1>1. /\ obj = "ready" /\ batch = None /\ ~saving /\ ~saving'
      /\ todo \subseteq Labels /\ Cardinality(todo) = rows
      /\ batch' = [todo |-> todo, rows |-> rows, replacing |-> replacing,
                   default |-> ids = None, failed |-> FALSE]
      /\ plain' = (plain /\ ids = None)
      /\ UNCHANGED <<obj, table, deletes, cap, allow, curL, disk>>
  BY DEF BeginAdd, Ready, Idle
<1>2. TableOK' /\ Used' = Used
  BY <1>1, TableFrame DEF IInv
<1>3. FlagsOK'
  <2>1. plain' \in BOOLEAN /\ saving' = saving /\ allow' = allow
    BY <1>1, Zenon DEF BeginAdd
  <2>2. QED BY <2>1, Zenon DEF IInv, FlagsOK
<1>4. FileInv'
  BY <1>1, FileFrame DEF IInv
<1>5. rows \in Nat /\ curL \in Nat
  BY SizeAssumption DEF IInv, CallOK
<1>6. (ids = None) \in BOOLEAN
  BY Zenon
<1>7. batch' \in Batches
  BY <1>1, <1>5, <1>6 DEF Batches
<1>8. batch' # None
  BY <1>7, NoneAssumption
<1>9. CallOK'
  BY <1>1, <1>7 DEF IInv, CallOK
<1>10. LabelsInv'
  <2> SUFFICES ASSUME plain' PROVE LabelsInv'
    BY DEF LabelsInv
  <2>1. plain /\ ids = None /\ todo = curL .. (curL + rows - 1)
    BY <1>1
  <2>2. batch'.todo = todo /\ batch'.rows = rows /\ batch'.default /\ ~batch'.failed
    BY <1>1, <2>1
  <2>3. \A s \in Used : slotLabel[s] < curL
    BY <1>1, <2>1 DEF IInv, LabelsInv
  <2>4. \A x \in todo : lookup[x] = None
    BY <2>1, <2>3, <1>1, <1>5, LabelAssumption DEF IInv, TableOK, TableExact
  <2>5. \A s \in Used : slotLabel[s] \in Nat
    BY LabelAssumption DEF IInv, TableOK
  <2>6. UNCHANGED <<lookup, count, slotLabel, curL>>
    BY <1>1 DEF table
  <2>7. QED
    BY <1>1, <1>2, <1>5, <1>8, <2>1, <2>2, <2>3, <2>4, <2>5, <2>6 DEF LabelsInv
<1>11. ReplacingInv'
  BY <1>1, <1>8 DEF BeginAdd, ReplacingInv, table
<1>12. QED
  BY <1>1, <1>2, <1>3, <1>4, <1>9, <1>10, <1>11 DEF IInv, SaveInv, EmptyInv

LEMMA OverwriteTable ==
  ASSUME TableOK, NEW x \in Labels, NEW v \in Values, Overwrite(x, v),
         UNCHANGED <<cap, allow>>
  PROVE  TableOK' /\ Used' = Used /\ UNCHANGED <<slotLabel, lookup>>
<1> DEFINE s == lookup[x]
<1>1. /\ s \in Used /\ Used' = Used /\ data' = [data EXCEPT ![s] = v]
      /\ UNCHANGED <<lookup, count, slotLabel>>
  BY DEF Overwrite, TableOK, Used
<1>2. CASE s \in marked
  <2>1. marked' = marked \ {s} /\ numDeleted' = numDeleted - 1 /\ vacant' = vacant \ {s}
        /\ ~allow
    BY <1>2 DEF Overwrite, Unmark
  <2>2. Cardinality(marked') = Cardinality(marked) - 1
    BY <2>1, <1>2, UsedFinite, FS_RemoveElement
  <2>3. vacant = {} /\ vacant' = {}
    BY <2>1 DEF TableOK, TableExact
  <2>4. numDeleted' = Cardinality(marked')
    BY <2>1, <2>2 DEF TableOK, TableExact
  <2>5. numDeleted' \in Int
    BY <2>1 DEF TableOK
  <2>6. QED
    BY <1>1, <2>1, <2>3, <2>4, <2>5 DEF TableOK, TableExact
<1>3. CASE s \notin marked
  <2>1. UNCHANGED deletes
    BY <1>3 DEF Overwrite
  <2>2. QED BY <1>1, <2>1 DEF TableOK, TableExact, deletes
<1>4. QED BY <1>1, <1>2, <1>3

LEMMA AppendTable ==
  ASSUME TableOK, NEW x \in Labels, NEW v \in Values, Append(x, v),
         UNCHANGED <<cap, allow>>
  PROVE  /\ TableOK' /\ Used' = Used \cup {count} /\ count \notin Used
         /\ lookup' = [lookup EXCEPT ![x] = count]
         /\ slotLabel'[count] = x /\ \A s \in Used : slotLabel'[s] = slotLabel[s]
<1>1. /\ count \in Nat /\ count \notin Used /\ count # None /\ cap \in Nat
      /\ count + 1 \in Nat /\ count + 1 <= cap
  BY UsedFinite, SizeAssumption DEF Append, TableOK, Used
<1>2. Used' = Used \cup {count}
  BY <1>1 DEF Append, Used
<1>3. DOMAIN slotLabel = Used /\ DOMAIN data = Used
  BY DEF TableOK
<1>4. /\ lookup' = [lookup EXCEPT ![x] = count]
      /\ slotLabel' = [t \in Used' |-> IF t = count THEN x ELSE slotLabel[t]]
      /\ data' = [t \in Used' |-> IF t = count THEN v ELSE data[t]]
      /\ count' = count + 1 /\ UNCHANGED deletes
  BY <1>2, <1>3 DEF Append, Place
<1>5. slotLabel'[count] = x /\ \A s \in Used : slotLabel'[s] = slotLabel[s]
  BY <1>1, <1>2, <1>4
<1>6. /\ lookup' \in [Labels -> Used' \cup {None}]
      /\ slotLabel' \in [Used' -> Labels] /\ data' \in [Used' -> Values]
  BY <1>1, <1>2, <1>4 DEF TableOK
<1>7. lookup[x] = None
  BY DEF Append
<1>8. \A y \in Labels : lookup'[y] # None => slotLabel'[lookup'[y]] = y
  BY <1>1, <1>4, <1>5 DEF TableOK, TableExact
<1>9. \A s \in Used' : lookup'[slotLabel'[s]] = s
  <2>1. lookup'[slotLabel'[count]] = count
    BY <1>4, <1>5 DEF TableOK
  <2>2. ASSUME NEW s \in Used PROVE lookup'[slotLabel'[s]] = s
    <3>1. slotLabel'[s] = slotLabel[s] /\ slotLabel[s] \in Labels /\ lookup[slotLabel[s]] = s
      BY <1>5 DEF TableOK, TableExact
    <3>2. s # None
      BY UsedFinite
    <3>3. slotLabel[s] # x
      BY <3>1, <3>2, <1>7
    <3>4. QED BY <3>1, <3>3, <1>4 DEF TableOK
  <2>3. QED BY <2>1, <2>2, <1>2
<1>10. TableExact'
  BY <1>1, <1>4, <1>8, <1>9 DEF TableOK, TableExact, deletes
<1>11. QED
  BY <1>1, <1>2, <1>4, <1>5, <1>6, <1>10 DEF TableOK, deletes

LEMMA ReplaceTable ==
  ASSUME TableOK, NEW x \in Labels, NEW v \in Values, NEW s \in vacant,
         lookup[x] = None, Replace(x, v, s), UNCHANGED <<cap, allow>>
  PROVE  TableOK' /\ Used' = Used
<1> DEFINE y == slotLabel[s]
<1>1. /\ s \in Used /\ s \in marked /\ allow /\ vacant = marked
      /\ y \in Labels /\ lookup[y] = s /\ s # None /\ y # x
  BY UsedFinite DEF TableOK, TableExact
<1>2. /\ lookup' = [lookup EXCEPT ![y] = None, ![x] = s]
      /\ slotLabel' = [slotLabel EXCEPT ![s] = x]
      /\ data' = [data EXCEPT ![s] = v]
      /\ marked' = marked \ {s} /\ numDeleted' = numDeleted - 1 /\ vacant' = vacant \ {s}
      /\ count' = count /\ Used' = Used
  BY DEF Replace, Unmark, Used
<1>3. Cardinality(marked') = Cardinality(marked) - 1
  BY <1>1, <1>2, UsedFinite, FS_RemoveElement
<1>4. \A z \in Labels : lookup'[z] # None => slotLabel'[lookup'[z]] = z
  BY <1>1, <1>2 DEF TableOK, TableExact
<1>5. ASSUME NEW u \in Used PROVE lookup'[slotLabel'[u]] = u
  <2>1. CASE u = s
    BY <2>1, <1>1, <1>2 DEF TableOK
  <2>2. CASE u # s
    <3>1. slotLabel'[u] = slotLabel[u] /\ slotLabel[u] \in Labels /\ lookup[slotLabel[u]] = u
      BY <2>2, <1>2 DEF TableOK, TableExact
    <3>2. slotLabel[u] # x /\ slotLabel[u] # y
      BY <2>2, <3>1, <1>1, UsedFinite
    <3>3. QED BY <3>1, <3>2, <1>2 DEF TableOK
  <2>3. QED BY <2>1, <2>2
<1>6. numDeleted' = Cardinality(marked')
  BY <1>2, <1>3 DEF TableOK, TableExact
<1>7. vacant' = IF allow' THEN marked' ELSE {}
  BY <1>1, <1>2
<1>8. TableExact'
  BY <1>2, <1>4, <1>5, <1>6, <1>7 DEF TableOK, TableExact
<1>9. /\ lookup' \in [Labels -> Used' \cup {None}] /\ slotLabel' \in [Used' -> Labels]
      /\ data' \in [Used' -> Values] /\ numDeleted' \in Int
      /\ marked' \subseteq Used' /\ vacant' \subseteq Used'
  BY <1>1, <1>2 DEF TableOK
<1>10. QED BY <1>2, <1>8, <1>9 DEF TableOK

(* One row less to add.                                                    *)
LEMMA RowDone ==
  ASSUME batch \in Batches, NEW x \in batch.todo, NEW failed \in BOOLEAN,
         batch' = [batch EXCEPT !.todo = @ \ {x}, !.failed = failed]
  PROVE  /\ batch' \in Batches /\ batch' # None /\ batch # None
         /\ batch'.todo = batch.todo \ {x} /\ batch'.rows = batch.rows
         /\ batch'.default = batch.default /\ batch'.replacing = batch.replacing
         /\ batch'.failed = failed
<1>1. batch' \in Batches
  BY DEF Batches
<1>2. QED BY <1>1, NoneAssumption DEF Batches

LEMMA AddRowInv ==
  ASSUME IInv, NEW x \in Labels, NEW v \in Values, AddRow(x, v)
  PROVE  IInv'
<1>1. /\ batch \in Batches /\ x \in batch.todo /\ obj = "ready" /\ ~saving
      /\ UNCHANGED <<obj, cap, allow, curL, saving, disk>>
  BY DEF AddRow, IInv, CallOK, EmptyInv, SaveInv
<1>2. batch' = [batch EXCEPT !.todo = @ \ {x}, !.failed = batch.failed]
  BY <1>1 DEF AddRow, Batches
<1>3. /\ batch' \in Batches /\ batch' # None /\ batch # None
      /\ batch'.todo = batch.todo \ {x} /\ batch'.rows = batch.rows
      /\ batch'.default = batch.default /\ batch'.replacing = batch.replacing
      /\ batch'.failed = batch.failed
  <2>1. batch.failed \in BOOLEAN
    BY <1>1 DEF Batches
  <2>2. QED BY <1>1, <1>2, <2>1, RowDone
<1>4. FileInv' /\ CallOK' /\ SaveInv' /\ EmptyInv'
  BY <1>1, <1>3, FileFrame DEF IInv, CallOK, SaveInv, EmptyInv
<1>5. CASE batch.replacing /\ vacant # {}
  <2>1. PICK s \in vacant : Replace(x, v, s)
    BY <1>5 DEF AddRow
  <2>2. lookup[x] = None
    BY <1>1, <1>3, <1>5 DEF IInv, ReplacingInv
  <2>3. TableOK'
    BY <1>1, <2>1, <2>2, ReplaceTable DEF IInv
  <2>4. plain' = plain /\ count' = count /\ s \in Used /\ Used' = Used
        /\ lookup' = [lookup EXCEPT ![slotLabel[s]] = None, ![x] = s]
        /\ slotLabel' = [slotLabel EXCEPT ![s] = x]
    BY <2>1 DEF Replace, IInv, TableOK, Used
  <2>5. FlagsOK'
    BY <1>1, <2>4, Zenon DEF IInv, FlagsOK
  <2>6. \A z \in batch'.todo : lookup'[z] = None
    <3>1. batch.todo \subseteq Labels /\ lookup \in [Labels -> Used \cup {None}]
      BY <1>1 DEF Batches, IInv, TableOK
    <3>2. \A z \in batch.todo : lookup[z] = None
      BY <1>3, <1>5 DEF IInv, ReplacingInv
    <3>3. QED BY <1>3, <2>4, <3>1, <3>2
  <2>7. LabelsInv'
    <3> SUFFICES ASSUME plain PROVE LabelsInv'
      BY <2>4 DEF LabelsInv
    <3>1. /\ batch.default /\ ~batch.failed
          /\ batch.todo \subseteq curL..(curL + batch.rows - 1)
          /\ \A u \in Used : slotLabel[u] < curL + batch.rows
      BY <1>3 DEF IInv, LabelsInv
    <3>2. curL \in Nat /\ batch.rows \in Nat /\ slotLabel \in [Used -> Labels]
      BY <1>1 DEF IInv, CallOK, TableOK, Batches
    <3>3. x < curL + batch.rows
      BY <1>1, <3>1, <3>2
    <3>4. \A u \in Used' : slotLabel'[u] < curL' + batch'.rows
      BY <1>1, <1>3, <2>4, <3>1, <3>2, <3>3
    <3>5. batch'.default /\ ~batch'.failed
          /\ batch'.todo \subseteq curL'..(curL' + batch'.rows - 1)
      BY <1>1, <1>3, <3>1
    <3>6. QED BY <1>3, <2>6, <3>4, <3>5 DEF LabelsInv
  <2>8. ReplacingInv'
    BY <2>6 DEF ReplacingInv
  <2>9. QED BY <1>4, <2>3, <2>5, <2>7, <2>8 DEF IInv
<1>6. CASE ~(batch.replacing /\ vacant # {}) /\ Overwrite(x, v)
  <2>1. TableOK' /\ Used' = Used /\ UNCHANGED <<slotLabel, lookup, count, plain>>
    BY <1>1, <1>6, OverwriteTable DEF IInv, Overwrite
  <2>2. FlagsOK'
    BY <1>1, <2>1, Zenon DEF IInv, FlagsOK
  <2>3. ReplacingInv'
    BY <1>3, <2>1 DEF IInv, ReplacingInv
  <2>4. ~plain
    BY <1>1, <1>3, <1>6 DEF Overwrite, IInv, LabelsInv
  <2>5. LabelsInv'
    BY <2>1, <2>4 DEF LabelsInv
  <2>6. QED BY <1>4, <2>1, <2>2, <2>3, <2>5 DEF IInv
<1>7. CASE ~(batch.replacing /\ vacant # {}) /\ Append(x, v)
  <2>1. /\ TableOK' /\ Used' = Used \cup {count} /\ count \notin Used
        /\ lookup' = [lookup EXCEPT ![x] = count]
        /\ slotLabel'[count] = x /\ \A s \in Used : slotLabel'[s] = slotLabel[s]
    BY <1>1, <1>7, AppendTable DEF IInv
  <2>2. plain' = plain /\ count' = count + 1
    BY <1>7 DEF Append
  <2>3. FlagsOK'
    BY <1>1, <2>2, Zenon DEF IInv, FlagsOK
  <2>4. ReplacingInv'
    BY <1>3, <1>1, <2>1 DEF IInv, ReplacingInv, TableOK, Batches
  <2>5. LabelsInv'
    <3> SUFFICES ASSUME plain PROVE LabelsInv'
      BY <2>2 DEF LabelsInv
    <3>1. /\ batch.default /\ ~batch.failed
          /\ batch.todo \subseteq curL..(curL + batch.rows - 1)
          /\ \A z \in batch.todo : lookup[z] = None
          /\ \A s \in Used : slotLabel[s] < curL + batch.rows
      BY <1>3 DEF IInv, LabelsInv
    <3>2. curL \in Nat /\ batch.rows \in Nat
      BY <1>1 DEF IInv, CallOK, Batches
    <3>3. \A s \in Used' : slotLabel'[s] < curL' + batch'.rows
      BY <1>1, <1>3, <2>1, <3>1, <3>2
    <3>4. \A z \in batch'.todo : lookup'[z] = None
      BY <1>1, <1>3, <2>1, <3>1 DEF IInv, TableOK, Batches
    <3>5. batch'.default /\ ~batch'.failed
      BY <1>3, <3>1
    <3>6. batch'.todo \subseteq curL'..(curL' + batch'.rows - 1)
      BY <1>1, <1>3, <3>1
    <3>7. QED BY <1>3, <3>3, <3>4, <3>5, <3>6 DEF LabelsInv
  <2>6. QED BY <1>4, <2>1, <2>3, <2>4, <2>5 DEF IInv
<1>8. QED BY <1>5, <1>6, <1>7 DEF AddRow

LEMMA FailRowInv ==
  ASSUME IInv, NEW x \in Labels, FailRow(x)
  PROVE  IInv'
<1>1. /\ batch \in Batches /\ x \in batch.todo /\ obj = "ready" /\ ~saving
      /\ UNCHANGED <<obj, table, deletes, cap, allow, curL, saving, disk>>
      /\ plain' = FALSE /\ batch' = [batch EXCEPT !.todo = @ \ {x}, !.failed = TRUE]
  BY DEF FailRow, IInv, CallOK, EmptyInv, SaveInv
<1>2. /\ batch' \in Batches /\ batch' # None /\ batch # None
      /\ batch'.todo = batch.todo \ {x} /\ batch'.replacing = batch.replacing
  BY <1>1, RowDone
<1>3. TableOK'
  BY <1>1, TableFrame DEF IInv
<1>4. FlagsOK'
  BY <1>1, Zenon DEF IInv, FlagsOK
<1>5. FileInv' /\ CallOK' /\ SaveInv' /\ EmptyInv' /\ LabelsInv'
  BY <1>1, <1>2, FileFrame DEF IInv, CallOK, SaveInv, EmptyInv, LabelsInv
<1>6. ReplacingInv'
  BY <1>1, <1>2 DEF IInv, ReplacingInv, table
<1>7. QED BY <1>3, <1>4, <1>5, <1>6 DEF IInv

LEMMA EndAddInv == ASSUME IInv, EndAdd PROVE IInv'
<1>1. /\ batch \in Batches /\ batch # None /\ batch' = None /\ obj = "ready" /\ ~saving
      /\ UNCHANGED <<obj, table, deletes, cap, allow, plain, saving, disk>>
      /\ curL' = IF batch.failed THEN curL ELSE curL + batch.rows
      /\ batch.todo = {} \/ batch.failed
  BY DEF EndAdd, IInv, CallOK, EmptyInv, SaveInv
<1>2. TableOK' /\ Used' = Used
  BY <1>1, TableFrame DEF IInv
<1>3. FlagsOK'
  BY <1>1, Zenon DEF IInv, FlagsOK
<1>4. batch.rows \in Nat /\ curL \in Nat /\ curL' \in Nat /\ count \in Nat
  BY <1>1 DEF IInv, CallOK, TableOK, Batches
<1>5. FileInv' /\ CallOK' /\ SaveInv' /\ EmptyInv' /\ ReplacingInv'
  BY <1>1, <1>4, FileFrame DEF IInv, CallOK, SaveInv, EmptyInv, ReplacingInv
<1>6. LabelsInv'
  <2> SUFFICES ASSUME plain PROVE LabelsInv'
    BY <1>1 DEF LabelsInv
  <2>1. ~batch.failed /\ \A s \in Used : slotLabel[s] < curL + batch.rows
    BY <1>1 DEF IInv, LabelsInv
  <2>2. QED BY <1>1, <1>2, <1>4, <2>1 DEF LabelsInv, table
<1>7. QED BY <1>2, <1>3, <1>5, <1>6 DEF IInv

-----------------------------------------------------------------------------
(* Steps of the deletion state and of the capacity.                        *)
LEMMA DeletesInv ==
  ASSUME IInv, Ready, TableOK', UNCHANGED <<obj, table, allow, curL, plain, batch, saving, disk>>
  PROVE  IInv'
<1>1. Used' = Used /\ batch = None /\ ~saving /\ obj = "ready"
  BY DEF table, Used, Ready, Idle
<1>2. FlagsOK'
  BY Zenon DEF IInv, FlagsOK
<1>3. FileInv' /\ CallOK' /\ SaveInv' /\ EmptyInv' /\ ReplacingInv' /\ LabelsInv'
  BY <1>1, FileFrame
     DEF IInv, CallOK, SaveInv, EmptyInv, ReplacingInv, LabelsInv, table
<1>4. QED BY <1>2, <1>3 DEF IInv

LEMMA MarkInv ==
  ASSUME IInv, NEW x \in Labels, MarkDeleted(x) \/ UnmarkDeleted(x)
  PROVE  IInv'
<1> DEFINE s == lookup[x]
<1>1. s \in Used /\ Used' = Used /\ UNCHANGED <<table, cap, allow>>
  BY DEF IInv, TableOK, MarkDeleted, UnmarkDeleted, Used, table
<1>2. TableOK
  BY DEF IInv
<1>3. CASE MarkDeleted(x)
  <2>1. /\ s \notin marked /\ marked' = marked \cup {s} /\ numDeleted' = numDeleted + 1
        /\ vacant' = IF allow THEN vacant \cup {s} ELSE vacant
    BY <1>3 DEF MarkDeleted
  <2>2. Cardinality(marked') = Cardinality(marked) + 1
    BY <1>2, <2>1, UsedFinite, FS_AddElement
  <2>3. numDeleted' = Cardinality(marked') /\ numDeleted' \in Int
    BY <1>2, <2>1, <2>2 DEF TableOK, TableExact
  <2>4. vacant' = (IF allow' THEN marked' ELSE {}) /\ vacant' \subseteq Used'
    BY <1>1, <1>2, <2>1 DEF TableOK, TableExact
  <2>5. TableOK'
    BY <1>1, <1>2, <2>1, <2>3, <2>4 DEF TableOK, TableExact, table
  <2>6. QED BY <1>3, <2>5, DeletesInv DEF MarkDeleted
<1>4. CASE UnmarkDeleted(x)
  <2>1. /\ s \in marked /\ marked' = marked \ {s} /\ numDeleted' = numDeleted - 1
        /\ vacant' = vacant \ {s}
    BY <1>4 DEF UnmarkDeleted, Unmark
  <2>2. Cardinality(marked') = Cardinality(marked) - 1
    BY <1>2, <2>1, UsedFinite, FS_RemoveElement
  <2>3. numDeleted' = Cardinality(marked') /\ numDeleted' \in Int
    BY <1>2, <2>1, <2>2 DEF TableOK, TableExact
  <2>4. vacant' = (IF allow' THEN marked' ELSE {}) /\ vacant' \subseteq Used'
    BY <1>1, <1>2, <2>1 DEF TableOK, TableExact
  <2>5. TableOK'
    BY <1>1, <1>2, <2>1, <2>3, <2>4 DEF TableOK, TableExact, table
  <2>6. QED BY <1>4, <2>5, DeletesInv DEF UnmarkDeleted
<1>5. QED BY <1>3, <1>4

LEMMA ResizeInv ==
  ASSUME IInv, NEW size \in Capacities, Resize(size)
  PROVE  IInv'
<1>1. Used' = Used
  BY DEF Resize, table, Used
<1>2. TableOK'
  BY <1>1 DEF IInv, Resize, TableOK, TableExact, table, deletes
<1>3. QED BY <1>2, DeletesInv DEF Resize

(* A copy counts the marks anew.                                           *)
LEMMA CopyInv == ASSUME IInv, Copy PROVE IInv'
<1>1. /\ Used' = Used /\ batch = None /\ ~saving /\ obj = "ready"
      /\ UNCHANGED <<obj, table, marked, cap, allow, batch, saving, disk>>
      /\ curL' = count /\ count \in Nat /\ plain' = (plain /\ curL = count)
  BY DEF Copy, table, Used, Ready, Idle, IInv, TableOK
<1>2. TableOK
  BY DEF IInv
<1>3. numDeleted = 0 => marked = {}
  BY <1>2, UsedFinite, FS_EmptySet DEF TableOK, TableExact
<1>4. numDeleted' = Cardinality(marked') /\ numDeleted' \in Int
  <2>1. Cardinality(marked) \in Nat /\ numDeleted = Cardinality(marked)
    BY <1>2, UsedFinite DEF TableOK, TableExact
  <2>2. QED BY <1>1, <1>2, <2>1 DEF Copy
<1>5. vacant' = (IF allow' THEN marked' ELSE {}) /\ vacant' \subseteq Used'
  <2>1. numDeleted > 0 \/ numDeleted = 0
    BY <1>2, UsedFinite DEF TableOK, TableExact
  <2>2. QED BY <1>1, <1>2, <1>3, <2>1 DEF Copy, TableOK
<1>6. TableOK'
  BY <1>1, <1>2, <1>4, <1>5 DEF TableOK, TableExact, table
<1>7. FlagsOK'
  BY <1>1, Zenon DEF IInv, FlagsOK
<1>8. FileInv' /\ CallOK' /\ SaveInv' /\ EmptyInv' /\ ReplacingInv'
  BY <1>1, FileFrame DEF IInv, CallOK, SaveInv, EmptyInv, ReplacingInv, table
<1>9. LabelsInv'
  BY <1>1 DEF IInv, LabelsInv, table
<1>10. QED BY <1>6, <1>7, <1>8, <1>9 DEF IInv

-----------------------------------------------------------------------------
(* The steps of a save leave the index alone.                              *)
LEMMA WriteInv ==
  ASSUME IInv, BeginSave \/ Write \/ EndSave
  PROVE  IInv'
<1>1. UNCHANGED <<obj, table, deletes, cap, allow, curL, plain, batch>>
  BY DEF BeginSave, Write, EndSave, memory
<1>2. TableOK' /\ Used' = Used
  BY <1>1, TableFrame DEF IInv
<1>3. FlagsOK'
  <2>1. allow' \in BOOLEAN /\ plain' \in BOOLEAN
    BY <1>1, Zenon DEF IInv, FlagsOK
  <2>2. saving' \in BOOLEAN
    BY Zenon DEF BeginSave, Write, EndSave, IInv, FlagsOK
  <2>3. QED BY <2>1, <2>2 DEF FlagsOK
<1>4. CallOK' /\ EmptyInv' /\ ReplacingInv' /\ LabelsInv'
  BY <1>1, <1>2 DEF IInv, CallOK, SaveInv, EmptyInv, ReplacingInv, LabelsInv, table, deletes,
                    BeginSave, Write, EndSave, Ready, Idle
<1>5. CASE BeginSave
  <2>1. obj = "ready" /\ batch = None /\ file' = Image /\ written' = 0 /\ Image' = Image
    BY <1>1, <1>5 DEF BeginSave, Ready, Idle, Image, table, deletes
  <2>2. ImageExact(Image)
    <3>1. /\ Image.label = slotLabel /\ Image.data = data /\ Image.marked = marked
          /\ Image.count = count /\ Image.cap = cap
          /\ Image.plain = (plain /\ curL = count)
      BY DEF Image
    <3>2. Image.plain \in BOOLEAN /\ cap \in Nat
      <4>1. Image.plain \in BOOLEAN
        BY <3>1, Zenon
      <4>2. QED BY <4>1, SizeAssumption DEF IInv, TableOK
    <3>3. Image \in Images(count)
      BY <3>1, <3>2 DEF Image, Images, IInv, TableOK, Used
    <3>4. \A s, t \in Used : slotLabel[s] = slotLabel[t] => s = t
      BY DEF IInv, TableOK, TableExact
    <3>5. plain /\ curL = count => \A s \in Used : slotLabel[s] < count
      BY <2>1 DEF IInv, LabelsInv
    <3>6. count \in Nat /\ count <= cap
      BY DEF IInv, TableOK, TableExact
    <3>7. QED BY <3>1, <3>2, <3>3, <3>4, <3>5, <3>6 DEF ImageExact, Used
  <2>3. FileInv'
    BY <2>1, <2>2 DEF FileInv
  <2>4. SaveInv'
    BY <1>1, <2>1 DEF SaveInv
  <2>5. QED BY <1>2, <1>3, <1>4, <2>3, <2>4 DEF IInv
<1>6. CASE Write \/ EndSave
  <2>1. FileInv'
    BY <1>6 DEF Write, EndSave, IInv, FileInv, disk
  <2>2. SaveInv'
    BY <1>1, <1>6 DEF Write, EndSave, IInv, SaveInv, Image, table, deletes
  <2>3. QED BY <1>2, <1>3, <1>4, <2>1, <2>2 DEF IInv
<1>7. QED BY <1>5, <1>6

(* What is read from an intact file is an exact table.                     *)
LEMMA LoadInv ==
  ASSUME IInv, NEW size \in Capacities \cup {0}, NEW replacing \in BOOLEAN,
         Load(size, replacing)
  PROVE  IInv'
<1> DEFINE f == file
           U == 0..(f.count - 1)
<1>1. /\ f # None /\ batch = None /\ batch' = None /\ ~saving /\ ~saving' /\ saving' = FALSE
      /\ obj' = "ready" /\ UNCHANGED disk
      /\ count' = f.count /\ slotLabel' = f.label /\ data' = f.data /\ marked' = f.marked
      /\ cap' = (IF size < f.count THEN f.cap ELSE size) /\ allow' = replacing
      /\ numDeleted' = Cardinality(f.marked) /\ plain' = f.plain
      /\ vacant' = (IF replacing THEN f.marked ELSE {}) /\ curL' = f.count
  BY DEF Load, LoadInto, Filled, Idle, IInv, FlagsOK
<1>2. ImageExact(f)
  BY <1>1 DEF IInv, FileInv
<1>3. /\ f.count \in Nat /\ f.label \in [U -> Labels] /\ f.data \in [U -> Values]
      /\ f.marked \subseteq U /\ f.cap \in Capacities \cup {0} /\ f.plain \in BOOLEAN
      /\ \A s, t \in U : f.label[s] = f.label[t] => s = t
      /\ f.count <= f.cap
      /\ f.plain => \A s \in U : f.label[s] < f.count
  BY <1>2 DEF ImageExact, Images
<1>4. Used' = U /\ DOMAIN f.label = U
  BY <1>1, <1>3 DEF Used
<1>5. lookup' = [x \in Labels |->
        IF \E s \in U : f.label[s] = x THEN CHOOSE s \in U : f.label[s] = x ELSE None]
  BY <1>4 DEF Load, LoadInto, Filled
<1>6. ASSUME NEW x \in Labels
      PROVE  /\ lookup'[x] \in U \cup {None}
             /\ lookup'[x] # None => lookup'[x] \in U /\ f.label[lookup'[x]] = x
             /\ (\E s \in U : f.label[s] = x) => lookup'[x] \in U
  <2>1. CASE \E s \in U : f.label[s] = x
    <3>1. lookup'[x] = CHOOSE s \in U : f.label[s] = x
      BY <1>5, <2>1
    <3>2. lookup'[x] \in U /\ f.label[lookup'[x]] = x
      BY <3>1, <2>1
    <3>3. QED BY <3>2
  <2>2. CASE ~ \E s \in U : f.label[s] = x
    BY <1>5, <2>2
  <2>3. QED BY <2>1, <2>2
<1>7. None \notin U
  BY NoneAssumption, <1>3
<1>8. ASSUME NEW s \in U PROVE lookup'[f.label[s]] = s
  <2>1. f.label[s] \in Labels
    BY <1>3
  <2>2. lookup'[f.label[s]] \in U
    BY <1>6, <2>1
  <2>3. f.label[lookup'[f.label[s]]] = f.label[s]
    BY <1>6, <1>7, <2>1, <2>2
  <2>4. QED BY <1>3, <2>2, <2>3
<1>9. IsFiniteSet(f.marked) /\ Cardinality(f.marked) \in Nat
  <2>1. IsFiniteSet(U)
    BY <1>3, FS_Interval
  <2>2. QED BY <1>3, <2>1, FS_Subset, FS_CardinalityType
<1>10. cap' \in Capacities \cup {0} /\ count' <= cap'
  BY <1>1, <1>3, SizeAssumption
<1>11. vacant' = (IF allow' THEN marked' ELSE {}) /\ vacant' \subseteq U
  BY <1>1, <1>3
<1>12. TableExact'
  BY <1>1, <1>4, <1>6, <1>8, <1>10, <1>11 DEF TableExact
<1>13. TableOK'
  <2>1. lookup' \in [Labels -> Used' \cup {None}]
    BY <1>4, <1>5, <1>6
  <2>2. QED BY <1>1, <1>3, <1>4, <1>9, <1>10, <1>11, <1>12, <2>1 DEF TableOK
<1>14. FlagsOK'
  BY <1>1, <1>3, Zenon DEF FlagsOK
<1>15. FileInv'
  BY <1>1, FileFrame DEF IInv
<1>16. CallOK' /\ SaveInv' /\ EmptyInv' /\ ReplacingInv'
  BY <1>1, <1>3 DEF CallOK, SaveInv, EmptyInv, ReplacingInv
<1>17. LabelsInv'
  BY <1>1, <1>3, <1>4 DEF LabelsInv
<1>18. QED BY <1>13, <1>14, <1>15, <1>16, <1>17 DEF IInv

LEMMA StepInv == ASSUME IInv, [Next]_vars PROVE IInv'
<1>1. CASE UNCHANGED vars
  <2>1. UNCHANGED <<obj, table, deletes, cap, allow, curL, plain, batch, saving, disk>>
    BY <1>1 DEF vars, memory
  <2>2. TableOK' /\ Used' = Used
    BY <2>1, TableFrame DEF IInv
  <2>3. FlagsOK'
    BY <2>1, Zenon DEF IInv, FlagsOK
  <2>4. QED
    BY <2>1, <2>2, <2>3, FileFrame
       DEF IInv, CallOK, SaveInv, EmptyInv, ReplacingInv, LabelsInv, Image, table, deletes, disk
<1>2. CASE \E size \in Capacities, replacing \in BOOLEAN : Create(size, replacing)
  BY <1>2, CreateInv
<1>3. CASE \E ids \in SUBSET Labels \cup {None}, rows \in 1..MaxRows,
              replacing \in BOOLEAN : BeginAdd(ids, rows, replacing)
  BY <1>3, BeginAddInv
<1>4. CASE \E x \in Labels, v \in Values : AddRow(x, v)
  BY <1>4, AddRowInv
<1>5. CASE \E x \in Labels : FailRow(x) \/ MarkDeleted(x) \/ UnmarkDeleted(x)
  BY <1>5, FailRowInv, MarkInv
<1>6. CASE EndAdd
  BY <1>6, EndAddInv
<1>7. CASE \E size \in Capacities : Resize(size)
  BY <1>7, ResizeInv
<1>8. CASE Copy
  BY <1>8, CopyInv
<1>9. CASE BeginSave \/ Write \/ EndSave
  BY <1>9, WriteInv
<1>10. CASE \E size \in Capacities \cup {0}, replacing \in BOOLEAN : Load(size, replacing)
  BY <1>10, LoadInv
<1>11. CASE LoadRefused
  <2>1. batch' = None /\ saving' = FALSE /\ ~saving'
    BY <1>11 DEF LoadRefused, Idle, IInv, FlagsOK
  <2>2. QED BY <1>11, <2>1, ForgetInv DEF LoadRefused
<1>12. CASE Crash
  BY <1>12, ForgetInv DEF Crash
<1>13. QED
  BY <1>1, <1>2, <1>3, <1>4, <1>5, <1>6, <1>7, <1>8, <1>9, <1>10, <1>11, <1>12 DEF Next

(* The inductive invariant.                                                *)
THEOREM Invariance == Spec => []IInv
<1>1. Init => IInv
  BY InitInv
<1>2. IInv /\ [Next]_vars => IInv'
  BY StepInv
<1>3. QED BY <1>1, <1>2, PTL DEF Spec

(* Every variable keeps its type, in memory and in the file.               *)
THEOREM TypeCorrect == Spec => []TypeOK
<1>1. IInv => TypeOK
  BY InvType
<1>2. QED BY <1>1, Invariance, PTL

(* Table, marks, counter, vacant slots and capacity agree after any        *)
(* sequence of calls, crashes and loads.                                   *)
THEOREM Table == Spec => []TableExact
<1>1. IInv => TableExact
  BY DEF IInv, TableOK
<1>2. QED BY <1>1, Invariance, PTL

(* Default labels are new, with replacement or without, also after the     *)
(* index has been loaded, as long as callers give no ids, no call failed   *)
(* and nothing was missing when a copy or a load counted the elements.     *)
THEOREM Fresh == Spec => []DefaultLabelsFresh
<1>1. IInv => DefaultLabelsFresh
  <2> SUFFICES ASSUME IInv, plain, obj = "ready", NEW x \in Labels, lookup[x] # None
               PROVE  IF batch = None THEN x < curL
                      ELSE x < curL + batch.rows /\ x \notin batch.todo
    BY DEF DefaultLabelsFresh
  <2>1. lookup[x] \in Used /\ slotLabel[lookup[x]] = x
    BY DEF IInv, TableOK, TableExact
  <2>2. QED BY <2>1 DEF IInv, LabelsInv
<1>2. QED BY <1>1, Invariance, PTL

-----------------------------------------------------------------------------
(* The index as a map, while there is one.                                 *)
Contents(x) ==
  IF lookup[x] = None THEN None ELSE Entry(data, marked, lookup[x])

LEMMA ReadyIndex ==
  ASSUME obj = "ready" PROVE Index = [x \in Labels |-> Contents(x)]
BY DEF Index, Contents

LEMMA ReadyIndexAfter ==
  ASSUME obj' = "ready" PROVE Index' = [x \in Labels |-> Contents(x)']
BY DEF Index, Contents

(* The labels in the slots give the same map as the table of labels.       *)
LEMMA InverseTable ==
  ASSUME NEW U, None \notin U, NEW labels \in [U -> Labels], NEW values, NEW marks,
         NEW slots \in [Labels -> U \cup {None}],
         \A z \in Labels : slots[z] # None => labels[slots[z]] = z,
         \A s \in U : slots[labels[s]] = s,
         NEW x \in Labels
  PROVE  Element(labels, values, marks, x)
           = IF slots[x] = None THEN None ELSE Entry(values, marks, slots[x])
<1>1. CASE slots[x] = None
  BY <1>1 DEF Element
<1>2. CASE slots[x] # None
  <2>1. slots[x] \in U /\ labels[slots[x]] = x
        /\ \A u \in U : labels[u] = x => u = slots[x]
    BY <1>2
  <2>2. (CHOOSE u \in U : labels[u] = x) = slots[x]
    BY <2>1
  <2>3. QED BY <1>2, <2>1, <2>2 DEF Element
<1>3. QED BY <1>1, <1>2

LEMMA SlotsGiveIndex ==
  ASSUME TableOK, NEW x \in Labels
  PROVE  Element(slotLabel, data, marked, x) = Contents(x)
<1>1. None \notin Used
  BY UsedFinite
<1>2. QED BY <1>1, InverseTable DEF TableOK, TableExact, Contents

LEMMA SlotsGiveIndexAfter ==
  ASSUME TableOK', NEW x \in Labels
  PROVE  Element(slotLabel', data', marked', x) = Contents(x)'
<1>1. None \notin Used'
  BY NoneAssumption DEF TableOK, Used
<1>2. QED BY <1>1, InverseTable DEF TableOK, TableExact, Contents

LEMMA SavedFrame == ASSUME UNCHANGED disk PROVE Saved' = Saved
BY DEF Saved, Element, disk, Length, Position

(* A complete file is a map, and an intact file is a complete one.         *)
LEMMA IntactIsComplete ==
  ASSUME FileInv, file # None
  PROVE  /\ Intact <=> written = Length(file.count)
         /\ Saved # None <=> written = Length(file.count)
<1> DEFINE n == file.count
<1>1. n \in Nat /\ file.cap \in Capacities \cup {0} /\ n <= file.cap /\ written \in Nat
      /\ file.label \in [0..(n - 1) -> Labels] /\ file.data \in [0..(n - 1) -> Values]
  BY DEF FileInv, ImageExact, Images
<1>2. /\ \A i \in 0..n : Offset[i] \in Nat
      /\ \A i \in 0..(n - 1) : Offset[i] < Offset[n]
  BY <1>1, OffsetAssumption, SizeAssumption
<1>3. Length(n) >= Header /\ Length(n) \in Nat
      /\ \A i \in 0..(n - 1) : Position(n, i) < Length(n)
  BY <1>1, <1>2 DEF Length, Position, Header
<1>4. Intact <=> written = Length(n)
  BY <1>1, <1>3 DEF Intact, Length
<1>5. ASSUME NEW x \in Labels
      PROVE  Element(file.label, file.data, file.marked, x) \in Elements \cup {None}
  <2>1. CASE \E s \in DOMAIN file.label : file.label[s] = x
    <3> DEFINE s == CHOOSE u \in DOMAIN file.label : file.label[u] = x
    <3>1. s \in 0..(n - 1)
      BY <2>1, <1>1
    <3>2. Entry(file.data, file.marked, s) \in Elements
      BY <3>1, <1>1 DEF Entry, Elements
    <3>3. QED BY <2>1, <3>2 DEF Element
  <2>2. CASE ~ \E s \in DOMAIN file.label : file.label[s] = x
    BY <2>2 DEF Element
  <2>3. QED BY <2>1, <2>2
<1>6. [x \in Labels |-> Element(file.label, file.data, file.marked, x)] # None
  BY <1>5, NoneAssumption
<1>7. QED BY <1>4, <1>6 DEF Saved

LEMMA IndexIsMap ==
  ASSUME IInv, obj = "ready"
  PROVE  Index # None /\ \A x \in Labels : Index[x] = Contents(x)
<1>1. ASSUME NEW x \in Labels PROVE Contents(x) \in Elements \cup {None}
  <2>1. CASE lookup[x] # None
    <3>1. data[lookup[x]] \in Values
      BY <2>1 DEF IInv, TableOK
    <3>2. QED BY <2>1, <3>1 DEF Contents, Entry, Elements
  <2>2. CASE lookup[x] = None
    BY <2>2 DEF Contents
  <2>3. QED BY <2>1, <2>2
<1>2. QED BY <1>1, ReadyIndex, NoneAssumption

(* A step that changes one label of the index and no file.                 *)
LEMMA PutImplements ==
  ASSUME IInv, IInv', obj = "ready", obj' = "ready", UNCHANGED disk,
         NEW x \in Labels, NEW e, Contents(x)' = e,
         \A z \in Labels \ {x} : Contents(z)' = Contents(z)
  PROVE  /\ Index' = [Index EXCEPT ![x] = e] /\ Index # None
         /\ Saved' = Saved /\ (obj' = "dangling") = (obj = "dangling")
<1>1. Index = [z \in Labels |-> Contents(z)] /\ Index # None
  BY ReadyIndex, IndexIsMap
<1>2. Index' = [z \in Labels |-> Contents(z)']
  BY ReadyIndexAfter
<1>3. QED BY <1>1, <1>2, SavedFrame

LEMMA AddRowImplements ==
  ASSUME IInv, IInv', NEW x \in Labels, NEW v \in Values, AddRow(x, v)
  PROVE  Durable!Next
<1> DEFINE e == [value |-> v, state |-> "live"]
<1>1. /\ batch \in Batches /\ x \in batch.todo /\ batch # None
      /\ obj = "ready" /\ obj' = "ready"
      /\ UNCHANGED <<disk, cap, allow>>
  BY DEF AddRow, IInv, CallOK, EmptyInv
<1>2. TableOK /\ TableOK' /\ None \notin Used
  BY UsedFinite DEF IInv
<1>3. ASSUME batch.replacing, vacant # {} PROVE Durable!Next
  <2>1. PICK s \in vacant : Replace(x, v, s)
    BY <1>3 DEF AddRow
  <2>0. PICK y \in Labels : y = slotLabel[s]
    BY <1>2 DEF TableOK
  <2>2. lookup[x] = None
    BY <1>1, <1>3 DEF IInv, ReplacingInv
  <2>3. s \in Used /\ s \in marked /\ y \in Labels /\ lookup[y] = s /\ y # x
    BY <1>2, <2>0, <2>2 DEF TableOK, TableExact
  <2>4. /\ lookup' = [lookup EXCEPT ![y] = None, ![x] = s]
        /\ data' = [data EXCEPT ![s] = v] /\ marked' = marked \ {s}
    BY <2>1, <2>0 DEF Replace, Unmark
  <2>5. Contents(x)' = e /\ Contents(y)' = None
    <3>1. lookup'[x] = s /\ lookup'[y] = None /\ s # None
      BY <1>2, <2>3, <2>4 DEF TableOK
    <3>2. data'[s] = v /\ s \notin marked'
      BY <1>2, <2>3, <2>4 DEF TableOK
    <3>3. QED BY <3>1, <3>2 DEF Contents, Entry
  <2>6. ASSUME NEW z \in Labels \ {x, y} PROVE Contents(z)' = Contents(z)
    <3>1. lookup'[z] = lookup[z] /\ lookup[z] # s
      BY <1>2, <2>3, <2>4 DEF TableOK, TableExact
    <3>2. lookup[z] # None => lookup[z] \in Used
      BY <1>2 DEF TableOK
    <3>3. QED BY <1>2, <2>4, <3>1, <3>2 DEF Contents, Entry, TableOK
  <2>7. Index = [z \in Labels |-> Contents(z)] /\ Index # None
        /\ Index' = [z \in Labels |-> Contents(z)']
    BY <1>1, ReadyIndex, IndexIsMap, ReadyIndexAfter
  <2>8. Index' = [Index EXCEPT ![y] = None, ![x] = e]
    <3>1. \A z \in Labels : Contents(z)' = IF z = x THEN e ELSE IF z = y THEN None ELSE Contents(z)
      <4>1. ASSUME NEW z \in Labels
            PROVE  Contents(z)' = IF z = x THEN e ELSE IF z = y THEN None ELSE Contents(z)
        <5>1. CASE z = x
          BY <5>1, <2>5
        <5>2. CASE z = y
          BY <5>2, <2>3, <2>5
        <5>3. CASE z \in Labels \ {x, y}
          BY <5>3, <2>6
        <5>4. QED BY <5>1, <5>2, <5>3
      <4>2. QED BY <4>1
    <3>2. Index' = [z \in Labels |-> IF z = x THEN e ELSE IF z = y THEN None ELSE Contents(z)]
      BY <2>7, <3>1, Zenon
    <3>3. QED BY <2>3, <2>7, <3>2
  <2>9. Index[y] # None /\ Index[y].state = "deleted" /\ Index[x] = None
    <3>1. Contents(y) = [value |-> data[s], state |-> "deleted"] /\ Contents(x) = None
      BY <1>2, <2>2, <2>3 DEF Contents, Entry
    <3>2. data[s] \in Values
      BY <1>2, <2>3 DEF TableOK
    <3>3. Contents(y) # None
      BY <3>1, <3>2, NoneAssumption DEF Elements
    <3>4. QED BY <2>3, <2>7, <3>1, <3>3
  <2>10. Durable!PutFor(x, v, y)
    BY <1>1, <2>7, <2>8, <2>9, SavedFrame DEF Durable!PutFor, Durable!Up
  <2>11. QED BY <2>3, <2>10 DEF Durable!Next
<1>4. ASSUME Overwrite(x, v) \/ Append(x, v) PROVE Durable!Next
  <2>1. Contents(x)' = e /\ \A z \in Labels \ {x} : Contents(z)' = Contents(z)
    <3>1. CASE Overwrite(x, v)
      <4> DEFINE s == lookup[x]
      <4>1. s \in Used /\ data' = [data EXCEPT ![s] = v] /\ lookup' = lookup
        BY <3>1, <1>2 DEF Overwrite, TableOK
      <4>2. marked' = marked \ {s}
        BY <3>1 DEF Overwrite, Unmark, deletes
      <4>3. \A z \in Labels \ {x} : lookup[z] # None => lookup[z] \in Used /\ lookup[z] # s
        BY <1>2, <4>1 DEF TableOK, TableExact
      <4>4. Contents(x)' = e
        BY <1>2, <4>1, <4>2 DEF Contents, Entry, TableOK
      <4>5. ASSUME NEW z \in Labels \ {x} PROVE Contents(z)' = Contents(z)
        BY <1>2, <4>1, <4>2, <4>3 DEF Contents, Entry, TableOK
      <4>6. QED BY <4>4, <4>5
    <3>2. CASE Append(x, v)
      <4>1. /\ Used' = Used \cup {count} /\ count \notin Used /\ count \in Nat
            /\ lookup' = [lookup EXCEPT ![x] = count]
        BY <3>2, <1>1, <1>2, AppendTable DEF TableOK
      <4>2. DOMAIN data = Used
        BY <1>2 DEF TableOK
      <4>3. data'[count] = v /\ \A s \in Used : data'[s] = data[s]
        BY <3>2, <4>1, <4>2 DEF Append, Place
      <4>4. marked' = marked /\ count \notin marked /\ count # None
        BY <3>2, <1>2, <4>1, NoneAssumption DEF Append, deletes, TableOK
      <4>5. Contents(x)' = e
        BY <1>2, <4>1, <4>3, <4>4 DEF Contents, Entry, TableOK
      <4>6. ASSUME NEW z \in Labels \ {x} PROVE Contents(z)' = Contents(z)
        BY <1>2, <4>1, <4>3, <4>4 DEF Contents, Entry, TableOK
      <4>7. QED BY <4>5, <4>6
    <3>3. QED BY <1>4, <3>1, <3>2
  <2>2. Durable!Put(x, v)
    BY <1>1, <2>1, PutImplements DEF Durable!Put, Durable!Up
  <2>3. QED BY <2>2 DEF Durable!Next
<1>5. QED BY <1>3, <1>4 DEF AddRow

LEMMA MarkImplements ==
  ASSUME IInv, IInv', NEW x \in Labels, MarkDeleted(x) \/ UnmarkDeleted(x)
  PROVE  Durable!Next
<1> DEFINE s == lookup[x]
<1>1. obj = "ready" /\ obj' = "ready" /\ UNCHANGED <<disk, lookup, data>>
  BY DEF MarkDeleted, UnmarkDeleted, Ready, table
<1>2. TableOK /\ None \notin Used /\ s \in Used /\ data[s] \in Values
  BY UsedFinite DEF IInv, MarkDeleted, UnmarkDeleted, TableOK
<1>3. \A z \in Labels \ {x} : lookup[z] # s
  BY <1>2 DEF TableOK, TableExact
<1>4. Index # None /\ Index[x] = Contents(x)
  BY <1>1, IndexIsMap
<1>5. CASE MarkDeleted(x)
  <2>1. s \notin marked /\ marked' = marked \cup {s}
    BY <1>5 DEF MarkDeleted
  <2>2. Contents(x) = [value |-> data[s], state |-> "live"]
        /\ Contents(x)' = [value |-> data[s], state |-> "deleted"]
    BY <1>1, <1>2, <2>1 DEF Contents, Entry
  <2>3. \A z \in Labels \ {x} : Contents(z)' = Contents(z)
    BY <1>1, <1>3, <2>1 DEF Contents, Entry
  <2>4. Contents(x) # None
    BY <1>2, <2>2, NoneAssumption DEF Elements
  <2>5. Contents(x)' = [Contents(x) EXCEPT !.state = "deleted"]
    BY <2>2
  <2>6. Index' = [Index EXCEPT ![x] = [Contents(x) EXCEPT !.state = "deleted"]]
        /\ Saved' = Saved /\ (obj' = "dangling") = (obj = "dangling")
    BY <1>1, <2>3, <2>5, PutImplements
  <2>7. Durable!Delete(x)
    BY <1>4, <2>2, <2>4, <2>6 DEF Durable!Delete, Durable!Up
  <2>8. QED BY <2>7 DEF Durable!Next
<1>6. CASE UnmarkDeleted(x)
  <2>1. s \in marked /\ marked' = marked \ {s}
    BY <1>6 DEF UnmarkDeleted, Unmark
  <2>2. Contents(x) = [value |-> data[s], state |-> "deleted"]
        /\ Contents(x)' = [value |-> data[s], state |-> "live"]
    BY <1>1, <1>2, <2>1 DEF Contents, Entry
  <2>3. \A z \in Labels \ {x} : Contents(z)' = Contents(z)
    BY <1>1, <1>3, <2>1 DEF Contents, Entry
  <2>4. Contents(x) # None
    BY <1>2, <2>2, NoneAssumption DEF Elements
  <2>5. Contents(x)' = [Contents(x) EXCEPT !.state = "live"]
    BY <2>2
  <2>6. Index' = [Index EXCEPT ![x] = [Contents(x) EXCEPT !.state = "live"]]
        /\ Saved' = Saved /\ (obj' = "dangling") = (obj = "dangling")
    BY <1>1, <2>3, <2>5, PutImplements
  <2>7. Durable!Undelete(x)
    BY <1>4, <2>2, <2>4, <2>6 DEF Durable!Undelete, Durable!Up
  <2>8. QED BY <2>7 DEF Durable!Next
<1>7. QED BY <1>5, <1>6

(* Steps the map does not see.                                             *)
LEMMA HiddenSteps ==
  ASSUME UNCHANGED <<obj, table, marked, disk>>
  PROVE  UNCHANGED <<Index, Saved, obj = "dangling">>
BY SavedFrame DEF Index, Entry, table

LEMMA CreateImplements ==
  ASSUME IInv, IInv', NEW size \in Capacities, NEW replacing \in BOOLEAN, Create(size, replacing)
  PROVE  Durable!Next
<1>1. /\ obj = "none" /\ obj' = "ready" /\ UNCHANGED <<table, marked, disk>>
      /\ count = 0
  BY DEF Create, deletes, IInv, EmptyInv
<1>2. Index = None
  BY <1>1 DEF Index
<1>3. Used = {}
  BY <1>1 DEF Used
<1>4. \A x \in Labels : lookup[x] = None
  BY <1>3 DEF IInv, TableOK
<1>5. Index' = [x \in Labels |-> None]
  <2>1. \A x \in Labels : Contents(x)' = None
    BY <1>1, <1>4 DEF Contents, table
  <2>2. QED BY <1>1, <2>1, ReadyIndexAfter
<1>6. Durable!Create
  BY <1>1, <1>2, <1>5, SavedFrame DEF Durable!Create, Durable!Up, Durable!Empty
<1>7. QED BY <1>6 DEF Durable!Next

LEMMA SaveImplements ==
  ASSUME IInv, IInv', BeginSave \/ Write \/ EndSave
  PROVE  [Durable!Next]_<<Index, Saved, obj = "dangling">>
<1>1. /\ obj = "ready" /\ UNCHANGED <<obj, table, marked>> /\ Index # None
      /\ Index' = Index /\ (obj' = "dangling") = (obj = "dangling")
  BY IndexIsMap DEF BeginSave, Write, EndSave, memory, deletes, Ready, IInv, SaveInv,
                    Index, Entry, table
<1>2. CASE BeginSave
  <2>1. file' = Image /\ file'.count = count /\ written' = 0
    BY <1>2 DEF BeginSave, Image
  <2>2. Length(count) > 0
    <3>1. count \in Nat /\ cap \in Capacities \cup {0} /\ count <= cap
      BY DEF IInv, TableOK, TableExact
    <3>2. Offset[count] \in Nat
      BY <3>1, OffsetAssumption, SizeAssumption
    <3>3. QED BY <3>1, <3>2 DEF Length, Position, Header
  <2>3. Saved' = None
    BY <2>1, <2>2 DEF Saved, Length, Position
  <2>4. Durable!BeginSave
    BY <1>1, <2>3 DEF Durable!BeginSave, Durable!Up
  <2>5. QED BY <2>4 DEF Durable!Next
<1>3. CASE Write
  <2>1. saving /\ file = Image /\ file' = file /\ file.count = count
        /\ written < Length(count) /\ written' = written + 1 /\ written \in Nat
    BY <1>3 DEF Write, IInv, SaveInv, FileInv, Image
  <2>2. Saved = None
    BY <2>1 DEF Saved
  <2>3. CASE written' = Length(count)
    <3>1. file' # None
      <4>1. count \in Nat /\ cap \in Capacities \cup {0} /\ count <= cap
            /\ plain \in BOOLEAN
        BY DEF IInv, TableOK, TableExact, FlagsOK
      <4>2. Image \in Images(count)
        BY <4>1 DEF Image, Images, IInv, TableOK, Used
      <4>3. \E size \in Capacities \cup {0} : count \in 0..size
        BY <4>1, SizeAssumption
      <4>4. QED BY <2>1, <4>2, <4>3, NoneAssumption
    <3>2. Saved' = [x \in Labels |-> Element(slotLabel, data, marked, x)]
      BY <2>1, <2>3, <3>1 DEF Saved, Image, Length, Position
    <3>3. Saved' = [x \in Labels |-> Contents(x)]
      BY <3>2, SlotsGiveIndex DEF IInv
    <3>4. Saved' = Index
      BY <1>1, <3>3, ReadyIndex
    <3>5. Durable!CompleteSave
      BY <1>1, <2>2, <3>4 DEF Durable!CompleteSave, Durable!Up
    <3>6. QED BY <3>5 DEF Durable!Next
  <2>4. CASE written' # Length(count)
    <3>1. Saved' = None
      BY <2>1, <2>4 DEF Saved, Length, Position
    <3>2. QED BY <1>1, <2>2, <3>1
  <2>5. QED BY <2>3, <2>4
<1>4. CASE EndSave
  <2>1. Saved' = Saved
    BY <1>4, SavedFrame DEF EndSave
  <2>2. QED BY <1>1, <2>1
<1>5. QED BY <1>2, <1>3, <1>4

(* What is loaded is what was saved.                                       *)
LEMMA LoadImplements ==
  ASSUME IInv, IInv', NEW size \in Capacities \cup {0}, NEW replacing \in BOOLEAN,
         Load(size, replacing)
  PROVE  Durable!Next
<1>1. /\ obj # "dangling" /\ obj' = "ready" /\ file # None /\ Intact /\ UNCHANGED disk
      /\ slotLabel' = file.label /\ data' = file.data /\ marked' = file.marked
  BY DEF Load, LoadInto, Filled
<1>2. Saved # None /\ Saved = [x \in Labels |-> Element(file.label, file.data, file.marked, x)]
  BY <1>1, IntactIsComplete DEF IInv, Saved
<1>3. \A x \in Labels : Element(slotLabel', data', marked', x) = Contents(x)'
  BY SlotsGiveIndexAfter DEF IInv
<1>4. Index' = Saved
  BY <1>1, <1>2, <1>3, ReadyIndexAfter
<1>5. Durable!Load
  BY <1>1, <1>2, <1>4, SavedFrame DEF Durable!Load
<1>6. QED BY <1>5 DEF Durable!Next

(* The index is lost: with a file that is not intact, or with the process. *)
LEMMA ForgetImplements ==
  ASSUME IInv, LoadRefused \/ Crash
  PROVE  Durable!Next
<1>1. UNCHANGED disk /\ Saved' = Saved
  BY SavedFrame DEF LoadRefused, Crash
<1>2. CASE LoadRefused
  <2>1. obj = "ready" /\ obj' = "dangling" /\ Index' = None
    BY <1>2 DEF LoadRefused, Forget, Index
  <2>2. Index # None
    BY <2>1, IndexIsMap
  <2>3. Saved = None
    <3>1. CASE file = None
      BY <3>1 DEF Saved
    <3>2. CASE file # None
      BY <1>2, <3>2, IntactIsComplete DEF LoadRefused, IInv
    <3>3. QED BY <3>1, <3>2
  <2>4. Durable!Refuse
    BY <1>1, <2>1, <2>2, <2>3 DEF Durable!Refuse, Durable!Up
  <2>5. QED BY <2>4 DEF Durable!Next
<1>3. CASE Crash
  <2>1. obj' = "none" /\ Index' = None
    BY <1>3 DEF Crash, Forget, Index
  <2>2. Durable!Restart
    BY <1>1, <2>1 DEF Durable!Restart
  <2>3. QED BY <2>2 DEF Durable!Next
<1>4. QED BY <1>2, <1>3

LEMMA StepImplements ==
  ASSUME IInv, IInv', [Next]_vars
  PROVE  [Durable!Next]_<<Index, Saved, obj = "dangling">>
<1>1. CASE UNCHANGED vars
  BY <1>1, HiddenSteps DEF vars, memory, deletes
<1>2. CASE \E size \in Capacities, replacing \in BOOLEAN : Create(size, replacing)
  BY <1>2, CreateImplements
<1>3. CASE \E ids \in SUBSET Labels \cup {None}, rows \in 1..MaxRows,
              replacing \in BOOLEAN : BeginAdd(ids, rows, replacing)
  BY <1>3, HiddenSteps DEF BeginAdd, deletes
<1>4. CASE \E x \in Labels, v \in Values : AddRow(x, v)
  BY <1>4, AddRowImplements
<1>5. CASE \E x \in Labels : FailRow(x)
  BY <1>5, HiddenSteps DEF FailRow, deletes
<1>6. CASE \E x \in Labels : MarkDeleted(x) \/ UnmarkDeleted(x)
  BY <1>6, MarkImplements
<1>7. CASE EndAdd \/ Copy \/ \E size \in Capacities : Resize(size)
  BY <1>7, HiddenSteps DEF EndAdd, Copy, Resize, deletes
<1>8. CASE BeginSave \/ Write \/ EndSave
  BY <1>8, SaveImplements
<1>9. CASE \E size \in Capacities \cup {0}, replacing \in BOOLEAN : Load(size, replacing)
  BY <1>9, LoadImplements
<1>10. CASE LoadRefused \/ Crash
  BY <1>10, ForgetImplements
<1>11. QED
  BY <1>1, <1>2, <1>3, <1>4, <1>5, <1>6, <1>7, <1>8, <1>9, <1>10 DEF Next

LEMMA InitImplements == ASSUME Init PROVE Durable!Init
BY DEF Init, Index, Saved, Durable!Init

(* The session is a durable map: an interrupted save is never loaded, a    *)
(* completed one always is, and it brings back what was saved.             *)
THEOREM Implements == Spec => ImplementsDurableMap
<1>1. Init => Durable!Init
  BY InitImplements
<1>2. IInv /\ IInv' /\ [Next]_vars => [Durable!Next]_<<Index, Saved, obj = "dangling">>
  BY StepImplements
<1>3. QED
  BY <1>1, <1>2, Invariance, PTL DEF Spec, ImplementsDurableMap, Durable!Spec, Durable!mapVars
=============================================================================
