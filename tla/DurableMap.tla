----------------------------- MODULE DurableMap -----------------------------
(***************************************************************************)
(* What an index with save_index and load_index promises: a map from       *)
(* labels to elements in memory, and the map of the last completed save.   *)
(* A save that has not completed leaves no map at all, never a part of     *)
(* one, and what is loaded is exactly what was saved.                      *)
(***************************************************************************)
CONSTANTS
  Labels, Values,
  None  \* no element, no index in memory, no saved copy

VARIABLES
  index,   \* the map in memory, or None
  saved,   \* the map of the last completed save, or None
  broken   \* a load over a live index has been refused

mapVars == <<index, saved, broken>>

Element == [value : Values, state : {"live", "deleted"}]
Map == [Labels -> Element \cup {None}]
Empty == [x \in Labels |-> None]

Init == index = None /\ saved = None /\ broken = FALSE

Up == index # None

Create == ~Up /\ ~broken /\ index' = Empty /\ UNCHANGED <<saved, broken>>

(* A new or an updated element is alive.                                   *)
Put(x, v) ==
  /\ Up
  /\ index' = [index EXCEPT ![x] = [value |-> v, state |-> "live"]]
  /\ UNCHANGED <<saved, broken>>

(* A new element takes the place of a deleted one.                         *)
PutFor(x, v, y) ==
  /\ Up /\ index[y] # None /\ index[y].state = "deleted" /\ index[x] = None
  /\ index' = [index EXCEPT ![y] = None,
                            ![x] = [value |-> v, state |-> "live"]]
  /\ UNCHANGED <<saved, broken>>

Delete(x) ==
  /\ Up /\ index[x] # None /\ index[x].state = "live"
  /\ index' = [index EXCEPT ![x].state = "deleted"]
  /\ UNCHANGED <<saved, broken>>

Undelete(x) ==
  /\ Up /\ index[x] # None /\ index[x].state = "deleted"
  /\ index' = [index EXCEPT ![x].state = "live"]
  /\ UNCHANGED <<saved, broken>>

(* The old copy is gone as soon as a save begins; the new one exists once  *)
(* the last byte is written.                                               *)
BeginSave == Up /\ saved' = None /\ UNCHANGED <<index, broken>>
CompleteSave == Up /\ saved = None /\ saved' = index /\ UNCHANGED <<index, broken>>

Load == ~broken /\ saved # None /\ index' = saved /\ UNCHANGED <<saved, broken>>

(* Only a lost copy is refused, and the refusal costs the index in memory. *)
Refuse == Up /\ saved = None /\ index' = None /\ broken' = TRUE /\ UNCHANGED saved

(* The process ends and another one starts.                                *)
Restart == index' = None /\ broken' = FALSE /\ UNCHANGED saved

Next ==
  \/ Create \/ BeginSave \/ CompleteSave \/ Load \/ Refuse \/ Restart
  \/ \E x \in Labels : Delete(x) \/ Undelete(x)
  \/ \E x, y \in Labels, v \in Values : Put(x, v) \/ PutFor(x, v, y)

Spec == Init /\ [][Next]_mapVars
=============================================================================
