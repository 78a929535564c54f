----------------------------- MODULE LabelStore -----------------------------
(***************************************************************************)
(* What HierarchicalNSW promises the threads that use it by label: a map   *)
(* from labels to vectors whose operations take effect atomically, each at *)
(* some moment between its call and its return.  Deleting is reversible;   *)
(* where the replacement of deleted elements is enabled, a deleted label   *)
(* may be forgotten at any moment, because its slot goes to a new element. *)
(***************************************************************************)
CONSTANTS Threads, Labels, Values,
          AllowReplace,  \* allow_replace_deleted_
          None           \* no pending request, no result, no element

VARIABLES
  store,   \* store[x]: None, or the vector of x and whether x is deleted
  call,    \* call[t]: the operation t has called and not finished, or None
  result   \* result[t]: what the last operation of t came to

Request ==
  [op : {"add"}, label : Labels, value : Values, replace : BOOLEAN]
    \cup [op : {"mark", "unmark", "get"}, label : Labels]

Live(x)    == store[x] # None /\ ~store[x].deleted
Deleted(x) == store[x] # None /\ store[x].deleted

Init ==
  /\ store = [x \in Labels |-> None]
  /\ call = [t \in Threads |-> None]
  /\ result = [t \in Threads |-> None]

Invoke(t, request) ==
  /\ call[t] = None
  /\ call' = [call EXCEPT ![t] = request]
  /\ result' = [result EXCEPT ![t] = None]
  /\ UNCHANGED store

Finish(t, r) ==
  /\ call' = [call EXCEPT ![t] = None]
  /\ result' = [result EXCEPT ![t] = r]

(* A point that cannot be stored leaves the label as it was: the index is  *)
(* full, or the label is deleted and its slot is up for replacement.       *)
Add(t) ==
  LET r == call[t] IN
  \/ /\ store' = [store EXCEPT ![r.label] = [value |-> r.value, deleted |-> FALSE]]
     /\ Finish(t, "ok")
  \/ /\ store[r.label] = None \/ (AllowReplace /\ Deleted(r.label))
     /\ Finish(t, "threw")
     /\ UNCHANGED store

(* markDelete and unmarkDelete move the label between its two states.      *)
SetDeleted(t, flag) ==
  LET x == call[t].label IN
  IF IF flag THEN Live(x) ELSE Deleted(x)
  THEN store' = [store EXCEPT ![x].deleted = flag] /\ Finish(t, "ok")
  ELSE UNCHANGED store /\ Finish(t, "threw")

Get(t) ==
  /\ Finish(t, IF Live(call[t].label) THEN store[call[t].label].value ELSE "threw")
  /\ UNCHANGED store

Respond(t) ==
  /\ call[t] # None
  /\ CASE call[t].op = "add"    -> Add(t)
       [] call[t].op = "mark"   -> SetDeleted(t, TRUE)
       [] call[t].op = "unmark" -> SetDeleted(t, FALSE)
       [] call[t].op = "get"    -> Get(t)

Forget(x) ==
  /\ AllowReplace
  /\ Deleted(x)
  /\ store' = [store EXCEPT ![x] = None]
  /\ UNCHANGED <<call, result>>

Next ==
  \/ \E t \in Threads : Respond(t) \/ \E request \in Request : Invoke(t, request)
  \/ \E x \in Labels : Forget(x)

Spec == Init /\ [][Next]_<<store, call, result>>
=============================================================================
