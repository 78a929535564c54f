---------------------------- MODULE ParallelFor ----------------------------
(***************************************************************************)
(* The replacement for "#pragma omp parallel for" that the drivers use to  *)
(* build and to query an index: ParallelFor(start, end, numThreads, fn) of *)
(* hnswlib/shiro_ef.h, and its copy in python_bindings/bindings.cpp.       *)
(* Every worker claims the next id with an atomic fetch_add until the      *)
(* range is exhausted; a call of fn that throws stops the whole loop, and  *)
(* the exception is rethrown once all the workers have been joined.        *)
(***************************************************************************)
EXTENDS Integers, FiniteSets

CONSTANTS
  Start, End,  \* the ids are Start .. End - 1
  Threads,     \* the threads a call may spawn
  SizeMax,     \* the largest value of size_t
  None         \* the null exception pointer

ASSUME RangeAssumption ==
  /\ Start \in Nat /\ End \in Nat /\ SizeMax \in Nat
  /\ Start <= SizeMax /\ End <= SizeMax
ASSUME ThreadsAssumption == IsFiniteSet(Threads) /\ Threads # {}
ASSUME NoneAssumption == None \notin Nat

VARIABLES
  workers,        \* the threads this call uses (numThreads of them)
  current,        \* the shared atomic counter; the loop variable when alone
  pc,             \* pc[t]: where worker t is in its loop
  item,           \* item[t]: the id worker t claimed last
  calls,          \* calls[i]: how often fn(i, _) has been called
  lastException,  \* the id whose call threw last, or None
  outcome         \* "running", "returned" or "raised"

vars == <<workers, current, pc, item, calls, lastException, outcome>>

Ids == Start .. (End - 1)

(* size_t arithmetic: incrementing the largest value gives zero. *)
Increment(n) == IF n = SizeMax THEN 0 ELSE n + 1

(* numThreads == 1 takes the branch that spawns nothing. *)
Sequential == Cardinality(workers) = 1

Init ==
  /\ workers \in (SUBSET Threads) \ {{}}
  /\ current = Start
  /\ pc = [t \in Threads |-> "claim"]
  /\ item = [t \in Threads |-> Start]
  /\ calls = [i \in 0..SizeMax |-> 0]
  /\ lastException = None
  /\ outcome = "running"

-----------------------------------------------------------------------------
\* Mutant: the bound is tested with > instead of >=.
ClaimInclusive(t) ==
  /\ pc[t] = "claim"
  /\ current' = Increment(current)
  /\ item' = [item EXCEPT ![t] = current]
  /\ pc' = [pc EXCEPT ![t] = IF current > End THEN "exited" ELSE "call"]
  /\ UNCHANGED <<workers, calls, lastException, outcome>>

(* size_t id = current.fetch_add(1); if (id >= end) break; *)
Claim(t) ==
  /\ pc[t] = "claim"
  /\ current' = Increment(current)
  /\ item' = [item EXCEPT ![t] = current]
  /\ pc' = [pc EXCEPT ![t] = IF current >= End THEN "exited" ELSE "call"]
  /\ UNCHANGED <<workers, calls, lastException, outcome>>

(* fn(id, threadId), which returns or throws. *)
Call(t) ==
  /\ pc[t] = "call"
  /\ calls' = [calls EXCEPT ![item[t]] = @ + 1]
  /\ \E next \in {"claim", "catch"} : pc' = [pc EXCEPT ![t] = next]
  /\ UNCHANGED <<workers, current, item, lastException, outcome>>

\* Mutant: the id that threw is handed out again.
CatchRetries(t) ==
  /\ pc[t] = "catch"
  /\ lastException' = item[t]
  /\ current' = item[t]
  /\ pc' = [pc EXCEPT ![t] = "exited"]
  /\ UNCHANGED <<workers, item, calls, outcome>>

\* Mutant: the other workers are not told to stop.
CatchGoesOn(t) ==
  /\ pc[t] = "catch"
  /\ lastException' = item[t]
  /\ pc' = [pc EXCEPT ![t] = "exited"]
  /\ UNCHANGED <<workers, current, item, calls, outcome>>

(* The catch block, under lastExceptMutex. *)
Catch(t) ==
  /\ pc[t] = "catch"
  /\ lastException' = item[t]
  /\ current' = End
  /\ pc' = [pc EXCEPT ![t] = "exited"]
  /\ UNCHANGED <<workers, item, calls, outcome>>

Worker(t) == Claim(t) \/ Call(t) \/ Catch(t)

\* Mutant: the exception is not rethrown.
JoinSwallows ==
  /\ ~Sequential
  /\ outcome = "running"
  /\ \A t \in workers : pc[t] = "exited"
  /\ outcome' = "returned"
  /\ UNCHANGED <<workers, current, pc, item, calls, lastException>>

\* Mutant: threads that were never started are joined too.
JoinAll ==
  /\ ~Sequential
  /\ outcome = "running"
  /\ \A t \in Threads : pc[t] = "exited"
  /\ outcome' = IF lastException = None THEN "returned" ELSE "raised"
  /\ UNCHANGED <<workers, current, pc, item, calls, lastException>>

(* Every thread has been joined: return, or rethrow the last exception. *)
Join ==
  /\ ~Sequential
  /\ outcome = "running"
  /\ \A t \in workers : pc[t] = "exited"
  /\ outcome' = IF lastException = None THEN "returned" ELSE "raised"
  /\ UNCHANGED <<workers, current, pc, item, calls, lastException>>

(* The plain loop of the single-threaded branch; an exception leaves it. *)
SequentialCall ==
  /\ Sequential
  /\ outcome = "running"
  /\ current < End
  /\ calls' = [calls EXCEPT ![current] = @ + 1]
  /\ \/ /\ current' = Increment(current)
        /\ UNCHANGED <<lastException, outcome>>
     \/ /\ lastException' = current
        /\ outcome' = "raised"
        /\ UNCHANGED current
  /\ UNCHANGED <<workers, pc, item>>

SequentialReturn ==
  /\ Sequential
  /\ outcome = "running"
  /\ current >= End
  /\ outcome' = "returned"
  /\ UNCHANGED <<workers, current, pc, item, calls, lastException>>

Terminated == outcome # "running" /\ UNCHANGED vars

Next ==
  \/ \E t \in workers : ~Sequential /\ Worker(t)
  \/ Join
  \/ SequentialCall
  \/ SequentialReturn
  \/ Terminated

(* The operating system runs every thread, and fn always comes back. *)
Fairness ==
  /\ \A t \in Threads : WF_vars(t \in workers /\ ~Sequential /\ Worker(t))
  /\ WF_vars(Join)
  /\ WF_vars(SequentialCall)
  /\ WF_vars(SequentialReturn)

Spec == Init /\ [][Next]_vars /\ Fairness

-----------------------------------------------------------------------------
TypeOK ==
  /\ workers \in (SUBSET Threads) \ {{}}
  /\ current \in 0..SizeMax
  /\ pc \in [Threads -> {"claim", "call", "catch", "exited"}]
  /\ item \in [Threads -> 0..SizeMax]
  /\ calls \in [0..SizeMax -> Nat]
  /\ lastException \in (0..SizeMax) \cup {None}
  /\ outcome \in {"running", "returned", "raised"}

(* The range ends so far below SizeMax that the counter cannot wrap around *)
(* although every worker advances it once more than it has ids to run.     *)
NoWrap ==
  /\ Start + Cardinality(Threads) <= SizeMax
  /\ End + Cardinality(Threads) <= SizeMax

(* No id is handed to fn twice, whichever way the workers interleave: an   *)
(* addPoint repeated for one row would race with itself.                   *)
AtMostOnce == \A i \in 0..SizeMax : calls[i] <= 1

(* A ParallelFor that returns normally has called fn on exactly the ids of *)
(* the range, none skipped, and no call threw.                             *)
CompleteOnReturn ==
  outcome = "returned" =>
    /\ \A i \in 0..SizeMax : calls[i] = (IF i \in Ids THEN 1 ELSE 0)
    /\ lastException = None

(* Once an exception has been caught no worker starts another id, though   *)
(* the ids already claimed are still run.                                  *)
StopsAfterException ==
  [][lastException # None =>
       \A t \in Threads : pc[t] = "claim" => pc'[t] \in {"claim", "exited"}]_vars

(* No exception is swallowed and no worker is joined for ever: the loop    *)
(* ends, and it raises exactly when some call of fn threw.                 *)
Finishes == <>[](outcome # "running")
ExceptionReported ==
  (\E t \in Threads : pc[t] = "catch") ~> (outcome = "raised")
=============================================================================
