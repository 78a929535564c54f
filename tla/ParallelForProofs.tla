-------------------------- MODULE ParallelForProofs --------------------------
(***************************************************************************)
(* ParallelFor for every range, every finite set of threads and every      *)
(* width of size_t that leaves the counter room (NoWrap).                  *)
(***************************************************************************)
EXTENDS ParallelFor, FiniteSetTheorems, TLAPS

Exited == {t \in workers : pc[t] = "exited"}

(* The counter overshoots the range at most once per worker that has left, *)
(* and a worker leaves only when the counter has reached the end.          *)
CounterInv ==
  /\ current <= Start + Cardinality(Exited) \/ current <= End + Cardinality(Exited)
  /\ (\E t \in workers : pc[t] = "exited") => current >= End
  /\ ~Sequential /\ lastException # None => current >= End

(* A claimed id is in the range, behind the counter, and claimed once; it  *)
(* has been run, or its claimant is about to run it.                       *)
ClaimInv ==
  /\ current >= Start
  /\ \A t \in workers :
       pc[t] \in {"call", "catch"} => item[t] \in Ids /\ item[t] < current
  /\ \A t \in workers : pc[t] = "call" => calls[item[t]] = 0
  /\ \A t, u \in workers :
       pc[t] = "call" /\ pc[u] = "call" /\ t # u => item[t] # item[u]

(* The ids ahead of the counter have not been run, and no id twice.        *)
FreshInv ==
  /\ \A i \in 0..SizeMax : calls[i] \in {0, 1}
  /\ \A i \in 0..SizeMax : i \notin Ids => calls[i] = 0
  /\ \A i \in 0..SizeMax : i > current => calls[i] = 0
  /\ outcome = "running" => calls[current] = 0

(* Until an exception is caught, no id behind the counter is forgotten.    *)
CoverInv ==
  lastException = None =>
    \A i \in Ids : i < current =>
      calls[i] = 1 \/ \E t \in workers : pc[t] = "call" /\ item[t] = i

(* The branch without threads leaves every worker at its start.            *)
SequentialInv ==
  Sequential =>
    /\ \A t \in workers : pc[t] = "claim"
    /\ outcome = "running" => lastException = None

OutcomeInv ==
  /\ outcome = "returned" => lastException = None /\ current >= End
  /\ ~Sequential /\ outcome # "running" => \A t \in workers : pc[t] = "exited"

IInv ==
  /\ TypeOK /\ CounterInv /\ ClaimInv /\ FreshInv
  /\ CoverInv /\ SequentialInv /\ OutcomeInv

-----------------------------------------------------------------------------
(* A set of threads is finite, and smaller than Threads if one is missing. *)
LEMMA ThreadSets ==
  ASSUME NEW S \in SUBSET Threads
  PROVE  /\ IsFiniteSet(S)
         /\ Cardinality(S) \in Nat /\ Cardinality(Threads) \in Nat
         /\ Cardinality(S) <= Cardinality(Threads)
         /\ S # Threads => Cardinality(S) < Cardinality(Threads)
<1>1. IsFiniteSet(Threads)
  BY ThreadsAssumption
<1>2. IsFiniteSet(S) /\ Cardinality(S) <= Cardinality(Threads)
      /\ (Cardinality(S) = Cardinality(Threads) => S = Threads)
  BY <1>1, FS_Subset
<1>3. Cardinality(S) \in Nat /\ Cardinality(Threads) \in Nat
  BY <1>1, <1>2, FS_CardinalityType
<1>4. QED BY <1>2, <1>3

LEMMA ExitedType == TypeOK => Exited \in SUBSET Threads
BY DEF TypeOK, Exited

LEMMA InitInv == ASSUME Init PROVE IInv
<1>1. TypeOK
  BY RangeAssumption DEF Init, TypeOK
<1>2. Cardinality(Exited) \in Nat
  BY <1>1, ExitedType, ThreadSets
<1>3. CounterInv
  BY <1>2, RangeAssumption DEF Init, CounterInv, TypeOK
<1>4. ClaimInv /\ FreshInv /\ CoverInv /\ SequentialInv /\ OutcomeInv
  BY RangeAssumption
  DEF Init, ClaimInv, FreshInv, CoverInv, SequentialInv, OutcomeInv, Ids
<1>5. QED BY <1>1, <1>3, <1>4 DEF IInv

(* A worker that claims: it gets the id at the counter or leaves.          *)
LEMMA ClaimStep ==
  ASSUME NoWrap, IInv, NEW t \in workers, ~Sequential, Claim(t)
  PROVE  IInv'
<1> USE RangeAssumption, ThreadsAssumption
<1>1. TypeOK /\ t \in Threads /\ pc[t] = "claim" /\ current \in Nat
  BY DEF IInv, TypeOK, Claim
<1>2. Cardinality(Exited) \in Nat /\ Cardinality(Exited) < Cardinality(Threads)
      /\ Cardinality(Threads) \in Nat /\ IsFiniteSet(Exited)
  <2>1. Exited \in SUBSET Threads /\ Exited # Threads
    BY <1>1 DEF Exited, TypeOK
  <2>2. QED BY <2>1, ThreadSets
<1>3. current < SizeMax /\ current' = current + 1
  <2>1. current < SizeMax
    BY <1>1, <1>2 DEF IInv, CounterInv, NoWrap
  <2>2. QED BY <1>1, <2>1 DEF Claim, Increment
<1>4. UNCHANGED <<workers, calls, lastException, outcome>> /\ ~Sequential'
  BY DEF Claim, Sequential
<1>5. outcome = "running"
  BY <1>1 DEF IInv, OutcomeInv
<1>6. TypeOK'
  BY <1>1, <1>3 DEF Claim, TypeOK
<1>7. CounterInv'
  <2>1. CASE current >= End
    <3>1. Exited' = Exited \cup {t} /\ t \notin Exited
      BY <1>1, <2>1 DEF Claim, Exited, TypeOK
    <3>2. Cardinality(Exited') = Cardinality(Exited) + 1
      BY <1>2, <3>1, FS_AddElement
    <3>3. QED BY <1>1, <1>2, <1>3, <2>1, <3>2 DEF IInv, CounterInv
  <2>2. CASE current < End
    <3>1. Cardinality(Exited') \in Nat
      <4>1. Exited' \in SUBSET Threads
        BY <1>6 DEF TypeOK, Exited
      <4>2. QED BY <4>1, ThreadSets
    <3>2. lastException = None /\ \A u \in workers : pc'[u] # "exited"
      BY <1>1, <2>2 DEF Claim, IInv, CounterInv, TypeOK
    <3>3. QED BY <1>1, <1>3, <1>4, <2>2, <3>1, <3>2 DEF CounterInv
  <2>3. QED BY <1>1, <2>1, <2>2
<1>8. ClaimInv'
  BY <1>1, <1>3, <1>4, <1>5 DEF Claim, IInv, ClaimInv, FreshInv, TypeOK, Ids
<1>9. FreshInv'
  BY <1>1, <1>3, <1>4 DEF IInv, FreshInv, TypeOK, Ids
<1>10. CoverInv'
  BY <1>1, <1>3, <1>4 DEF Claim, IInv, CoverInv, TypeOK, Ids
<1>11. SequentialInv' /\ OutcomeInv'
  BY <1>1, <1>3, <1>4, <1>5 DEF Claim, IInv, SequentialInv, OutcomeInv, TypeOK
<1>12. QED BY <1>6, <1>7, <1>8, <1>9, <1>10, <1>11 DEF IInv

(* A worker that runs its id, which returns or throws.                     *)
LEMMA CallStep ==
  ASSUME IInv, NEW t \in workers, ~Sequential, Call(t)
  PROVE  IInv'
<1> USE RangeAssumption
<1>1. TypeOK /\ t \in Threads /\ pc[t] = "call" /\ current \in Nat
      /\ item[t] \in Ids /\ item[t] \in 0..SizeMax /\ item[t] < current
      /\ calls[item[t]] = 0
  BY DEF IInv, TypeOK, Call, ClaimInv
<1>2. PICK next \in {"claim", "catch"} : pc' = [pc EXCEPT ![t] = next]
  BY DEF Call
<1>3. UNCHANGED <<workers, current, item, lastException, outcome>> /\ ~Sequential'
  BY DEF Call, Sequential
<1>4. calls' = [calls EXCEPT ![item[t]] = 1]
  BY <1>1 DEF Call
<1>5. TypeOK'
  BY <1>1, <1>2, <1>3, <1>4 DEF TypeOK
<1>6. CounterInv'
  <2>1. Exited' = Exited
    BY <1>1, <1>2, <1>3 DEF Exited, TypeOK
  <2>2. QED BY <1>1, <1>2, <1>3, <2>1 DEF IInv, CounterInv, TypeOK
<1>7. ClaimInv'
  BY <1>1, <1>2, <1>3, <1>4 DEF IInv, ClaimInv, TypeOK
<1>8. FreshInv'
  BY <1>1, <1>3, <1>4 DEF IInv, FreshInv, TypeOK, Ids
<1>9. CoverInv'
  BY <1>1, <1>2, <1>3, <1>4 DEF IInv, CoverInv, TypeOK, Ids
<1>10. SequentialInv' /\ OutcomeInv'
  BY <1>1, <1>2, <1>3 DEF IInv, SequentialInv, OutcomeInv, TypeOK
<1>11. QED BY <1>5, <1>6, <1>7, <1>8, <1>9, <1>10 DEF IInv

(* A worker that catches an exception moves the counter to the end.        *)
LEMMA CatchStep ==
  ASSUME IInv, NEW t \in workers, ~Sequential, Catch(t)
  PROVE  IInv'
<1> USE RangeAssumption
<1>1. TypeOK /\ t \in Threads /\ pc[t] = "catch" /\ item[t] \in Ids
      /\ item[t] \in 0..SizeMax
  BY DEF IInv, TypeOK, Catch, ClaimInv
<1>2. UNCHANGED <<workers, item, calls, outcome>> /\ current' = End
      /\ lastException' = item[t] /\ pc' = [pc EXCEPT ![t] = "exited"]
      /\ ~Sequential'
  BY DEF Catch, Sequential
<1>3. TypeOK'
  BY <1>1, <1>2 DEF TypeOK
<1>4. CounterInv'
  <2>1. Cardinality(Exited') \in Nat
    <3>1. Exited' \in SUBSET Threads
      BY <1>3 DEF TypeOK, Exited
    <3>2. QED BY <3>1, ThreadSets
  <2>2. QED BY <1>2, <2>1 DEF CounterInv
<1>5. ClaimInv'
  BY <1>1, <1>2 DEF IInv, ClaimInv, TypeOK, Ids
<1>6. FreshInv'
  BY <1>1, <1>2 DEF IInv, FreshInv, TypeOK, Ids
<1>7. CoverInv' /\ SequentialInv' /\ OutcomeInv'
  BY <1>1, <1>2, NoneAssumption DEF IInv, CoverInv, SequentialInv, OutcomeInv, TypeOK
<1>8. QED BY <1>3, <1>4, <1>5, <1>6, <1>7 DEF IInv

(* The steps of the calling thread.                                        *)
LEMMA CallerStep ==
  ASSUME IInv, Join \/ SequentialCall \/ SequentialReturn
  PROVE  IInv'
<1> USE RangeAssumption
<1>1. TypeOK /\ workers # {} /\ current \in Nat
  BY DEF IInv, TypeOK
<1>2. CASE Join
  <2>1. UNCHANGED <<workers, current, pc, item, calls, lastException>>
        /\ Exited' = Exited /\ Sequential' = Sequential /\ ~Sequential
        /\ (\A t \in workers : pc[t] = "exited")
        /\ outcome' \in {"returned", "raised"}
        /\ (outcome' = "returned" => lastException = None)
    BY <1>2 DEF Join, Exited, Sequential
  <2>2. QED BY <1>1, <2>1 DEF IInv, TypeOK, CounterInv, ClaimInv, FreshInv,
          CoverInv, SequentialInv, OutcomeInv
<1>3. CASE SequentialCall
  <2>1. UNCHANGED <<workers, pc, item>> /\ Exited' = Exited /\ Sequential'
        /\ Sequential /\ outcome = "running" /\ lastException = None
        /\ current \in Ids /\ calls[current] = 0
        /\ calls' = [calls EXCEPT ![current] = 1]
        /\ \A t \in workers : pc[t] = "claim"
    BY <1>1, <1>3 DEF SequentialCall, Exited, Sequential, IInv, SequentialInv,
         FreshInv, ClaimInv, TypeOK, Ids
  <2>2. CASE current' = Increment(current) /\ UNCHANGED <<lastException, outcome>>
    <3>1. current' = current + 1 /\ current + 1 <= End
      BY <1>1, <2>1, <2>2 DEF Increment, Ids
    <3>2. TypeOK' /\ CounterInv'
      <4>1. TypeOK'
        BY <1>1, <2>1, <2>2, <3>1 DEF TypeOK
      <4>2. Cardinality(Exited) \in Nat
        BY <1>1, ExitedType, ThreadSets
      <4>3. QED BY <1>1, <2>1, <2>2, <3>1, <4>1, <4>2 DEF CounterInv
    <3>3. ClaimInv' /\ FreshInv' /\ CoverInv'
      BY <1>1, <2>1, <2>2, <3>1 DEF IInv, ClaimInv, FreshInv, CoverInv, TypeOK, Ids
    <3>4. SequentialInv' /\ OutcomeInv'
      BY <2>1, <2>2 DEF IInv, SequentialInv, OutcomeInv
    <3>5. QED BY <3>2, <3>3, <3>4 DEF IInv
  <2>3. CASE lastException' = current /\ outcome' = "raised" /\ UNCHANGED current
    <3>1. TypeOK' /\ CounterInv'
      BY <1>1, <2>1, <2>3 DEF IInv, TypeOK, CounterInv
    <3>2. ClaimInv' /\ FreshInv'
      BY <1>1, <2>1, <2>3 DEF IInv, ClaimInv, FreshInv, TypeOK, Ids
    <3>3. CoverInv' /\ SequentialInv' /\ OutcomeInv'
      BY <1>1, <2>1, <2>3, NoneAssumption DEF CoverInv, SequentialInv, OutcomeInv
    <3>4. QED BY <3>1, <3>2, <3>3 DEF IInv
  <2>4. QED BY <1>3, <2>2, <2>3 DEF SequentialCall
<1>4. CASE SequentialReturn
  <2>1. UNCHANGED <<workers, current, pc, item, calls, lastException>>
        /\ Exited' = Exited /\ Sequential' = Sequential /\ Sequential
        /\ outcome = "running" /\ outcome' = "returned" /\ current >= End
    BY <1>4 DEF SequentialReturn, Exited, Sequential
  <2>2. QED BY <1>1, <2>1 DEF IInv, TypeOK, CounterInv, ClaimInv, FreshInv,
          CoverInv, SequentialInv, OutcomeInv
<1>5. QED BY <1>2, <1>3, <1>4

LEMMA NextInv ==
  ASSUME NoWrap, IInv, [Next]_vars
  PROVE  IInv'
<1>1. ASSUME NEW t \in workers, ~Sequential, Worker(t)
      PROVE  IInv'
  BY <1>1, ClaimStep, CallStep, CatchStep DEF Worker
<1>2. CASE Terminated \/ UNCHANGED vars
  <2>1. UNCHANGED vars
    BY <1>2 DEF Terminated
  <2>2. QED BY <2>1 DEF vars, IInv, TypeOK, CounterInv, ClaimInv, FreshInv,
          CoverInv, SequentialInv, OutcomeInv, Exited, Sequential
<1>3. QED BY <1>1, <1>2, CallerStep DEF Next

THEOREM Invariance == ASSUME NoWrap PROVE Spec => []IInv
BY InitInv, NextInv, PTL DEF Spec

-----------------------------------------------------------------------------
(* Every variable keeps its type: in particular the atomic counter stays   *)
(* within size_t, although every worker overshoots the end of the range.   *)
THEOREM TypeCorrect == ASSUME NoWrap PROVE Spec => []TypeOK
BY Invariance, PTL DEF IInv

(* ParallelFor hands no id to fn twice.                                    *)
THEOREM AtMostOnceHolds == ASSUME NoWrap PROVE Spec => []AtMostOnce
<1>1. IInv => AtMostOnce
  BY DEF IInv, FreshInv, AtMostOnce
<1>2. QED BY <1>1, Invariance, PTL

(* A ParallelFor that returns has run its whole range, exactly once.       *)
THEOREM CompleteOnReturnHolds == ASSUME NoWrap PROVE Spec => []CompleteOnReturn
<1>1. IInv => CompleteOnReturn
  <2> SUFFICES ASSUME IInv, outcome = "returned"
               PROVE  /\ \A i \in 0..SizeMax : calls[i] = (IF i \in Ids THEN 1 ELSE 0)
                      /\ lastException = None
    BY DEF CompleteOnReturn
  <2>1. current \in Nat /\ current >= End /\ lastException = None
        /\ \A t \in workers : pc[t] \in {"claim", "exited"}
    BY DEF IInv, OutcomeInv, TypeOK, SequentialInv
  <2>2. \A i \in Ids : calls[i] = 1
    BY <2>1, RangeAssumption DEF IInv, CoverInv, Ids
  <2>3. \A i \in 0..SizeMax : i \notin Ids => calls[i] = 0
    BY DEF IInv, FreshInv
  <2>4. QED BY <2>1, <2>2, <2>3
<1>2. QED BY <1>1, Invariance, PTL

(* Once an exception has been caught, no worker starts another id.         *)
THEOREM StopsAfterExceptionHolds ==
  ASSUME NoWrap PROVE Spec => StopsAfterException
<1>1. ASSUME IInv, [Next]_vars, lastException # None, NEW t \in Threads, pc[t] = "claim"
      PROVE  pc'[t] \in {"claim", "exited"}
  <2>1. ASSUME NEW u \in workers, ~Sequential, Worker(u)
        PROVE  pc'[t] \in {"claim", "exited"}
    <3>1. current >= End
      BY <1>1, <2>1 DEF IInv, CounterInv
    <3>2. QED BY <1>1, <2>1, <3>1 DEF Worker, Claim, Call, Catch, IInv, TypeOK
  <2>2. CASE Join \/ SequentialCall \/ SequentialReturn \/ Terminated \/ UNCHANGED vars
    BY <1>1, <2>2 DEF Join, SequentialCall, SequentialReturn, Terminated, vars
  <2>3. QED BY <1>1, <2>1, <2>2 DEF Next
<1>2. IInv /\ [Next]_vars =>
        [lastException # None =>
           \A t \in Threads : pc[t] = "claim" => pc'[t] \in {"claim", "exited"}]_vars
  BY <1>1
<1>3. QED BY <1>2, Invariance, PTL DEF Spec, StopsAfterException

-----------------------------------------------------------------------------
(* What is left to do: an id ahead of the counter is still to be claimed,  *)
(* called, and perhaps caught; every worker leaves once; then the join.    *)
IdsLeft == IF current >= End THEN 0 ELSE End - current
Working == {t \in workers : pc[t] # "exited"}
Busy    == {t \in workers : pc[t] \in {"call", "catch"}}
Calling == {t \in workers : pc[t] = "call"}
AtWork  == Cardinality(Working) + Cardinality(Busy) + Cardinality(Calling)
ToJoin  == IF outcome = "running" THEN 1 ELSE 0
Left    == 3 * IdsLeft + AtWork + ToJoin

(* Every step of the loop brings it nearer to its end, whoever takes it    *)
(* and whichever calls throw.                                              *)
Progress == [][Left' < Left]_vars

LEMMA IdsLeftRange == ASSUME TypeOK PROVE IdsLeft \in Nat
BY RangeAssumption DEF TypeOK, IdsLeft

LEMMA WorkersCounted ==
  ASSUME NEW A \in SUBSET Threads, NEW B \in SUBSET Threads, NEW C \in SUBSET Threads
  PROVE  /\ Cardinality(A) \in Nat /\ Cardinality(B) \in Nat /\ Cardinality(C) \in Nat
         /\ \A t \in A : Cardinality(A \ {t}) = Cardinality(A) - 1
         /\ \A t \in B : Cardinality(B \ {t}) = Cardinality(B) - 1
         /\ \A t \in C : Cardinality(C \ {t}) = Cardinality(C) - 1
         /\ \A t \in Threads \ B : Cardinality(B \cup {t}) = Cardinality(B) + 1
         /\ \A t \in Threads \ C : Cardinality(C \cup {t}) = Cardinality(C) + 1
<1>1. IsFiniteSet(A) /\ IsFiniteSet(B) /\ IsFiniteSet(C)
  BY ThreadSets
<1> QED
  BY <1>1, FS_CardinalityType, FS_RemoveElement, FS_AddElement

LEMMA LeftType == ASSUME TypeOK PROVE Left \in Nat
<1>1. Working \in SUBSET Threads /\ Busy \in SUBSET Threads /\ Calling \in SUBSET Threads
  BY DEF TypeOK, Working, Busy, Calling
<1>2. AtWork \in Nat
  BY <1>1, WorkersCounted DEF AtWork
<1> QED
  BY <1>2, IdsLeftRange DEF Left, ToJoin

LEMMA ClaimLeft ==
  ASSUME NoWrap, IInv, IInv', NEW t \in workers, ~Sequential, Claim(t)
  PROVE  Left' < Left
<1> USE RangeAssumption
<1>1. /\ TypeOK /\ t \in Threads /\ pc[t] = "claim" /\ current \in Nat /\ End \in Nat
      /\ pc' = [pc EXCEPT ![t] = IF current >= End THEN "exited" ELSE "call"]
      /\ UNCHANGED <<workers, outcome>>
  BY DEF IInv, TypeOK, Claim
<1>2. Working \in SUBSET Threads /\ Busy \in SUBSET Threads /\ Calling \in SUBSET Threads
  BY <1>1 DEF TypeOK, Working, Busy, Calling
<1>3. current' = current + 1
  <2>1. Cardinality(Exited) \in Nat /\ Cardinality(Exited) < Cardinality(Threads)
        /\ Cardinality(Threads) \in Nat
    <3>1. Exited \in SUBSET Threads /\ Exited # Threads
      BY <1>1 DEF Exited, TypeOK
    <3> QED
      BY <3>1, ThreadSets
  <2>2. current < SizeMax
    BY <1>1, <2>1 DEF IInv, CounterInv, NoWrap
  <2> QED
    BY <1>1, <2>2 DEF Claim, Increment
<1>4. ToJoin' = ToJoin /\ ToJoin \in Nat
  BY <1>1 DEF ToJoin
<1>5. CASE current >= End
  <2>1. IdsLeft = 0 /\ IdsLeft' = 0
    BY <1>1, <1>3, <1>5 DEF IdsLeft
  <2>2. Working' = Working \ {t} /\ t \in Working /\ Busy' = Busy /\ Calling' = Calling
    BY <1>1, <1>5 DEF Working, Busy, Calling, TypeOK
  <2>3. AtWork' = AtWork - 1 /\ AtWork \in Nat
    BY <1>2, <2>2, WorkersCounted DEF AtWork
  <2> QED
    BY <1>4, <2>1, <2>3 DEF Left
<1>6. CASE current < End
  <2>1. IdsLeft = End - current /\ IdsLeft' = IdsLeft - 1 /\ IdsLeft \in Nat
    BY <1>1, <1>3, <1>6 DEF IdsLeft
  <2>2. /\ Working' = Working
        /\ Busy' = Busy \cup {t} /\ t \notin Busy
        /\ Calling' = Calling \cup {t} /\ t \notin Calling
    BY <1>1, <1>6 DEF Working, Busy, Calling, TypeOK
  <2>3. AtWork' = AtWork + 2 /\ AtWork \in Nat
    BY <1>1, <1>2, <2>2, WorkersCounted DEF AtWork
  <2> QED
    BY <1>4, <2>1, <2>3 DEF Left
<1> QED
  BY <1>1, <1>5, <1>6

LEMMA CallLeft ==
  ASSUME IInv, NEW t \in workers, Call(t) \/ Catch(t)
  PROVE  Left' < Left
<1> USE RangeAssumption
<1>1. /\ TypeOK /\ t \in Threads /\ pc[t] \in {"call", "catch"} /\ UNCHANGED <<workers, outcome>>
  BY DEF IInv, TypeOK, Call, Catch
<1>2. Working \in SUBSET Threads /\ Busy \in SUBSET Threads /\ Calling \in SUBSET Threads
  BY <1>1 DEF TypeOK, Working, Busy, Calling
<1>3. ToJoin' = ToJoin /\ ToJoin \in Nat /\ IdsLeft \in Nat
  BY <1>1, IdsLeftRange DEF ToJoin
<1>4. CASE Call(t)
  <2>1. PICK next \in {"claim", "catch"} : pc' = [pc EXCEPT ![t] = next]
    BY <1>4 DEF Call
  <2>2. pc[t] = "call" /\ IdsLeft' = IdsLeft
    BY <1>4 DEF Call, IdsLeft
  <2>3. /\ Working' = Working
        /\ Busy' = Busy \ {t} \/ Busy' = Busy
        /\ t \in Busy /\ Calling' = Calling \ {t} /\ t \in Calling
    BY <1>1, <2>1, <2>2 DEF Working, Busy, Calling, TypeOK
  <2>4. AtWork' < AtWork /\ AtWork \in Nat /\ AtWork' \in Nat
    <3>1. /\ Cardinality(Working) \in Nat /\ Cardinality(Busy) \in Nat /\ Cardinality(Calling) \in Nat
          /\ Cardinality(Busy \ {t}) = Cardinality(Busy) - 1
          /\ Cardinality(Calling \ {t}) = Cardinality(Calling) - 1
      BY <1>2, <2>3, WorkersCounted
    <3>2. Cardinality(Busy \ {t}) \in Nat /\ Cardinality(Calling \ {t}) \in Nat
      <4>1. Busy \ {t} \in SUBSET Threads /\ Calling \ {t} \in SUBSET Threads
        BY <1>2
      <4> QED
        BY <1>2, <4>1, WorkersCounted
    <3> DEFINE w == Cardinality(Working)
               b == Cardinality(Busy)
               c == Cardinality(Calling)
               d == Cardinality(Busy)'
    <3>3. AtWork = w + b + c /\ AtWork' = w + d + (c - 1)
      BY <2>3, <3>1 DEF AtWork
    <3>4. /\ w \in Nat /\ b \in Nat /\ c \in Nat /\ c - 1 \in Nat
          /\ d \in {b, b - 1} /\ d \in Nat
      BY <2>3, <3>1, <3>2
    <3> HIDE DEF w, b, c, d
    <3> QED
      BY <3>3, <3>4
  <2> DEFINE a == AtWork
             e == AtWork'
             i == IdsLeft
             j == ToJoin
  <2>5. Left = 3 * i + a + j /\ Left' = 3 * i + e + j
    BY <1>3, <2>2 DEF Left
  <2>6. a \in Nat /\ e \in Nat /\ e < a /\ i \in Nat /\ j \in Nat
    BY <1>3, <2>4
  <2> HIDE DEF a, e, i, j
  <2> QED
    BY <2>5, <2>6
<1>5. CASE Catch(t)
  <2>1. pc[t] = "catch" /\ pc' = [pc EXCEPT ![t] = "exited"] /\ current' = End
    BY <1>5 DEF Catch
  <2>2. IdsLeft' = 0
    BY <2>1 DEF IdsLeft
  <2>3. /\ Working' = Working \ {t} /\ t \in Working
        /\ Busy' = Busy \ {t} /\ t \in Busy /\ Calling' = Calling
    BY <1>1, <2>1 DEF Working, Busy, Calling, TypeOK
  <2>4. AtWork' = AtWork - 2 /\ AtWork \in Nat
    <3>1. /\ Cardinality(Working) \in Nat /\ Cardinality(Busy) \in Nat /\ Cardinality(Calling) \in Nat
          /\ Cardinality(Working \ {t}) = Cardinality(Working) - 1
          /\ Cardinality(Busy \ {t}) = Cardinality(Busy) - 1
      BY <1>2, <2>3, WorkersCounted
    <3>2. AtWork' = Cardinality(Working \ {t}) + Cardinality(Busy \ {t}) + Cardinality(Calling)
      BY <2>3 DEF AtWork
    <3> QED
      BY <3>1, <3>2 DEF AtWork
  <2> QED
    BY <1>3, <2>2, <2>4 DEF Left
<1> QED
  BY <1>4, <1>5

LEMMA CallerLeft ==
  ASSUME IInv, Join \/ SequentialCall \/ SequentialReturn
  PROVE  Left' < Left
<1> USE RangeAssumption
<1>1. TypeOK /\ UNCHANGED <<workers, pc>> /\ outcome = "running"
  BY DEF IInv, Join, SequentialCall, SequentialReturn
<1>2. Working \in SUBSET Threads /\ Busy \in SUBSET Threads /\ Calling \in SUBSET Threads
  BY <1>1 DEF TypeOK, Working, Busy, Calling
<1>3. AtWork' = AtWork /\ AtWork \in Nat
  BY <1>1, <1>2, WorkersCounted DEF AtWork, Working, Busy, Calling
<1>4. IdsLeft \in Nat /\ ToJoin = 1
  BY <1>1, IdsLeftRange DEF ToJoin
<1>5. CASE current' = current /\ outcome' # "running"
  <2>1. IdsLeft' = IdsLeft /\ ToJoin' = 0
    BY <1>5 DEF IdsLeft, ToJoin
  <2> QED
    BY <1>3, <1>4, <2>1 DEF Left
<1>6. CASE current < End /\ current' = Increment(current) /\ outcome' = outcome
  <2>1. current' = current + 1 /\ current \in Nat
    BY <1>1, <1>6 DEF Increment, TypeOK
  <2>2. IdsLeft' = IdsLeft - 1 /\ ToJoin' = ToJoin
    BY <1>6, <2>1 DEF IdsLeft, ToJoin
  <2> QED
    BY <1>3, <1>4, <2>2 DEF Left
<1> QED
  BY <1>1, <1>5, <1>6 DEF Join, SequentialCall, SequentialReturn

(* A ParallelFor is bounded: each of its steps lowers a natural number, so *)
(* there are no more of them than ids and workers allow.                   *)
THEOREM ProgressHolds == ASSUME NoWrap PROVE Spec => [](Left \in Nat) /\ Progress
<1>1. IInv => Left \in Nat
  BY LeftType DEF IInv
<1>2. ASSUME IInv, IInv', [Next]_vars PROVE [Left' < Left]_vars
  <2>1. ASSUME NEW t \in workers, ~Sequential, Worker(t) PROVE Left' < Left
    BY <1>2, <2>1, ClaimLeft, CallLeft DEF Worker
  <2>2. Terminated => UNCHANGED vars
    BY DEF Terminated
  <2> QED
    BY <1>2, <2>1, <2>2, CallerLeft DEF Next
<1> QED
  BY <1>1, <1>2, Invariance, PTL DEF Spec, Progress

-----------------------------------------------------------------------------
(* A call has thrown: the exception is on its way to be recorded, or has   *)
(* been.                                                                   *)
Thrown == lastException # None \/ \E t \in workers : pc[t] = "catch"

(* No exception is swallowed: once a call of fn has thrown, the loop never *)
(* returns as if all were well. (That it ends at all is ExceptionReported.)*)
NothingSwallowed == Thrown => [](outcome # "returned")

LEMMA ThrownStays ==
  ASSUME IInv, [Next]_vars, Thrown
  PROVE  Thrown'
<1>0. TypeOK
  BY DEF IInv
<1>1. ASSUME NEW u \in workers, ~Sequential, Worker(u) PROVE Thrown'
  <2>1. workers' = workers
    BY <1>1 DEF Worker, Claim, Call, Catch
  <2>2. CASE Catch(u)
    <3>1. lastException' = item[u] /\ item[u] \in 0..SizeMax
      BY <1>0, <2>2 DEF Catch, TypeOK
    <3>2. item[u] # None
      BY <3>1, NoneAssumption
    <3> QED
      BY <3>1, <3>2 DEF Thrown
  <2>3. CASE Claim(u) \/ Call(u)
    <3>1. lastException' = lastException
      BY <2>3 DEF Claim, Call
    <3>2. \A t \in workers : pc[t] = "catch" => pc'[t] = "catch"
      BY <1>0, <2>3 DEF Claim, Call, TypeOK
    <3> QED
      BY <2>1, <3>1, <3>2 DEF Thrown
  <2> QED
    BY <1>1, <2>2, <2>3 DEF Worker
<1>2. CASE SequentialCall
  <2>1. current # None /\ UNCHANGED <<workers, pc>>
    BY <1>0, <1>2, NoneAssumption DEF SequentialCall, TypeOK
  <2> QED
    BY <1>2, <2>1 DEF SequentialCall, Thrown
<1>3. CASE Join \/ SequentialReturn \/ Terminated \/ UNCHANGED vars
  BY <1>3 DEF Join, SequentialReturn, Terminated, vars, Thrown
<1> QED
  BY <1>1, <1>2, <1>3 DEF Next

(* Whatever other workers do in the meantime, an exception that a call has *)
(* thrown is what the caller gets: the loop does not return normally.      *)
THEOREM NothingSwallowedHolds == ASSUME NoWrap PROVE Spec => []NothingSwallowed
<1>1. IInv /\ Thrown => outcome # "returned"
  <2> SUFFICES ASSUME IInv, Thrown, outcome = "returned" PROVE FALSE
    OBVIOUS
  <2>1. lastException = None /\ \A t \in workers : pc[t] \in {"claim", "exited"}
    BY DEF IInv, OutcomeInv, SequentialInv
  <2> QED
    BY <2>1 DEF Thrown
<1>2. IInv /\ [Next]_vars /\ Thrown => Thrown'
  BY ThrownStays
<1> QED
  BY <1>1, <1>2, Invariance, PTL DEF Spec, NothingSwallowed
=============================================================================
