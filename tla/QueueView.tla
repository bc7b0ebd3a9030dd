------------------------------- MODULE QueueView -------------------------------
(***************************************************************************)
(* What the queue-info job and its storage promise the calculations: a     *)
(* view of the withdrawal queue that is replaced as a whole.  A view is an *)
(* interval of ids the queue really had, its last id never goes back, and, *)
(* unless the view says that it is inexact, it leaves out no request that  *)
(* is still to be finalized.  QueueInfo implements it.                     *)
(***************************************************************************)
EXTENDS Integers

CONSTANT MaxRequest

VARIABLES chainLast, chainFinalized,
          view           \* NoView, or what the storage shows

NoView == [shown |-> FALSE, ids |-> {}, last |-> 0, exact |-> TRUE]

vars == <<chainLast, chainFinalized, view>>

Init ==
  /\ chainLast \in 0..MaxRequest /\ chainFinalized \in 0..chainLast
  /\ view = NoView

Place == /\ chainLast < MaxRequest /\ chainLast' = chainLast + 1
         /\ UNCHANGED <<chainFinalized, view>>

Finalize == /\ \E id \in chainFinalized + 1 .. chainLast : chainFinalized' = id
            /\ UNCHANGED <<chainLast, view>>

\* A tick publishes: from the id first to the id last.
Show ==
  \E last \in view.last..chainLast, first \in 1..chainLast + 1, exact \in BOOLEAN :
    /\ first <= last + 1
    /\ exact => first <= chainFinalized + 1
    /\ view' = [shown |-> TRUE, ids |-> first..last, last |-> last, exact |-> exact]
    /\ UNCHANGED <<chainLast, chainFinalized>>

\* The process restarts.
Forget == view' = NoView /\ UNCHANGED <<chainLast, chainFinalized>>

Next == Place \/ Finalize \/ Show \/ Forget

Spec == Init /\ [][Next]_vars
=============================================================================
