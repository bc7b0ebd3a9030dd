------------------------------ MODULE FreshBlock ------------------------------
(***************************************************************************)
(* What the block-state cache promises its callers, without its caches:    *)
(* a question is answered at most once, with the reference block or the    *)
(* head itself of some head that was current no longer than TTL before the *)
(* question.  BlockState implements it.                                    *)
(***************************************************************************)
EXTENDS Integers, Sequences

CONSTANTS Clients, TTL, MaxBlock

Submitted == 0
Missed    == -1
None      == 0

VARIABLES ref, window,     \* the chain and the heads of the last TTL ticks
          asking,          \* per client: its question is open
          served, floor    \* per client: the answer, the oldest head it may be of

vars == <<ref, window, asking, served, floor>>

\* The answers that are fresh for a question whose floor is the head from.
FreshBlocks(from) ==
  UNION {{h} \cup ({ref[h]} \ {Submitted, Missed}) : h \in from..Len(ref)}

Init ==
  /\ ref \in {<<Submitted>>, <<Missed>>}
  /\ window = [k \in 0..TTL - 1 |-> 1]
  /\ asking = [c \in Clients |-> FALSE]
  /\ served = [c \in Clients |-> None] /\ floor = [c \in Clients |-> 1]

NewBlock ==
  /\ Len(ref) < MaxBlock
  /\ \E r \in {Submitted, Missed, Len(ref), ref[Len(ref)]} : ref' = Append(ref, r)
  /\ UNCHANGED <<window, asking, served, floor>>

Tick ==
  /\ window' = [k \in 0..TTL - 1 |-> IF k = 0 THEN Len(ref) ELSE window[k - 1]]
  /\ UNCHANGED <<ref, asking, served, floor>>

\* A question comes and is answered at once or stays open.
Ask(c) ==
  /\ ~asking[c]
  /\ floor' = [floor EXCEPT ![c] = window[TTL - 1]]
  /\ \/ \E b \in FreshBlocks(window[TTL - 1]) : served' = [served EXCEPT ![c] = b]
        /\ UNCHANGED asking
     \/ served' = [served EXCEPT ![c] = None] /\ asking' = [asking EXCEPT ![c] = TRUE]
  /\ UNCHANGED <<ref, window>>

Answer(c) ==
  /\ asking[c] /\ asking' = [asking EXCEPT ![c] = FALSE]
  /\ \E b \in FreshBlocks(floor[c]) : served' = [served EXCEPT ![c] = b]
  /\ UNCHANGED <<ref, window, floor>>

\* A read failed: the question ends without an answer.
Reject(c) ==
  /\ asking[c] /\ asking' = [asking EXCEPT ![c] = FALSE]
  /\ UNCHANGED <<ref, window, served, floor>>

Next == NewBlock \/ Tick \/ \E c \in Clients : Ask(c) \/ Answer(c) \/ Reject(c)

Spec == Init /\ [][Next]_vars
=============================================================================
