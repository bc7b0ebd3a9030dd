----------------------- MODULE SecretsRotation_proofs -----------------------
(***************************************************************************)
(* The restart on a rotation of secrets for every number of changes and of *)
(* failed reads, whenever the first change comes.                          *)
(***************************************************************************)
EXTENDS SecretsRotation, TLAPS

(***************************************************************************)
(* The inductive invariant.                                                *)
(***************************************************************************)
\* Every call of the listener is due to a change the watcher has seen.
CallsAreSeen == listeners <= seen + 1 /\ seen <= stat

\* Only the content that made the process end is newer than its own.
EndsForLast == phase = "closing" => sourced < lastContent

ClosingIsCounted == closes = IF phase = "closing" THEN 1 ELSE 0

IInv == TypeOK /\ CallsAreSeen /\ EndsForLast /\ ClosingIsCounted

LEMMA IInvIsProperty ==
  ASSUME IInv PROVE RestartsForNewSecrets /\ ClosesOnce
  BY DEF IInv, TypeOK, EndsForLast, ClosingIsCounted, RestartsForNewSecrets, ClosesOnce, NoStat, Missing

LEMMA InitIInv == Init => IInv
  BY SecretsConstants
  DEF Init, IInv, TypeOK, CallsAreSeen, EndsForLast, ClosingIsCounted, NoStat, Missing

(***************************************************************************)
(* One lemma per actor.                                                    *)
(***************************************************************************)
\* The sidecar never takes newer secrets back.
LEMMA SidecarKeeps ==
  ASSUME IInv, Rotate \/ Rewrite \/ Delete
  PROVE  IInv'
<1> USE SecretsConstants DEF NoStat, Missing
<1>1. /\ UNCHANGED <<process, explicit, faults>> /\ early' \in 0..stat'
      /\ stat' \in 0..MaxChanges /\ stat' = stat + 1
  BY DEF IInv, TypeOK, Rotate, Rewrite, Replace, Delete, Change
<1>2. newest' \in 0..stat' /\ newest' >= newest /\ content' \in {Missing, newest'}
  BY DEF IInv, TypeOK, Rotate, Rewrite, Replace, Delete, Change
<1>3. TypeOK'
  BY <1>1, <1>2 DEF IInv, TypeOK, process
<1>4. CallsAreSeen' /\ EndsForLast' /\ ClosingIsCounted'
  BY <1>1 DEF IInv, TypeOK, process, CallsAreSeen, EndsForLast, ClosingIsCounted
<1> QED
  BY <1>3, <1>4 DEF IInv

LEMMA StartAgainKeeps ==
  ASSUME IInv, StartAgain
  PROVE  IInv'
<1> USE SecretsConstants DEF NoStat, Missing
<1>1. TypeOK'
  BY DEF IInv, TypeOK, StartAgain, file
<1>2. CallsAreSeen' /\ EndsForLast' /\ ClosingIsCounted'
  BY DEF IInv, TypeOK, StartAgain, file, CallsAreSeen, EndsForLast, ClosingIsCounted
<1> QED
  BY <1>1, <1>2 DEF IInv

LEMMA RegisterKeeps ==
  ASSUME IInv, Register \/ FailToRegister
  PROVE  IInv'
<1> USE SecretsConstants DEF NoStat, Missing
<1>1. TypeOK'
  BY DEF IInv, TypeOK, Register, FailToRegister, file
<1>2. CallsAreSeen' /\ EndsForLast' /\ ClosingIsCounted'
  BY DEF IInv, TypeOK, Register, FailToRegister, file, CallsAreSeen, EndsForLast, ClosingIsCounted
<1> QED
  BY <1>1, <1>2 DEF IInv

\* A poll sees at least one change and makes at most one call due.
LEMMA PollKeeps ==
  ASSUME IInv, Poll
  PROVE  IInv'
<1> USE SecretsConstants DEF NoStat, Missing
<1>1. UNCHANGED <<file, phase, sourced, lastContent, closes, closeHangs, explicit, faults, early>>
      /\ seen' = stat /\ seen # stat
      /\ listeners' \in {listeners, listeners + 1}
  BY DEF IInv, TypeOK, Poll
<1>2. listeners' <= stat + 1 /\ listeners' \in 0..MaxChanges + 1
  BY <1>1 DEF IInv, TypeOK, CallsAreSeen
<1>3. TypeOK'
  BY <1>1, <1>2 DEF IInv, TypeOK, file
<1>4. CallsAreSeen' /\ EndsForLast' /\ ClosingIsCounted'
  BY <1>1, <1>2 DEF IInv, TypeOK, file, CallsAreSeen, EndsForLast, ClosingIsCounted
<1> QED
  BY <1>3, <1>4 DEF IInv

\* A read that ends the process has found the newest secrets.
LEMMA ListenKeeps ==
  ASSUME IInv, Listen
  PROVE  IInv'
<1> USE SecretsConstants DEF NoStat, Missing
<1>1. UNCHANGED <<file, sourced, seen, closeHangs, explicit, early>> /\ listeners > 0
  BY DEF Listen
<1>2. CASE Read
  <2>1. CASE content = lastContent
    <3>1. TypeOK'
      BY <1>1, <1>2, <2>1 DEF IInv, TypeOK, Read, file
    <3>2. CallsAreSeen' /\ EndsForLast' /\ ClosingIsCounted'
      BY <1>1, <1>2, <2>1 DEF IInv, TypeOK, Read, file, CallsAreSeen, EndsForLast, ClosingIsCounted
    <3> QED
      BY <3>1, <3>2 DEF IInv
  <2>2. CASE content # lastContent
    <3>1. lastContent' = newest /\ sourced < newest /\ listeners' = listeners - 1 /\ faults' = faults
      BY <1>2, <2>2 DEF IInv, TypeOK, Read
    <3>2. phase' = "closing" /\ closes' = 1
      BY <1>2, <2>2 DEF IInv, TypeOK, ClosingIsCounted, Read, Restart
    <3>3. TypeOK'
      BY <1>1, <3>1, <3>2 DEF IInv, TypeOK, file
    <3>4. CallsAreSeen' /\ EndsForLast' /\ ClosingIsCounted'
      BY <1>1, <3>1, <3>2 DEF IInv, TypeOK, file, CallsAreSeen, EndsForLast, ClosingIsCounted
    <3> QED
      BY <3>3, <3>4 DEF IInv
  <2> QED
    BY <2>1, <2>2
<1>3. CASE Retry
  <2>1. TypeOK'
    BY <1>1, <1>3 DEF IInv, TypeOK, Retry, ReadFails, file
  <2>2. CallsAreSeen' /\ EndsForLast' /\ ClosingIsCounted'
    BY <1>1, <1>3 DEF IInv, TypeOK, Retry, file, CallsAreSeen, EndsForLast, ClosingIsCounted
  <2> QED
    BY <2>1, <2>2 DEF IInv
<1> QED
  BY <1>2, <1>3 DEF Listen

LEMMA NextIInv == IInv /\ [Next]_vars => IInv'
<1> SUFFICES ASSUME IInv, [Next]_vars PROVE IInv'
  OBVIOUS
<1>1. CASE Rotate \/ Rewrite \/ Delete
  BY <1>1, SidecarKeeps
<1>2. CASE Register \/ FailToRegister
  BY <1>2, RegisterKeeps
<1>3. CASE Poll
  BY <1>3, PollKeeps
<1>4. CASE Listen
  BY <1>4, ListenKeeps
<1>5. CASE Exit
  BY <1>5, StartAgainKeeps DEF Exit
<1>6. CASE UNCHANGED vars
  BY <1>6 DEF IInv, TypeOK, CallsAreSeen, EndsForLast, ClosingIsCounted, vars, file, process
<1> QED
  BY <1>1, <1>2, <1>3, <1>4, <1>5, <1>6 DEF Next

(***************************************************************************)
(* The theorems.                                                           *)
(***************************************************************************)
\* The file, the process and its watcher are well typed; the calls of the
\* listener are bounded by the changes, whatever fails.
THEOREM TypeCorrect == Spec => []TypeOK
<1>1. IInv => TypeOK
  BY DEF IInv
<1> QED
  BY InitIInv, NextIInv, <1>1, PTL DEF Spec

\* The process ends itself for secrets newer than its own only.
THEOREM EndsForNewerOnly == Spec => []RestartsForNewSecrets
<1>1. IInv => RestartsForNewSecrets
  BY IInvIsProperty
<1> QED
  BY InitIInv, NextIInv, <1>1, PTL DEF Spec

\* Whatever the watcher and the retries report during a shutdown, the application
\* is closed once.
THEOREM ClosedAtMostOnce == Spec => []ClosesOnce
<1>1. IInv => ClosesOnce
  BY IInvIsProperty
<1> QED
  BY InitIInv, NextIInv, <1>1, PTL DEF Spec
=============================================================================
