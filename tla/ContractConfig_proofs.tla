------------------------ MODULE ContractConfig_proofs ------------------------
(***************************************************************************)
(* The contract-config job and the schedule it hands on, for every number  *)
(* of changes and faults, every frame configuration and every length of a  *)
(* day.                                                                    *)
(***************************************************************************)
EXTENDS ContractConfig, FiniteSetTheorems, TLAPS

(***************************************************************************)
(* The job.                                                                *)
(***************************************************************************)
Keys == {"frame", "vebo", "limits", "probe", "target"}

JobTypes ==
  /\ chain \in [{"frame", "vebo", "limits", "target"} -> Nat]
  /\ pc \in [Callers -> {"idle", "block", "reading"}]
  /\ read \in [Callers -> [Keys -> Int]]
  /\ \A f \in Fields : stored[f] \in Int

\* At most one caller is in an execution, and the lock is taken for it.
Exclusive ==
  \A c \in Callers :
    pc[c] # "idle" => locked /\ \A d \in Callers : pc[d] # "idle" => d = c

\* What an execution has read is not older than what is stored.
ReadsAreNewer ==
  /\ \A f \in Fields : stored[f] <= chain[f]
  /\ \A c \in Callers : \A f \in Fields :
       pc[c] = "reading" /\ read[c][f] # Unread
         => stored[f] <= read[c][f] /\ read[c][f] <= chain[f]

\* A reserve that is stored has been latched, and an execution begun since then
\* has its answer from the latch.
SupportIsLatched ==
  /\ stored.supports => latched
  /\ \A c \in Callers : pc[c] = "reading" =>
       /\ read[c]["probe"] = 1 => latched
       /\ stored.supports => read[c]["probe"] = 1

JobInv == JobTypes /\ Exclusive /\ ReadsAreNewer /\ SupportIsLatched

\* What the invariant is about.
job == <<chain, latched, stored, locked, pc, read>>

LEMMA JobInvUnchanged ==
  ASSUME JobInv, UNCHANGED job PROVE JobInv'
  BY DEF JobInv, JobTypes, Exclusive, ReadsAreNewer, SupportIsLatched, job

LEMMA NothingIsUnread == Nothing \in [Keys -> Int] /\ \A k \in Keys : Nothing[k] = Unread
  BY DEF Nothing, Keys, Fields, Unread

LEMMA UnsetIsOld ==
  /\ \A f \in Fields : Unset[f] = Unread
  /\ ~Unset.supports
  BY DEF Unset, Fields, Unread

LEMMA InitJob == Init => JobInv
<1> SUFFICES ASSUME Init PROVE JobInv
  OBVIOUS
<1>1. JobTypes
  BY NothingIsUnread, UnsetIsOld DEF Init, JobTypes, Fields, Callers, Unread
<1>2. Exclusive
  BY DEF Init, Exclusive, Callers
<1>3. ReadsAreNewer
  BY UnsetIsOld DEF Init, ReadsAreNewer, Fields, Callers, Unread
<1>4. SupportIsLatched
  BY UnsetIsOld DEF Init, SupportIsLatched, Callers
<1> QED
  BY <1>1, <1>2, <1>3, <1>4 DEF JobInv

(***************************************************************************)
(* One lemma per step of the job.                                          *)
(***************************************************************************)
\* A contract changes: what was read of it stays older.
LEMMA ChangeKeepsJob ==
  ASSUME JobInv, NEW f \in DOMAIN chain, Change(f)
  PROVE  JobInv'
<1>1. UNCHANGED <<latched, stored, locked, pc, read>>
  BY DEF Change, reader, locals
<1>2. /\ chain' \in [{"frame", "vebo", "limits", "target"} -> Nat]
      /\ \A g \in Fields : chain[g] \in Int /\ chain'[g] \in Int /\ chain[g] <= chain'[g]
  <2>1. chain \in [{"frame", "vebo", "limits", "target"} -> Nat]
    BY DEF JobInv, JobTypes
  <2>2. chain' = [chain EXCEPT ![f] = chain[f] + 1]
    BY DEF Change
  <2> QED
    BY <2>1, <2>2 DEF Fields
<1>3. JobTypes' /\ Exclusive' /\ SupportIsLatched'
  BY <1>1, <1>2 DEF JobInv, JobTypes, Exclusive, SupportIsLatched
<1>4. \A g \in Fields : stored[g] \in Int /\ \A c \in Callers : read[c][g] \in Int
  BY DEF JobInv, JobTypes, Fields, Keys
<1>5. ReadsAreNewer'
  <2>1. ASSUME NEW g \in Fields PROVE stored'[g] <= chain'[g]
    BY <1>1, <1>2, <1>4 DEF JobInv, ReadsAreNewer
  <2>2. ASSUME NEW c \in Callers, NEW g \in Fields, pc'[c] = "reading", read'[c][g] # Unread
        PROVE  stored'[g] <= read'[c][g] /\ read'[c][g] <= chain'[g]
    <3>1. stored[g] <= read[c][g] /\ read[c][g] <= chain[g]
      BY <1>1, <2>2 DEF JobInv, ReadsAreNewer
    <3> QED
      BY <1>1, <1>2, <1>4, <3>1
  <2> QED
    BY <2>1, <2>2 DEF ReadsAreNewer
<1> QED
  BY <1>3, <1>5 DEF JobInv

\* The lock was free, so nobody is in an execution.
LEMMA StartKeepsJob ==
  ASSUME JobInv, NEW c \in Callers, Start(c), UNCHANGED <<chain, latched, stored, read>>
  PROVE  JobInv'
<1>1. \A d \in Callers : pc[d] = "idle"
  BY DEF Start, JobInv, Exclusive
<1>2. pc' \in [Callers -> {"idle", "block", "reading"}] /\ locked'
  BY DEF Start, JobInv, JobTypes
<1>3. \A d \in Callers : pc'[d] = IF d = c THEN "block" ELSE "idle"
  BY <1>1 DEF Start, JobInv, JobTypes
<1>4. JobTypes' /\ Exclusive'
  BY <1>2, <1>3 DEF JobInv, JobTypes, Exclusive
<1>5. ReadsAreNewer' /\ SupportIsLatched'
  BY <1>3 DEF JobInv, ReadsAreNewer, SupportIsLatched
<1> QED
  BY <1>4, <1>5 DEF JobInv

\* Promise.all begins: no field is read, the latch answers for the probe.
LEMMA ReadBlockKeepsJob ==
  ASSUME JobInv, NEW c \in Callers, ReadBlock(c)
  PROVE  JobInv'
<1> DEFINE fresh == read'[c]
<1>1. UNCHANGED <<chain, latched, stored, locked>> /\ pc[c] = "block"
  BY DEF ReadBlock, contracts, reader
<1>2. /\ pc' \in [Callers -> {"idle", "block", "reading"}]
      /\ \A d \in Callers \ {c} : pc'[d] = pc[d]
  BY DEF ReadBlock, JobInv, JobTypes
<1>3. \A d \in Callers \ {c} : pc[d] = "idle"
  BY <1>1 DEF JobInv, Exclusive
<1>4. /\ fresh \in [Keys -> Int]
      /\ \A f \in Fields : fresh[f] = Unread
      /\ fresh["probe"] = IF latched THEN 1 ELSE Unread
  <2> DEFINE p == IF latched THEN 1 ELSE Unread
             t == IF wasKnown[c] THEN Unread ELSE 0
  <2>1. fresh = [Nothing EXCEPT !.probe = p, !.target = t]
    BY DEF ReadBlock, JobInv, JobTypes
  <2>2. p \in Int /\ t \in Int
    BY DEF Unread
  <2>3. \A f \in Fields : f \in Keys /\ f # "probe" /\ f # "target" /\ Nothing[f] = Unread
    BY NothingIsUnread DEF Keys, Fields
  <2> HIDE DEF p, t
  <2>4. fresh \in [Keys -> Int] /\ fresh["probe"] = p /\ \A f \in Fields : fresh[f] = Nothing[f]
    BY <2>1, <2>2, <2>3, NothingIsUnread DEF Keys
  <2> QED
    BY <2>3, <2>4 DEF p
<1>5. \A d \in Callers \ {c} : read'[d] = read[d]
  BY DEF ReadBlock, JobInv, JobTypes
<1>6. read' \in [Callers -> [Keys -> Int]]
  BY <1>4 DEF ReadBlock, JobInv, JobTypes
<1>7. JobTypes' /\ Exclusive'
  BY <1>1, <1>2, <1>3, <1>6 DEF JobInv, JobTypes, Exclusive
<1>8. ReadsAreNewer'
  BY <1>1, <1>2, <1>3, <1>4 DEF JobInv, ReadsAreNewer
<1>9. SupportIsLatched'
  BY <1>1, <1>2, <1>3, <1>4 DEF JobInv, SupportIsLatched, Unread
<1> QED
  BY <1>7, <1>8, <1>9 DEF JobInv

\* What an answer changes.
LEMMA AnswerEffect ==
  ASSUME JobInv, NEW c \in Callers, NEW k \in Keys, NEW v \in Int, Answer(c, k, v)
  PROVE  /\ pc[c] = "reading" /\ read[c][k] = Unread
         /\ read' \in [Callers -> [Keys -> Int]]
         /\ read'[c][k] = v
         /\ \A d \in Callers : \A j \in Keys :
              <<d, j>> # <<c, k>> => read'[d][j] = read[d][j]
  BY DEF Answer, JobInv, JobTypes

LEMMA ReadFieldKeepsJob ==
  ASSUME JobInv, NEW c \in Callers, NEW f \in Fields, ReadField(c, f)
  PROVE  JobInv'
<1>1. f \in Keys /\ chain[f] \in Int /\ stored[f] <= chain[f]
  BY DEF JobInv, JobTypes, ReadsAreNewer, Fields, Keys
<1>2. UNCHANGED <<chain, latched, stored, locked, pc>> /\ Answer(c, f, chain[f])
  BY DEF ReadField, contracts, reader
<1>3. /\ pc[c] = "reading"
      /\ read' \in [Callers -> [Keys -> Int]] /\ read'[c][f] = chain[f]
      /\ \A d \in Callers : \A j \in Keys : <<d, j>> # <<c, f>> => read'[d][j] = read[d][j]
  BY <1>1, <1>2, AnswerEffect
<1>4. JobTypes' /\ Exclusive'
  BY <1>2, <1>3 DEF JobInv, JobTypes, Exclusive
<1>5. ReadsAreNewer'
  <2>1. \A g \in Fields : g \in Keys
    BY DEF Fields, Keys
  <2>2. \A g \in Fields : stored'[g] <= chain'[g]
    BY <1>2 DEF JobInv, ReadsAreNewer
  <2>3. ASSUME NEW d \in Callers, NEW g \in Fields, pc'[d] = "reading", read'[d][g] # Unread
        PROVE  stored'[g] <= read'[d][g] /\ read'[d][g] <= chain'[g]
    <3>1. CASE <<d, g>> = <<c, f>>
      BY <1>1, <1>2, <1>3, <3>1
    <3>2. CASE <<d, g>> # <<c, f>>
      <4>1. read'[d][g] = read[d][g]
        BY <1>3, <2>1, <3>2
      <4> QED
        BY <1>2, <2>3, <4>1 DEF JobInv, ReadsAreNewer
    <3> QED
      BY <3>1, <3>2
  <2> QED
    BY <2>2, <2>3 DEF ReadsAreNewer
<1>6. \A d \in Callers : read'[d]["probe"] = read[d]["probe"]
  BY <1>3 DEF Fields, Keys
<1>7. SupportIsLatched'
  BY <1>2, <1>6 DEF JobInv, SupportIsLatched
<1> QED
  BY <1>4, <1>5, <1>7 DEF JobInv

\* Neither the target nor the probe is a field.
LEMMA OtherReadKeepsFields ==
  ASSUME JobInv, NEW c \in Callers, NEW k \in {"probe", "target"}, NEW v \in Int,
         Answer(c, k, v), UNCHANGED <<chain, stored, locked, pc>>
  PROVE  JobTypes' /\ Exclusive' /\ ReadsAreNewer'
<1>1. k \in Keys /\ k \notin Fields
  BY DEF Keys, Fields
<1>2. read' \in [Callers -> [Keys -> Int]]
  BY <1>1, AnswerEffect
<1>3. \A d \in Callers : \A g \in Fields : read'[d][g] = read[d][g]
  <2>1. \A g \in Fields : g \in Keys /\ g # k
    BY <1>1 DEF Fields, Keys
  <2>2. \A d \in Callers : \A j \in Keys : <<d, j>> # <<c, k>> => read'[d][j] = read[d][j]
    BY <1>1, AnswerEffect
  <2> QED
    BY <2>1, <2>2
<1>4. JobTypes' /\ Exclusive'
  BY <1>2 DEF JobInv, JobTypes, Exclusive
<1>5. ReadsAreNewer'
  BY <1>3 DEF JobInv, ReadsAreNewer
<1> QED
  BY <1>4, <1>5

LEMMA ReadTargetKeepsJob ==
  ASSUME JobInv, NEW c \in Callers, Answer(c, "target", pinned[c]) \/ Answer(c, "target", 0),
         pinned[c] \in Int, UNCHANGED <<chain, latched, stored, locked, pc>>
  PROVE  JobInv'
<1>1. PICK v \in Int : Answer(c, "target", v)
  OBVIOUS
<1>2. JobTypes' /\ Exclusive' /\ ReadsAreNewer'
  BY <1>1, OtherReadKeepsFields
<1>3. \A d \in Callers : read'[d]["probe"] = read[d]["probe"]
  <2>1. "target" \in Keys /\ "probe" \in Keys
    BY DEF Keys
  <2>2. \A d \in Callers : \A j \in Keys : <<d, j>> # <<c, "target">> => read'[d][j] = read[d][j]
    BY <1>1, <2>1, AnswerEffect
  <2> QED
    BY <2>1, <2>2
<1>4. SupportIsLatched'
  BY <1>3 DEF JobInv, SupportIsLatched
<1> QED
  BY <1>2, <1>4 DEF JobInv

\* A probe is asked only while the reserve is not stored; a success is latched.
LEMMA ProbeKeepsJob ==
  ASSUME JobInv, NEW c \in Callers, Probe(c)
  PROVE  JobInv'
<1>1. UNCHANGED <<chain, stored, locked, pc>>
  BY DEF Probe, contracts
<1>2. PICK v \in {0, 1} :
        /\ Answer(c, "probe", v)
        /\ IF v = 1 THEN latched' = TRUE ELSE latched' = latched
  BY DEF Probe
<1>3. JobTypes' /\ Exclusive' /\ ReadsAreNewer'
  BY <1>1, <1>2, OtherReadKeepsFields
<1>4. "probe" \in Keys
  BY DEF Keys
<1>5. /\ pc[c] = "reading" /\ read[c]["probe"] = Unread /\ read'[c]["probe"] = v
      /\ \A d \in Callers \ {c} : read'[d]["probe"] = read[d]["probe"]
  BY <1>2, <1>4, AnswerEffect
<1>6. ~stored.supports
  BY <1>5 DEF JobInv, SupportIsLatched, Unread
<1>7. \A d \in Callers \ {c} : pc[d] = "idle"
  BY <1>5 DEF JobInv, Exclusive
<1>8. SupportIsLatched'
  BY <1>1, <1>2, <1>5, <1>6, <1>7 DEF SupportIsLatched
<1> QED
  BY <1>3, <1>8 DEF JobInv

\* The lock is released: nobody is in an execution.
LEMMA EndEffect ==
  ASSUME JobInv, NEW c \in Callers, pc[c] # "idle", End(c)
  PROVE  /\ pc' \in [Callers -> {"idle", "block", "reading"}]
         /\ \A d \in Callers : pc'[d] = "idle"
         /\ read' \in [Callers -> [Keys -> Int]]
<1>1. \A d \in Callers \ {c} : pc[d] = "idle"
  BY DEF JobInv, Exclusive
<1> QED
  BY <1>1, NothingIsUnread DEF End, JobInv, JobTypes

\* What a publication stores.
LEMMA PublishStores ==
  ASSUME JobInv, NEW c \in Callers, Publish(c)
  PROVE  /\ pc[c] = "reading" /\ UNCHANGED <<chain, latched>>
         /\ \A f \in Fields : /\ stored'[f] = read[c][f] /\ stored'[f] \in Int
                              /\ stored[f] <= stored'[f] /\ stored'[f] <= chain[f]
         /\ stored'.supports <=> read[c]["probe"] = 1
<1>1. pc[c] = "reading" /\ UNCHANGED <<chain, latched>>
  BY DEF Publish, contracts, reader
<1>2. read[c] \in [Keys -> Int] /\ \A k \in Keys : read[c][k] # Unread
  BY DEF Publish, JobInv, JobTypes
<1>3. \A f \in Fields : f \in Keys /\ stored'[f] = read[c][f]
  BY DEF Publish, Fields, Keys
<1>4. stored'.supports <=> read[c]["probe"] = 1
  BY DEF Publish
<1>5. \A f \in Fields : stored[f] <= read[c][f] /\ read[c][f] <= chain[f]
  BY <1>1, <1>2, <1>3 DEF JobInv, ReadsAreNewer
<1> QED
  BY <1>1, <1>2, <1>3, <1>4, <1>5

LEMMA PublishKeepsJob ==
  ASSUME JobInv, NEW c \in Callers, Publish(c)
  PROVE  JobInv'
<1>1. /\ pc[c] = "reading" /\ UNCHANGED <<chain, latched>>
      /\ \A f \in Fields : stored'[f] \in Int /\ stored'[f] <= chain[f]
      /\ stored'.supports <=> read[c]["probe"] = 1
  BY PublishStores
<1>2. /\ pc' \in [Callers -> {"idle", "block", "reading"}]
      /\ \A d \in Callers : pc'[d] = "idle"
      /\ read' \in [Callers -> [Keys -> Int]]
  BY <1>1, EndEffect DEF Publish
<1>3. JobTypes' /\ Exclusive'
  BY <1>1, <1>2 DEF JobInv, JobTypes, Exclusive
<1>4. ReadsAreNewer'
  BY <1>1, <1>2 DEF ReadsAreNewer
<1>5. SupportIsLatched'
  BY <1>1, <1>2 DEF JobInv, SupportIsLatched
<1> QED
  BY <1>3, <1>4, <1>5 DEF JobInv

LEMMA FailKeepsJob ==
  ASSUME JobInv, NEW c \in Callers, Fail(c)
  PROVE  JobInv'
<1>1. pc[c] # "idle" /\ UNCHANGED <<chain, latched, stored>>
  BY DEF Fail, contracts
<1>2. /\ pc' \in [Callers -> {"idle", "block", "reading"}]
      /\ \A d \in Callers : pc'[d] = "idle"
      /\ read' \in [Callers -> [Keys -> Int]]
  BY <1>1, EndEffect DEF Fail
<1>3. JobTypes' /\ Exclusive'
  BY <1>1, <1>2 DEF JobInv, JobTypes, Exclusive
<1>4. ReadsAreNewer' /\ SupportIsLatched'
  BY <1>1, <1>2 DEF JobInv, ReadsAreNewer, SupportIsLatched
<1> QED
  BY <1>3, <1>4 DEF JobInv

\* A late probe may only latch.
LEMMA LateProbeKeepsJob ==
  ASSUME JobInv, LateProbe
  PROVE  JobInv'
<1>1. UNCHANGED <<chain, stored, locked, pc, read>> /\ (latched' = TRUE \/ latched' = latched)
  BY DEF LateProbe, contracts, locals
<1>2. JobTypes' /\ Exclusive' /\ ReadsAreNewer'
  BY <1>1 DEF JobInv, JobTypes, Exclusive, ReadsAreNewer
<1>3. SupportIsLatched'
  BY <1>1 DEF JobInv, SupportIsLatched
<1> QED
  BY <1>2, <1>3 DEF JobInv

\* The first execution starts with the process, and nothing is stored.
LEMMA RestartKeepsJob ==
  ASSUME JobInv, Restart
  PROVE  JobInv'
<1>1. /\ chain' = chain /\ stored' = Unset /\ locked' = TRUE
      /\ pc' = [c \in Callers |-> IF c = "cron" THEN "block" ELSE "idle"]
      /\ read' = [c \in Callers |-> Nothing]
  BY DEF Restart
<1>2. JobTypes'
  BY <1>1, NothingIsUnread, UnsetIsOld DEF JobInv, JobTypes, Unread
<1>3. Exclusive'
  BY <1>1 DEF Exclusive
<1>4. \A f \in Fields : stored'[f] <= chain'[f]
  BY <1>1, UnsetIsOld DEF JobInv, JobTypes, Fields, Unread
<1>5. ReadsAreNewer' /\ SupportIsLatched'
  BY <1>1, <1>4, UnsetIsOld DEF ReadsAreNewer, SupportIsLatched
<1> QED
  BY <1>2, <1>3, <1>5 DEF JobInv

\* The invariant of the job, with the targets that are pinned.
IInv == JobInv /\ pinned \in [Callers -> Int]

LEMMA InitIInv == Init => IInv
  BY InitJob DEF Init, IInv

LEMMA PinnedTyped ==
  ASSUME IInv, Next PROVE pinned' \in [Callers -> Int]
<1> USE DEF IInv
<1>1. chain["target"] \in Int
  BY DEF JobInv, JobTypes
<1>2. CASE UNCHANGED pinned
  BY <1>2
<1>3. ASSUME NEW c \in Callers, ReadBlock(c) PROVE pinned' \in [Callers -> Int]
  BY <1>1, <1>3 DEF ReadBlock
<1>4. ASSUME NEW c \in Callers, End(c) PROVE pinned' \in [Callers -> Int]
  BY <1>4 DEF End
<1>5. CASE Restart
  BY <1>5 DEF Restart
<1>6. CASE Upgrade \/ CronTick \/ LateProbe \/ ValidatorsBoot \/ \E f \in DOMAIN chain : Change(f)
  BY <1>2, <1>6 DEF Upgrade, CronTick, LateProbe, ValidatorsBoot, Change, locals
<1>7. ASSUME NEW c \in Callers, Deliver(c) \/ Execution(c) \/ Fail(c)
      PROVE  pinned' \in [Callers -> Int]
  BY <1>2, <1>3, <1>4, <1>7
     DEF Deliver, Execution, ReadField, ReadTarget, Probe, Publish, Fail
<1> QED
  BY <1>5, <1>6, <1>7 DEF Next

LEMMA ExecutionKeepsJob ==
  ASSUME IInv, NEW c \in Callers, Execution(c) PROVE JobInv'
<1>1. JobInv /\ pinned[c] \in Int
  BY DEF IInv
<1>2. CASE ReadBlock(c)
  BY <1>1, <1>2, ReadBlockKeepsJob
<1>3. ASSUME NEW f \in Fields, ReadField(c, f) PROVE JobInv'
  BY <1>1, <1>3, ReadFieldKeepsJob
<1>4. CASE ReadTarget(c)
  <2>1. /\ Answer(c, "target", pinned[c]) \/ Answer(c, "target", 0)
        /\ UNCHANGED <<chain, latched, stored, locked, pc>>
    BY <1>4 DEF ReadTarget, contracts, reader
  <2> QED
    BY <1>1, <2>1, ReadTargetKeepsJob
<1>5. CASE Probe(c)
  BY <1>1, <1>5, ProbeKeepsJob
<1>6. CASE Publish(c)
  BY <1>1, <1>6, PublishKeepsJob
<1> QED
  BY <1>2, <1>3, <1>4, <1>5, <1>6 DEF Execution

LEMMA NextKeepsJob ==
  ASSUME IInv, [Next]_vars PROVE JobInv'
<1>1. JobInv
  BY DEF IInv
<1>2. CASE UNCHANGED vars
  BY <1>1, <1>2, JobInvUnchanged DEF vars, contracts, reader, locals, job
<1>3. ASSUME NEW f \in DOMAIN chain, Change(f) PROVE JobInv'
  BY <1>1, <1>3, ChangeKeepsJob
<1>4. CASE Upgrade \/ ValidatorsBoot
  <2>1. UNCHANGED job
    BY <1>4 DEF Upgrade, ValidatorsBoot, contracts, reader, locals, job
  <2> QED
    BY <1>1, <2>1, JobInvUnchanged
<1>5. CASE CronTick
  <2>1. Start("cron") /\ "cron" \in Callers /\ UNCHANGED <<chain, latched, stored, read>>
    BY <1>5 DEF CronTick, Callers, contracts, reader
  <2> QED
    BY <1>1, <2>1, StartKeepsJob
<1>6. ASSUME NEW c \in Callers, Deliver(c) PROVE JobInv'
  <2>1. UNCHANGED <<chain, latched, stored, read>> /\ (Start(c) \/ UNCHANGED <<locked, pc>>)
    BY <1>6 DEF Deliver, reader
  <2>2. CASE Start(c)
    BY <1>1, <2>1, <2>2, StartKeepsJob
  <2>3. CASE UNCHANGED <<locked, pc>>
    BY <1>1, <2>1, <2>3, JobInvUnchanged DEF job
  <2> QED
    BY <2>1, <2>2, <2>3
<1>7. CASE LateProbe
  BY <1>1, <1>7, LateProbeKeepsJob
<1>8. CASE Restart
  BY <1>1, <1>8, RestartKeepsJob
<1>9. ASSUME NEW c \in Callers, Execution(c) \/ Fail(c) PROVE JobInv'
  BY <1>1, <1>9, ExecutionKeepsJob, FailKeepsJob
<1>10. CASE Next
  BY <1>3, <1>4, <1>5, <1>6, <1>7, <1>8, <1>9, <1>10 DEF Next
<1> QED
  BY <1>2, <1>10

LEMMA NextIInv == IInv /\ [Next]_vars => IInv'
  BY NextKeepsJob, PinnedTyped DEF IInv, vars, locals

(***************************************************************************)
(* What is stored.                                                         *)
(***************************************************************************)
\* Only a publication and a restart change what is stored.
LEMMA StoredChanges ==
  ASSUME Next PROVE stored' = stored \/ stored' = Unset \/ \E c \in Callers : Publish(c)
  BY DEF Next, Change, Upgrade, CronTick, LateProbe, ValidatorsBoot, Restart, Deliver, Execution,
         Fail, ReadBlock, ReadField, ReadTarget, Probe

\* In every behaviour of the contract-config job no stored field goes back to an
\* older value, for any number of changes, faults and events.
THEOREM ConfigMonotone == Spec => ConfigNeverGoesBack
<1> DEFINE Forward == \A f \in Fields : stored' # Unset => stored'[f] >= stored[f]
<1>1. IInv /\ [Next]_vars => [Forward]_vars
  <2> SUFFICES ASSUME IInv, Next PROVE Forward
    BY DEF IInv
  <2>1. \A f \in Fields : stored[f] \in Int
    BY DEF IInv, JobInv, JobTypes
  <2>2. CASE stored' = stored
    BY <2>1, <2>2
  <2>3. ASSUME NEW c \in Callers, Publish(c) PROVE Forward
    <3>1. \A f \in Fields : stored'[f] \in Int /\ stored[f] <= stored'[f]
      BY <2>3, PublishStores DEF IInv
    <3> QED
      BY <2>1, <3>1
  <2> QED
    BY <2>2, <2>3, StoredChanges
<1> QED
  BY <1>1, InitIInv, NextIInv, PTL DEF Spec, ConfigNeverGoesBack

\* In every behaviour a reserve that is stored stays stored until a restart, for
\* any number of failed probes.
THEOREM SupportStays == Spec => SupportNeverReverts
<1> DEFINE Stays == stored.supports /\ stored' # Unset => stored'.supports
<1>1. IInv /\ [Next]_vars => [Stays]_vars
  <2> SUFFICES ASSUME IInv, Next PROVE Stays
    BY DEF IInv
  <2>1. CASE stored' = stored
    BY <2>1
  <2>2. ASSUME NEW c \in Callers, Publish(c) PROVE Stays
    <3>1. pc[c] = "reading" /\ (stored'.supports <=> read[c]["probe"] = 1)
      BY <2>2, PublishStores DEF IInv
    <3> QED
      BY <3>1 DEF IInv, JobInv, SupportIsLatched
  <2> QED
    BY <2>1, <2>2, StoredChanges
<1> QED
  BY <1>1, InitIInv, NextIInv, PTL DEF Spec, SupportNeverReverts

(***************************************************************************)
(* The jobs of the schedule.                                               *)
(***************************************************************************)
\* Until the first update is over the service can stop every job; the jobs it
\* cannot stop afterwards are those of a single assignment.
BootInv ==
  /\ boot # "started" => running \subseteq {cronJobs}
  /\ \E j : running \ {cronJobs} \subseteq {j}

LEMMA NextBootInv == BootInv /\ [Next]_vars => BootInv'
<1> SUFFICES ASSUME BootInv, [Next]_vars PROVE BootInv'
  OBVIOUS
<1>1. CASE UNCHANGED schedule
  BY <1>1 DEF BootInv, schedule
<1>2. ASSUME NEW times, Reschedule(times) PROVE BootInv'
  <2>1. CASE UNCHANGED <<cronJobs, running>>
    BY <1>2, <2>1 DEF Reschedule, BootInv
  <2>2. CASE running' = (running \ {cronJobs}) \cup {cronJobs'}
    <3>1. running' \ {cronJobs'} \subseteq running \ {cronJobs}
      BY <2>2
    <3>2. boot' = boot
      BY <1>2 DEF Reschedule
    <3> QED
      BY <2>2, <3>1, <3>2 DEF BootInv
  <2> QED
    BY <1>2, <2>1, <2>2 DEF Reschedule
<1>3. CASE FirstUpdate
  BY <1>3 DEF FirstUpdate, BootInv
<1>4. CASE StartFirstJobs
  <2>1. boot' = "started" /\ running \subseteq {cronJobs} /\ running' = running \cup {cronJobs'}
    BY <1>4 DEF StartFirstJobs, BootInv
  <2>2. running' \ {cronJobs'} \subseteq {cronJobs}
    BY <2>1
  <2> QED
    BY <2>1, <2>2 DEF BootInv
<1>5. CASE Restart
  BY <1>5 DEF Restart, BootInv
<1>6. CASE UNCHANGED vars
  BY <1>1, <1>6 DEF vars
<1>7. CASE Next
  <2>1. UNCHANGED schedule \/ Restart \/ FirstUpdate \/ StartFirstJobs \/ \E times : Reschedule(times)
    BY <1>7 DEF Next, Change, Upgrade, CronTick, LateProbe, ValidatorsBoot, Deliver, Execution,
                Fail, ReadBlock, ReadField, ReadTarget, Probe, Publish
  <2> QED
    BY <1>1, <1>2, <1>3, <1>4, <1>5, <2>1
<1> QED
  BY <1>6, <1>7

\* In every behaviour at most one assignment's jobs are running that the service
\* can no longer stop, however often the configuration changes.
THEOREM OneForgotten == Spec => []AtMostOneForgotten
<1>1. Init => BootInv
  BY DEF Init, ScheduleInit, BootInv
<1>2. BootInv => AtMostOneForgotten
  <2> SUFFICES ASSUME NEW j, running \ {cronJobs} \subseteq {j} PROVE AtMostOneForgotten
    BY DEF BootInv
  <2>1. IsFiniteSet({j}) /\ Cardinality({j}) = 1
    BY FS_Singleton
  <2>2. Cardinality(running \ {cronJobs}) <= Cardinality({j})
    BY <2>1, FS_Subset
  <2> QED
    BY <2>1, <2>2 DEF AtMostOneForgotten
<1> QED
  BY <1>1, <1>2, NextBootInv, PTL DEF Spec

(***************************************************************************)
(* Types: the bounds come from the changes and the faults that remain.     *)
(***************************************************************************)
Changed == 0..MaxChanges
Times   == SUBSET SUBSET (0..DaySeconds - 1)
Jobs    == [number : Nat, times : Times]

\* An event is a change of its field; the target and the limits have none.
ChainTypes ==
  /\ chain \in [{"frame", "vebo", "limits", "target"} -> Nat] /\ Changes <= MaxChanges
  /\ supported \in BOOLEAN
  /\ events \in [Callers -> Nat]
  /\ \A c \in Callers : events[c] <= Changes

\* A probe outlives its execution only by a fault.
ReaderTypes ==
  /\ latched \in BOOLEAN
  /\ lateProbes \in Nat /\ faults \in 0..MaxFaults /\ lateProbes <= faults

StoredTypes ==
  /\ \A f \in Fields : stored[f] \in {Unread} \cup Changed
  /\ stored.supports \in BOOLEAN /\ stored.target \in Changed

ExecutionTypes ==
  /\ locked \in BOOLEAN
  /\ pc \in [Callers -> {"idle", "block", "reading"}]
  /\ wasKnown \in [Callers -> BOOLEAN]
  /\ pinned \in [Callers -> Changed]
  /\ read \in [Callers -> [Keys -> {Unread, 0, 1} \cup Changed]]
  /\ \A c \in Callers : \A f \in Fields \cup {"target"} : read[c][f] \in {Unread} \cup Changed

ScheduleTypes ==
  /\ boot \in {"cache", "first", "started"}
  /\ made \in Nat /\ cronTimes \in Times
  /\ cronJobs \in Jobs /\ running \in SUBSET Jobs
  /\ \A j \in running \cup {cronJobs} : j.number <= made

ConfigTypes == ChainTypes /\ ReaderTypes /\ StoredTypes /\ ExecutionTypes /\ ScheduleTypes

LEMMA Bounds == MaxChanges \in Nat /\ MaxFaults \in Nat
  BY ConfigConstants

LEMMA InitConfigTypes == Init => ConfigTypes
<1> SUFFICES ASSUME Init PROVE ConfigTypes
  OBVIOUS
<1> USE Bounds DEF Init
<1>1. ChainTypes
  BY DEF ChainTypes, Changes, Fields
<1>2. ReaderTypes
  <2>1. latched \in BOOLEAN
    OBVIOUS
  <2>2. lateProbes = 0 /\ faults = 0
    OBVIOUS
  <2> QED
    BY <2>1, <2>2 DEF ReaderTypes
<1>3. StoredTypes
  BY DEF StoredTypes, Unset, Fields, Changed
<1>4. ExecutionTypes
  <2>1. Nothing \in [Keys -> {Unread, 0, 1} \cup Changed]
    BY DEF Nothing, Keys, Fields
  <2>2. \A f \in Fields \cup {"target"} : Nothing[f] = Unread
    BY NothingIsUnread DEF Keys, Fields
  <2> QED
    BY <2>1, <2>2 DEF ExecutionTypes, Changed
<1>5. ScheduleTypes
  BY DEF ScheduleTypes, ScheduleInit, NoJobs, Jobs, Times
<1> QED
  BY <1>1, <1>2, <1>3, <1>4, <1>5 DEF ConfigTypes

LEMMA ConfigTypesGiveTypes == ConfigTypes => TypeOK
<1> SUFFICES ASSUME ConfigTypes PROVE TypeOK
  OBVIOUS
<1> USE Bounds DEF ConfigTypes
<1>1. /\ chain \in [Fields \cup {"target"} -> 0..MaxChanges]
      /\ events \in [Callers -> 0..MaxChanges]
  BY DEF ChainTypes, Changes, Fields
<1>2. lateProbes \in 0..MaxFaults
  BY DEF ReaderTypes
<1>3. DOMAIN Nothing = Keys
  BY DEF Nothing, Keys, Fields
<1>4. ASSUME NEW j \in running \cup {cronJobs}
      PROVE  j.number \in 0..made /\ j.times \in SUBSET SUBSET (0..DaySeconds - 1)
  BY DEF ScheduleTypes, Jobs, Times
<1> QED
  BY <1>1, <1>2, <1>3, <1>4
     DEF TypeOK, ChainTypes, ReaderTypes, StoredTypes, ExecutionTypes, ScheduleTypes, Changed, Times

(***************************************************************************)
(* The types are kept, group by group.                                     *)
(***************************************************************************)
LEMMA ChainTyped ==
  ASSUME ConfigTypes, [Next]_vars PROVE ChainTypes'
<1> USE Bounds DEF ConfigTypes
<1>1. /\ chain \in [{"frame", "vebo", "limits", "target"} -> Nat] /\ Changes <= MaxChanges
      /\ supported \in BOOLEAN /\ events \in [Callers -> Nat]
      /\ \A c \in Callers : events[c] <= Changes
  BY DEF ChainTypes
<1>2. ASSUME NEW f \in DOMAIN chain, Change(f) PROVE ChainTypes'
  <2>1. chain' = [chain EXCEPT ![f] = chain[f] + 1] /\ Changes < MaxChanges
    BY <1>2 DEF Change
  <2>2. chain' \in [{"frame", "vebo", "limits", "target"} -> Nat] /\ Changes' = Changes + 1
    BY <1>1, <2>1 DEF Changes, ConfigTypes
  <2>3. Changes \in Nat
    BY <1>1 DEF Changes
  <2>4. events' = [c \in Callers |->
           events[c] + (IF <<f, c>> \in {<<"frame", "accounting">>, <<"vebo", "vebo">>} THEN 1 ELSE 0)]
    BY <1>2 DEF Change
  <2>5. \A c \in Callers : events'[c] \in Nat /\ events'[c] <= events[c] + 1
    BY <1>1, <2>4
  <2>6. supported' = supported
    BY <1>2 DEF Change
  <2> HIDE DEF Changes
  <2>7. events' \in [Callers -> Nat] /\ \A c \in Callers : events'[c] <= Changes'
    BY <1>1, <2>2, <2>3, <2>4, <2>5
  <2> QED
    BY <1>1, <2>1, <2>2, <2>3, <2>6, <2>7 DEF ChainTypes
<1>3. ASSUME NEW c \in Callers, Deliver(c) PROVE ChainTypes'
  <2>1. events[c] > 0 /\ events' = [events EXCEPT ![c] = events[c] - 1]
        /\ UNCHANGED <<chain, supported>>
    BY <1>3 DEF Deliver
  <2>2. Changes' = Changes /\ Changes \in Nat
    BY <1>1, <2>1 DEF Changes
  <2> HIDE DEF Changes
  <2> QED
    BY <1>1, <2>1, <2>2 DEF ChainTypes
<1>4. CASE Restart
  <2>1. UNCHANGED <<chain, supported>> /\ events' = [c \in Callers |-> 0]
    BY <1>4 DEF Restart
  <2>2. Changes' = Changes /\ Changes \in Nat
    BY <1>1, <2>1 DEF Changes
  <2> HIDE DEF Changes
  <2> QED
    BY <1>1, <2>1, <2>2 DEF ChainTypes
<1>5. CASE Upgrade
  BY <1>1, <1>5 DEF Upgrade, ChainTypes, Changes
<1>6. CASE UNCHANGED contracts
  BY <1>1, <1>6 DEF contracts, ChainTypes, Changes
<1>7. UNCHANGED contracts \/ Upgrade \/ Restart
        \/ (\E f \in DOMAIN chain : Change(f)) \/ (\E c \in Callers : Deliver(c))
  BY DEF Next, vars, CronTick, LateProbe, ValidatorsBoot, Execution, Fail, ReadBlock, ReadField,
         ReadTarget, Probe, Publish
<1> QED
  BY <1>2, <1>3, <1>4, <1>5, <1>6, <1>7

LEMMA ReaderTyped ==
  ASSUME ConfigTypes, [Next]_vars PROVE ReaderTypes'
<1> USE Bounds DEF ConfigTypes
<1>1. CASE UNCHANGED <<latched, lateProbes, faults>>
  BY <1>1 DEF ReaderTypes
<1>2. ASSUME NEW c \in Callers, ReadTarget(c) \/ Probe(c) \/ Fail(c) PROVE ReaderTypes'
  <2>1. latched' = latched \/ latched' = TRUE
    BY <1>2 DEF ReadTarget, Probe, Fail, reader
  <2>2. latched' \in BOOLEAN
    BY <2>1 DEF ReaderTypes
  <2>3. \/ UNCHANGED <<lateProbes, faults>>
        \/ faults < MaxFaults /\ faults' = faults + 1 /\ lateProbes' \in {lateProbes, lateProbes + 1}
    <3>1. CASE ReadTarget(c) \/ Probe(c)
      BY <3>1 DEF ReadTarget, Probe, reader
    <3>2. CASE Fail(c)
      BY <3>2 DEF Fail, ReaderTypes
    <3> QED
      BY <1>2, <3>1, <3>2
  <2> QED
    BY <2>2, <2>3 DEF ReaderTypes
<1>3. CASE LateProbe \/ Restart
  <2>1. latched' \in {latched, TRUE, FALSE}
    BY <1>3 DEF LateProbe, Restart
  <2>2. latched' \in BOOLEAN
    BY <2>1 DEF ReaderTypes
  <2>3. \/ faults' = faults /\ lateProbes > 0 /\ lateProbes' = lateProbes - 1
        \/ faults < MaxFaults /\ faults' = faults + 1 /\ lateProbes' = 0
    BY <1>3 DEF LateProbe, Restart
  <2> QED
    BY <2>2, <2>3 DEF ReaderTypes
<1>4. UNCHANGED <<latched, lateProbes, faults>> \/ LateProbe \/ Restart
        \/ (\E c \in Callers : ReadTarget(c) \/ Probe(c) \/ Fail(c))
  BY DEF Next, vars, reader, CronTick, Change, Upgrade, ValidatorsBoot, Deliver, Execution, ReadBlock, ReadField, Publish
<1> QED
  BY <1>1, <1>2, <1>3, <1>4

LEMMA StoredTyped ==
  ASSUME ConfigTypes, [Next]_vars PROVE StoredTypes'
<1> USE Bounds DEF ConfigTypes
<1>1. CASE stored' = stored
  BY <1>1 DEF StoredTypes
<1>2. CASE stored' = Unset
  BY <1>2 DEF StoredTypes, Unset, Fields, Changed
<1>3. ASSUME NEW c \in Callers, Publish(c) PROVE StoredTypes'
  <2>1. /\ \A f \in Fields \cup {"target"} : read[c][f] \in {Unread} \cup Changed
        /\ DOMAIN read[c] = Keys
    BY DEF ExecutionTypes
  <2>2. read[c]["target"] \in Changed
    BY <1>3, <2>1 DEF Publish, Keys
  <2>3. stored' = [frame |-> read[c].frame, vebo |-> read[c].vebo, limits |-> read[c].limits,
                   supports |-> read[c].probe = 1, target |-> read[c].target]
    BY <1>3 DEF Publish
  <2> QED
    BY <2>1, <2>2, <2>3 DEF StoredTypes, Fields
<1>4. CASE Next
  BY <1>1, <1>2, <1>3, <1>4, StoredChanges
<1> QED
  BY <1>1, <1>4 DEF vars

\* An execution reads values that the contracts have had.
LEMMA ExecutionTyped ==
  ASSUME ConfigTypes, [Next]_vars PROVE ExecutionTypes'
<1> USE Bounds DEF ConfigTypes
<1> DEFINE Known == {Unread, 0, 1} \cup Changed
           Plain == {Unread} \cup Changed
<1>1. /\ locked \in BOOLEAN
      /\ pc \in [Callers -> {"idle", "block", "reading"}]
      /\ wasKnown \in [Callers -> BOOLEAN] /\ pinned \in [Callers -> Changed]
      /\ read \in [Callers -> [Keys -> Known]]
      /\ \A c \in Callers : \A f \in Fields \cup {"target"} : read[c][f] \in Plain
  BY DEF ExecutionTypes
<1>2. \A f \in Fields \cup {"target"} : chain[f] \in Changed
  BY DEF ChainTypes, Changes, Changed, Fields
<1>3. stored.supports \in BOOLEAN
  BY DEF StoredTypes
<1>4. /\ Nothing \in [Keys -> Known]
      /\ \A f \in Fields \cup {"target"} : Nothing[f] = Unread
  BY DEF Nothing, Keys, Fields
<1>5. CASE UNCHANGED <<locked, pc, wasKnown, pinned, read>>
  BY <1>1, <1>5 DEF ExecutionTypes
<1>6. ASSUME NEW c \in Callers, Start(c), UNCHANGED <<pinned, read>> PROVE ExecutionTypes'
  BY <1>1, <1>3, <1>6 DEF Start, ExecutionTypes
<1>7. ASSUME NEW c \in Callers, End(c) PROVE ExecutionTypes'
  <2>1. 0 \in Changed
    BY DEF Changed
  <2>2. /\ locked' = FALSE
        /\ pc' = [pc EXCEPT ![c] = "idle"] /\ wasKnown' = [wasKnown EXCEPT ![c] = FALSE]
        /\ pinned' = [pinned EXCEPT ![c] = 0] /\ read' = [read EXCEPT ![c] = Nothing]
    BY <1>7 DEF End
  <2> HIDE DEF Known
  <2>3. read' \in [Callers -> [Keys -> Known]]
        /\ \A d \in Callers : \A f \in Fields \cup {"target"} : read'[d][f] \in Plain
    BY <1>1, <1>4, <2>2
  <2> QED
    BY <1>1, <2>1, <2>2, <2>3 DEF ExecutionTypes, Known
<1>8. CASE Restart
  <2>1. 0 \in Changed
    BY DEF Changed
  <2> QED
    BY <1>1, <1>4, <1>8, <2>1 DEF Restart, ExecutionTypes
<1>9. ASSUME NEW c \in Callers, ReadBlock(c) PROVE ExecutionTypes'
  <2> DEFINE p == IF latched THEN 1 ELSE Unread
             t == IF wasKnown[c] THEN Unread ELSE 0
             fresh == [Nothing EXCEPT !.probe = p, !.target = t]
  <2>1. /\ pc' = [pc EXCEPT ![c] = "reading"] /\ pinned' = [pinned EXCEPT ![c] = chain.target]
        /\ read' = [read EXCEPT ![c] = fresh] /\ UNCHANGED <<locked, wasKnown>>
    BY <1>9 DEF ReadBlock
  <2>2. p \in {Unread, 1} /\ t \in {Unread, 0} /\ 0 \in Changed
    BY DEF Changed
  <2> HIDE DEF p, t
  <2>3. fresh \in [Keys -> Known] /\ \A f \in Fields \cup {"target"} : fresh[f] \in Plain
    BY <1>4, <2>2 DEF Keys, Fields
  <2> HIDE DEF fresh, Known, Plain
  <2>4. read' \in [Callers -> [Keys -> Known]]
        /\ \A d \in Callers : \A f \in Fields \cup {"target"} : read'[d][f] \in Plain
    BY <1>1, <2>1, <2>3
  <2> QED
    BY <1>1, <1>2, <2>1, <2>4 DEF ExecutionTypes, Known, Plain
<1>10. ASSUME NEW c \in Callers, NEW k \in Keys, NEW v \in Known, Answer(c, k, v),
              k # "probe" => v \in Plain, UNCHANGED <<locked, pc, wasKnown, pinned>>
       PROVE  ExecutionTypes'
  <2>1. read' = [read EXCEPT ![c][k] = v]
    BY <1>10 DEF Answer
  <2>2. "probe" \notin Fields \cup {"target"} /\ Fields \cup {"target"} \subseteq Keys
    BY DEF Fields, Keys
  <2> HIDE DEF Known, Plain
  <2>3. read' \in [Callers -> [Keys -> Known]]
    BY <1>1, <2>1
  <2>4. \A d \in Callers : \A f \in Fields \cup {"target"} : read'[d][f] \in Plain
    BY <1>1, <1>10, <2>1, <2>2
  <2> QED
    BY <1>1, <1>10, <2>3, <2>4 DEF ExecutionTypes, Known, Plain
<1>11. ASSUME NEW c \in Callers, NEW f \in Fields, ReadField(c, f) PROVE ExecutionTypes'
  <2>1. f \in Keys /\ chain[f] \in Known /\ chain[f] \in Plain
    BY <1>2 DEF Fields, Keys
  <2>2. Answer(c, f, chain[f]) /\ UNCHANGED <<locked, pc, wasKnown, pinned>>
    BY <1>11 DEF ReadField
  <2> HIDE DEF Known, Plain
  <2> QED
    BY <1>10, <2>1, <2>2
<1>12. ASSUME NEW c \in Callers, ReadTarget(c) \/ Probe(c) PROVE ExecutionTypes'
  <2>1. "target" \in Keys /\ "probe" \in Keys /\ {0, 1} \subseteq Known
    BY DEF Keys
  <2>2. {0, pinned[c]} \subseteq Plain /\ {0, pinned[c]} \subseteq Known
    BY <1>1 DEF Changed
  <2>3. /\ \E v \in {0, 1} : Answer(c, "probe", v) \/ \E w \in {0, pinned[c]} : Answer(c, "target", w)
        /\ UNCHANGED <<locked, pc, wasKnown, pinned>>
    BY <1>12 DEF ReadTarget, Probe
  <2> HIDE DEF Known, Plain
  <2>4. CASE \E v \in {0, 1} : Answer(c, "probe", v)
    BY <1>10, <2>1, <2>3, <2>4
  <2>5. CASE \E w \in {0, pinned[c]} : Answer(c, "target", w)
    BY <1>10, <2>1, <2>2, <2>3, <2>5
  <2> QED
    BY <2>3, <2>4, <2>5
<1> HIDE DEF Known, Plain
<1>13. \/ UNCHANGED <<locked, pc, wasKnown, pinned, read>> \/ Restart
       \/ \E c \in Callers :
            \/ Start(c) /\ UNCHANGED <<pinned, read>>
            \/ End(c) \/ ReadBlock(c) \/ ReadTarget(c) \/ Probe(c)
            \/ \E f \in Fields : ReadField(c, f)
  BY DEF Next, vars, locals, Callers, Change, Upgrade, CronTick, LateProbe, ValidatorsBoot, Deliver,
         Execution, Publish, Fail
<1> QED
  BY <1>5, <1>6, <1>7, <1>8, <1>9, <1>11, <1>12, <1>13

(***************************************************************************)
(* The times of a schedule.                                                *)
(***************************************************************************)
LEMMA ModRange ==
  ASSUME NEW a \in Int, NEW b \in Nat \ {0} PROVE a % b \in 0..b - 1
  BY Z3

\* Rounding to the minute stays in the day.
LEMMA ToMinuteOfDay ==
  ASSUME NEW t \in 0..DaySeconds - 1 PROVE ToMinute(t) \in 0..DaySeconds - 1
<1>1. MinuteSeconds \in Nat \ {0} /\ DaySeconds \in Nat
  BY ScheduleConstants
<1>2. t % MinuteSeconds \in Nat /\ t % MinuteSeconds <= t
  BY <1>1, Z3
<1> QED
  BY <1>1, <1>2 DEF ToMinute

LEMMA CronTyped ==
  ASSUME NEW e \in Nat, NEW n \in Nat \ {0} PROVE Cron(e, n) \in Times
<1> DEFINE each  == n * SecondsPerEpoch
           first == (EpochStart(e) + UpdateDelay) % DaySeconds
           Entry(i) == {ToMinute((first + i * each) % DaySeconds)}
<1>1. /\ DaySeconds \in Nat \ {0} /\ SecondsPerEpoch \in Nat \ {0}
      /\ Genesis \in Nat /\ UpdateDelay \in Nat
  BY ScheduleConstants
<1>2. EpochStart(e) + UpdateDelay \in Int /\ each \in Nat \ {0}
  BY <1>1 DEF EpochStart
<1>3. first \in Int
  BY <1>1, <1>2, ModRange
<1>4. DaySeconds \div each \in Int
  BY <1>1, <1>2, Z3
<1>5. Cron(e, n) = IF DaySeconds % each # 0 THEN {} ELSE {Entry(i) : i \in 0..DaySeconds \div each - 1}
  BY DEF Cron
<1> HIDE DEF first, each
<1>6. ASSUME NEW i \in Int PROVE Entry(i) \subseteq 0..DaySeconds - 1
  <2>1. first + i * each \in Int
    BY <1>2, <1>3
  <2>2. (first + i * each) % DaySeconds \in 0..DaySeconds - 1
    BY <1>1, <2>1, ModRange
  <2> QED
    BY <2>2, ToMinuteOfDay
<1>7. 0..DaySeconds \div each - 1 \subseteq Int
  OBVIOUS
<1> HIDE DEF Entry
<1> QED
  BY <1>5, <1>6, <1>7 DEF Times

\* What a caller publishes is a schedule of its exit bus configuration.
LEMMA PublishReschedules ==
  ASSUME ConfigTypes, NEW c \in Callers, Publish(c)
  PROVE  /\ stored'.vebo \in 0..MaxChanges
         /\ LET vebo == VeboFrames[stored'.vebo]
            IN  /\ vebo.initialEpoch \in Nat /\ vebo.epochsPerFrame \in Nat \ {0}
                /\ Reschedule(Cron(vebo.initialEpoch, vebo.epochsPerFrame))
<1>1. "vebo" \in Fields /\ "vebo" \in Keys
  BY DEF Fields, Keys
<1>2. read[c].vebo \in {Unread} \cup 0..MaxChanges /\ DOMAIN read[c] = Keys
  BY <1>1 DEF ConfigTypes, ExecutionTypes, Changed
<1>3. read[c].vebo # Unread /\ stored'.vebo = read[c].vebo
  BY <1>1, <1>2 DEF Publish
<1>4. VeboFrames[read[c].vebo] \in [initialEpoch : Nat, epochsPerFrame : Nat \ {0}]
  BY <1>2, <1>3, ConfigConstants
<1> QED
  BY <1>2, <1>3, <1>4 DEF Publish

LEMMA StartJobsTyped ==
  ASSUME ScheduleTypes, NEW times \in Times, StartJobs(times)
  PROVE  /\ made' \in Nat /\ made < made'
         /\ cronJobs' \in Jobs /\ cronJobs'.number <= made'
  BY DEF ScheduleTypes, StartJobs, Jobs

LEMMA MoreJobsTyped ==
  ASSUME ScheduleTypes, NEW times \in Times, StartJobs(times),
         running' \subseteq running \cup {cronJobs'}, cronTimes' \in Times,
         boot' \in {"cache", "first", "started"}
  PROVE  ScheduleTypes'
<1>1. /\ made' \in Nat /\ made < made'
      /\ cronJobs' \in Jobs /\ cronJobs'.number <= made'
  BY StartJobsTyped
<1>2. made \in Nat /\ running \in SUBSET Jobs /\ \A j \in running : j.number \in Nat /\ j.number <= made
  BY DEF ScheduleTypes, Jobs
<1>3. \A j \in running : j.number <= made'
  BY <1>1, <1>2
<1> QED
  BY <1>1, <1>2, <1>3 DEF ScheduleTypes

LEMMA ScheduleTyped ==
  ASSUME ConfigTypes, [Next]_vars PROVE ScheduleTypes'
<1>1. ScheduleTypes
  BY DEF ConfigTypes
<1>2. DefaultTimes \in Times /\ {} \in Times
  BY ScheduleConstants DEF Times
<1>3. CASE UNCHANGED schedule
  BY <1>1, <1>3 DEF schedule, ScheduleTypes
<1>4. ASSUME NEW c \in Callers, Publish(c) PROVE ScheduleTypes'
  <2>1. PICK times \in Times : Reschedule(times)
    BY <1>4, PublishReschedules, CronTyped
  <2>2. boot' \in {"cache", "first", "started"}
    BY <1>1, <2>1 DEF Reschedule, ScheduleTypes
  <2>3. CASE UNCHANGED <<cronTimes, cronJobs, running, made>>
    BY <1>1, <2>2, <2>3 DEF ScheduleTypes
  <2>4. CASE /\ StartJobs(times) /\ cronTimes' = times
             /\ running' = (running \ {cronJobs}) \cup {cronJobs'}
    <3>1. running' \subseteq running \cup {cronJobs'}
      BY <2>4
    <3> QED
      BY <1>1, <2>2, <2>4, <3>1, MoreJobsTyped
  <2> QED
    BY <2>1, <2>3, <2>4 DEF Reschedule
<1>5. CASE FirstUpdate
  BY <1>1, <1>2, <1>5 DEF FirstUpdate, ScheduleTypes
<1>6. CASE StartFirstJobs
  <2>1. /\ StartJobs(DefaultTimes) /\ running' \subseteq running \cup {cronJobs'}
        /\ cronTimes' \in Times /\ boot' \in {"cache", "first", "started"}
    BY <1>1, <1>6 DEF StartFirstJobs, ScheduleTypes
  <2> QED
    BY <1>1, <1>2, <2>1, MoreJobsTyped
<1>7. CASE Restart
  BY <1>2, <1>7 DEF Restart, ScheduleTypes, NoJobs, Jobs
<1>8. UNCHANGED schedule \/ Restart \/ FirstUpdate \/ StartFirstJobs \/ \E c \in Callers : Publish(c)
  BY DEF Next, vars, Change, Upgrade, CronTick, LateProbe, ValidatorsBoot, Deliver, Execution,
         Fail, ReadBlock, ReadField, ReadTarget, Probe
<1> QED
  BY <1>3, <1>4, <1>5, <1>6, <1>7, <1>8

LEMMA NextConfigTypes == ConfigTypes /\ [Next]_vars => ConfigTypes'
  BY ChainTyped, ReaderTyped, StoredTyped, ExecutionTyped, ScheduleTyped DEF ConfigTypes

\* In every behaviour of the contract-config job its variables keep their types
\* and bounds, the times of every job among them.
THEOREM ConfigTypesHold == Spec => []TypeOK
  BY InitConfigTypes, NextConfigTypes, ConfigTypesGiveTypes, PTL DEF Spec

(***************************************************************************)
(* The reports that are followed.                                          *)
(***************************************************************************)
\* Whole days do not change the time of day.
LEMMA ModDecomposes ==
  ASSUME NEW a \in Int, NEW b \in Nat \ {0}
  PROVE  a \div b \in Int /\ a % b \in 0..b - 1 /\ a = b * (a \div b) + (a % b)
  BY Z3

LEMMA ModUnique ==
  ASSUME NEW b \in Nat \ {0}, NEW q \in Int, NEW r \in 0..b - 1
  PROVE  (b * q + r) % b = r
  BY Z3

LEMMA ModShift ==
  ASSUME NEW a \in Int, NEW b \in Nat \ {0}, NEW q \in Int
  PROVE  (b * q + a) % b = a % b
<1> DEFINE p == a \div b
           r == a % b
<1>1. p \in Int /\ r \in 0..b - 1 /\ a = b * p + r
  BY ModDecomposes
<1> HIDE DEF p, r
<1>2. b * q + a = b * (q + p) + r
  BY <1>1
<1>3. (b * (q + p) + r) % b = r
  BY <1>1, ModUnique
<1> QED
  BY <1>2, <1>3 DEF r

\* The schedule of a configuration has an entry for every report of it, also for
\* those of the days to come, if a day is a number of frames.
LEMMA CronFollows ==
  ASSUME NEW e \in Nat, NEW n \in Nat \ {0}, DaySeconds % (n * SecondsPerEpoch) = 0
  PROVE  /\ Cron(e, n) # {}
         /\ \A k \in Nat :
              ToMinute((EpochStart(e + k * n) + UpdateDelay) % DaySeconds) \in UNION Cron(e, n)
<1> DEFINE each  == n * SecondsPerEpoch
           start == EpochStart(e) + UpdateDelay
           first == start % DaySeconds
           m     == DaySeconds \div each
           Entry(i) == {ToMinute((first + i * each) % DaySeconds)}
<1>1. /\ DaySeconds \in Nat \ {0} /\ SecondsPerEpoch \in Nat \ {0}
      /\ Genesis \in Nat /\ UpdateDelay \in Nat
  BY ScheduleConstants
<1>2. start \in Int /\ each \in Nat \ {0}
  BY <1>1 DEF EpochStart
<1>3. start = DaySeconds * (start \div DaySeconds) + first
      /\ first \in 0..DaySeconds - 1 /\ start \div DaySeconds \in Int
  BY <1>1, <1>2, ModDecomposes
<1>4. m \in Int /\ DaySeconds = each * m
  <2>1. m \in Int /\ DaySeconds = each * m + (DaySeconds % each)
    <3> HIDE DEF each
    <3>1. DaySeconds \in Int
      BY <1>1
    <3> QED
      BY <1>2, <3>1, ModDecomposes
  <2> QED
    BY <1>1, <1>2, <2>1
<1>5. Cron(e, n) = {Entry(i) : i \in 0..m - 1}
  BY DEF Cron
<1>6. ASSUME NEW k \in Nat PROVE EpochStart(e + k * n) + UpdateDelay = start + k * each
  BY <1>1 DEF EpochStart
<1> HIDE DEF start, m
<1>7. m \in Nat \ {0}
  <2> HIDE DEF each
  <2> QED
    BY <1>1, <1>2, <1>4, Z3
<1> HIDE DEF first, each
<1>8. ASSUME NEW k \in Nat
      PROVE  (EpochStart(e + k * n) + UpdateDelay) % DaySeconds
               = (first + (k % m) * each) % DaySeconds
  <2> DEFINE i == k % m
             q == k \div m
             p == start \div DaySeconds
  <2>1. q \in Int /\ i \in 0..m - 1 /\ k = m * q + i
    <3>1. k \in Int
      OBVIOUS
    <3> QED
      BY <1>7, <3>1, ModDecomposes
  <2>2. p \in Int /\ start = DaySeconds * p + first
    BY <1>3
  <2> HIDE DEF i, q, p
  <2>3. k * each = DaySeconds * q + i * each
    BY <1>2, <1>4, <1>7, <2>1
  <2>4. i * each \in Int /\ DaySeconds * q \in Int
    BY <1>1, <1>2, <2>1
  <2>5. start + k * each = DaySeconds * (p + q) + (first + i * each)
    <3>1. DaySeconds * (p + q) = DaySeconds * p + DaySeconds * q
      BY <1>1, <2>1, <2>2
    <3>2. first \in Int /\ DaySeconds * p \in Int
      BY <1>1, <1>3, <2>2
    <3> QED
      BY <2>2, <2>3, <2>4, <3>1, <3>2
  <2>6. (DaySeconds * (p + q) + (first + i * each)) % DaySeconds = (first + i * each) % DaySeconds
    <3>1. p + q \in Int /\ first + i * each \in Int
      BY <1>3, <2>1, <2>2, <2>4
    <3> QED
      BY <1>1, <3>1, ModShift
  <2> QED
    BY <1>6, <2>5, <2>6 DEF i
<1>9. ASSUME NEW k \in Nat
      PROVE  ToMinute((EpochStart(e + k * n) + UpdateDelay) % DaySeconds) \in UNION Cron(e, n)
  <2>1. k % m \in 0..m - 1
    BY <1>7, ModDecomposes
  <2>2. ToMinute((EpochStart(e + k * n) + UpdateDelay) % DaySeconds) \in Entry(k % m)
    BY <1>8
  <2> HIDE DEF Entry
  <2> QED
    BY <1>5, <2>1, <2>2
<1> QED
  BY <1>9

\* The times the service remembers run, or the boot is about to start them; so
\* do those of the configuration that is stored.
Covered(times) ==
  \/ times = {}
  \/ boot = "first" /\ times = DefaultTimes
  \/ \E j \in running : j.times = times

StoredTimes == LET vebo == VeboFrames[stored.vebo]
               IN  Cron(vebo.initialEpoch, vebo.epochsPerFrame)

CoverInv ==
  /\ Covered(cronTimes)
  /\ stored.vebo # Unread => Covered(StoredTimes)

LEMMA NextCoverInv ==
  ASSUME ConfigTypes, CoverInv, [Next]_vars PROVE CoverInv'
<1>1. CASE UNCHANGED <<schedule, stored>>
  BY <1>1 DEF schedule, CoverInv, Covered, StoredTimes
<1>2. CASE Restart
  BY <1>2 DEF Restart, CoverInv, Covered, Unset, Unread
<1>3. CASE FirstUpdate /\ UNCHANGED stored
  BY <1>3 DEF FirstUpdate, CoverInv, Covered, StoredTimes
<1>4. CASE StartFirstJobs /\ UNCHANGED stored
  <2>1. cronJobs' \in running' /\ cronJobs'.times = DefaultTimes /\ running \subseteq running'
    BY <1>4 DEF StartFirstJobs, StartJobs
  <2>2. \A times : Covered(times) => Covered(times)'
    BY <2>1 DEF Covered
  <2>3. UNCHANGED <<cronTimes, StoredTimes, stored>>
    BY <1>4 DEF StartFirstJobs, StoredTimes
  <2> QED
    BY <2>2, <2>3 DEF CoverInv
<1>5. ASSUME NEW c \in Callers, Publish(c) PROVE CoverInv'
  <2>0. PICK times : times = StoredTimes'
    OBVIOUS
  <2>1. Reschedule(times)
    BY <1>5, <2>0, PublishReschedules DEF StoredTimes
  <2>2. CASE (times = {} \/ times = cronTimes) /\ UNCHANGED <<boot, cronTimes, running>>
    <3>1. Covered(cronTimes)' /\ Covered(times)'
      BY <2>2 DEF CoverInv, Covered
    <3> QED
      BY <2>0, <3>1 DEF CoverInv
  <2>3. CASE StartJobs(times) /\ cronTimes' = times /\ cronJobs' \in running'
    <3>1. cronJobs'.times = times
      BY <2>3 DEF StartJobs
    <3>2. Covered(times)'
      BY <2>3, <3>1 DEF Covered
    <3> QED
      BY <2>0, <2>3, <3>2 DEF CoverInv
  <2> QED
    BY <2>1, <2>2, <2>3 DEF Reschedule
<1>6. \/ UNCHANGED <<schedule, stored>> \/ Restart
      \/ (FirstUpdate \/ StartFirstJobs) /\ UNCHANGED stored
      \/ \E c \in Callers : Publish(c)
  BY DEF Next, vars, Change, Upgrade, CronTick, LateProbe, ValidatorsBoot, Deliver, Execution,
         Fail, ReadBlock, ReadField, ReadTarget, Probe
<1> QED
  BY <1>1, <1>2, <1>3, <1>4, <1>5, <1>6

LEMMA CoverGivesReports ==
  ASSUME ConfigTypes, CoverInv PROVE ReportsAreFollowed
<1> DEFINE vebo == VeboFrames[stored.vebo]
<1> SUFFICES ASSUME boot = "started", stored.vebo # Unread,
                    DaySeconds % (vebo.epochsPerFrame * SecondsPerEpoch) = 0,
                    NEW k \in 0..DaySeconds
             PROVE  ToMinute((EpochStart(vebo.initialEpoch + k * vebo.epochsPerFrame) + UpdateDelay)
                               % DaySeconds) \in TimesOf(running)
  BY DEF ReportsAreFollowed
<1>1. stored.vebo \in 0..MaxChanges
  BY DEF ConfigTypes, StoredTypes, Fields, Changed
<1>2. vebo.initialEpoch \in Nat /\ vebo.epochsPerFrame \in Nat \ {0}
  BY <1>1, ConfigConstants
<1>3. k \in Nat
  BY ScheduleConstants
<1>4. StoredTimes = Cron(vebo.initialEpoch, vebo.epochsPerFrame)
  BY DEF StoredTimes
<1> HIDE DEF vebo
<1>5. /\ StoredTimes # {}
      /\ ToMinute((EpochStart(vebo.initialEpoch + k * vebo.epochsPerFrame) + UpdateDelay)
                    % DaySeconds) \in UNION StoredTimes
  BY <1>2, <1>3, <1>4, CronFollows
<1>6. \E j \in running : j.times = StoredTimes
  BY <1>5 DEF CoverInv, Covered
<1> QED
  BY <1>5, <1>6 DEF TimesOf

\* In every behaviour, however the boot and the contract-config job overlap, the
\* validators update is scheduled after every report of the stored exit bus
\* configuration, for every length of a day, an epoch and a frame.
THEOREM ReportsFollowed == Spec => []ReportsAreFollowed
<1>1. Init => CoverInv
  BY DEF Init, ScheduleInit, CoverInv, Covered, Unset, Unread
<1> QED
  BY <1>1, InitConfigTypes, NextConfigTypes, NextCoverInv, CoverGivesReports, PTL DEF Spec

=============================================================================
