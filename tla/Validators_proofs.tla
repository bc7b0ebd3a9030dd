-------------------------- MODULE Validators_proofs --------------------------
(***************************************************************************)
(* What is known of the validators and computed from it.                   *)
(*                                                                         *)
(*  - The two validators updates, the cache file and restarts, for every   *)
(*    set of validators, batch size and number of faults.                  *)
(*                                                                         *)
(*  - The three figures of the exits and the sweep, for any number of      *)
(*    validators, withdrawals, slots and amounts.  Induction is by a least *)
(*    counterexample (LeastOfNats): what a recursive function is has to be *)
(*    given in closed form first (CursorsAdvance), and the sum of at most  *)
(*    one amount is computed outright (FewAreAdded).                       *)
(***************************************************************************)
EXTENDS Validators, Sweep, TLAPS, FiniteSetTheorems, SequenceTheorems, WellFoundedInduction

(***************************************************************************)
(* The inductive invariant.                                                *)
(***************************************************************************)
\* What is stored when the update of the storage says so.
StoredComplete ==
  lastUpdate => maxExitEpoch /\ sweepMean /\ frameBalances # Undefined

\* How far the full update has got tells what it has stored.
FullHasStored ==
  /\ full \in {"counting", "matching", "opening", "writing"} => sweepMean
  /\ full \in {"matching", "opening", "writing"} => maxExitEpoch /\ totals
  /\ full \in {"opening", "writing"} => frameBalances # Undefined

\* Ids come with the count they were found with, in the storage and in the light
\* update.
IdsHaveTotals == /\ ids # {} => totals
                 /\ lightTodo # {} => lightTotals

\* Exits are not taken back.
IdsAreLeaving == \A v \in LidoValidators : v \in ids \cup seen => status[v] # "active"

\* Unless it is overtaken, the light update accounts for all stored ids.
LightKeepsIds ==
  light = "reading" /\ ~overtaken => ids \cap Exiting \subseteq lightTodo \cup lightCounted

IInv == /\ TypeOK /\ StoredComplete /\ FullHasStored
        /\ IdsHaveTotals /\ IdsAreLeaving /\ LightKeepsIds

Files == [text : {"none", "noChurn", "whole"}, balances : SUBSET LidoValidators,
          fresh : BOOLEAN]

LEMMA UndefinedIsNoSet == \A S \in SUBSET LidoValidators : S # Undefined
  BY ValidatorsConstants DEF Undefined

LEMMA InitIInv == Init => IInv
<1> SUFFICES ASSUME Init PROVE IInv
  OBVIOUS
<1>1. NoFile \in Files
  BY DEF NoFile, Files
<1>2. TypeOK
  <2>1. status \in [LidoValidators -> {"active", "exiting", "withdrawn"}]
    BY DEF Init
  <2>2. faults \in 0..MaxFaults
    BY ValidatorsConstants DEF Init
  <2>3. {lastUpdate, churnLimit, maxExitEpoch, sweepMean, totals} \subseteq BOOLEAN
    BY DEF Init
  <2>4. frameBalances \in (SUBSET LidoValidators) \cup {Undefined}
    BY DEF Init
  <2> QED
    BY <1>1, <2>1, <2>2, <2>3, <2>4 DEF Init, TypeOK, Files
<1> QED
  BY <1>2 DEF Init, IInv, StoredComplete, FullHasStored, IdsHaveTotals, IdsAreLeaving, LightKeepsIds

(***************************************************************************)
(* Steps of the environment and of the full update.                        *)
(***************************************************************************)
LEMMA ConsensusLayerIInv == ASSUME IInv, ConsensusLayer PROVE IInv'
<1>1. PICK v \in LidoValidators : Exit(v) \/ Withdraw(v)
  BY DEF ConsensusLayer
<1>2. /\ status' \in [LidoValidators -> {"active", "exiting", "withdrawn"}]
      /\ \A w \in LidoValidators : status[w] # "active" => status'[w] # "active"
      /\ \A w \in LidoValidators :
           status[w] # "active" /\ status'[w] = "exiting" => status[w] = "exiting"
  BY <1>1 DEF IInv, TypeOK, Exit, Withdraw
<1>3. UNCHANGED <<boot, storage, fullVars, lightVars, file, faults>>
  BY <1>1 DEF Exit, Withdraw
<1>4. TypeOK'
  BY <1>2, <1>3 DEF IInv, TypeOK, storage, figures, fullVars, lightVars
<1>5. StoredComplete' /\ FullHasStored' /\ IdsHaveTotals'
  BY <1>3 DEF IInv, StoredComplete, FullHasStored, IdsHaveTotals, storage, figures,
              fullVars, lightVars
<1>6. IdsAreLeaving'
  BY <1>2, <1>3 DEF IInv, IdsAreLeaving, storage, fullVars
<1>7. LightKeepsIds'
  <2>1. ids \cap Exiting' \subseteq ids \cap Exiting
    BY <1>2 DEF IInv, TypeOK, IdsAreLeaving, Exiting
  <2> QED
    BY <1>3, <2>1 DEF IInv, LightKeepsIds, storage, lightVars
<1> QED
  BY <1>4, <1>5, <1>6, <1>7 DEF IInv

LEMMA FullUpdateIInv == ASSUME IInv, FullUpdate PROVE IInv'
<1> USE DEF IInv
<1>1. CASE StartFull
  <2>1. UNCHANGED <<status, boot, storage, seen, saving, lightVars, file, faults>>
        /\ full' = "reading"
    BY <1>1 DEF StartFull
  <2>2. TypeOK'
    BY <2>1 DEF TypeOK, storage, figures, lightVars
  <2> QED
    BY <2>1, <2>2 DEF StoredComplete, FullHasStored, IdsHaveTotals, IdsAreLeaving,
                      LightKeepsIds, Exiting, storage, figures, lightVars
<1>2. CASE ReadValidators
  <2>1. /\ UNCHANGED <<status, boot, storage, saving, lightVars, file, faults>>
        /\ full' = "sweep" /\ seen' = Exiting
    BY <1>2 DEF ReadValidators
  <2>2. TypeOK'
    BY <2>1 DEF TypeOK, Exiting, storage, figures, lightVars
  <2> QED
    BY <2>1, <2>2 DEF StoredComplete, FullHasStored, IdsHaveTotals, IdsAreLeaving,
                      LightKeepsIds, Exiting, storage, figures, lightVars
<1>3. CASE SetSweepMean
  <2>1. TypeOK'
    BY <1>3 DEF SetSweepMean, TypeOK, lightVars
  <2> QED
    BY <1>3, <2>1 DEF SetSweepMean, StoredComplete, FullHasStored, IdsHaveTotals,
                      IdsAreLeaving, LightKeepsIds, Exiting, lightVars
<1>4. CASE SetFigures
  <2>1. TypeOK'
    BY <1>4 DEF SetFigures, TypeOK, lightVars
  <2> QED
    BY <1>4, <2>1 DEF SetFigures, StoredComplete, FullHasStored, IdsHaveTotals,
                      IdsAreLeaving, LightKeepsIds, Exiting, lightVars
<1>5. CASE SetBalances
  <2>1. TypeOK'
    BY <1>5 DEF SetBalances, TypeOK
  <2>2. /\ full = "matching" /\ full' = "opening" /\ frameBalances' = seen /\ ids' = seen
        /\ overtaken' = (light # "idle") /\ light' = light /\ status' = status
        /\ UNCHANGED <<churnLimit, maxExitEpoch, sweepMean, totals, seen,
                       lightTodo, lightTotals, lightCounted>>
    BY <1>5 DEF SetBalances
  <2>3. frameBalances' # Undefined
    BY <2>2, UndefinedIsNoSet DEF TypeOK
  <2>4. StoredComplete' /\ FullHasStored' /\ IdsHaveTotals' /\ IdsAreLeaving'
    BY <2>2, <2>3 DEF StoredComplete, FullHasStored, IdsHaveTotals, IdsAreLeaving
  <2>5. LightKeepsIds'
    BY <2>2 DEF LightKeepsIds
  <2> QED
    BY <2>1, <2>4, <2>5
<1>6. CASE OpenFile
  <2>1. frameBalances \subseteq LidoValidators
    BY <1>6, UndefinedIsNoSet DEF OpenFile, FullHasStored, TypeOK
  <2>2. TypeOK'
    BY <1>6, <2>1 DEF OpenFile, TypeOK, NoFile, storage, figures, lightVars
  <2> QED
    BY <1>6, <2>2 DEF OpenFile, StoredComplete, FullHasStored, IdsHaveTotals,
                      IdsAreLeaving, LightKeepsIds, Exiting, storage, figures, lightVars
<1>7. CASE CloseFile
  <2>1. TypeOK'
    BY <1>7 DEF CloseFile, EndFull, Saved, TypeOK, storage, figures, lightVars
  <2> QED
    BY <1>7, <2>1 DEF CloseFile, EndFull, StoredComplete, FullHasStored, IdsHaveTotals,
                      IdsAreLeaving, LightKeepsIds, Exiting, storage, figures, lightVars
<1> QED
  BY <1>1, <1>2, <1>3, <1>4, <1>5, <1>6, <1>7 DEF FullUpdate

(***************************************************************************)
(* Steps of the light update.                                              *)
(***************************************************************************)
LEMMA LightUpdateIInv == ASSUME IInv, LightUpdate PROVE IInv'
<1> USE DEF IInv
<1>1. CASE StartLight
  <2>1. TypeOK'
    BY <1>1 DEF StartLight, TypeOK, storage, figures, fullVars
  <2> QED
    BY <1>1, <2>1 DEF StartLight, StoredComplete, FullHasStored, IdsHaveTotals,
                      IdsAreLeaving, LightKeepsIds, Exiting, storage, figures, fullVars
<1>2. CASE FetchBatch
  <2>1. PICK batch \in SUBSET lightTodo :
          /\ lightTodo' = lightTodo \ batch
          /\ lightCounted' = lightCounted \cup (batch \cap Exiting)
    BY <1>2 DEF FetchBatch
  <2>2. /\ light = "reading"
        /\ UNCHANGED <<status, boot, storage, fullVars, light, lightTotals, overtaken, file, faults>>
    BY <1>2 DEF FetchBatch
  <2>3. TypeOK'
    BY <2>1, <2>2 DEF TypeOK, storage, figures, fullVars
  <2>4. StoredComplete' /\ FullHasStored' /\ IdsHaveTotals' /\ IdsAreLeaving'
    BY <2>1, <2>2 DEF StoredComplete, FullHasStored, IdsHaveTotals, IdsAreLeaving,
                      storage, figures, fullVars
  <2>5. LightKeepsIds'
    BY <2>1, <2>2 DEF LightKeepsIds, Exiting, storage
  <2> QED
    BY <2>3, <2>4, <2>5
<1>3. CASE PublishLight
  <2>1. frameBalances' \in SUBSET LidoValidators
    BY <1>3 DEF PublishLight, TypeOK
  <2>2. TypeOK'
    BY <1>3, <2>1 DEF PublishLight, EndLight, TypeOK, figures, fullVars
  <2>3. frameBalances' # Undefined
    BY <2>1, UndefinedIsNoSet
  <2> QED
    BY <1>3, <2>2, <2>3 DEF PublishLight, EndLight, StoredComplete, FullHasStored,
         IdsHaveTotals, IdsAreLeaving, LightKeepsIds, figures, fullVars
<1> QED
  BY <1>1, <1>2, <1>3 DEF LightUpdate

(***************************************************************************)
(* Failures and restarts.                                                  *)
(***************************************************************************)
LEMMA LeftoversAreFiles ==
  ASSUME IInv, NEW f \in Leftovers
  PROVE  f \in Files
<1>1. /\ NoFile \in Files
      /\ \A text \in {"noChurn", "whole"} : Saved(text) \in Files
  <2>1. saving \in SUBSET LidoValidators
    BY DEF IInv, TypeOK
  <2> QED
    BY <2>1 DEF NoFile, Saved, Files
<1>2. file \in Files
  BY DEF IInv, TypeOK, Files
<1> QED
  BY <1>1, <1>2 DEF Leftovers

LEMMA FaultsIInv == ASSUME IInv, Faults PROVE IInv'
<1> USE DEF IInv
<1>1. CASE FailFull
  <2>1. faults' \in 0..MaxFaults
    BY <1>1, ValidatorsConstants DEF FailFull, TypeOK
  <2>2. TypeOK'
    BY <1>1, <2>1, LeftoversAreFiles DEF Files, FailFull, EndFull, TypeOK, storage, figures, lightVars
  <2> QED
    BY <1>1, <2>2 DEF FailFull, EndFull, StoredComplete, FullHasStored, IdsHaveTotals,
                      IdsAreLeaving, LightKeepsIds, Exiting, storage, figures, lightVars
<1>2. CASE FailLight
  <2>1. faults' \in 0..MaxFaults
    BY <1>2, ValidatorsConstants DEF FailLight, TypeOK
  <2>2. TypeOK'
    BY <1>2, <2>1 DEF FailLight, EndLight, TypeOK, storage, figures, fullVars
  <2> QED
    BY <1>2, <2>2 DEF FailLight, EndLight, StoredComplete, FullHasStored, IdsHaveTotals,
                      IdsAreLeaving, LightKeepsIds, Exiting, storage, figures, fullVars
<1>3. CASE Restart
  <2>1. PICK f \in Leftovers : file' = f /\ LoadFrom(f)
    BY <1>3 DEF Restart
  <2>2. f \in Files
    BY LeftoversAreFiles
  <2>3. faults' \in 0..MaxFaults
    BY <1>3, ValidatorsConstants DEF Restart, TypeOK
  <2> DEFINE valid == f.text # "none" /\ f.fresh
  <2>4. /\ lastUpdate' = valid /\ maxExitEpoch' = valid /\ sweepMean' = valid
        /\ churnLimit' = (valid /\ f.text = "whole") /\ totals' = FALSE
        /\ frameBalances' = IF valid THEN f.balances ELSE Undefined
        /\ ids' = {}
    BY <2>1 DEF LoadFrom
  <2>5. valid \in BOOLEAN /\ (valid => frameBalances' # Undefined)
    BY <2>2, <2>4, UndefinedIsNoSet DEF Files
  <2>6. frameBalances' \in (SUBSET LidoValidators) \cup {Undefined}
    BY <2>2, <2>4 DEF Files
  <2> HIDE DEF valid
  <2>7. /\ full' = "idle" /\ light' = "idle" /\ boot' = "full" /\ overtaken' = FALSE
        /\ seen' = {} /\ saving' = {} /\ lightTodo' = {} /\ lightTotals' = FALSE
        /\ lightCounted' = {} /\ status' = status
    BY <1>3 DEF Restart
  <2>8. {lastUpdate', churnLimit', maxExitEpoch', sweepMean', totals'} \subseteq BOOLEAN
    BY <2>4, <2>5
  <2>9. TypeOK'
    BY <2>1, <2>2, <2>3, <2>4, <2>6, <2>7, <2>8 DEF TypeOK, Files
  <2> QED
    BY <2>4, <2>5, <2>7, <2>9 DEF StoredComplete, FullHasStored, IdsHaveTotals,
                                  IdsAreLeaving, LightKeepsIds
<1> QED
  BY <1>1, <1>2, <1>3 DEF Faults

LEMMA StepIInv == IInv /\ [Next]_vars => IInv'
<1> SUFFICES ASSUME IInv, [Next]_vars PROVE IInv'
  OBVIOUS
<1>1. CASE Outdate
  <2>1. file' \in Files
    BY <1>1 DEF Outdate, IInv, TypeOK, Files
  <2>2. TypeOK'
    BY <1>1, <2>1 DEF Outdate, IInv, TypeOK, Files, storage, figures, fullVars, lightVars
  <2> QED
    BY <1>1, <2>2 DEF Outdate, IInv, StoredComplete, FullHasStored, IdsHaveTotals,
         IdsAreLeaving, LightKeepsIds, Exiting, storage, figures, fullVars, lightVars
<1>2. CASE UNCHANGED vars
  <2>1. TypeOK'
    BY <1>2 DEF vars, IInv, TypeOK, storage, figures, fullVars, lightVars
  <2> QED
    BY <1>2, <2>1 DEF vars, IInv, StoredComplete, FullHasStored, IdsHaveTotals,
         IdsAreLeaving, LightKeepsIds, Exiting, storage, figures, fullVars, lightVars
<1> QED
  BY <1>1, <1>2, ConsensusLayerIInv, FullUpdateIInv, LightUpdateIInv, FaultsIInv DEF Next

LEMMA Invariance == Spec => []IInv
  BY InitIInv, StepIInv, PTL DEF Spec

(***************************************************************************)
(* The theorems.                                                           *)
(***************************************************************************)
\* The variables of both updates, the storage and the cache file keep their types,
\* and the light update does not run before initialize() comes to it.
THEOREM TypeCorrect == Spec => []TypeOK
<1>1. IInv => TypeOK
  BY DEF IInv
<1> QED
  BY <1>1, Invariance, PTL

\* checkIsInitializing is sufficient: the two fields it looks at imply all the
\* others, in every interleaving of the updates with failures, interrupted writes
\* of the cache file and restarts from it.
THEOREM GateIsSufficient == Spec => []InitializedIsComplete
<1>1. IInv => InitializedIsComplete
  BY DEF IInv, StoredComplete, InitializedIsComplete
<1> QED
  BY <1>1, Invariance, PTL

\* updateLidoWithdrawableValidators never divides by a count it does not have.
THEOREM LightNeverLacksTotals == Spec => []LightHasTotals
<1>1. IInv => LightHasTotals
  BY DEF IInv, IdsHaveTotals, LightHasTotals
<1> QED
  BY <1>1, Invariance, PTL

\* The batches of updateLidoWithdrawableValidators lose no validator.
THEOREM LightIsExhaustive == Spec => LightCountsIdentified
<1> DEFINE A == light = "reading" /\ light' = "idle" /\ boot' # "full" /\ ~overtaken
                /\ faults' = faults
                => ids \cap Exiting \subseteq frameBalances'
<1>1. IInv /\ [Next]_vars => [A]_vars
  <2> SUFFICES ASSUME IInv, Next, light = "reading", light' = "idle", ~overtaken,
                      faults' = faults
               PROVE  ids \cap Exiting \subseteq frameBalances'
    OBVIOUS
  <2>1. PublishLight
    <3>1. faults \in Nat
      BY ValidatorsConstants DEF IInv, TypeOK
    <3>2. ~Faults
      BY <3>1 DEF Faults, FailFull, FailLight, Restart
    <3>3. ~(ConsensusLayer \/ Outdate \/ FullUpdate)
      BY DEF ConsensusLayer, Exit, Withdraw, Outdate, FullUpdate, StartFull, ReadValidators,
             SetSweepMean, SetFigures, SetBalances, OpenFile, CloseFile, lightVars
    <3>4. ~StartLight /\ ~FetchBatch
      BY DEF StartLight, FetchBatch
    <3> QED
      BY <3>2, <3>3, <3>4 DEF Next, LightUpdate
  <2> QED
    BY <2>1 DEF PublishLight, IInv, LightKeepsIds
<1> QED
  BY <1>1, Invariance, PTL DEF Spec, LightCountsIdentified

(***************************************************************************)
(* Arithmetic of the sweep.                                                *)
(***************************************************************************)
\* Integer division brackets the dividend.
LEMMA DivBounds ==
  ASSUME NEW a \in Int, NEW b \in Nat \ {0}
  PROVE  a \div b \in Int /\ b * (a \div b) <= a /\ a < b * (a \div b) + b
  BY Z3

LEMMA DivNat ==
  ASSUME NEW a \in Nat, NEW b \in Nat \ {0}
  PROVE  a \div b \in Nat
  BY Z3

LEMMA ScaleLeq ==
  ASSUME NEW a \in Int, NEW b \in Int, NEW c \in Nat, a <= b
  PROVE  c * a \in Int /\ c * b \in Int /\ c * a <= c * b
  BY Z3

\* A quotient is the greatest number whose product does not exceed the dividend.
LEMMA DivBelow ==
  ASSUME NEW a \in Int, NEW b \in Nat \ {0}, NEW q \in Int, a < b * q + b
  PROVE  a \div b <= q
<1> DEFINE p == a \div b
<1>1. p \in Int /\ b * p <= a
  BY DivBounds
<1> HIDE DEF p
<1>2. SUFFICES ASSUME q + 1 <= p PROVE FALSE
  BY <1>1 DEF p
<1>3. b * (q + 1) <= b * p
  BY <1>1, <1>2, ScaleLeq
<1>4. b * (q + 1) = b * q + b /\ b * q \in Int /\ b * p \in Int
  BY <1>1
<1> QED
  BY <1>1, <1>3, <1>4

LEMMA DivAbove ==
  ASSUME NEW a \in Int, NEW b \in Nat \ {0}, NEW q \in Int, b * q <= a
  PROVE  q <= a \div b
<1> DEFINE p == a \div b
<1>1. p \in Int /\ a < b * p + b
  BY DivBounds
<1> HIDE DEF p
<1>2. SUFFICES ASSUME p + 1 <= q PROVE FALSE
  BY <1>1 DEF p
<1>3. b * (p + 1) <= b * q
  BY <1>1, <1>2, ScaleLeq
<1>4. b * (p + 1) = b * p + b /\ b * q \in Int /\ b * p \in Int
  BY <1>1
<1> QED
  BY <1>1, <1>3, <1>4

LEMMA DivMonotone ==
  ASSUME NEW a \in Int, NEW c \in Int, NEW b \in Nat \ {0}, a <= c
  PROVE  a \div b <= c \div b
<1> DEFINE p == a \div b
<1>1. p \in Int /\ b * p <= a /\ b * p \in Int
  BY DivBounds
<1>2. b * p <= c
  BY <1>1
<1> HIDE DEF p
<1>3. p <= c \div b
  BY <1>1, <1>2, DivAbove
<1> QED
  BY <1>3 DEF p

(***************************************************************************)
(* The days of the first version of the estimate.                          *)
(***************************************************************************)
LEMMA ChurnBounds ==
  ASSUME NEW total \in Nat
  PROVE  /\ ChurnBalance(total) \in Nat \ {0} /\ MinChurn * MinBalance <= ChurnBalance(total)
         /\ ChurnLimit(total) \in Nat /\ MinChurn <= ChurnLimit(total)
         /\ MinBalance * ChurnLimit(total) \in Nat \ {0}
         /\ MinBalance * ChurnLimit(total) <= ChurnBalance(total)
         /\ ChurnBalance(total) < MinBalance * ChurnLimit(total) + MinBalance
<1> DEFINE c == ChurnBalance(total)
           l == ChurnLimit(total)
           x == total \div Quotient
           m == MinChurn * MinBalance
<1>1. /\ MinBalance \in Nat \ {0} /\ MinChurn \in Nat \ {0} /\ MaxChurn \in Nat \ {0}
      /\ Quotient \in Nat \ {0} /\ m <= MaxChurn
  BY RequestDaysConstants
<1>2. x \in Int
  BY <1>1, DivBounds
<1>3. m \in Nat \ {0} /\ m = MinBalance * MinChurn
  BY <1>1, Z3
<1>4. c = AtMost(AtLeast(x, m), MaxChurn)
  BY DEF ChurnBalance
<1>5. l = c \div MinBalance
  BY DEF ChurnLimit
<1> HIDE DEF c, l, x, m
<1>6. c \in Nat \ {0} /\ m <= c
  BY <1>1, <1>2, <1>3, <1>4 DEF AtMost, AtLeast
<1>7. l \in Int /\ MinBalance * l <= c /\ c < MinBalance * l + MinBalance
  BY <1>1, <1>5, <1>6, DivBounds
<1>8. MinChurn <= l
  BY <1>1, <1>3, <1>5, <1>6, DivAbove
<1>9. l \in Nat /\ MinBalance * l \in Nat \ {0}
  <2>1. l \in Nat \ {0}
    BY <1>1, <1>7, <1>8
  <2> QED
    BY <1>1, <2>1, Z3
<1> QED
  BY <1>6, <1>7, <1>8, <1>9 DEF c, l, m

\* A limit cut to whole validators delays the exits of a queue by at most one
\* MinChurn-th and an epoch.
LEMMA CutDelays ==
  ASSUME NEW queue \in Nat, NEW total \in Nat
  PROVE  LET exact == queue \div ChurnBalance(total)
             cut   == queue \div (MinBalance * ChurnLimit(total))
         IN  /\ exact \in Nat /\ cut \in Nat /\ exact <= cut
             /\ (exact + 1) \div MinChurn \in Nat
             /\ cut <= exact + 1 + (exact + 1) \div MinChurn
<1> DEFINE c     == ChurnBalance(total)
           l     == ChurnLimit(total)
           b     == MinBalance
           w     == b * l
           exact == queue \div c
           cut   == queue \div w
           e     == exact + 1
           k     == e \div MinChurn
<1>1. /\ c \in Nat \ {0} /\ l \in Nat /\ MinChurn <= l /\ w \in Nat \ {0} /\ w <= c
      /\ c < w + b
  BY ChurnBounds
<1>2. b \in Nat \ {0} /\ MinChurn \in Nat \ {0}
  BY RequestDaysConstants
<1>3. exact \in Nat /\ c * exact <= queue /\ queue < c * exact + c /\ cut \in Nat
  <2> HIDE DEF c, w
  <2> QED
    BY <1>1, DivBounds, DivNat
<1> HIDE DEF c, exact
<1>4. e \in Nat /\ c * e = c * exact + c /\ queue < c * e
  BY <1>1, <1>3
<1> HIDE DEF e
<1>5. k \in Nat /\ e < MinChurn * k + MinChurn
  BY <1>2, <1>4, DivBounds, DivNat
<1> HIDE DEF k, l
<1>6. exact <= cut
  <2>1. w * exact <= c * exact /\ w * exact \in Int
    <3> HIDE DEF w
    <3>1. exact * w <= exact * c
      BY <1>1, <1>3, ScaleLeq
    <3> QED
      BY <1>1, <1>3, <3>1
  <2>2. w * exact <= queue
    <3>1. c * exact \in Int
      BY <1>1, <1>3
    <3> HIDE DEF w
    <3> QED
      BY <1>1, <1>3, <2>1, <3>1
  <2> HIDE DEF w
  <2> QED
    BY <1>1, <1>3, <2>2, DivAbove
<1>7. cut <= e + k
  <2>1. c * e <= w * e + b * e
    <3>1. e * c <= e * (w + b)
      <4> HIDE DEF w
      <4>1. w + b \in Int /\ c <= w + b
        BY <1>1, <1>2
      <4> QED
        BY <1>1, <1>4, <4>1, ScaleLeq
    <3> HIDE DEF w
    <3>2. e * c = c * e /\ e * (w + b) = w * e + b * e
      BY <1>1, <1>2, <1>4
    <3> QED
      BY <3>1, <3>2
  <2>2. b * e <= w * k + w
    <3>1. e <= l * (k + 1)
      <4>1. (k + 1) * MinChurn <= (k + 1) * l
        BY <1>1, <1>2, <1>5, ScaleLeq
      <4>2. (k + 1) * MinChurn = MinChurn * k + MinChurn /\ (k + 1) * l = l * (k + 1)
        BY <1>1, <1>2, <1>5
      <4>3. l * (k + 1) \in Int /\ MinChurn * k \in Int
        BY <1>1, <1>2, <1>5
      <4> QED
        BY <1>2, <1>4, <1>5, <4>1, <4>2, <4>3
    <3>2. b * e <= b * (l * (k + 1))
      <4>1. l * (k + 1) \in Int
        BY <1>1, <1>5
      <4> QED
        BY <1>2, <1>4, <3>1, <4>1, ScaleLeq
    <3>3. b * (l * (k + 1)) = w * k + w
      BY <1>1, <1>2, <1>5, Z3
    <3> QED
      BY <3>2, <3>3
  <2>3. w * (e + k) = w * e + w * k /\ w * e \in Int /\ w * k \in Int /\ b * e \in Int /\ c * e \in Int
    <3> HIDE DEF w
    <3> QED
      BY <1>1, <1>2, <1>4, <1>5
  <2> HIDE DEF w
  <2>4. queue < w * (e + k) + w
    BY <1>1, <1>4, <2>1, <2>2, <2>3
  <2>5. e + k \in Int
    BY <1>4, <1>5
  <2> QED
    BY <1>1, <2>4, <2>5, DivBelow
<1> QED
  BY <1>3, <1>5, <1>6, <1>7 DEF c, exact, e, k, l

DaysAsked ==
  [active : Actives, queue : Queues, sweep : Sweeps, exit : ExitEpochs, at : 0..MaxEpoch, now : 0..MaxEpoch]

\* What the figure of the days is.
LEMMA DaysBounds ==
  ASSUME NEW q \in DaysAsked
  PROVE  LET exact == q.queue \div ChurnBalance(q.active)
             least == Epochs(q, exact) \div EpochsPerDay
             most  == Epochs(q, exact + 1 + (exact + 1) \div MinChurn) \div EpochsPerDay
         IN  \/ least <= 0 /\ Days(q) = Default
             \/ least <= Days(q) /\ Days(q) <= most
<1> DEFINE exact == q.queue \div ChurnBalance(q.active)
           cut   == q.queue \div (MinBalance * ChurnLimit(q.active))
           last  == exact + 1 + (exact + 1) \div MinChurn
           base  == MaxExitEpoch(StoredExitEpoch(q.exit, q.at), q.now)
<1>1. q.active \in Nat /\ q.queue \in Nat /\ q.sweep \in Nat /\ q.exit \in Nat /\ q.at \in Nat /\ q.now \in Nat
  BY SweepConstants DEF DaysAsked
<1>2. exact \in Nat /\ cut \in Nat /\ exact <= cut /\ last \in Nat /\ cut <= last
  <2> DEFINE k == (exact + 1) \div MinChurn
  <2>1. exact \in Nat /\ cut \in Nat /\ exact <= cut /\ k \in Nat /\ cut <= exact + 1 + k
    BY <1>1, CutDelays
  <2>2. last = exact + 1 + k
    OBVIOUS
  <2> HIDE DEF exact, cut, last, k
  <2> QED
    BY <2>1, <2>2
<1>3. base \in Int
  BY <1>1, RequestDaysConstants DEF MaxExitEpoch, StoredExitEpoch, AtLeast
<1>4. \A n \in Nat : Epochs(q, n) = base + n + q.sweep - q.now
  BY DEF Epochs
<1>5. EpochsPerDay \in Nat \ {0}
  BY RequestDaysConstants
<1> DEFINE day(n) == Epochs(q, n) \div EpochsPerDay
<1> HIDE DEF exact, cut, last, base
<1>6. \A n \in Nat : Epochs(q, n) \in Int /\ day(n) \in Int
  <2> TAKE n \in Nat
  <2>1. Epochs(q, n) \in Int
    BY <1>1, <1>3, <1>4
  <2> QED
    BY <1>5, <2>1, DivBounds
<1>7. \A m, n \in Nat : m <= n => day(m) <= day(n)
  <2> SUFFICES ASSUME NEW m \in Nat, NEW n \in Nat, m <= n PROVE day(m) <= day(n)
    OBVIOUS
  <2>1. Epochs(q, m) <= Epochs(q, n)
    BY <1>1, <1>3, <1>4
  <2> QED
    BY <1>5, <1>6, <2>1, DivMonotone
<1>8. Days(q) = IF day(cut) <= 0 THEN Default ELSE day(cut)
  BY DEF Days, cut
<1> HIDE DEF day
<1>9. day(exact) <= day(cut) /\ day(cut) <= day(last) /\ day(exact) \in Int /\ day(cut) \in Int
  BY <1>2, <1>6, <1>7
<1>10. \/ day(exact) <= 0 /\ Days(q) = Default
       \/ day(exact) <= Days(q) /\ Days(q) <= day(last)
  BY <1>8, <1>9
<1> QED
  BY <1>10 DEF day, exact, last

(***************************************************************************)
(* A figure is the answer to the question that was asked.                  *)
(***************************************************************************)
Answers ==
  /\ AskDelay \/ AskSlots \/ AskDays
  /\ figure # Unknown =>
       /\ validators # <<>> => figure = SweepDelay(validators, pending)
       /\ leaving # Nobody => figure \in Estimates(leaving)
       /\ days # NoDays => figure = Days(days)

LEMMA AnswersHold == SweepSpec => []Answers
<1>1. SweepInit => Answers
  BY DEF SweepInit, Answers
<1>2. Answers /\ [SweepNext]_sweepVars => Answers'
  <2> SUFFICES ASSUME Answers, [SweepNext]_sweepVars PROVE Answers'
    OBVIOUS
  <2>1. UNCHANGED <<validators, pending, leaving, days>>
    BY DEF SweepNext, sweepVars, inputs, ComputeDelay, ComputeSlots, ComputeDays
  <2>2. (AskDelay \/ AskSlots \/ AskDays)'
    BY <2>1 DEF Answers, AskDelay, AskSlots, AskDays, NoValidators
  <2>3. SweepDelay(validators, pending)' = SweepDelay(validators, pending)
    BY <2>1
  <2>4. Estimates(leaving)' = Estimates(leaving) /\ Days(days)' = Days(days)
    BY <2>1
  <2>5. NoValidators => validators = <<>>
    BY DEF NoValidators
  <2>6. leaving # Nobody => AskSlots
    BY DEF Answers, AskDelay, AskDays
  <2>7. days # NoDays => AskDays
    BY DEF Answers, AskDelay, AskSlots
  <2>8. CASE ComputeDelay
    BY <2>1, <2>2, <2>3, <2>8 DEF ComputeDelay, Answers
  <2>9. CASE ComputeSlots
    <3>1. validators' = <<>> /\ days' = NoDays /\ figure' \in Estimates(leaving)
      BY <2>1, <2>3, <2>5, <2>6, <2>9 DEF ComputeSlots, AskSlots
    <3> QED
      BY <2>2, <2>4, <3>1 DEF Answers
  <2>10. CASE ComputeDays
    <3>1. validators' = <<>> /\ leaving' = Nobody /\ figure' = Days(days)
      BY <2>1, <2>3, <2>5, <2>7, <2>10 DEF ComputeDays, AskDays
    <3> QED
      BY <2>2, <2>4, <3>1 DEF Answers
  <2>11. CASE UNCHANGED sweepVars
    BY <2>2, <2>3, <2>4, <2>11 DEF Answers, sweepVars, inputs
  <2> QED
    BY <2>8, <2>9, <2>10, <2>11 DEF SweepNext
<1> QED
  BY <1>1, <1>2, PTL DEF SweepSpec

\* The days follow the balance that the network lets out, for every limit, queue,
\* age of the stored figures and length of a day.
THEOREM DaysFollowTheChurn == SweepSpec => []DaysFollowChurn
<1>1. Answers => DaysFollowChurn
  <2> SUFFICES ASSUME Answers, days # NoDays, figure # Unknown PROVE DaysFollowChurn
    BY DEF DaysFollowChurn
  <2>1. figure = Days(days) /\ days \in DaysAsked
    BY DEF Answers, AskDelay, AskSlots, AskDays, DaysAsked
  <2> QED
    BY <2>1, DaysBounds DEF DaysFollowChurn
<1> QED
  BY <1>1, AnswersHold, PTL

(***************************************************************************)
(* The slot of a leaving validator.                                        *)
(***************************************************************************)
LEMMA MaxOfPair ==
  ASSUME NEW a \in Int, NEW b \in Int
  PROVE  Max({a, b}) = IF a >= b THEN a ELSE b
<1>1. CASE a >= b
  <2>1. \A x \in {a, b} : (\A y \in {a, b} : x >= y) => x = a
    BY <1>1
  <2>2. a \in {a, b} /\ \A y \in {a, b} : a >= y
    BY <1>1
  <2> QED
    BY <1>1, <2>1, <2>2 DEF Max
<1>2. CASE ~(a >= b)
  <2>1. \A x \in {a, b} : (\A y \in {a, b} : x >= y) => x = b
    BY <1>2
  <2>2. b \in {a, b} /\ \A y \in {a, b} : b >= y
    BY <1>2
  <2> QED
    BY <1>2, <2>1, <2>2 DEF Max
<1> QED
  BY <1>1, <1>2

LEMMA ModBounds ==
  ASSUME NEW a \in Int, NEW b \in Nat \ {0}
  PROVE  a % b \in 0..b - 1 /\ a = b * (a \div b) + (a % b)
  BY Z3

LEMMA ModUnique ==
  ASSUME NEW b \in Nat \ {0}, NEW q \in Int, NEW r \in 0..b - 1
  PROVE  (b * q + r) % b = r
  BY Z3

LEMMA DivUnique ==
  ASSUME NEW a \in Int, NEW b \in Nat \ {0}, NEW q \in Int,
         b * q <= a, a < b * q + b
  PROVE  a \div b = q
<1>1. a \div b \in Int /\ a \div b <= q /\ q <= a \div b
  BY DivBelow, DivAbove, DivBounds
<1> QED
  BY <1>1

LEMMA CeilBounds ==
  ASSUME NEW a \in Int, NEW b \in Nat \ {0}
  PROVE  CeilDiv(a, b) \in Int /\ a <= b * CeilDiv(a, b) /\ b * CeilDiv(a, b) < a + b
<1> DEFINE p == (-a) \div b
<1>1. p \in Int /\ b * p <= -a /\ -a < b * p + b
  BY DivBounds
<1>2. CeilDiv(a, b) = -p
  BY DEF CeilDiv
<1> HIDE DEF p
<1>3. b * (-p) = -(b * p) /\ b * p \in Int
  BY <1>1
<1> QED
  BY <1>1, <1>2, <1>3

\* The least number whose product reaches the dividend.
LEMMA CeilBelow ==
  ASSUME NEW a \in Int, NEW b \in Nat \ {0}, NEW c \in Int, a <= b * c
  PROVE  CeilDiv(a, b) <= c
<1> DEFINE p == (-a) \div b
<1>1. b * (-c) = -(b * c) /\ b * c \in Int
  OBVIOUS
<1>2. b * (-c) <= -a
  BY <1>1
<1>3. -c <= p
  BY <1>2, DivAbove
<1>4. p \in Int
  BY DivBounds
<1>5. CeilDiv(a, b) = -p
  BY DEF CeilDiv
<1> HIDE DEF p
<1> QED
  BY <1>3, <1>4, <1>5

LEMMA CeilAbove ==
  ASSUME NEW a \in Int, NEW b \in Nat \ {0}, NEW c \in Int, b * c - b < a
  PROVE  c <= CeilDiv(a, b)
<1> DEFINE d == CeilDiv(a, b)
<1>1. d \in Int /\ a <= b * d
  BY CeilBounds
<1> HIDE DEF d
<1>2. SUFFICES ASSUME d <= c - 1 PROVE FALSE
  BY <1>1 DEF d
<1>3. b * d <= b * (c - 1)
  BY <1>1, <1>2, ScaleLeq
<1>4. b * (c - 1) = b * c - b /\ b * c \in Int /\ b * d \in Int
  BY <1>1
<1> QED
  BY <1>1, <1>3, <1>4

LEMMA CeilOfNext ==
  ASSUME NEW d \in Nat, NEW p \in Nat \ {0}
  PROVE  d \div p \in Nat /\ CeilDiv(d + 1, p) = d \div p + 1
<1> DEFINE q == d \div p
<1>1. q \in Nat /\ p * q <= d /\ d < p * q + p
  BY DivBounds, DivNat
<1> HIDE DEF q
<1>2. p * (q + 1) = p * q + p /\ p * q \in Int
  BY <1>1
<1>3. CeilDiv(d + 1, p) <= q + 1
  <2>1. d + 1 <= p * (q + 1)
    BY <1>1, <1>2
  <2> QED
    BY <1>1, <2>1, CeilBelow
<1>4. q + 1 <= CeilDiv(d + 1, p)
  <2>1. p * (q + 1) - p < d + 1
    BY <1>1, <1>2
  <2> QED
    BY <1>1, <2>1, CeilAbove
<1>5. CeilDiv(d + 1, p) \in Int
  BY CeilBounds
<1> QED
  BY <1>1, <1>3, <1>4, <1>5 DEF q

\* The cursor does not advance by a negative number.
LEMMA FloorsTyped ==
  ASSUME NEW a \in Nat, NEW total \in Nat \ {0}, NEW active \in 1..total
  PROVE  /\ \A q \in Floors(a, active, total) : q \in Nat
         /\ Floors(a, active, total) # {}
         /\ active = total => Floors(a, active, total) = {a}
<1> DEFINE x == a * total
           q == x \div active
<1>1. active \in Nat \ {0} /\ active <= total
  OBVIOUS
<1>2. x \in Nat
  BY Z3
<1>3. q \in Nat
  <2> HIDE DEF x
  <2> QED
    BY <1>1, <1>2, DivNat
<1>4. ASSUME a > 0 PROVE q - 1 \in Nat
  <2>1. total * 1 <= total * a /\ total * a = x
    BY <1>4, ScaleLeq
  <2>2. active * 1 <= x
    BY <1>1, <1>2, <2>1
  <2>3. 1 <= q
    <3> HIDE DEF x
    <3> QED
      BY <1>1, <1>2, <2>2, DivAbove
  <2> HIDE DEF q
  <2> QED
    BY <1>3, <2>3
<1>5. Floors(a, active, total) \in {{q - 1, q}, {q}}
      /\ ({q - 1, q} = Floors(a, active, total) => a > 0 \/ {q - 1, q} = {q})
  BY DEF Floors
<1>6. ASSUME active = total PROVE Floors(a, active, total) = {a}
  <2>1. q = a
    <3>1. active * a = x /\ active * a <= x /\ x < active * a + active
      BY <1>1, <1>2, <1>6
    <3> HIDE DEF x
    <3> QED
      BY <1>1, <1>2, <3>1, DivUnique
  <2>2. Floors(a, active, total) = {q}
    BY <1>6 DEF Floors
  <2> QED
    BY <2>1, <2>2
<1> HIDE DEF q
<1>7. \A y \in Floors(a, active, total) : y \in Nat
  BY <1>3, <1>4, <1>5
<1>8. Floors(a, active, total) # {}
  BY <1>5
<1> QED
  BY <1>6, <1>7, <1>8

\* Of fewer than all validators, no more than the active ones are passed, whichever
\* way the product is rounded.
LEMMA CeilsTyped ==
  ASSUME NEW total \in Nat \ {0}, NEW a \in 0..total - 1, NEW active \in 1..total
  PROVE  /\ \A c \in Ceils(a, active, total) : c \in 0..active
         /\ Ceils(a, active, total) # {}
         /\ active = total => Ceils(a, active, total) = {a}
<1> DEFINE x == a * active
           c == CeilDiv(x, total)
<1>1. active \in Nat \ {0} /\ a \in Nat /\ a <= total - 1 /\ active <= total
  OBVIOUS
<1>2. x \in Nat
  BY <1>1, Z3
<1>3. c \in Int /\ x <= total * c /\ total * c < x + total
  <2> HIDE DEF x
  <2> QED
    BY <1>2, CeilBounds
<1>4. x <= total * active - active /\ total * active \in Int
  <2>1. active * a <= active * (total - 1)
    BY <1>1, ScaleLeq
  <2>2. active * (total - 1) = total * active - active /\ active * a = x
    BY <1>1
  <2> QED
    BY <1>1, <2>1, <2>2
<1>5. 0 <= c
  <2>1. total * 0 - total < x
    BY <1>2
  <2> HIDE DEF x
  <2> QED
    BY <1>2, <2>1, CeilAbove
<1>6. c <= active
  <2>1. x <= total * active
    BY <1>1, <1>2, <1>4
  <2> HIDE DEF x
  <2> QED
    BY <1>1, <1>2, <2>1, CeilBelow
<1>7. ASSUME x % total = 0 PROVE c + 1 <= active
  <2> DEFINE k == x \div total
  <2>1. k \in Int /\ x = total * k
    <3> HIDE DEF x
    <3>1. x = total * (x \div total) + (x % total) /\ x \div total \in Int
      BY <1>2, ModBounds, DivBounds
    <3> QED
      BY <1>7, <3>1
  <2> HIDE DEF x, k
  <2>2. c <= k
    BY <1>2, <2>1, CeilBelow
  <2>3. k <= active - 1
    <3>1. SUFFICES ASSUME active <= k PROVE FALSE
      BY <1>1, <2>1
    <3>2. total * active <= total * k
      BY <1>1, <2>1, <3>1, ScaleLeq
    <3> QED
      BY <1>1, <1>4, <2>1, <3>2
  <2> HIDE DEF c
  <2> QED
    BY <1>1, <1>3, <2>1, <2>2, <2>3
<1>8. /\ Ceils(a, active, total) \in {{c, c + 1}, {c}}
      /\ Ceils(a, active, total) = {c, c + 1} => x % total = 0 \/ {c, c + 1} = {c}
  BY DEF Ceils
<1>9. ASSUME active = total PROVE Ceils(a, active, total) = {a}
  <2>1. c = a
    <3>1. x = total * a
      BY <1>1, <1>9
    <3> HIDE DEF x
    <3>2. c <= a
      BY <1>1, <1>2, <3>1, CeilBelow
    <3>3. a <= c
      <4>1. total * a - total < x
        BY <1>2, <3>1
      <4> QED
        BY <1>1, <1>2, <4>1, CeilAbove
    <3> HIDE DEF c
    <3> QED
      BY <1>1, <1>3, <3>2, <3>3
  <2>2. Ceils(a, active, total) = {c}
    BY <1>9 DEF Ceils
  <2> QED
    BY <2>1, <2>2
<1> HIDE DEF c, x
<1>10. \A y \in Ceils(a, active, total) : y \in 0..active
  BY <1>1, <1>3, <1>5, <1>6, <1>7, <1>8
<1>11. Ceils(a, active, total) # {}
  BY <1>8
<1> QED
  BY <1>9, <1>10, <1>11

\* Natural numbers are well-founded, so a non-empty set of them has a least one.
LEMMA LeastOfNats ==
  ASSUME NEW S \in SUBSET Nat, S # {}
  PROVE  \E x \in S : \A y \in S : x <= y
<1> DEFINE R == {ss \in Nat \X Nat : ss[1] < ss[2]}
<1>1. IsWellFoundedOn(R, Nat)
  BY NatLessThanWellFounded DEF OpToRel
<1> HIDE DEF R
<1>2. PICK x \in S : \A y \in S : <<y, x>> \notin R
  BY <1>1, WFMin, Zenon
<1>3. \A y \in S : ~(y < x)
  BY <1>2 DEF R
<1>4. \A y \in S : x <= y
  BY <1>3
<1> QED
  BY <1>4

LEMMA ModAdd ==
  ASSUME NEW a \in Int, NEW p \in Int, NEW b \in Nat \ {0}
  PROVE  ((a % b) + p) % b = (a + p) % b
<1> DEFINE q == a \div b
           r == a % b
           k == (r + p) \div b
           m == (r + p) % b
<1>1. q \in Int /\ r \in Int /\ a = b * q + r
  BY ModBounds, DivBounds
<1> HIDE DEF q, r
<1>2. r + p \in Int
  BY <1>1
<1>3. k \in Int /\ m \in 0..b - 1 /\ r + p = b * k + m
  BY <1>2, ModBounds, DivBounds
<1> HIDE DEF k, m
<1>4. a + p = b * (q + k) + m
  <2>1. b * (q + k) = b * q + b * k /\ b * q \in Int /\ b * k \in Int
    BY <1>1, <1>3
  <2> QED
    BY <1>1, <1>3, <2>1
<1>5. (b * (q + k) + m) % b = m
  BY <1>1, <1>3, ModUnique
<1> QED
  BY <1>4, <1>5 DEF m, r

LEMMA SweepBounds ==
  /\ SlotsPerEpoch \in Nat \ {0} /\ PerSlot \in Nat \ {0}
  /\ MaxTotal \in Nat \ {0} /\ MaxEpochs \in Nat /\ MaxBlocked \in Nat
  BY SweepConstants

LEMMA LeavingTyped ==
  ASSUME NEW v \in Leaving
  PROVE  /\ v.total \in Nat \ {0} /\ v.total <= MaxTotal /\ v.active \in 1..v.total
         /\ v.index \in 0..v.total - 1 /\ v.cursor \in 0..v.total - 1
         /\ v.epochs \in Int /\ v.epochs <= MaxEpochs
         /\ v.blocked \in Nat /\ v.blocked <= MaxBlocked
<1>1. PICK total \in 1..MaxTotal :
        v \in [index : 0..total - 1, cursor : 0..total - 1, total : {total}, active : 1..total,
               epochs : -1..MaxEpochs, blocked : 0..MaxBlocked]
  BY DEF Leaving
<1>2. v.total = total
  BY <1>1
<1> QED
  BY <1>1, <1>2, SweepBounds

\* The slot from which the validator can be swept, in the two ways of the code.
LEMMA StartOfSweep ==
  ASSUME NEW v \in Leaving
  PROVE  LET W    == SlotsUntilWithdrawable(v)
             free == Max({W - v.blocked, 0})
         IN  /\ W \in Nat /\ W <= MaxEpochs * SlotsPerEpoch /\ free \in Nat
             /\ W + BlockedAfter(v) = v.blocked + free
             /\ Max({W, v.blocked}) = v.blocked + free
             /\ v.blocked + free >= W /\ v.blocked + free <= W + v.blocked
             /\ \A s \in Int : s >= W /\ s >= v.blocked => s >= v.blocked + free
<1> DEFINE e == Max({v.epochs, 0})
           W == e * SlotsPerEpoch
           free == Max({W - v.blocked, 0})
           after == Max({v.blocked - W, 0})
           start == Max({W, v.blocked})
<1>1. v.epochs \in Int /\ v.epochs <= MaxEpochs /\ v.blocked \in Nat /\ MaxEpochs \in Nat /\ SlotsPerEpoch \in Nat
  BY LeavingTyped, SweepBounds
<1>2. e \in Nat /\ e <= MaxEpochs
  BY <1>1, MaxOfPair
<1> HIDE DEF e
<1>3. W \in Nat /\ W <= MaxEpochs * SlotsPerEpoch
  <2>1. SlotsPerEpoch * e <= SlotsPerEpoch * MaxEpochs
    BY <1>1, <1>2, ScaleLeq
  <2>2. W = SlotsPerEpoch * e /\ MaxEpochs * SlotsPerEpoch = SlotsPerEpoch * MaxEpochs /\ W \in Nat
    BY <1>1, <1>2, Z3
  <2> QED
    BY <2>1, <2>2
<1> HIDE DEF W
<1>4. /\ free = (IF W - v.blocked >= 0 THEN W - v.blocked ELSE 0)
      /\ after = (IF v.blocked - W >= 0 THEN v.blocked - W ELSE 0)
      /\ start = (IF W >= v.blocked THEN W ELSE v.blocked)
  BY <1>1, <1>3, MaxOfPair
<1>5. SlotsUntilWithdrawable(v) = W /\ BlockedAfter(v) = after
  BY DEF SlotsUntilWithdrawable, BlockedAfter, W, e
<1> HIDE DEF free, after, start
<1>6. /\ free \in Nat /\ W + after = v.blocked + free /\ start = v.blocked + free
      /\ v.blocked + free >= W /\ v.blocked + free <= W + v.blocked
      /\ \A s \in Int : s >= W /\ s >= v.blocked => s >= v.blocked + free
  BY <1>1, <1>3, <1>4
<1> QED
  BY <1>3, <1>5, <1>6 DEF free, start

\* The validator with the smallest number of steps from the cursor on.
LEMMA DistanceIsFirst ==
  ASSUME NEW v \in Leaving, NEW cursor \in 0..v.total - 1
  PROVE  LET d == Distance(v, cursor)
         IN  /\ d \in 0..v.total - 1
             /\ (cursor + d) % v.total = v.index
             /\ \A e \in Nat : (cursor + e) % v.total = v.index => d <= e
<1> DEFINE T == v.total
           I == v.index
           d == IF I >= cursor THEN I - cursor ELSE I - cursor + T
<1>1. T \in Nat \ {0} /\ I \in 0..T - 1 /\ cursor \in 0..T - 1
  BY LeavingTyped
<1> HIDE DEF T, I
<1>2. d \in 0..T - 1
  BY <1>1
<1>3. (I - cursor + T) % T = d
  <2>1. (T * 1 + d) % T = d /\ (T * 0 + d) % T = d
    <3> HIDE DEF d
    <3> QED
      BY <1>1, <1>2, ModUnique
  <2>2. I - cursor + T = T * 1 + d \/ I - cursor + T = T * 0 + d
    BY <1>1
  <2> HIDE DEF d
  <2> QED
    BY <2>1, <2>2
<1>4. (cursor + d) % T = I
  <2>1. (T * 1 + I) % T = I /\ (T * 0 + I) % T = I
    BY <1>1, ModUnique
  <2>2. cursor + d = T * 1 + I \/ cursor + d = T * 0 + I
    BY <1>1
  <2> HIDE DEF d
  <2> QED
    BY <2>1, <2>2
<1>5. ASSUME NEW e \in Nat, (cursor + e) % T = I, e < d PROVE FALSE
  <2>1. cursor + e \in Nat /\ cursor + e < T + T
    BY <1>1, <1>2, <1>5
  <2>2. CASE cursor + e < T
    <3>1. (T * 0 + (cursor + e)) % T = cursor + e
      <4>1. cursor + e \in 0..T - 1
        BY <1>1, <2>1, <2>2
      <4> QED
        BY <1>1, <4>1, ModUnique
    <3>2. T * 0 + (cursor + e) = cursor + e
      BY <1>1, <2>1
    <3>3. cursor + e = I
      BY <1>5, <3>1, <3>2
    <3> QED
      BY <1>1, <1>5, <3>3
  <2>3. CASE T <= cursor + e
    <3> DEFINE r == cursor + e - T
    <3>1. (T * 1 + r) % T = r
      <4>1. r \in 0..T - 1
        BY <1>1, <2>1, <2>3
      <4> QED
        BY <1>1, <4>1, ModUnique
    <3>2. T * 1 + r = cursor + e
      BY <1>1, <2>1
    <3>3. r = I
      BY <1>5, <3>1, <3>2
    <3> QED
      BY <1>1, <1>5, <3>3
  <2> QED
    BY <1>1, <2>1, <2>2, <2>3
<1>6. Distance(v, cursor) = d
  BY <1>3 DEF Distance, T, I
<1>7. \A e \in Nat : (cursor + e) % T = I => d <= e
  BY <1>2, <1>5
<1> HIDE DEF d
<1> QED
  BY <1>2, <1>4, <1>6, <1>7 DEF T, I

\* The cursor at the start of a slot, without going through the slots before it.
Advanced(v, s) == (v.cursor + PerSlot * Max({s - v.blocked, 0})) % v.total

LEMMA AdvancedStep ==
  ASSUME NEW v \in Leaving, NEW s \in Nat
  PROVE  Advanced(v, s) = IF s = 0 THEN v.cursor
                          ELSE IF s <= v.blocked THEN Advanced(v, s - 1)
                          ELSE (Advanced(v, s - 1) + PerSlot) % v.total
<1> DEFINE T == v.total
           C == v.cursor
           B == v.blocked
           n == Max({s - B, 0})
           m == Max({s - 1 - B, 0})
<1>1. T \in Nat \ {0} /\ C \in 0..T - 1 /\ B \in Nat /\ PerSlot \in Nat
  BY LeavingTyped, SweepBounds
<1>2. Advanced(v, s) = (C + PerSlot * n) % T /\ Advanced(v, s - 1) = (C + PerSlot * m) % T
  BY DEF Advanced
<1>3. /\ n = IF s - B >= 0 THEN s - B ELSE 0
      /\ m = IF s - 1 - B >= 0 THEN s - 1 - B ELSE 0
  BY <1>1, MaxOfPair
<1> HIDE DEF T, C, B, n, m
<1>4. CASE s = 0
  <2>1. n = 0 /\ PerSlot * n = 0
    BY <1>1, <1>3, <1>4
  <2>2. C + PerSlot * n = T * 0 + C
    BY <1>1, <2>1
  <2>3. (T * 0 + C) % T = C
    BY <1>1, ModUnique
  <2> QED
    BY <1>2, <1>4, <2>2, <2>3 DEF C
<1>5. CASE s # 0 /\ s <= B
  <2>1. n = 0 /\ m = 0
    BY <1>1, <1>3, <1>5
  <2> QED
    BY <1>2, <1>5, <2>1 DEF B
<1>6. CASE s # 0 /\ ~(s <= B)
  <2>1. n = m + 1 /\ m \in Nat
    BY <1>1, <1>3, <1>6
  <2>2. C + PerSlot * n = C + PerSlot * m + PerSlot /\ C + PerSlot * m \in Int
    BY <1>1, <2>1
  <2>3. (((C + PerSlot * m) % T) + PerSlot) % T = (C + PerSlot * m + PerSlot) % T
    <3> DEFINE a == C + PerSlot * m
    <3>1. a \in Int
      BY <2>2
    <3> HIDE DEF a
    <3>2. PerSlot \in Int /\ T \in Nat \ {0}
      BY <1>1
    <3>3. ((a % T) + PerSlot) % T = (a + PerSlot) % T
      BY <3>1, <3>2, ModAdd, Zenon
    <3> QED
      BY <3>3 DEF a
  <2> QED
    BY <1>2, <1>6, <2>2, <2>3 DEF B, T
<1> QED
  BY <1>4, <1>5, <1>6

\* The same with the slots before it: the first slot at which they differed would
\* follow from the one before.
LEMMA CursorsAdvance ==
  ASSUME NEW v \in Leaving
  PROVE  \A s \in 0..Horizon : Cursors(v)[s] = Advanced(v, s)
<1> DEFINE next(f, s) == IF s = 0 THEN v.cursor
                         ELSE IF s <= v.blocked THEN f[s - 1] ELSE (f[s - 1] + PerSlot) % v.total
           g == [s \in 0..Horizon |-> Advanced(v, s)]
           c == Cursors(v)
<1>1. Horizon \in Nat
  <2>1. MaxEpochs * SlotsPerEpoch \in Nat
    BY SweepBounds, Z3
  <2> QED
    BY <2>1, SweepBounds DEF Horizon
<1>2. g = [s \in 0..Horizon |-> next(g, s)]
  <2>1. ASSUME NEW s \in 0..Horizon PROVE Advanced(v, s) = next(g, s)
    <3>1. s \in Nat /\ (s # 0 => s - 1 \in 0..Horizon)
      BY <1>1
    <3>2. s # 0 => g[s - 1] = Advanced(v, s - 1)
      BY <3>1
    <3> HIDE DEF g
    <3> QED
      BY <3>1, <3>2, AdvancedStep
  <2>2. g = [s \in 0..Horizon |-> Advanced(v, s)]
    OBVIOUS
  <2> HIDE DEF g, next
  <2> QED
    BY <2>1, <2>2
<1>3. c = CHOOSE f : f = [s \in 0..Horizon |-> next(f, s)]
  BY DEF Cursors
<1>4. c = [s \in 0..Horizon |-> next(c, s)]
  <2> HIDE DEF c, g, next
  <2> QED
    BY <1>2, <1>3
<1>5. \A s \in 0..Horizon : c[s] = next(c, s)
  <2> HIDE DEF c, next
  <2> QED
    BY <1>4
<1> DEFINE Bad == {s \in 0..Horizon : c[s] # Advanced(v, s)}
<1>6. Bad = {}
  <2> SUFFICES ASSUME Bad # {} PROVE FALSE
    OBVIOUS
  <2>1. Bad \in SUBSET Nat
    BY <1>1
  <2>2. PICK s \in Bad : \A d \in Bad : s <= d
    <3> HIDE DEF Bad
    <3> QED
      BY <2>1, LeastOfNats
  <2>3. s \in 0..Horizon /\ s \in Nat /\ c[s] # Advanced(v, s)
    BY <2>1
  <2>4. s # 0 => s - 1 \in 0..Horizon /\ s - 1 \notin Bad
    <3>1. s # 0 => s - 1 \in 0..Horizon /\ ~(s <= s - 1)
      BY <1>1, <2>3
    <3> HIDE DEF Bad
    <3> QED
      BY <2>2, <3>1
  <2>5. s # 0 => c[s - 1] = Advanced(v, s - 1)
    BY <2>4
  <2>6. c[s] = next(c, s)
    BY <1>5, <2>3
  <2>7. next(c, s) = Advanced(v, s)
    <3> HIDE DEF c
    <3> QED
      BY <2>3, <2>5, AdvancedStep
  <2> QED
    BY <2>3, <2>6, <2>7
<1> QED
  BY <1>6

\* With all validators active, the closed form is the end of the slot of the sweep.
LEMMA ClosedFormIsSweep ==
  ASSUME NEW v \in Leaving, v.active = v.total, NEW slots \in Estimates(v)
  PROVE  slots = SweptSlot(v) + 1
<1> DEFINE T == v.total
           C == v.cursor
           B == v.blocked
           W == SlotsUntilWithdrawable(v)
           free == Max({W - B, 0})
           S == B + free
           cursor == (C + ((free * PerSlot) % T)) % T
           d == Distance(v, cursor)
           q == d \div PerSlot
<1>1. /\ T \in Nat \ {0} /\ T <= MaxTotal /\ v.active \in 1..T /\ v.index \in 0..T - 1
      /\ C \in Nat /\ B \in Nat /\ B <= MaxBlocked /\ PerSlot \in Nat \ {0}
      /\ MaxTotal \in Nat /\ MaxBlocked \in Nat
  BY LeavingTyped, SweepBounds
<1>2. /\ W \in Nat /\ W <= MaxEpochs * SlotsPerEpoch /\ free \in Nat
      /\ W + BlockedAfter(v) = S /\ S >= W /\ S >= B /\ S <= W + B /\ S \in Nat
      /\ \A s \in Int : s >= W /\ s >= B => s >= S
  <2>1. /\ W \in Nat /\ W <= MaxEpochs * SlotsPerEpoch /\ free \in Nat
        /\ W + BlockedAfter(v) = S /\ S >= W /\ S <= W + B
        /\ \A s \in Int : s >= W /\ s >= B => s >= S
    BY StartOfSweep
  <2>2. S \in Nat /\ S >= B
    <3> HIDE DEF free
    <3> QED
      BY <1>1, <2>1
  <2> QED
    BY <2>1, <2>2
<1> HIDE DEF W
<1>3. free * PerSlot \in Nat /\ free * PerSlot = PerSlot * free
  <2> HIDE DEF free
  <2> QED
    BY <1>1, <1>2, Z3
<1>4. Floors(free * PerSlot, v.active, T) = {free * PerSlot}
  BY <1>1, <1>3, FloorsTyped
<1>5. CursorsWhenWithdrawable(v) = {cursor}
  BY <1>4 DEF CursorsWhenWithdrawable, W
<1>6. cursor = (C + PerSlot * free) % T /\ cursor \in 0..T - 1
  <2> DEFINE a == free * PerSlot
  <2>1. ((a % T) + C) % T = (a + C) % T /\ (a + C) % T \in 0..T - 1
    <3>1. a \in Int /\ a + C \in Int /\ C \in Int /\ T \in Nat \ {0}
      BY <1>1, <1>3
    <3> HIDE DEF a, C, T
    <3>2. ((a % T) + C) % T = (a + C) % T
      BY <3>1, ModAdd, Zenon
    <3>3. (a + C) % T \in 0..T - 1
      BY <3>1, ModBounds, Zenon
    <3> QED
      BY <3>2, <3>3
  <2>2. C + (a % T) = (a % T) + C /\ a + C = C + PerSlot * free
    <3>1. a % T \in Int
      <4>1. a \in Int /\ T \in Nat \ {0}
        BY <1>1, <1>3
      <4> HIDE DEF a, T
      <4>2. a % T \in 0..T - 1
        BY <4>1, ModBounds, Zenon
      <4> QED
        BY <4>1, <4>2
    <3> HIDE DEF T, free
    <3> QED
      BY <1>1, <1>2, <1>3, <3>1
  <2> QED
    BY <2>1, <2>2
<1> HIDE DEF cursor
<1>7. /\ d \in 0..T - 1 /\ (cursor + d) % T = v.index
      /\ \A e \in Nat : (cursor + e) % T = v.index => d <= e
  BY <1>6, DistanceIsFirst
<1>8. Ceils(d, v.active, T) = {d}
  <2> HIDE DEF d
  <2> QED
    BY <1>1, <1>7, CeilsTyped
<1>9. q \in Nat /\ CeilDiv(d + 1, PerSlot) = q + 1
  <2>1. d \in Nat
    BY <1>1, <1>7
  <2> HIDE DEF d
  <2> QED
    BY <1>1, <2>1, CeilOfNext
<1>10. slots = S + (q + 1)
  <2>1. SlotsToReach(v) = {q + 1}
    BY <1>5, <1>8, <1>9 DEF SlotsToReach
  <2>2. slots = W + BlockedAfter(v) + (q + 1)
    BY <2>1 DEF Estimates, W
  <2> QED
    BY <1>2, <2>2
<1> HIDE DEF d, S
<1> DEFINE hits == {s \in 0..Horizon : s >= B /\ s >= W /\ v.index \in Batch(v, s)}
<1>11. ASSUME NEW s \in 0..Horizon, s >= S, NEW k \in Nat
       PROVE  (Cursors(v)[s] + k) % T = (cursor + (PerSlot * (s - S) + k)) % T
  <2> DEFINE a == PerSlot * (s - S)
             b == C + PerSlot * free
  <2>1. s \in Nat /\ s >= B /\ s - S \in Nat /\ s - B = free + (s - S)
    BY <1>1, <1>2, <1>11 DEF S
  <2>2. Max({s - B, 0}) = s - B
    BY <1>1, <2>1, MaxOfPair
  <2>3. Cursors(v)[s] = (C + PerSlot * (free + (s - S))) % T
    BY <2>1, <2>2, CursorsAdvance DEF Advanced
  <2> HIDE DEF free
  <2>4. a \in Nat /\ b \in Nat /\ C + PerSlot * (free + (s - S)) = b + a
    <3> DEFINE n == s - S
    <3>1. n \in Nat
      BY <2>1
    <3> HIDE DEF n
    <3>2. PerSlot * n \in Nat /\ C + PerSlot * free \in Nat
      BY <1>1, <1>2, <3>1, Z3
    <3>3. C + PerSlot * (free + n) = C + PerSlot * free + PerSlot * n
      BY <1>1, <1>2, <3>1
    <3> QED
      BY <3>2, <3>3 DEF n
  <2>5. cursor = b % T
    BY <1>6
  <2> HIDE DEF a, b
  <2>6. (((b + a) % T) + k) % T = (b + a + k) % T
    <3>1. b + a \in Int /\ k \in Int /\ T \in Nat \ {0}
      BY <1>1, <2>4
    <3> HIDE DEF T
    <3> QED
      BY <3>1, ModAdd, Zenon
  <2>7. ((b % T) + (a + k)) % T = (b + (a + k)) % T
    <3>1. a + k \in Int /\ b \in Int /\ T \in Nat \ {0}
      BY <1>1, <2>4
    <3> HIDE DEF T
    <3> QED
      BY <3>1, ModAdd, Zenon
  <2>8. b + a + k = b + (a + k)
    BY <2>4
  <2> QED
    BY <2>3, <2>4, <2>5, <2>6, <2>7, <2>8 DEF a
<1>12. d \in Nat /\ PerSlot * q \in Nat /\ PerSlot * q <= d /\ d < PerSlot * q + PerSlot /\ q <= d /\ d <= T - 1
  <2>1. d \in Nat /\ d <= T - 1
    BY <1>1, <1>7
  <2>2. PerSlot * q <= d /\ d < PerSlot * q + PerSlot
    BY <1>1, <2>1, DivBounds
  <2> HIDE DEF q
  <2>3. q <= PerSlot * q /\ PerSlot * q \in Nat
    <3>1. q * 1 <= q * PerSlot
      BY <1>1, <1>9, ScaleLeq
    <3>2. q * 1 = q /\ q * PerSlot = PerSlot * q /\ PerSlot * q \in Nat
      BY <1>1, <1>9, Z3
    <3> QED
      BY <3>1, <3>2
  <2> QED
    BY <1>9, <2>1, <2>2, <2>3
<1> HIDE DEF q
<1>13. S + q \in hits
  <2>1. S + q \in 0..Horizon
    <3> DEFINE h == MaxEpochs * SlotsPerEpoch
    <3>1. h \in Nat
      BY SweepBounds, Z3
    <3>2. Horizon = h + MaxBlocked + MaxTotal /\ W <= h
      BY <1>2 DEF Horizon
    <3> HIDE DEF h, T
    <3> QED
      BY <1>1, <1>2, <1>9, <1>12, <3>1, <3>2
  <2>2. PICK t \in 0..Horizon : t = S + q
    BY <2>1
  <2>3. t >= S /\ t >= B /\ t >= W /\ t - S = q
    BY <1>1, <1>2, <1>9, <2>2
  <2> DEFINE k == d - PerSlot * q
  <2>4. k \in 0..PerSlot - 1 /\ k \in Nat /\ PerSlot * q + k = d
    BY <1>1, <1>12
  <2> HIDE DEF k
  <2>5. (Cursors(v)[t] + k) % T = (cursor + (PerSlot * (t - S) + k)) % T
    BY <1>11, <2>3, <2>4
  <2>6. (Cursors(v)[t] + k) % T = v.index
    <3>1. PerSlot * (t - S) + k = d
      BY <2>3, <2>4
    <3> QED
      BY <1>7, <2>5, <3>1
  <2>7. v.index \in Batch(v, t)
    BY <2>4, <2>6 DEF Batch
  <2> QED
    BY <2>2, <2>3, <2>7
<1>14. ASSUME NEW s \in hits PROVE S + q <= s
  <2>1. s \in 0..Horizon /\ s >= B /\ s >= W /\ s \in Int /\ v.index \in Batch(v, s)
    BY <1>14
  <2>2. s >= S
    BY <1>2, <2>1
  <2>3. PICK k \in 0..PerSlot - 1 : v.index = (Cursors(v)[s] + k) % T
    BY <2>1 DEF Batch
  <2> DEFINE n == s - S
  <2>4. n \in Nat /\ k \in Nat
    BY <1>1, <1>2, <2>1, <2>2
  <2>5. (cursor + (PerSlot * n + k)) % T = v.index
    BY <1>11, <2>1, <2>2, <2>3, <2>4
  <2>6. s = S + n
    BY <1>2, <2>1
  <2> HIDE DEF n
  <2>7. PerSlot * n + k \in Nat /\ PerSlot * n \in Nat
    BY <1>1, <2>4, Z3
  <2>8. d <= PerSlot * n + k
    BY <1>7, <2>5, <2>7
  <2>9. q <= n
    <3>1. SUFFICES ASSUME n + 1 <= q PROVE FALSE
      BY <1>9, <2>4
    <3>2. PerSlot * (n + 1) <= PerSlot * q
      BY <1>1, <1>9, <2>4, <3>1, ScaleLeq
    <3>3. PerSlot * (n + 1) = PerSlot * n + PerSlot
      BY <1>1, <2>4
    <3>4. k <= PerSlot - 1
      OBVIOUS
    <3> QED
      BY <1>1, <1>12, <2>4, <2>7, <2>8, <3>2, <3>3, <3>4
  <2> QED
    BY <1>2, <1>9, <2>4, <2>6, <2>9
<1>15. SweptSlot(v) = S + q
  <2>1. SweptSlot(v) = Min(hits)
    BY DEF SweptSlot, W
  <2>2. hits \in SUBSET Nat
    OBVIOUS
  <2>3. S + q \in Nat
    BY <1>2, <1>9
  <2> HIDE DEF hits
  <2>4. Min(hits) \in hits /\ \A y \in hits : Min(hits) <= y
    <3>1. \E x \in hits : \A y \in hits : x <= y
      BY <1>13, <1>14
    <3> QED
      BY <3>1 DEF Min
  <2>5. Min(hits) <= S + q /\ S + q <= Min(hits) /\ Min(hits) \in Nat
    BY <1>13, <1>14, <2>2, <2>4
  <2> QED
    BY <2>1, <2>3, <2>5
<1> QED
  BY <1>2, <1>9, <1>10, <1>15

\* With inactive ones too, it is within one round of them.
LEMMA WithinOneRound ==
  ASSUME NEW v \in Leaving, NEW slots \in Estimates(v)
  PROVE  LET start == Max({SlotsUntilWithdrawable(v), v.blocked})
         IN  slots \in start + 1..start + CeilDiv(v.active + 1, PerSlot)
<1> DEFINE W == SlotsUntilWithdrawable(v)
           free == Max({W - v.blocked, 0})
           start == Max({W, v.blocked})
           last == CeilDiv(v.active + 1, PerSlot)
<1>1. /\ v.total \in Nat \ {0} /\ v.active \in 1..v.total /\ v.index \in 0..v.total - 1
      /\ v.cursor \in Nat /\ v.blocked \in Nat /\ PerSlot \in Nat \ {0}
  BY LeavingTyped, SweepBounds
<1>2. start \in Nat /\ W + BlockedAfter(v) = start /\ free \in Nat
  <2>1. start = v.blocked + free /\ free \in Nat /\ W + BlockedAfter(v) = v.blocked + free
    BY StartOfSweep
  <2> HIDE DEF start, free
  <2> QED
    BY <1>1, <2>1
<1>3. free * PerSlot \in Nat
  <2> HIDE DEF free
  <2> QED
    BY <1>1, <1>2, Z3
<1>4. ASSUME NEW cursor \in CursorsWhenWithdrawable(v) PROVE cursor \in 0..v.total - 1
  <2>1. PICK a \in Floors(free * PerSlot, v.active, v.total) :
          cursor = (v.cursor + (a % v.total)) % v.total
    BY DEF CursorsWhenWithdrawable
  <2>2. a \in Nat
    BY <1>1, <1>3, FloorsTyped
  <2>3. v.cursor + (a % v.total) \in Int
    <3>1. a % v.total \in Int
      <4>1. a \in Int /\ v.total \in Nat \ {0}
        BY <1>1, <2>2
      <4>2. a % v.total \in 0..v.total - 1
        BY <4>1, ModBounds, Zenon
      <4> QED
        BY <4>1, <4>2
    <3> QED
      BY <1>1, <3>1
  <2> QED
    BY <1>1, <2>1, <2>3, ModBounds
<1>5. PICK cursor \in CursorsWhenWithdrawable(v) :
        \E passed \in Ceils(Distance(v, cursor), v.active, v.total) :
          slots = W + BlockedAfter(v) + CeilDiv(passed + 1, PerSlot)
  BY DEF Estimates, SlotsToReach
<1>6. PICK passed \in Ceils(Distance(v, cursor), v.active, v.total) :
        slots = W + BlockedAfter(v) + CeilDiv(passed + 1, PerSlot)
  BY <1>5
<1>7. passed \in 0..v.active
  <2>1. Distance(v, cursor) \in 0..v.total - 1
    BY <1>4, DistanceIsFirst
  <2> QED
    BY <1>1, <2>1, CeilsTyped
<1> DEFINE n == CeilDiv(passed + 1, PerSlot)
<1>8. last \in Int /\ n \in Int /\ v.active + 1 <= PerSlot * last
  <2>1. v.active + 1 \in Int /\ passed + 1 \in Int /\ PerSlot \in Nat \ {0}
    BY <1>1, <1>7
  <2>2. last \in Int /\ v.active + 1 <= PerSlot * last
    BY <2>1, CeilBounds, Zenon
  <2>3. n \in Int
    BY <2>1, CeilBounds, Zenon
  <2> QED
    BY <2>2, <2>3
<1> HIDE DEF last
<1>9. 1 <= n
  <2>1. PerSlot * 1 - PerSlot < passed + 1 /\ passed + 1 \in Int
    BY <1>1, <1>7
  <2> QED
    BY <1>1, <2>1, CeilAbove
<1>10. n <= last
  <2>1. PerSlot * last \in Int
    BY <1>1, <1>8
  <2>2. passed + 1 <= PerSlot * last /\ passed + 1 \in Int
    BY <1>1, <1>7, <1>8, <2>1
  <2> QED
    BY <1>1, <1>8, <2>2, CeilBelow
<1>11. slots = start + n
  BY <1>2, <1>6
<1> HIDE DEF start, n
<1>12. slots \in start + 1..start + last
  BY <1>2, <1>8, <1>9, <1>10, <1>11
<1> QED
  BY <1>12 DEF start, last

\* The closed form of the slot is right for any number of validators, blocked slots
\* and validators a slot, from any cursor.
THEOREM EstimateIsTheSweep == SweepSpec => []EstimateIsSweep
<1>1. Answers => EstimateIsSweep
  <2> SUFFICES ASSUME Answers, leaving # Nobody, figure # Unknown PROVE EstimateIsSweep
    BY DEF EstimateIsSweep
  <2>1. leaving \in Leaving /\ figure \in Estimates(leaving)
    BY DEF Answers, AskDelay, AskSlots, AskDays
  <2>2. CASE leaving.active = leaving.total
    BY <2>1, <2>2, ClosedFormIsSweep DEF EstimateIsSweep
  <2>3. CASE leaving.active # leaving.total
    BY <2>1, <2>3, WithinOneRound DEF EstimateIsSweep
  <2> QED
    BY <2>2, <2>3
<1> QED
  BY <1>1, AnswersHold, PTL

(***************************************************************************)
(* The mean delay.                                                         *)
(***************************************************************************)
\* One amount or none is the same written behind nothing or added to it.
LEMMA FewAreAdded ==
  ASSUME NEW ws, NEW i, IsFiniteSet(DOMAIN ws), DOMAIN ws \in SUBSET Nat,
         \A k \in DOMAIN ws : ws[k].amount \in Int,
         ~(Cardinality(PlacesOf(ws, i)) > 1)
  PROVE  Withdrawn(ws, i) = Added(+, ws, i) /\ Added(+, ws, i) \in Int
<1> DEFINE P == PlacesOf(ws, i)
           exact(f) == [s \in SUBSET P |-> IF s = {} THEN 0 ELSE f[s \ {Max(s)}] + ws[Max(s)].amount]
           text(f)  == [s \in SUBSET P |-> IF s = {} THEN 0
                                            ELSE Concatenated(f[s \ {Max(s)}], ws[Max(s)].amount)]
           e == CHOOSE f : f = exact(f)
           t == CHOOSE f : f = text(f)
<1>1. Added(+, ws, i) = e[P] /\ Withdrawn(ws, i) = t[P]
  BY DEF Added, Withdrawn, MapThenFoldSet
<1>2. P \subseteq DOMAIN ws /\ IsFiniteSet(P)
  <2>1. P \subseteq DOMAIN ws
    BY DEF PlacesOf
  <2> QED
    BY <2>1, FS_Subset
<1>3. P = {} \/ \E k : P = {k}
  <2>1. Cardinality(P) \in Nat /\ ~(Cardinality(P) > 1)
    BY <1>2, FS_CardinalityType
  <2>2. Cardinality(P) = 0 \/ Cardinality(P) = 1
    BY <2>1
  <2> QED
    BY <1>2, <2>2, FS_EmptySet, FS_Singleton
<1>4. CASE P = {}
  <2> DEFINE g == [s \in SUBSET P |-> 0]
  <2>1. g = exact(g) /\ g = text(g)
    BY <1>4
  <2>2. e = exact(e) /\ t = text(t)
    <3> HIDE DEF g, exact, text
    <3> QED
      BY <2>1
  <2>3. \A f : exact(f)[{}] = 0 /\ text(f)[{}] = 0
    BY <1>4
  <2>4. e[{}] = 0 /\ t[{}] = 0
    <3> HIDE DEF e, t, exact, text
    <3> QED
      BY <2>2, <2>3
  <2>5. Added(+, ws, i) = 0 /\ Withdrawn(ws, i) = 0
    <3> HIDE DEF e, t, P
    <3> QED
      BY <1>1, <1>4, <2>4, Zenon
  <2>6. 0 \in Int
    OBVIOUS
  <2> QED
    BY <2>5, <2>6, Zenon
<1>5. CASE P # {}
  <2>1. PICK k : P = {k}
    BY <1>3, <1>5
  <2>2. k \in Nat /\ ws[k].amount \in Int
    BY <1>2, <2>1
  <2> DEFINE a == ws[k].amount
             g == [s \in SUBSET P |-> IF s = {} THEN 0 ELSE a]
  <2>3. Max({k}) = k
    BY <2>2 DEF Max
  <2>4. \A s \in SUBSET P : s = {} \/ s = {k}
    BY <2>1
  <2>5. Concatenated(0, a) = a /\ 0 + a = a
    BY <2>2 DEF Concatenated
  <2>6. g[{}] = 0 /\ g[{k}] = a /\ {k} \ {k} = {}
    BY <2>1
  <2> HIDE DEF P
  <2>7. ASSUME NEW s \in SUBSET P
        PROVE  /\ g[s] = IF s = {} THEN 0 ELSE g[s \ {Max(s)}] + ws[Max(s)].amount
               /\ g[s] = IF s = {} THEN 0 ELSE Concatenated(g[s \ {Max(s)}], ws[Max(s)].amount)
    <3>1. CASE s = {}
      BY <2>6, <3>1
    <3>2. CASE s = {k}
      <4>1. s \ {Max(s)} = {} /\ Max(s) = k /\ s # {}
        BY <2>3, <3>2
      <4> HIDE DEF g
      <4> QED
        BY <2>5, <2>6, <3>2, <4>1
    <3> QED
      BY <2>4, <3>1, <3>2
  <2>8. g = exact(g) /\ g = text(g)
    <3>1. g = [s \in SUBSET P |-> g[s]]
      OBVIOUS
    <3> HIDE DEF g
    <3> QED
      BY <2>7, <3>1
  <2>9. e = exact(e) /\ t = text(t)
    <3> HIDE DEF g, exact, text
    <3> QED
      BY <2>8
  <2>10. \A f : /\ exact(f)[{}] = 0 /\ exact(f)[{k}] = f[{}] + a
                /\ text(f)[{}] = 0 /\ text(f)[{k}] = Concatenated(f[{}], a)
    BY <2>1, <2>3, <2>6
  <2>11. e[{}] = 0 /\ e[{k}] = e[{}] + a /\ t[{}] = 0 /\ t[{k}] = Concatenated(t[{}], a)
    <3> HIDE DEF e, t, exact, text
    <3> QED
      BY <2>9, <2>10
  <2> QED
    BY <1>1, <2>1, <2>2, <2>5, <2>11
<1> QED
  BY <1>4, <1>5

\* Numbers of as many digits are compared as they should.
LEMMA ComparedAsNumbers ==
  ASSUME NEW a \in Int, NEW b \in Nat \ {0}, b < Ten^MaxDigits, Digits(a) = Digits(b)
  PROVE  StringGreater(a, b) <=> a > b
<1> DEFINE D == {d \in 1..MaxDigits : b < Ten^d}
<1>1. MaxDigits \in Nat \ {0}
  BY SweepConstants
<1>2. D \in SUBSET Nat /\ D # {}
  BY <1>1
<1>3. Digits(b) = Min(D)
  BY DEF Digits
<1>4. Digits(b) \in Nat
  <2> HIDE DEF D
  <2>1. \E x \in D : \A y \in D : x <= y
    BY <1>2, LeastOfNats
  <2> QED
    BY <1>2, <1>3, <2>1 DEF Min
<1>5. Max({Digits(a), Digits(b)}) = Digits(b)
  BY <1>4, MaxOfPair
<1>6. Padded(a, Digits(b)) = a /\ Padded(b, Digits(b)) = b
  BY DEF Padded
<1>7. StringGreater(a, b) <=> a > 0 /\ (a > b \/ (a = b /\ Digits(a) > Digits(b)))
  BY <1>5, <1>6 DEF StringGreater
<1>8. ~(Digits(a) > Digits(b))
  BY <1>4
<1> QED
  BY <1>7, <1>8

Kind == [prefix : {"bls", "eth1", "compounding"}, effective : Nat, balance : Nat,
         exiting : BOOLEAN, withdrawable : BOOLEAN]

LEMMA MaximumTyped ==
  ASSUME NEW v \in Kind
  PROVE  MaxEffective(v) \in Nat \ {0} /\ MaxEffective(v) < Ten^MaxDigits
<1>1. MinActivation \in Nat \ {0} /\ MaxElectra \in Nat \ {0}
  BY SweepConstants
<1>2. MinActivation < Ten^MaxDigits /\ MaxElectra < Ten^MaxDigits
  BY SweepConstants
<1>3. MaxEffective(v) \in {MinActivation, MaxElectra}
  BY DEF MaxEffective
<1> QED
  BY <1>1, <1>2, <1>3

LEMMA WithdrawalsTyped ==
  ASSUME NEW n \in Nat, NEW vs \in [0..n - 1 -> Kinds],
         NEW m \in Nat, NEW ps \in [1..m -> [index : 0..Count, amount : Amounts]]
  PROVE  LET ws == Withdrawals(vs, ps)
         IN  /\ IsFiniteSet(DOMAIN ws) /\ DOMAIN ws \in SUBSET Nat
             /\ \A k \in DOMAIN ws : ws[k].amount \in Int
<1> DEFINE ws == Withdrawals(vs, ps)
<1>1. Kinds \subseteq Kind /\ Amounts \subseteq Nat /\ MinActivation \in Nat
  BY SweepConstants DEF Kind
<1>2. DOMAIN ws \subseteq 1..m
  BY DEF Withdrawals
<1>3. IsFiniteSet(1..m)
  BY FS_Interval
<1>4. IsFiniteSet(DOMAIN ws)
  BY <1>2, <1>3, FS_Subset
<1>5. ASSUME NEW k \in DOMAIN ws PROVE ws[k].amount \in Int
  <2>1. /\ k \in 1..m /\ ps[k].index \in 0..n - 1
        /\ ws[k].amount = Min({vs[ps[k].index].balance - MinActivation, ps[k].amount})
    BY DEF Withdrawals
  <2>2. vs[ps[k].index].balance \in Nat
    <3>1. vs[ps[k].index] \in Kind
      BY <1>1, <2>1
    <3> QED
      BY <3>1 DEF Kind
  <2>3. ps[k].amount \in Nat
    <3>1. ps[k] \in [index : 0..Count, amount : Amounts]
      BY <2>1
    <3> QED
      BY <1>1, <3>1
  <2> DEFINE x == vs[ps[k].index].balance - MinActivation
             y == ps[k].amount
  <2>4. x \in Int /\ y \in Int
    BY <1>1, <2>2, <2>3
  <2> HIDE DEF x, y
  <2>5. Min({x, y}) \in {x, y}
    <3>1. \E z \in {x, y} : \A u \in {x, y} : z <= u
      BY <2>4
    <3> QED
      BY <3>1 DEF Min
  <2> QED
    BY <2>1, <2>4, <2>5 DEF x, y
<1> QED
  BY <1>2, <1>4, <1>5

\* A validator that is not doubtful is counted exactly when it should be.
LEMMA CountedAsNumbers ==
  ASSUME NEW n \in Nat, NEW vs \in [0..n - 1 -> Kinds],
         NEW m \in Nat, NEW ps \in [1..m -> [index : 0..Count, amount : Amounts]],
         NEW i \in DOMAIN vs, i \notin Doubtful(vs, Withdrawals(vs, ps))
  PROVE  i \in Withdrawable(vs, Withdrawals(vs, ps)) <=> i \in ExactlyWithdrawable(vs, Withdrawals(vs, ps))
<1> DEFINE ws      == Withdrawals(vs, ps)
           v       == vs[i]
           balance == v.balance - Withdrawn(ws, i)
<1>1. /\ IsFiniteSet(DOMAIN ws) /\ DOMAIN ws \in SUBSET Nat
      /\ \A k \in DOMAIN ws : ws[k].amount \in Int
  BY WithdrawalsTyped
<1>2. i \notin Doubtful(vs, ws)
  OBVIOUS
<1> HIDE DEF ws
<1>3. /\ ~(Cardinality(PlacesOf(ws, i)) > 1)
      /\ \/ v.prefix = "bls" \/ v.withdrawable \/ v.effective # MaxEffective(v)
         \/ ~(balance > 0) \/ Digits(balance) = Digits(MaxEffective(v))
  BY <1>2 DEF Doubtful
<1>4. v \in Kind
  BY SweepConstants DEF Kind
<1>5. Withdrawn(ws, i) = Added(+, ws, i) /\ Added(+, ws, i) \in Int
  BY <1>1, <1>3, FewAreAdded
<1>6. balance \in Int /\ v.balance - Added(+, ws, i) = balance
  <2>1. v.balance \in Nat
    <3> HIDE DEF v
    <3> QED
      BY <1>4 DEF Kind
  <2> DEFINE taken == Withdrawn(ws, i)
  <2>2. taken = Added(+, ws, i)
    BY <1>5, Zenon
  <2>3. taken \in Int
    BY <1>5, Zenon
  <2>4. balance = v.balance - taken
    OBVIOUS
  <2>5. v.balance - taken \in Int
    <3> HIDE DEF v, taken
    <3> QED
      BY <2>1, <2>3
  <2> HIDE DEF v, taken, balance
  <2> QED
    BY <2>2, <2>4, <2>5, Zenon
<1>7. i \in Withdrawable(vs, ws) <=>
        IsFullyWithdrawable(v, balance) \/ IsPartiallyWithdrawable(v, balance)
  BY DEF Withdrawable
<1>8. i \in ExactlyWithdrawable(vs, ws) <=>
        /\ v.prefix # "bls"
        /\ \/ v.withdrawable /\ balance > 0
           \/ v.effective = MaxEffective(v) /\ balance > MaxEffective(v)
  BY <1>6 DEF ExactlyWithdrawable
<1>9. MaxEffective(v) \in Nat \ {0} /\ MaxEffective(v) < Ten^MaxDigits
  BY <1>4, MaximumTyped
<1> HIDE DEF balance, v
<1>10. ~(balance > 0) => ~StringGreater(balance, MaxEffective(v)) /\ ~(balance > MaxEffective(v))
  <2>1. balance \in Int /\ ~(balance > 0) => ~(balance > MaxEffective(v))
    BY <1>9
  <2>2. ~(balance > 0) => ~StringGreater(balance, MaxEffective(v))
    BY Zenon DEF StringGreater
  <2> QED
    BY <1>6, <2>1, <2>2
<1>11. Digits(balance) = Digits(MaxEffective(v)) =>
         (StringGreater(balance, MaxEffective(v)) <=> balance > MaxEffective(v))
  BY <1>6, <1>9, ComparedAsNumbers
<1> QED
  BY <1>3, <1>7, <1>8, <1>10, <1>11 DEF IsFullyWithdrawable, IsPartiallyWithdrawable, ws

\* The operations on strings count every validator but the doubtful ones as numbers
\* would, so the delay is one for a count off by these, for any number of validators
\* and pending withdrawals and any balances.
THEOREM DelayIsOfNumbers == SweepSpec => []DelayIsExact
<1>1. Answers => DelayIsExact
  <2> DEFINE ws       == Withdrawals(validators, pending)
             counted  == Withdrawable(validators, ws)
             exact    == ExactlyWithdrawable(validators, ws)
             doubtful == Doubtful(validators, ws)
  <2> SUFFICES ASSUME Answers, validators # <<>>, figure # Unknown
               PROVE  /\ counted \ doubtful = exact \ doubtful
                      /\ \E count \in Cardinality(exact \ doubtful)..Cardinality(exact \cup doubtful) :
                           figure = Half(InCycle(count, Cardinality(DOMAIN ws)))
    BY DEF DelayIsExact
  <2>1. figure = SweepDelay(validators, pending) /\ AskDelay
    BY DEF Answers, AskSlots, AskDays, NoValidators
  <2>2. PICK n \in 1..Count : validators \in [0..n - 1 -> Kinds]
    BY <2>1 DEF AskDelay
  <2>3. PICK m \in 0..MaxPending : pending \in [1..m -> [index : 0..Count, amount : Amounts]]
    BY <2>1 DEF AskDelay
  <2>4. n \in Nat /\ m \in Nat
    BY SweepConstants
  <2>5. \A i \in DOMAIN validators : i \notin doubtful => (i \in counted <=> i \in exact)
    BY <2>2, <2>3, <2>4, CountedAsNumbers
  <2>6. /\ counted \subseteq DOMAIN validators /\ exact \subseteq DOMAIN validators
        /\ doubtful \subseteq DOMAIN validators
    BY DEF Withdrawable, ExactlyWithdrawable, Doubtful
  <2>7. IsFiniteSet(DOMAIN validators)
    <3>1. DOMAIN validators = 0..n - 1
      BY <2>2
    <3> QED
      BY <2>4, <3>1, FS_Interval
  <2>8. figure = Half(InCycle(Cardinality(counted), Cardinality(DOMAIN ws)))
    BY <2>1 DEF SweepDelay, ValidatorsWithdrawals
  <2> HIDE DEF counted, exact, doubtful, ws
  <2>9. /\ counted \ doubtful = exact \ doubtful
        /\ exact \ doubtful \subseteq counted /\ counted \subseteq exact \cup doubtful
    BY <2>5, <2>6
  <2>10. IsFiniteSet(counted) /\ IsFiniteSet(exact \ doubtful) /\ IsFiniteSet(exact \cup doubtful)
    <3>1. exact \ doubtful \subseteq DOMAIN validators /\ exact \cup doubtful \subseteq DOMAIN validators
      BY <2>6
    <3> QED
      BY <2>6, <2>7, <3>1, FS_Subset
  <2>11. /\ Cardinality(exact \ doubtful) <= Cardinality(counted)
         /\ Cardinality(counted) <= Cardinality(exact \cup doubtful)
    BY <2>9, <2>10, FS_Subset
  <2>12. /\ Cardinality(counted) \in Nat /\ Cardinality(exact \ doubtful) \in Nat
         /\ Cardinality(exact \cup doubtful) \in Nat
    BY <2>10, FS_CardinalityType
  <2>13. Cardinality(counted) \in Cardinality(exact \ doubtful)..Cardinality(exact \cup doubtful)
    BY <2>11, <2>12
  <2> QED
    BY <2>8, <2>9, <2>13
<1> QED
  BY <1>1, AnswersHold, PTL
=============================================================================
