------------------------------ MODULE Validators ------------------------------
(***************************************************************************)
(* The validators jobs (ValidatorsService), their storage and the cache    *)
(* file (ValidatorsCacheService).                                          *)
(*                                                                         *)
(* The full update reads all validators, derives the figures of the        *)
(* estimate and the Lido validators that are being withdrawn, stores them  *)
(* in three portions with awaits in between, and saves the cache file.     *)
(* The light update re-reads the withdrawn validators by the ids the full  *)
(* update stored.  Each is OneAtTime on its own, so the two interleave.    *)
(*                                                                         *)
(* frameBalances is represented by the set of validators whose balance is  *)
(* counted in it; figures only by whether they are defined.                *)
(***************************************************************************)
EXTENDS Integers, FiniteSets

CONSTANTS LidoValidators,
          BatchSize,   \* batchSize of the light update, 20 in the code
          MaxFaults    \* bound: failed calls and restarts

ASSUME ValidatorsConstants == /\ IsFiniteSet(LidoValidators)
                              /\ BatchSize \in Nat \ {0}
                              /\ MaxFaults \in Nat
                              /\ "undefined" \notin LidoValidators

Undefined == {"undefined"}  \* frame balances that were never set

VARIABLES
  status,          \* consensus layer: active, exiting (withdrawable epoch set,
                   \*   balance left) or withdrawn, per Lido validator
  boot,            \* initialize(): at its full update, at its light update, done
  lastUpdate, churnLimit, maxExitEpoch, sweepMean, totals,  \* defined or not
  frameBalances,   \* storage: the validators counted, or Undefined
  ids,             \* storage: withdrawableLidoValidatorIds
  full, seen, saving,                           \* full update: step, validators
                                                \*   read, balances to be saved
  light, lightTodo, lightTotals, lightCounted,  \* light update: step and locals
  overtaken,       \* history: a full update published since the light one began
  file,            \* the cache file
  faults

figures == <<lastUpdate, churnLimit, maxExitEpoch, sweepMean, totals>>
storage == <<figures, frameBalances, ids>>
fullVars  == <<full, seen, saving>>
lightVars == <<light, lightTodo, lightTotals, lightCounted, overtaken>>
vars == <<status, boot, storage, fullVars, lightVars, file, faults>>

Exiting == {v \in LidoValidators : status[v] = "exiting"}

NoFile == [text |-> "none", balances |-> {}, fresh |-> FALSE]

Init ==
  /\ status \in [LidoValidators -> {"active", "exiting"}]
  /\ boot = "full"
  /\ lastUpdate = FALSE /\ churnLimit = FALSE /\ maxExitEpoch = FALSE
  /\ sweepMean = FALSE /\ totals = FALSE
  /\ frameBalances = Undefined /\ ids = {}
  /\ full = "idle" /\ seen = {} /\ saving = {}
  /\ light = "idle" /\ lightTodo = {} /\ lightTotals = FALSE /\ lightCounted = {}
  /\ overtaken = FALSE
  /\ file = NoFile
  /\ faults = 0

-----------------------------------------------------------------------------
(* The consensus layer and the age of the file.                            *)

\* A validator's exit is scheduled; a sweep pays its balance out.
Exit(v) ==
  /\ status[v] = "active" /\ status' = [status EXCEPT ![v] = "exiting"]
  /\ UNCHANGED <<boot, storage, fullVars, lightVars, file, faults>>

Withdraw(v) ==
  /\ status[v] = "exiting" /\ status' = [status EXCEPT ![v] = "withdrawn"]
  /\ UNCHANGED <<boot, storage, fullVars, lightVars, file, faults>>

\* CACHE_INVALIDATE_TIME passes since the update the file holds.
Outdate ==
  /\ file.fresh /\ file' = [file EXCEPT !.fresh = FALSE]
  /\ UNCHANGED <<status, boot, storage, fullVars, lightVars, faults>>

-----------------------------------------------------------------------------
(* The full update, updateValidators.                                      *)

\* initialize() calls it once; the cron jobs it starts after that call it again.
StartFull ==
  /\ full = "idle" /\ full' = "reading"
  /\ UNCHANGED <<status, boot, storage, seen, saving, lightVars, file, faults>>

\* The stream of all validators at the head.
ReadValidators ==
  /\ full = "reading" /\ full' = "sweep"
  /\ seen' = Exiting
  /\ UNCHANGED <<status, boot, storage, saving, lightVars, file, faults>>

SetSweepMean ==
  /\ full = "sweep" /\ full' = "counting"
  /\ sweepMean' = TRUE
  /\ UNCHANGED <<status, boot, lastUpdate, churnLimit, maxExitEpoch, totals,
                 frameBalances, ids, seen, saving, lightVars, file, faults>>

\* Slip: the time of the update is stored with the figures.
SetFiguresAndTime ==
  /\ full = "counting" /\ full' = "matching"
  /\ churnLimit' = TRUE /\ maxExitEpoch' = TRUE /\ totals' = TRUE
  /\ lastUpdate' = TRUE
  /\ UNCHANGED <<status, boot, sweepMean, frameBalances, ids,
                 seen, saving, lightVars, file, faults>>

\* Active and total count, churn limit and exit epoch, after the loop.
SetFigures ==
  /\ full = "counting" /\ full' = "matching"
  /\ churnLimit' = TRUE /\ maxExitEpoch' = TRUE /\ totals' = TRUE
  /\ UNCHANGED <<status, boot, lastUpdate, sweepMean, frameBalances, ids,
                 seen, saving, lightVars, file, faults>>

\* findAndSetLidoValidatorsWithdrawableBalances from its last await on.
SetBalances ==
  /\ full = "matching" /\ full' = "opening"
  /\ frameBalances' = seen /\ ids' = seen /\ lastUpdate' = TRUE
  /\ overtaken' = (light # "idle")
  /\ UNCHANGED <<status, boot, churnLimit, maxExitEpoch, sweepMean, totals, seen, saving,
                 light, lightTodo, lightTotals, lightCounted, file, faults>>

\* saveDataToCache puts the text together after mkdir; writeFile truncates first.
OpenFile ==
  /\ full = "opening" /\ full' = "writing"
  /\ saving' = frameBalances
  /\ file' = NoFile
  /\ UNCHANGED <<status, boot, storage, seen, lightVars, faults>>

\* Back to idle.  The first call was initialize()'s, which goes on.
EndFull ==
  /\ full' = "idle" /\ seen' = {} /\ saving' = {}
  /\ boot' = IF boot = "full" THEN "light" ELSE boot

Saved(text) == [text |-> text, balances |-> saving, fresh |-> TRUE]

CloseFile ==
  /\ full = "writing"
  /\ file' = Saved("whole")
  /\ EndFull
  /\ UNCHANGED <<status, storage, lightVars, faults>>

\* What an interrupted write leaves: nothing, all but the last field (churnLimit,
\* one digit), or everything.  A text without one of its dividers is rejected when
\* it is read, like an empty one.
Leftovers == IF full = "writing" THEN {NoFile, Saved("noChurn"), Saved("whole")}
             ELSE {file}

\* Slip: the error escapes and the OneAtTime lock is never released.
FailFullKeepsLock ==
  /\ faults < MaxFaults
  /\ full # "idle"
  /\ full' = "failed" /\ file' \in Leftovers
  /\ boot' = IF boot = "full" THEN "light" ELSE boot
  /\ faults' = faults + 1
  /\ UNCHANGED <<status, storage, seen, saving, lightVars>>

\* An awaited call fails; wrapJob swallows the error.  What was stored stays.
FailFull ==
  /\ faults < MaxFaults
  /\ full # "idle"
  /\ EndFull /\ file' \in Leftovers
  /\ faults' = faults + 1
  /\ UNCHANGED <<status, storage, lightVars>>

-----------------------------------------------------------------------------
(* The light update, updateLidoWithdrawableValidators.                     *)

StartLight ==
  /\ boot # "full" /\ light = "idle"
  /\ light' = "reading"
  /\ lightTodo' = ids /\ lightTotals' = totals /\ lightCounted' = {}
  /\ overtaken' = FALSE
  /\ UNCHANGED <<status, boot, storage, fullVars, file, faults>>

EndLight ==
  /\ light' = "idle"
  /\ lightTodo' = {} /\ lightTotals' = FALSE /\ lightCounted' = {}
  /\ boot' = IF boot = "light" THEN "done" ELSE boot

\* Slip: the loop stops before an incomplete last batch.
FetchFullBatch ==
  /\ light = "reading" /\ Cardinality(lightTodo) > BatchSize
  /\ \E batch \in SUBSET lightTodo :
       /\ Cardinality(batch) = BatchSize
       /\ lightTodo' = IF Cardinality(lightTodo \ batch) < BatchSize THEN {}
                       ELSE lightTodo \ batch
       /\ lightCounted' = lightCounted \cup (batch \cap Exiting)
  /\ UNCHANGED <<status, boot, storage, fullVars, light, lightTotals, overtaken, file, faults>>

\* One batch of ids is read at the current head; a withdrawn validator still
\* has an entry, but nothing left in it.
FetchBatch ==
  /\ light = "reading" /\ Cardinality(lightTodo) > BatchSize
  /\ \E batch \in SUBSET lightTodo :
       /\ Cardinality(batch) = BatchSize
       /\ lightTodo' = lightTodo \ batch
       /\ lightCounted' = lightCounted \cup (batch \cap Exiting)
  /\ UNCHANGED <<status, boot, storage, fullVars, light, lightTotals, overtaken, file, faults>>

\* The last batch, or the sweep state when there are no ids, and the publication.
PublishLight ==
  /\ light = "reading" /\ Cardinality(lightTodo) <= BatchSize
  /\ frameBalances' = lightCounted \cup (lightTodo \cap Exiting)
  /\ EndLight
  /\ UNCHANGED <<status, figures, ids, fullVars, overtaken, file, faults>>

FailLight ==
  /\ faults < MaxFaults
  /\ light # "idle"
  /\ EndLight
  /\ faults' = faults + 1
  /\ UNCHANGED <<status, storage, fullVars, overtaken, file>>

-----------------------------------------------------------------------------
(* Restart.                                                                *)

\* initializeFromCache.  Neither the total count nor the ids are in the file; the
\* missing churn limit reads as 0, which is as good as undefined.
LoadFrom(f) ==
  LET valid == f.text # "none" /\ f.fresh
  IN  /\ lastUpdate' = valid /\ maxExitEpoch' = valid /\ sweepMean' = valid
      /\ churnLimit' = (valid /\ f.text = "whole")
      /\ totals' = FALSE
      /\ frameBalances' = IF valid THEN f.balances ELSE Undefined
      /\ ids' = {}

Restart ==
  /\ faults < MaxFaults
  /\ \E f \in Leftovers : file' = f /\ LoadFrom(f)
  /\ boot' = "full"
  /\ full' = "idle" /\ seen' = {} /\ saving' = {}
  /\ light' = "idle" /\ lightTodo' = {} /\ lightTotals' = FALSE /\ lightCounted' = {}
  /\ overtaken' = FALSE
  /\ faults' = faults + 1
  /\ UNCHANGED status

-----------------------------------------------------------------------------
FullUpdate == \/ StartFull \/ ReadValidators \/ SetSweepMean \/ SetFigures
              \/ SetBalances \/ OpenFile \/ CloseFile
LightUpdate == StartLight \/ FetchBatch \/ PublishLight
ConsensusLayer == \E v \in LidoValidators : Exit(v) \/ Withdraw(v)
Faults == FailFull \/ FailLight \/ Restart

Next == ConsensusLayer \/ Outdate \/ FullUpdate \/ LightUpdate \/ Faults

(* Both cron schedules fire again and again and awaited calls settle; the  *)
(* consensus layer, time and faults are under no obligation.               *)
Spec == Init /\ [][Next]_vars
FairSpec == Spec /\ WF_vars(FullUpdate) /\ WF_vars(LightUpdate)

-----------------------------------------------------------------------------
(* Properties.                                                             *)

TypeOK ==
  /\ status \in [LidoValidators -> {"active", "exiting", "withdrawn"}]
  /\ boot \in {"full", "light", "done"}
  /\ {lastUpdate, churnLimit, maxExitEpoch, sweepMean, totals} \subseteq BOOLEAN
  /\ frameBalances \in (SUBSET LidoValidators) \cup {Undefined}
  /\ ids \subseteq LidoValidators
  /\ full \in {"idle", "reading", "sweep", "counting", "matching", "opening", "writing"}
  /\ seen \subseteq LidoValidators /\ saving \subseteq LidoValidators
  /\ light \in {"idle", "reading"} /\ lightTotals \in BOOLEAN /\ overtaken \in BOOLEAN
  /\ lightTodo \subseteq LidoValidators /\ lightCounted \subseteq LidoValidators
  /\ file \in [text : {"none", "noChurn", "whole"}, balances : SUBSET LidoValidators,
               fresh : BOOLEAN]
  /\ faults \in 0..MaxFaults
  /\ boot = "full" => light = "idle"

\* checkIsInitializing looks at the time of the update and the churn limit only.
\* Whatever failed or was interrupted, once it lets a question through every
\* other field the estimate reads is defined as well.
InitializedIsComplete ==
  lastUpdate /\ churnLimit => maxExitEpoch /\ sweepMean /\ frameBalances # Undefined

\* The frame of a validator is computed from the total count, which is not in the
\* cache file: whenever the light update has ids to work on, it has the count.
LightHasTotals == lightTodo # {} => lightTotals

\* A light update that no full update overtakes publishes every validator it was
\* given by the stored ids and that still has a balance, over all batches.
LightCountsIdentified ==
  [][ light = "reading" /\ light' = "idle" /\ boot' # "full" /\ ~overtaken
      /\ faults' = faults
      => ids \cap Exiting \subseteq frameBalances' ]_vars

\* However the two updates overlap, fail and restart, once the consensus layer is
\* quiet the balances are those of exactly the validators being withdrawn.
EventuallyExact == <>[](frameBalances = Exiting)
=============================================================================
