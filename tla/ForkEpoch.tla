------------------------------- MODULE ForkEpoch -------------------------------
(***************************************************************************)
(* The fork after which blocks carry no execution payload: SpecService     *)
(* learns its epoch from the consensus node, at start and by a daily job,  *)
(* and getBlockBySlot decides by it where the payload of a slot is looked  *)
(* up, in the block or in the envelope (ConsensusExecutionPayloadService). *)
(*                                                                         *)
(* The epoch may be announced, moved and withdrawn as long as it has not   *)
(* been reached, so what the service knows may be old.  BlockState falls   *)
(* back to the head whenever a lookup fails.                               *)
(***************************************************************************)
EXTENDS Integers, Sequences

CONSTANTS SlotsPerEpoch,
          MaxSlot,      \* bound: slots of the chain
          MaxChanges,   \* bound: announcements
          MaxFaults     \* bound: failed calls of the node

ASSUME ForkConstants ==
  SlotsPerEpoch \in Nat \ {0} /\ MaxSlot \in Nat /\ MaxChanges \in Nat /\ MaxFaults \in Nat

None == -1    \* FAR_FUTURE_EPOCH or no such key, and null in the service
Asked == -2   \* a refresh without an answer
Idle  == -3   \* no refresh

Refreshers == {"init", "cron"}   \* onModuleInit and the job, which may overlap

VARIABLES
  blocks,     \* the slots of the chain: missed, body, envelope, or withheld (no
              \*   envelope was published)
  announced, changes,   \* GLOAS_FORK_EPOCH of the node
  known,      \* glamsterdamForkEpoch
  refresh,    \* per refresher: Idle, Asked or the answer of getSpec
  slot,       \* slot of the lookup, 0 without one
  stage,      \* what it waits for: block or envelope
  knew,       \* history: the service was up to date when the lookup decided
  last,       \* history: the last lookup
  faults

lookup   == <<slot, stage, knew, last>>
forkVars == <<blocks, announced, changes, known, refresh, lookup, faults>>

ForkInit ==
  /\ blocks = <<>> /\ announced = None /\ changes = 0
  /\ known = None /\ refresh = [init |-> Asked, cron |-> Idle]
  /\ slot = 0 /\ stage = "block" /\ knew = TRUE
  /\ last = [result |-> "none", knew |-> TRUE]
  /\ faults = 0

EpochOf(s) == s \div SlotsPerEpoch

-----------------------------------------------------------------------------
(* The chain.                                                              *)

Forms(s) == {"missed"} \cup IF announced # None /\ EpochOf(s) >= announced
                            THEN {"envelope", "withheld"} ELSE {"body"}

Produce ==
  /\ Len(blocks) < MaxSlot
  /\ \E form \in Forms(Len(blocks) + 1) : blocks' = Append(blocks, form)
  /\ UNCHANGED <<announced, changes, known, refresh, lookup, faults>>

IsAhead(epoch) == epoch = None \/ epoch * SlotsPerEpoch > Len(blocks)

\* Clients of the network move a fork that is still ahead.
Announce ==
  /\ changes < MaxChanges /\ changes' = changes + 1 /\ IsAhead(announced)
  /\ \E epoch \in {None} \cup 0..EpochOf(MaxSlot) :
       epoch # announced /\ IsAhead(epoch) /\ announced' = epoch
  /\ UNCHANGED <<blocks, known, refresh, lookup, faults>>

-----------------------------------------------------------------------------
(* refreshGlamsterdamForkEpoch.                                            *)

\* Midnight; OneAtTime drops a run while another is under way.
Cron ==
  /\ refresh["cron"] = Idle /\ refresh' = [refresh EXCEPT !["cron"] = Asked]
  /\ UNCHANGED <<blocks, announced, changes, known, lookup, faults>>

\* The node answers getSpec.
Hear(r) ==
  /\ refresh[r] = Asked /\ refresh' = [refresh EXCEPT ![r] = announced]
  /\ UNCHANGED <<blocks, announced, changes, known, lookup, faults>>

\* Slip: FAR_FUTURE and a missing key are converted too (-5 stands for NaN).
LearnAnything(r) ==
  /\ refresh[r] >= None /\ refresh' = [refresh EXCEPT ![r] = Idle]
  /\ known' = IF refresh[r] = None THEN -5 ELSE refresh[r]
  /\ UNCHANGED <<blocks, announced, changes, lookup, faults>>

\* The answer arrives; FAR_FUTURE or nothing leaves what is known.
Learn(r) ==
  /\ refresh[r] >= None /\ refresh' = [refresh EXCEPT ![r] = Idle]
  /\ known' = IF refresh[r] = None THEN known ELSE refresh[r]
  /\ UNCHANGED <<blocks, announced, changes, lookup, faults>>

\* Slip: the failure is not caught, and the job stays locked.
FailRefreshKeepsLock(r) ==
  /\ refresh[r] = Asked /\ faults < MaxFaults /\ faults' = faults + 1
  /\ refresh' = [refresh EXCEPT ![r] = IF r = "cron" THEN -4 ELSE Idle]
  /\ UNCHANGED <<blocks, announced, changes, known, lookup>>

\* The call fails: a warning, until the next day.
FailRefresh(r) ==
  /\ refresh[r] = Asked /\ faults < MaxFaults /\ faults' = faults + 1
  /\ refresh' = [refresh EXCEPT ![r] = Idle]
  /\ UNCHANGED <<blocks, announced, changes, known, lookup>>

-----------------------------------------------------------------------------
(* getBlockBySlot and getExecutionPayload.                                 *)

\* Slip: the fork counts from the epoch after it.
ReleasedAfter(s) == known # None /\ EpochOf(s) > known

\* isGlamsterdamReleasedAtSlot.
Released(s) == known # None /\ EpochOf(s) >= known

Ask ==
  /\ slot = 0 /\ slot' \in 1..Len(blocks) /\ stage' = "block"
  /\ UNCHANGED <<blocks, announced, changes, known, refresh, knew, last, faults>>

Settle(result, upToDate) ==
  /\ last' = [result |-> result, knew |-> upToDate]
  /\ slot' = 0 /\ stage' = "block" /\ knew' = TRUE

\* The block arrives.  The service decides by what it knows now.
GetBlock ==
  /\ slot # 0 /\ stage = "block"
  /\ CASE blocks[slot] = "missed" -> Settle("missed", known = announced)
       [] blocks[slot] # "missed" /\ Released(slot) ->
            stage' = "envelope" /\ knew' = (known = announced) /\ UNCHANGED <<slot, last>>
       [] OTHER -> Settle(IF blocks[slot] = "body" THEN "payload" ELSE "no payload",
                          known = announced)
  /\ UNCHANGED <<blocks, announced, changes, known, refresh, faults>>

GetEnvelope ==
  /\ slot # 0 /\ stage = "envelope"
  /\ Settle(CASE blocks[slot] = "envelope" -> "payload"
              [] blocks[slot] = "withheld" -> "withheld"
              [] OTHER -> "no payload", knew)
  /\ UNCHANGED <<blocks, announced, changes, known, refresh, faults>>

FailLookup ==
  /\ slot # 0 /\ faults < MaxFaults /\ faults' = faults + 1
  /\ Settle("fault", TRUE)
  /\ UNCHANGED <<blocks, announced, changes, known, refresh>>

-----------------------------------------------------------------------------
ForkNext ==
  \/ Produce \/ Announce \/ Cron
  \/ \E r \in Refreshers : Hear(r) \/ Learn(r) \/ FailRefresh(r)
  \/ Ask \/ GetBlock \/ GetEnvelope \/ FailLookup

\* The job runs every day, and a call of the node ends.
ForkFairness ==
  /\ WF_forkVars(Cron)
  /\ \A r \in Refreshers : WF_forkVars(Hear(r) \/ FailRefresh(r)) /\ WF_forkVars(Learn(r))

ForkSpec == ForkInit /\ [][ForkNext]_forkVars /\ ForkFairness

-----------------------------------------------------------------------------
(* Properties.                                                             *)

Epochs == 0..EpochOf(MaxSlot)

ForkTypeOK ==
  /\ blocks \in Seq({"missed", "body", "envelope", "withheld"}) /\ Len(blocks) <= MaxSlot
  /\ announced \in {None} \cup Epochs /\ known \in {None} \cup Epochs
  /\ refresh \in [Refreshers -> {Idle, Asked, None} \cup Epochs]
  /\ slot \in 0..Len(blocks) /\ stage \in {"block", "envelope"} /\ knew \in BOOLEAN
  /\ last.result \in {"none", "payload", "missed", "withheld", "no payload", "fault"}
  /\ changes \in 0..MaxChanges /\ faults \in 0..MaxFaults

\* A lookup finds the payload of every block that has one, before, in and after the
\* epoch of the fork, unless the node failed or the service had not heard of the last
\* announcement when it decided: only then BlockState falls back for this reason.
PayloadIsFoundWhenKnown == last.result = "no payload" => ~last.knew

\* An announced epoch becomes known, although the refresh at start may fail or end
\* after a later one with an older answer, and stays so.  (A fork that is withdrawn
\* is not: the service keeps the epoch it had.)
EventuallyKnown == <>[](announced = None \/ known = announced)
=============================================================================
