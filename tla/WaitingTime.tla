----------------------------- MODULE WaitingTime -----------------------------
(***************************************************************************)
(* The waiting-time estimate (WaitingTimeService): from the values the     *)
(* jobs have stored to the report frame in which a request is expected to  *)
(* be finalized, and from the frame to a time.                             *)
(*                                                                         *)
(* st is the snapshot one calculation reads: the balances of the cached    *)
(* block and the stored rewards, limits and validator figures.  Clients    *)
(* ask for an extra amount or for a request of the queue; now advances     *)
(* between the questions and jobs and blocks replace the snapshot.  One    *)
(* calculation is one step: it awaits nothing but its own helpers.         *)
(* Amounts are in whole units of the smallest amount that matters.  The    *)
(* clock is finer than the seconds to which the time left is rounded.      *)
(***************************************************************************)
EXTENDS GenesisTime, FiniteSets, FiniteSetsExt

CONSTANTS Gap,               \* GAP_AFTER_REPORT, 30 minutes
          Margin,            \* requestTimestampMargin of the oracle limits
          FallbackDelay,     \* 5 days, for a frame that lies in the past
          BunkerFrames,      \* WITHDRAWAL_BUNKER_DELAY_FRAMES
          SeedLookahead,     \* MAX_SEED_LOOKAHEAD
          EpochsPerFrameVEBO,
          ProtocolStates,    \* the snapshots considered
          Amounts,           \* extra amounts clients ask about
          RequestSums,       \* stETH of the queue up to a looked-up request
          StartTime,         \* the service runs from here
          MaxTime            \* bound: the clock stops here

\* The oracle has been reporting for a frame when the service starts, and the
\* gap and the margin fit in a frame (30 minutes and 2 hours in a day).  The
\* contract gives the margin in seconds.
ASSUME EstimateConstants ==
  /\ {Gap, Margin, FallbackDelay, BunkerFrames, SeedLookahead} \subseteq Nat
  /\ EpochsPerFrameVEBO \in Nat \ {0}
  /\ Amounts \subseteq Nat /\ RequestSums \subseteq Nat
  /\ StartTime \in Nat /\ MaxTime \in Nat /\ StartTime <= MaxTime
  /\ StartTime >= ReportTime(1)
  /\ Gap + Margin <= FrameLength
  /\ IsWhole(Margin)

ASSUME SnapshotTypes == \A s \in ProtocolStates :
  /\ {"unfinalized", "buffer", "vaults", "rewards", "target", "balances",
      "exitPerEpoch", "cap", "sweep", "maxExit", "bunker"} \subseteq DOMAIN s
  /\ s.unfinalized \in Nat /\ s.buffer \in Nat /\ s.vaults \in Nat
  /\ s.rewards \in Int /\ s.target \in Nat
  /\ IsFiniteSet(DOMAIN s.balances) /\ DOMAIN s.balances \subseteq Nat \ {0}
  /\ \A f \in DOMAIN s.balances : s.balances[f] \in Nat
  /\ s.exitPerEpoch \in Nat /\ s.cap \in Nat
  /\ s.sweep \in Nat /\ s.maxExit \in Nat /\ s.bunker \in BOOLEAN

VARIABLES now,     \* Date.now()
          st,      \* the stored values and the cached block state
          answer   \* the last answer a client got for these values

vars == <<now, st, answer>>

NoFrame == 0                       \* null; a case frame is never 0
Failed  == [frame |-> NoFrame, type |-> "error"]
NoAnswer == [kind |-> "none"]

-----------------------------------------------------------------------------
(* Frames and epochs of the moment.                                        *)

CurrentEpoch == EpochAt(now)
CurrentFrame == FrameOfEpoch(CurrentEpoch)

\* Slip: the report counts as done at its reference time.
ReportFrameWithoutGap == CurrentFrame

\* The last frame whose report is done: the current one, except during the
\* first Gap of it.
ReportFrame ==
  IF FrameAt(now - Gap) = CurrentFrame THEN CurrentFrame ELSE CurrentFrame - 1

\* Slip: the comparison with the margin is the wrong way round.
IsPostponedWhenEarly(requestedAt) == TimeToFrame(ReportFrame + 1, requestedAt) > Margin

IsPostponed(requestedAt) == TimeToFrame(ReportFrame + 1, requestedAt) < Margin

MaxExitEpoch(s) == Max({s.maxExit, CurrentEpoch + SeedLookahead + 1})

\* Exit epoch assumed for a request placed earlier.
MaxExitEpochInPast(s, requestedAt) ==
  EpochAt(requestedAt) + Max({MaxExitEpoch(s) - CurrentEpoch, SeedLookahead})

-----------------------------------------------------------------------------
(* The cases.  need is the part of the queue the full buffer leaves open.  *)

\* Rewards of a frame net of the refill of the deposits reserve.
Available(s) ==
  s.rewards - (IF s.target > s.rewards THEN s.rewards ELSE s.target)

RewardsPerEpoch(s) == Available(s) \div EpochsPerFrame

\* calculateFrameByRewardsOnly divides by the rewards per epoch: with rewards
\* available, but less than one unit per epoch, the calculation throws.
DividesByZero(s) == Available(s) # 0 /\ RewardsPerEpoch(s) = 0

FrameByRewardsOnly(s, need) ==
  IF Available(s) = 0 THEN NoFrame
  ELSE FrameOfEpoch(CurrentEpoch + need \div RewardsPerEpoch(s)) + 1

\* Slip: the rewards of all frames since now are counted again at every key.
WalkFrom(s, need) ==
  LET keys == DOMAIN s.balances
      walk[f \in keys] ==
        LET before == {g \in keys : g < f}
            from   == IF before = {} THEN need ELSE walk[Max(before)]
        IN  from - s.balances[f]
              - (IF f >= ReportFrame THEN (f - ReportFrame) * Available(s) ELSE 0)
  IN  walk

\* What is left of need after each frame of withdrawing validators, in the
\* order of the frames; rewards accrue from the report frame on.
Walk(s, need) ==
  LET keys == DOMAIN s.balances
      walk[f \in keys] ==
        LET before == {g \in keys : g < f}
            from   == IF before = {} THEN need ELSE walk[Max(before)]
            last   == Max(before \cup {ReportFrame})
        IN  from - s.balances[f]
              - (IF f >= last THEN (f - last) * Available(s) ELSE 0)
  IN  walk

\* Slip: a frame counts when something is left, not when nothing is.
FrameByUncoveredBalances(s, need) ==
  LET left      == Walk(s, need)
      uncovered == {f \in DOMAIN s.balances : left[f] >= 0}
  IN  IF uncovered = {} THEN NoFrame ELSE Min(uncovered)

FrameByValidatorBalances(s, need) ==
  LET left    == Walk(s, need)
      covered == {f \in DOMAIN s.balances : left[f] <= 0}
  IN  IF covered = {} THEN NoFrame ELSE Min(covered)

\* Exits drain the queue by what the network lets out and the oracle may
\* request, together with the rewards, per frame of the exit bus.
ExitThroughput(s) ==
  Min({s.exitPerEpoch * EpochsPerFrameVEBO, s.cap})
    + RewardsPerEpoch(s) * EpochsPerFrameVEBO

FrameByExitValidators(s, need, latestEpoch) ==
  IF ExitThroughput(s) = 0 THEN NoFrame
  ELSE LET veboFrames == need \div ExitThroughput(s) + 1
       IN  FrameOfEpoch(latestEpoch + veboFrames * EpochsPerFrameVEBO + s.sweep) + 1

\* Smallest frame; of equal ones, the last.  Nothing to choose from throws.
Soonest(cases) ==
  LET offered == {i \in DOMAIN cases : cases[i].frame # NoFrame}
      best    == {i \in offered : \A j \in offered : cases[i].frame <= cases[j].frame}
  IN  IF offered = {} THEN Failed
      ELSE cases[CHOOSE i \in best : \A j \in best : j <= i]

\* The three cases beyond the full buffer, in the order of the comparison.
Cases(s, need, latestEpoch) ==
  << [frame |-> FrameByValidatorBalances(s, need), type |-> "validatorBalances"],
     [frame |-> FrameByRewardsOnly(s, need), type |-> "rewardsOnly"],
     [frame |-> FrameByExitValidators(s, need, latestEpoch), type |-> "exitValidators"] >>

Bunker == [frame |-> CurrentFrame + BunkerFrames, type |-> "bunker"]

ByBuffer(type, requestedAt) ==
  IF IsPostponed(requestedAt)
  THEN [frame |-> ReportFrame + 2, type |-> "requestTimestampMargin"]
  ELSE [frame |-> ReportFrame + 1, type |-> type]

\* calculateWithdrawalFrame
Forecast(s, unfinalized, requestedAt, latestEpoch) ==
  LET full == s.buffer + s.vaults
  IN  CASE s.bunker -> Bunker
        [] ~s.bunker /\ s.buffer > unfinalized -> ByBuffer("buffer", requestedAt)
        [] ~s.bunker /\ s.buffer <= unfinalized /\ full > unfinalized ->
             ByBuffer("vaultsBalance", requestedAt)
        [] OTHER -> IF DividesByZero(s) THEN Failed
                    ELSE Soonest(Cases(s, unfinalized - full, latestEpoch))

-----------------------------------------------------------------------------
(* The answers.                                                            *)

WithFallback(time) == IF time < 0 THEN FallbackDelay ELSE time
FinalizationIn(frame, from) == WithFallback(TimeToFrame(frame, from)) + Gap

Answer(kind, amount, requestedAt, f, in) ==
  [kind |-> kind, amount |-> amount, requestedAt |-> requestedAt, at |-> now,
   frame |-> f.frame, type |-> f.type,
   finalizationAt |-> IF f = Failed THEN now ELSE requestedAt + in]

\* getWaitingTimeInfo: a request of this amount is placed now.
Ask(amount) ==
  LET f == Forecast(st, st.unfinalized + amount, now, MaxExitEpoch(st))
  IN  /\ answer' = Answer("amount", amount, now, f, FinalizationIn(f.frame, now))
      /\ UNCHANGED <<now, st>>

\* Slip: a time in the past is recalculated but not checked again.
SettledOnce(s, sum, requestedAt, f) ==
  LET again == Forecast(s, sum, requestedAt, MaxExitEpoch(s))
      isPast(g) == requestedAt + FinalizationIn(g.frame, requestedAt) < now
      final == IF isPast(f) THEN again ELSE f
  IN  [forecast |-> final, in |-> FinalizationIn(final.frame, requestedAt)]

\* checkInPastCase: a result in the past is recalculated with the exit epoch of
\* now and, when it is still in the past, replaced by the next frame.
Settled(s, sum, requestedAt, f) ==
  LET again == Forecast(s, sum, requestedAt, MaxExitEpoch(s))
      isPast(g) == requestedAt + FinalizationIn(g.frame, requestedAt) < now
      final == IF isPast(f) THEN again ELSE f
  IN  [forecast |-> final,
       in |-> IF isPast(final) THEN TimeToFrame(CurrentFrame + 1, requestedAt) + Gap
              ELSE FinalizationIn(final.frame, requestedAt)]

\* A request has the timestamp of its block, in seconds.
BlockTimes == {t \in StartTime..now : IsWhole(t)}

\* getWaitingTimeInfoById from the calculation on: the request was placed at
\* requestedAt and the queue up to it sums to sum.
AskById(sum, requestedAt) ==
  LET first == Forecast(st, sum, requestedAt, MaxExitEpochInPast(st, requestedAt))
      last  == Settled(st, sum, requestedAt, first)
      f     == IF first = Failed THEN Failed ELSE last.forecast
  IN  /\ answer' = Answer("request", sum, requestedAt, f, last.in)
      /\ UNCHANGED <<now, st>>

\* Jobs store new values or the cached block is replaced.
Refresh ==
  /\ st' \in ProtocolStates \ {st}
  /\ answer' = NoAnswer
  /\ UNCHANGED now

Tick == now < MaxTime /\ now' = now + 1 /\ UNCHANGED <<st, answer>>

Init == now = StartTime /\ st \in ProtocolStates /\ answer = NoAnswer

Next == \/ Tick \/ Refresh
        \/ \E amount \in Amounts : Ask(amount)
        \/ \E sum \in RequestSums, requestedAt \in BlockTimes : AskById(sum, requestedAt)

Spec == Init /\ [][Next]_vars

-----------------------------------------------------------------------------
(* Properties.                                                             *)

Types == {"bunker", "buffer", "vaultsBalance", "requestTimestampMargin",
          "validatorBalances", "rewardsOnly", "exitValidators"}

Answered == answer # NoAnswer /\ answer.type # "error"

TypeOK ==
  /\ now \in StartTime..MaxTime
  /\ st \in ProtocolStates
  /\ answer # NoAnswer =>
       /\ answer.kind \in {"amount", "request"}
       /\ answer.amount \in Nat
       /\ answer.requestedAt \in StartTime..answer.at
       /\ answer.at \in StartTime..now
       /\ answer.type \in Types => answer.frame \in Nat \ {0}
       /\ answer.type \in Types \cup {"error"}
       /\ answer.finalizationAt \in Nat

\* A request that is still in the queue is never said to be finalized before
\* the moment of the question, whatever its age and whatever the stored values
\* have become since (the two fallbacks of checkInPastCase).
ByIdNeverInPast ==
  Answered /\ answer.kind = "request" => answer.finalizationAt >= answer.at

\* Covered by buffer and vaults, a request is answered with the closest suitable
\* report: not done yet, at least the margin after the request, and no report
\* before it is both - for new requests and for requests of any age.  The date is
\* exact for a request of the queue and within half a second for a new one.
BufferIsClosestReport ==
  LET suitable(f) == /\ ReportTime(f) > answer.at - Gap
                     /\ TimeToFrame(f, answer.requestedAt) >= Margin
      off(f)      == answer.finalizationAt - (ReportTime(f) + Gap)
  IN  Answered /\ answer.type \in {"buffer", "vaultsBalance", "requestTimestampMargin"} =>
        /\ suitable(answer.frame) /\ ~suitable(answer.frame - 1)
        /\ IF answer.kind = "request" THEN off(answer.frame) = 0
           ELSE -Second < 2 * off(answer.frame) /\ 2 * off(answer.frame) <= Second

\* The walk over the frames of withdrawing validators finds the first frame at
\* which all balances until then and the rewards of the frames since the last
\* report cover the need: rewards are counted once, past frames earn none.
WalkFindsFirstCovered ==
  LET keys == DOMAIN st.balances
      income(f) == MapThenSumSet(LAMBDA g : st.balances[g], {g \in keys : g <= f})
                     + Available(st) * Max({0, f - ReportFrame})
      covers(f, need) == income(f) >= need
  IN  \A need \in 0..st.unfinalized :
        LET found == FrameByValidatorBalances(st, need)
        IN  IF found = NoFrame THEN \A f \in keys : ~covers(f, need)
            ELSE /\ found \in keys /\ covers(found, need)
                 /\ \A f \in keys : f < found => ~covers(f, need)

\* While nothing is known to have changed, a client that polls for the same
\* amount never sees the frame move to an earlier one, even one that is in the
\* past, nor the date back by a second or more: by less it may move, as the time
\* left is rounded and the time of asking is not.  A date that is the 5-day default
\* for a frame in the past is excepted: the next one may be that of a frame.
PollNeverEarlier ==
  [][ /\ Answered /\ Answered' /\ st' = st
      /\ answer.kind = "amount" /\ answer'.kind = "amount"
      /\ answer.amount = answer'.amount
      => /\ answer.frame <= answer'.frame
         /\ TimeToFrame(answer.frame, answer.at) >= 0 =>
              answer'.finalizationAt > answer.finalizationAt - Second ]_vars

ForecastNow(s, amount) == Forecast(s, s.unfinalized + amount, now, MaxExitEpoch(s))

\* "Conservative netting": assuming that the deposits reserve claims rewards
\* never brings a forecast forward.
NettingNeverHastens ==
  LET unclaimed == [st EXCEPT !.target = 0]
  IN  \A amount \in Amounts :
        ForecastNow(st, amount) # Failed =>
          ForecastNow(st, amount).frame >= ForecastNow(unclaimed, amount).frame

\* Beyond the full buffer, a larger amount is never forecast sooner, although
\* the three cases it is compared over are computed in different ways.
LargerIsNotSooner ==
  \A small, large \in Amounts :
    /\ small <= large
    /\ st.unfinalized + small >= st.buffer + st.vaults
    /\ ForecastNow(st, large) # Failed
    => ForecastNow(st, small).frame <= ForecastNow(st, large).frame

\* More to wait for never brings a forecast forward: neither a claim of the
\* reserve nor a larger amount.
MoreIsNotSooner == NettingNeverHastens /\ LargerIsNotSooner
=============================================================================
