------------------------------- MODULE Sweep -------------------------------
(***************************************************************************)
(* What is computed of the exits and the withdrawal sweep of the consensus *)
(* layer:                                                                  *)
(*                                                                         *)
(*  - its mean delay in epochs (SweepService), from the withdrawals        *)
(*    predicted for one round of it.  The amounts are BigNumbers in wei.   *)
(*    Two of the operations on them are those of strings in the code: +    *)
(*    writes one after the other, > compares from the first digit on;      *)
(*                                                                         *)
(*  - when a leaving validator is swept (getValidatorWithdrawalTimestamp): *)
(*    a closed form for the number of slots from now, used for the frame   *)
(*    its balance is counted in.  The cursor of the sweep goes round all   *)
(*    the validators, PerSlot active ones a slot, and rests in the slots   *)
(*    blocked by deferred withdrawals.  The density of active validators   *)
(*    is a binary fraction in the code: where the exact value before a     *)
(*    floor or a ceiling is an integer, the rounding may end on either     *)
(*    side of it.                                                          *)
(*                                                                         *)
(*  - the days of the first version of the estimate (RequestDays), from    *)
(*    the churn limit and last exit epoch of a full update that is over    *)
(*    and maybe old, a mean delay that a later, unfinished one may have    *)
(*    replaced, the queue of the last tick and the epoch of now.           *)
(*                                                                         *)
(* A behaviour asks for one of the three figures and computes it.          *)
(***************************************************************************)
EXTENDS RequestDays, Sequences, FiniteSetsExt, SequencesExt

CONSTANTS SlotsPerEpoch,
          Ten,            \* base of the decimal strings
          MinActivation,  \* MIN_ACTIVATION_BALANCE
          MaxElectra,     \* MAX_EFFECTIVE_BALANCE_ELECTRA
          PerPayload,     \* MAX_WITHDRAWALS_PER_PAYLOAD
          PartialsPerSweep, \* MAX_PENDING_PARTIALS_PER_WITHDRAWALS_SWEEP
          Kinds,          \* validators to choose from
          Amounts,        \* amounts of pending partial withdrawals
          Count,          \* bound: validators
          MaxPending,     \* bound: pending partial withdrawals
          MaxDigits,      \* bound: digits of an amount
          PerSlot,        \* WITHDRAWALS_VALIDATORS_PER_SLOT
          MaxTotal,       \* bound: validators of the beacon chain
          MaxEpochs,      \* bound: epochs until the validator is withdrawable
          MaxBlocked,     \* bound: slots blocked by deferred withdrawals
          Actives,        \* active balances to choose from
          Queues,         \* stETH in the queue with the asked amount
          Sweeps,         \* mean delays
          ExitEpochs,     \* last exit epochs
          MaxEpoch        \* bound: the epochs looked at

ASSUME SweepConstants ==
  /\ SlotsPerEpoch \in Nat \ {0} /\ Ten \in Nat \ {0, 1}
  /\ MinActivation \in Nat \ {0} /\ MaxElectra \in Nat \ {0} /\ MinActivation < MaxElectra
  /\ PartialsPerSweep \in Nat \ {0} /\ PerPayload \in Nat /\ PartialsPerSweep < PerPayload
  /\ Count \in Nat \ {0} /\ MaxPending \in Nat
  /\ Kinds \subseteq [prefix : {"bls", "eth1", "compounding"}, effective : Nat, balance : Nat,
                      exiting : BOOLEAN, withdrawable : BOOLEAN]
  /\ Amounts \subseteq Nat /\ MaxDigits \in Nat \ {0}
  /\ \A amount \in {MinActivation, MaxElectra} \cup {v.balance : v \in Kinds} :
       amount < Ten^MaxDigits
  /\ PerSlot \in Nat \ {0}
  /\ MaxTotal \in Nat \ {0} /\ MaxEpochs \in Nat /\ MaxBlocked \in Nat
  /\ Actives \cup Queues \cup Sweeps \cup ExitEpochs \subseteq Nat /\ MaxEpoch \in Nat

VARIABLES validators,  \* indexedValidators by index, or none
          pending,     \* pending_partial_withdrawals
          leaving,     \* a leaving validator and the sweep, or Nobody
          days,        \* what the days are computed from, or NoDays
          figure       \* the mean delay, the number of slots or of days, or Unknown

inputs    == <<validators, pending, leaving, days>>
sweepVars == <<inputs, figure>>

Unknown == -1
Nobody  == [index |-> 0, total |-> 0]
NoDays  == [active |-> 0]

CeilDiv(a, b) == -((-a) \div b)

-----------------------------------------------------------------------------
(* BigNumbers as strings.                                                  *)

Digits(n) == Min({d \in 1..MaxDigits : n < Ten^d})

\* a + b; zeros in front count for nothing.
Concatenated(a, b) == IF a = 0 THEN b ELSE a * Ten^Digits(b) + b

\* n with zeros behind it, up to the width.
Padded(n, width) == IF Digits(n) = width THEN n ELSE n * Ten^(width - Digits(n))

\* a > b, for b above 0: a sign and the digit of 0 are below the first digit of b.
StringGreater(a, b) ==
  LET width == Max({Digits(a), Digits(b)})
      left  == Padded(a, width)
      right == Padded(b, width)
  IN  a > 0 /\ (left > right \/ (left = right /\ Digits(a) > Digits(b)))

-----------------------------------------------------------------------------
(* The withdrawals of a round of the sweep.                                *)

\* getPendingPartialWithdrawals: those of known validators that are not exiting
\* and have more than the minimum, by their places in the list.
Withdrawals(indexed, asked) ==
  LET Due(p) == /\ p.index \in DOMAIN indexed
                /\ ~indexed[p.index].exiting
                /\ indexed[p.index].effective >= MinActivation
                /\ indexed[p.index].balance > MinActivation
      Cut(p) == [index  |-> p.index,
                 amount |-> Min({indexed[p.index].balance - MinActivation, p.amount})]
  IN  [k \in {k \in DOMAIN asked : Due(asked[k])} |-> Cut(asked[k])]

PlacesOf(withdrawals, i) == {k \in DOMAIN withdrawals : withdrawals[k].index = i}

\* The amounts of a validator, in the order of the list.
Added(Add(_, _), withdrawals, i) ==
  MapThenFoldSet(LAMBDA amount, sum : Add(sum, amount), 0,
                 LAMBDA k : withdrawals[k].amount, Max, PlacesOf(withdrawals, i))

\* partiallyWithdrawnMap: 0 + amount is the amount, a second one is written
\* behind it.
Withdrawn(withdrawals, i) == Added(Concatenated, withdrawals, i)

MaxEffective(v) == IF v.prefix = "compounding" THEN MaxElectra ELSE MinActivation

IsFullyWithdrawable(v, balance) ==
  v.prefix # "bls" /\ v.withdrawable /\ balance > 0

\* Slip: the effective balance need not be at its maximum.
ExceedsMaximum(v, balance) ==
  v.prefix # "bls" /\ StringGreater(balance, MaxEffective(v))

IsPartiallyWithdrawable(v, balance) ==
  /\ v.prefix # "bls" /\ v.effective = MaxEffective(v)
  /\ StringGreater(balance, MaxEffective(v))

\* The validators that getValidatorsWithdrawalsNumber counts, and their number.
Withdrawable(indexed, withdrawals) ==
  {i \in DOMAIN indexed :
    LET balance == indexed[i].balance - Withdrawn(withdrawals, i)
    IN  \/ IsFullyWithdrawable(indexed[i], balance)
        \/ IsPartiallyWithdrawable(indexed[i], balance)}

ValidatorsWithdrawals(indexed, withdrawals) ==
  Cardinality(Withdrawable(indexed, withdrawals))

\* predictWithdrawalsNumberInSweepCycle
InCycle(fromValidators, partials) ==
  fromValidators
    + Min({partials, CeilDiv(fromValidators * PartialsPerSweep, PerPayload - PartialsPerSweep)})

\* getSweepDelayInEpochsPostElectra: half a round.
Half(inCycle) == CeilDiv(inCycle, PerPayload * SlotsPerEpoch) \div 2

SweepDelay(indexed, asked) ==
  LET withdrawals == Withdrawals(indexed, asked)
  IN  Half(InCycle(ValidatorsWithdrawals(indexed, withdrawals), Cardinality(DOMAIN withdrawals)))

-----------------------------------------------------------------------------
(* The slot of a leaving validator.                                        *)

\* floor(a / (active / total)) and ceil(a * (active / total)) of the fractions.
Floors(a, active, total) ==
  LET q == (a * total) \div active
  IN  IF active # total /\ a > 0 /\ (a * total) % active = 0 THEN {q - 1, q} ELSE {q}

Ceils(a, active, total) ==
  LET c == CeilDiv(a * active, total)
  IN  IF active # total /\ a > 0 /\ (a * active) % total = 0 THEN {c, c + 1} ELSE {c}

SlotsUntilWithdrawable(v) == Max({v.epochs, 0}) * SlotsPerEpoch

\* Slip: blocked slots are forgotten once the validator is withdrawable.
BlockedNever(v) == 0

BlockedAfter(v) == Max({v.blocked - SlotsUntilWithdrawable(v), 0})

CursorsWhenWithdrawable(v) ==
  LET free == Max({SlotsUntilWithdrawable(v) - v.blocked, 0})
  IN  {(v.cursor + (advance % v.total)) % v.total : advance \in Floors(free * PerSlot, v.active, v.total)}

\* Validators between the cursor and this one, going round.
Distance(v, cursor) == (v.index - cursor + v.total) % v.total

SlotsToReach(v) ==
  {CeilDiv(passed + 1, PerSlot) : passed \in
    UNION {Ceils(Distance(v, cursor), v.active, v.total) : cursor \in CursorsWhenWithdrawable(v)}}

Estimates(v) == {SlotsUntilWithdrawable(v) + BlockedAfter(v) + s : s \in SlotsToReach(v)}

-----------------------------------------------------------------------------
(* The three questions.                                                    *)

\* epochs is withdrawable_epoch - currentEpoch, negative in the past.
Leaving ==
  UNION {[index : 0..total - 1, cursor : 0..total - 1, total : {total}, active : 1..total,
          epochs : -1..MaxEpochs, blocked : 0..MaxBlocked] : total \in 1..MaxTotal}

NoValidators == validators = <<>> /\ pending = <<>>

AskDelay ==
  /\ validators \in UNION {[0..n - 1 -> Kinds] : n \in 1..Count}
  /\ pending \in UNION {[1..n -> [index : 0..Count, amount : Amounts]] : n \in 0..MaxPending}
  /\ leaving = Nobody /\ days = NoDays

AskSlots == NoValidators /\ leaving \in Leaving /\ days = NoDays

\* The last update was at some epoch that is not after now.
AskDays ==
  /\ NoValidators /\ leaving = Nobody
  /\ days \in {q \in [active : Actives, queue : Queues, sweep : Sweeps, exit : ExitEpochs,
                      at : 0..MaxEpoch, now : 0..MaxEpoch] : q.at <= q.now}

SweepInit == (AskDelay \/ AskSlots \/ AskDays) /\ figure = Unknown

\* Of a full update.
ComputeDelay ==
  /\ leaving = Nobody /\ days = NoDays /\ figure = Unknown
  /\ figure' = SweepDelay(validators, pending)
  /\ UNCHANGED inputs

\* Of either update, for each of the validators.
ComputeSlots ==
  /\ leaving # Nobody /\ figure = Unknown
  /\ figure' \in Estimates(leaving)
  /\ UNCHANGED inputs

\* Of an answer.
ComputeDays ==
  /\ days # NoDays /\ figure = Unknown
  /\ figure' = Days(days)
  /\ UNCHANGED inputs

SweepNext == ComputeDelay \/ ComputeSlots \/ ComputeDays
SweepSpec == SweepInit /\ [][SweepNext]_sweepVars

-----------------------------------------------------------------------------
(* The sweep itself, slot by slot, when all validators are active.         *)

Horizon == MaxEpochs * SlotsPerEpoch + MaxBlocked + MaxTotal

\* The cursor at the start of each slot.
Cursors(v) ==
  LET cursor[s \in 0..Horizon] ==
        IF s = 0 THEN v.cursor
        ELSE IF s <= v.blocked THEN cursor[s - 1] ELSE (cursor[s - 1] + PerSlot) % v.total
  IN  cursor

Batch(v, s) == {(Cursors(v)[s] + k) % v.total : k \in 0..PerSlot - 1}

SweptSlot(v) ==
  Min({s \in 0..Horizon : /\ s >= v.blocked /\ s >= SlotsUntilWithdrawable(v)
                          /\ v.index \in Batch(v, s)})

-----------------------------------------------------------------------------
(* Properties.                                                             *)

\* The validators that the beacon chain withdraws from, amounts taken as numbers.
ExactlyWithdrawable(indexed, withdrawals) ==
  {i \in DOMAIN indexed :
    LET v       == indexed[i]
        balance == v.balance - Added(+, withdrawals, i)
    IN  /\ v.prefix # "bls"
        /\ \/ v.withdrawable /\ balance > 0
           \/ v.effective = MaxEffective(v) /\ balance > MaxEffective(v)}

\* The validators whose amounts strings may get wrong: two withdrawals are written
\* one after the other, and for a validator that can only be swept for its excess,
\* a number of more or fewer digits than the maximum is compared with it.
Doubtful(indexed, withdrawals) ==
  {i \in DOMAIN indexed :
    LET v       == indexed[i]
        balance == v.balance - Withdrawn(withdrawals, i)
    IN  \/ Cardinality(PlacesOf(withdrawals, i)) > 1
        \/ /\ v.prefix # "bls" /\ ~v.withdrawable /\ v.effective = MaxEffective(v)
           /\ balance > 0 /\ Digits(balance) # Digits(MaxEffective(v))}

\* Every other validator is counted exactly when the beacon chain withdraws from
\* it, whatever the rest of the list: bls and swept ones, those below and at their
\* maximum, exiting ones, ones with a withdrawal.  So the delay is that of the
\* rules, for a count off by at most the doubtful validators.
DelayIsExact ==
  validators # <<>> /\ figure # Unknown =>
    LET withdrawals == Withdrawals(validators, pending)
        exact       == ExactlyWithdrawable(validators, withdrawals)
        doubtful    == Doubtful(validators, withdrawals)
    IN  /\ Withdrawable(validators, withdrawals) \ doubtful = exact \ doubtful
        /\ \E count \in Cardinality(exact \ doubtful)..Cardinality(exact \cup doubtful) :
             figure = Half(InCycle(count, Cardinality(DOMAIN withdrawals)))

\* The closed form is the end of the slot in which a sweep over active validators
\* reaches the validator, from any cursor, with slots blocked before and after
\* the validator becomes withdrawable.  With inactive validators too, the validator
\* is swept in the first round after it is withdrawable and the sweep is free, never
\* before and never a round late.
EstimateIsSweep ==
  leaving # Nobody /\ figure # Unknown =>
    IF leaving.active = leaving.total THEN figure = SweptSlot(leaving) + 1
    ELSE LET start == Max({SlotsUntilWithdrawable(leaving), leaving.blocked})
         IN  figure \in start + 1..start + CeilDiv(leaving.active + 1, PerSlot)

\* The days are those of the balance that the network lets out per epoch, although
\* the stored limit is cut to whole validators: never less, unless the answer is the
\* default for less than a day, and later by no more than the validator cut off.
DaysFollowChurn ==
  days # NoDays /\ figure # Unknown =>
    LET exact == days.queue \div ChurnBalance(days.active)
        least == Epochs(days, exact) \div EpochsPerDay
        most  == Epochs(days, exact + 1 + (exact + 1) \div MinChurn) \div EpochsPerDay
    IN  \/ least <= 0 /\ figure = Default
        \/ least <= figure /\ figure <= most
=============================================================================
