------------------------------ MODULE RequestDays ------------------------------
(***************************************************************************)
(* The arithmetic of the first version of the estimate (getRequestTime of  *)
(* RequestTimeService with calculateRequestTimeSimple) and of the churn    *)
(* limit it divides by: the balance that may exit per epoch, computed by   *)
(* the full validators update and stored as a number of validators.        *)
(***************************************************************************)
EXTENDS Integers

CONSTANTS
  MinBalance,    \* MIN_ACTIVATION_BALANCE, in the unit of the active balance
  MinChurn,      \* MIN_PER_EPOCH_CHURN_LIMIT, validators
  MaxChurn,      \* MAX_PER_EPOCH_CHURN_LIMIT, balance
  Quotient,      \* CHURN_LIMIT_QUOTIENT
  Lookahead,     \* MAX_SEED_LOOKAHEAD
  EpochsPerDay,
  Default        \* days answered when there are none

ASSUME RequestDaysConstants ==
  /\ {MinBalance, MinChurn, MaxChurn, Quotient, EpochsPerDay, Default} \subseteq Nat \ {0}
  /\ MinChurn * MinBalance <= MaxChurn
  /\ Lookahead \in Nat

AtLeast(a, b) == IF a > b THEN a ELSE b
AtMost(a, b)  == IF a > b THEN b ELSE a

\* getChurnLimitGwei.
ChurnBalance(total) == AtMost(AtLeast(total \div Quotient, MinChurn * MinBalance), MaxChurn)

\* Slip: rounded up to whole validators.
ChurnLimitUp(total) == (ChurnBalance(total) + MinBalance - 1) \div MinBalance

\* getChurnLimit: whole validators of the minimum balance.
ChurnLimit(total) == ChurnBalance(total) \div MinBalance

\* The last exit epoch that a full update at epoch `at` stores, and getMaxExitEpoch
\* of it later on.
StoredExitEpoch(exit, at)   == AtLeast(exit, at + Lookahead + 1)
MaxExitEpoch(stored, epoch) == AtLeast(stored, epoch + Lookahead + 1)

\* q: the stored figures, the queue with the asked amount, the epoch of the update
\* and of now.  From now to the exit of the last validator that `inQueue` more epochs
\* of exits need, and its sweep.
Epochs(q, inQueue) ==
  MaxExitEpoch(StoredExitEpoch(q.exit, q.at), q.now) + inQueue + q.sweep - q.now

\* calculateRequestTimeSimple, and the default of getRequestTime.
Days(q) ==
  LET days == Epochs(q, q.queue \div (MinBalance * ChurnLimit(q.active))) \div EpochsPerDay
  IN  IF days <= 0 THEN Default ELSE days
=============================================================================
