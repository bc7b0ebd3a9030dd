-------------------------- MODULE WaitingTime_proofs --------------------------
(***************************************************************************)
(* What holds of the clock arithmetic for every genesis, epoch and frame   *)
(* length, of the estimate for every gap, margin, set of snapshots and     *)
(* history of questions, and of the rewards of a frame it is computed from *)
(* for every chain and any number of overlapping updates.                  *)
(***************************************************************************)
EXTENDS WaitingTime, Rewards, TLAPS, WellFoundedInduction, FiniteSetTheorems,
        SequenceTheorems

(***************************************************************************)
(* The clock: GenesisTime.                                                 *)
(***************************************************************************)
\* Integer division brackets the dividend.
LEMMA DivBounds ==
  ASSUME NEW a \in Int, NEW b \in Nat \ {0}
  PROVE  /\ a \div b \in Int
         /\ b * (a \div b) <= a
         /\ a < b * (a \div b) + b
  BY Z3

\* The bracket determines the quotient.
LEMMA DivUnique ==
  ASSUME NEW a \in Int, NEW b \in Nat \ {0}, NEW q \in Int,
         b * q <= a, a < b * q + b
  PROVE  a \div b = q
  BY Z3

\* Multiplying both sides by a natural number keeps an inequality.
LEMMA ScaleLeq ==
  ASSUME NEW a \in Int, NEW b \in Int, NEW c \in Nat, a <= b
  PROVE  c * a <= c * b
  BY Z3

\* A number is its quotient and its rest.
LEMMA DivRest ==
  ASSUME NEW a \in Int, NEW b \in Nat \ {0}
  PROVE  a % b \in Int /\ a = b * (a \div b) + (a % b)
  BY Z3

\* A whole second is a multiple of the second, and the other way round.
LEMMA WholeIsMultiple ==
  ASSUME NEW x \in Int, IsWhole(x)
  PROVE  \E k \in Int : x = Second * k
<1>1. Second \in Nat \ {0} /\ x % Second = 0
  BY ClockConstants DEF IsWhole
<1>2. x \div Second \in Int
  BY <1>1, DivBounds
<1>3. x = Second * (x \div Second) + (x % Second)
  BY <1>1, DivRest
<1>4. Second * (x \div Second) \in Int
  BY <1>1, <1>2
<1>5. x = Second * (x \div Second)
  BY <1>1, <1>3, <1>4
<1> QED
  BY <1>2, <1>5

LEMMA MultipleIsWhole ==
  ASSUME NEW k \in Int
  PROVE  Second * k \in Int /\ IsWhole(Second * k)
<1> DEFINE x == Second * k
<1>1. Second \in Nat \ {0} /\ x \in Int
  BY ClockConstants
<1>2. Second * k <= x /\ x < Second * k + Second
  BY <1>1
<1>3. x \div Second = k
  <2> HIDE DEF x
  <2> QED
    BY <1>1, <1>2, DivUnique
<1>4. x % Second \in Int /\ x = Second * (x \div Second) + (x % Second)
  <2> HIDE DEF x
  <2> QED
    BY <1>1, DivRest
<1>5. x = x + (x % Second)
  BY <1>3, <1>4
<1>6. x % Second = 0
  <2> HIDE DEF x
  <2> QED
    BY <1>1, <1>4, <1>5
<1> QED
  BY <1>1, <1>6 DEF IsWhole

\* The differences of whole seconds are whole.
LEMMA WholeDifference ==
  ASSUME NEW x \in Int, NEW y \in Int, IsWhole(x), IsWhole(y)
  PROVE  IsWhole(x - y)
<1>1. PICK a \in Int : x = Second * a
  BY WholeIsMultiple
<1>2. PICK b \in Int : y = Second * b
  BY WholeIsMultiple
<1>3. x - y = Second * (a - b) /\ a - b \in Int
  BY <1>1, <1>2, ClockConstants, Z3
<1> QED
  BY <1>3, MultipleIsWhole

\* A report is due at a whole second.
LEMMA ReportsAreWhole ==
  ASSUME NEW f \in Int
  PROVE  IsWhole(ReportTime(f))
<1> DEFINE m == InitialEpoch + f * EpochsPerFrame
<1>1. PICK g \in Int : Genesis = Second * g
  BY ClockConstants, WholeIsMultiple
<1>2. PICK e \in Int : EpochLength = Second * e
  BY ClockConstants, WholeIsMultiple
<1>3. m \in Int /\ Second \in Int
  BY ClockConstants
<1>4. ReportTime(f) = Genesis + m * EpochLength
  BY DEF ReportTime
<1> HIDE DEF m
<1>5. ReportTime(f) = Second * (g + m * e)
  BY <1>1, <1>2, <1>3, <1>4, Z3
<1>6. g + m * e \in Int
  BY <1>1, <1>2, <1>3
<1> QED
  BY <1>5, <1>6, MultipleIsWhole

\* Rounding moves a time by half a second at most, upwards from the middle.
LEMMA RoundedIsNear ==
  ASSUME NEW x \in Int
  PROVE  /\ Rounded(x) \in Int
         /\ 2 * x - Second < 2 * Rounded(x) /\ 2 * Rounded(x) <= 2 * x + Second
<1> DEFINE s == Second
           q == (2 * x + s) \div (2 * s)
<1>1. s \in Nat \ {0} /\ 2 * s \in Nat \ {0} /\ 2 * x + s \in Int
  BY ClockConstants
<1>2. q \in Int /\ (2 * s) * q <= 2 * x + s /\ 2 * x + s < (2 * s) * q + 2 * s
  <2> HIDE DEF s
  <2> QED
    BY <1>1, DivBounds
<1>3. Rounded(x) = s * q
  BY DEF Rounded
<1> HIDE DEF q, s
<1>4. (2 * s) * q = 2 * (s * q) /\ s * q \in Int
  BY <1>1, <1>2, Z3
<1> QED
  BY <1>1, <1>2, <1>3, <1>4 DEF s

\* Of two times the later one is not rounded to an earlier second.
LEMMA RoundedInOrder ==
  ASSUME NEW x \in Int, NEW y \in Int, x <= y
  PROVE  Rounded(x) <= Rounded(y)
<1> DEFINE s == Second
           d == 2 * s
           p == (2 * x + s) \div (2 * s)
           q == (2 * y + s) \div (2 * s)
<1>1. s \in Nat \ {0} /\ d \in Nat \ {0} /\ 2 * x + s \in Int /\ 2 * y + s \in Int
  BY ClockConstants
<1>2. /\ p \in Int /\ d * p <= 2 * x + s
      /\ q \in Int /\ 2 * y + s < d * q + d
  <2> HIDE DEF s
  <2> QED
    BY <1>1, DivBounds
<1>3. Rounded(x) = s * p /\ Rounded(y) = s * q
  BY DEF Rounded
<1> HIDE DEF d, p, q, s
<1>4. d * p \in Int /\ d * q \in Int /\ d * (q + 1) = d * q + d
  BY <1>1, <1>2, Z3
<1>5. d * p < d * (q + 1)
  BY <1>1, <1>2, <1>4
<1>6. p < q + 1
  BY <1>1, <1>2, <1>5, Z3
<1>7. p <= q
  BY <1>2, <1>6
<1>8. s * p <= s * q
  BY <1>1, <1>2, <1>7, ScaleLeq
<1> QED
  BY <1>3, <1>8

\* Whole seconds are left alone.
LEMMA RoundedWhole ==
  ASSUME NEW x \in Int, IsWhole(x)
  PROVE  Rounded(x) = x
<1> DEFINE s == Second
           d == 2 * s
           a == 2 * x + s
<1>1. s \in Nat \ {0} /\ d \in Nat \ {0} /\ a \in Int
  BY ClockConstants
<1>2. PICK k \in Int : x = s * k
  BY WholeIsMultiple
<1>3. Rounded(x) = s * (a \div d)
  BY DEF Rounded
<1>4. a = 2 * x + s /\ d = 2 * s
  OBVIOUS
<1> HIDE DEF s, d, a
<1>5. d * k = 2 * x
  BY <1>1, <1>2, <1>4, Z3
<1>6. d * k <= a /\ a < d * k + d
  BY <1>1, <1>4, <1>5
<1>7. a \div d = k
  BY <1>1, <1>6, DivUnique
<1> QED
  BY <1>2, <1>3, <1>7

\* The epoch of a moment is that of the moment cut to seconds, which is what
\* getCurrentEpoch and getSlotByTimestamp look at.
THEOREM EpochOfSecond ==
  ASSUME NEW t \in Int
  PROVE  EpochAt(Second * (t \div Second)) = EpochAt(t)
<1> DEFINE s == Second
           c == EpochLength
           e == EpochAt(t)
           q == t \div s
<1>1. s \in Nat \ {0} /\ c \in Nat \ {0} /\ Genesis \in Int
  BY ClockConstants
<1>2. q \in Int /\ s * q <= t /\ t < s * q + s
  BY <1>1, DivBounds
<1>3. e \in Int /\ c * e <= t - Genesis /\ t - Genesis < c * e + c
  BY <1>1, DivBounds DEF EpochAt
<1>4. PICK g \in Int : Genesis = s * g
  BY ClockConstants, WholeIsMultiple
<1>5. PICK l \in Int : c = s * l
  BY ClockConstants, WholeIsMultiple
<1> HIDE DEF q, e, s, c
<1>6. s * (g + l * e) = Genesis + c * e /\ g + l * e \in Int
  BY <1>1, <1>3, <1>4, <1>5, Z3
<1>7. c * e \in Int /\ s * q \in Int /\ s * (q + 1) = s * q + s
  BY <1>1, <1>2, <1>3, Z3
<1>8. g + l * e <= q
  <2>1. s * (g + l * e) < s * (q + 1)
    BY <1>1, <1>2, <1>3, <1>6, <1>7
  <2>2. g + l * e < q + 1
    BY <1>1, <1>2, <1>6, <2>1, Z3
  <2> QED
    BY <1>2, <1>6, <2>2
<1>9. s * (g + l * e) <= s * q
  BY <1>1, <1>2, <1>6, <1>8, ScaleLeq
<1>10. c * e <= s * q - Genesis /\ s * q - Genesis < c * e + c
  BY <1>1, <1>2, <1>3, <1>6, <1>7, <1>9
<1>11. (s * q - Genesis) \div c = e
  BY <1>1, <1>3, <1>7, <1>10, DivUnique
<1> QED
  BY <1>11 DEF EpochAt, q, e, s, c

\* The two ways the code computes the frame of a moment - through the current
\* epoch (getFrameOfEpoch(getCurrentEpoch())) and from the timestamp
\* (getFrameByTimestamp) - always agree, although each rounds on its own;
\* calculateWithdrawalFrame compares one with the other.
THEOREM FramesAgree ==
  ASSUME NEW t \in Int
  PROVE  FrameOfEpoch(EpochAt(t)) = FrameAt(t)
<1> DEFINE e == EpochAt(t)
           f == FrameOfEpoch(e)
           n == EpochsPerFrame
           c == EpochLength
           x == t - Genesis - InitialEpoch * c
<1>1. /\ n \in Nat \ {0} /\ c \in Nat \ {0}
      /\ InitialEpoch \in Nat /\ Genesis \in Nat
  BY ClockConstants
<1>2. e \in Int /\ c * e <= t - Genesis /\ t - Genesis < c * e + c
  BY <1>1, DivBounds DEF EpochAt
<1> HIDE DEF e
<1>a. e - InitialEpoch \in Int
  BY <1>1, <1>2
<1>b. f \in Int /\ n * f <= e - InitialEpoch /\ e - InitialEpoch < n * f + n
  BY <1>1, <1>a, DivBounds DEF FrameOfEpoch
<1> HIDE DEF f
<1>3. f \in Int /\ n * f <= e - InitialEpoch /\ e - InitialEpoch + 1 <= n * f + n
  BY <1>1, <1>a, <1>b
<1>4. c * (n * f) <= c * (e - InitialEpoch)
  BY <1>1, <1>2, <1>3, ScaleLeq
<1>5. c * (e - InitialEpoch + 1) <= c * (n * f + n)
  BY <1>1, <1>2, <1>3, ScaleLeq
<1>6. FrameLength \in Nat \ {0} /\ x \in Int
  BY <1>1 DEF FrameLength
<1>7. FrameLength * f <= x /\ x < FrameLength * f + FrameLength
  BY <1>1, <1>2, <1>3, <1>4, <1>5, Z3 DEF FrameLength
<1>8. x \div FrameLength = f
  BY <1>3, <1>6, <1>7, DivUnique
<1> QED
  BY <1>8 DEF FrameAt, f, e

\* The report of the frame after the current one is still ahead, by at most one
\* frame length; the report of the current frame is due.
THEOREM NextReportIsAhead ==
  ASSUME NEW t \in Int
  PROVE  /\ FrameAt(t) \in Int
         /\ ReportTime(FrameAt(t)) <= t
         /\ t < ReportTime(FrameAt(t) + 1)
         /\ ReportTime(FrameAt(t) + 1) <= t + FrameLength
<1> DEFINE f == FrameAt(t)
           x == t - Genesis - InitialEpoch * EpochLength
<1>1. /\ EpochsPerFrame \in Nat \ {0} /\ EpochLength \in Nat \ {0}
      /\ InitialEpoch \in Nat /\ Genesis \in Nat
  BY ClockConstants
<1>2. FrameLength \in Nat \ {0} /\ x \in Int
  BY <1>1 DEF FrameLength
<1>3. f \in Int /\ FrameLength * f <= x /\ x < FrameLength * f + FrameLength
  BY <1>2, DivBounds DEF FrameAt
<1> HIDE DEF f
<1>4. /\ ReportTime(f) = Genesis + InitialEpoch * EpochLength + FrameLength * f
      /\ ReportTime(f + 1) = ReportTime(f) + FrameLength
  BY <1>1, <1>3, Z3 DEF ReportTime, FrameLength
<1> HIDE DEF FrameLength
<1>5. FrameLength * f \in Int /\ InitialEpoch * EpochLength \in Int
  BY <1>1, <1>2, <1>3
<1> QED
  BY <1>1, <1>2, <1>3, <1>4, <1>5 DEF f

(***************************************************************************)
(* Extremes of sets.                                                       *)
(***************************************************************************)
\* Natural numbers are well-founded, so a non-empty set of them has a least one.
LEMMA LeastOfNats ==
  ASSUME NEW S \in SUBSET Nat, S # {}
  PROVE  \E x \in S : \A y \in S : x <= y
<1> DEFINE R == {ss \in Nat \X Nat : ss[1] < ss[2]}
<1>1. IsWellFoundedOn(R, Nat)
  BY NatLessThanWellFounded DEF OpToRel
<1> HIDE DEF R
<1>2. PICK x \in S : \A y \in S : <<y, x>> \notin R
  BY <1>1, WFMin, Zenon
<1>3. \A y \in S : ~(y < x)
  BY <1>2 DEF R
<1>4. \A y \in S : x <= y
  BY <1>3
<1> QED
  BY <1>4

LEMMA MinOfNats ==
  ASSUME NEW S \in SUBSET Nat, S # {}
  PROVE  Min(S) \in S
  BY LeastOfNats DEF Min

LEMMA ExtremesOfPair ==
  ASSUME NEW a \in Int, NEW b \in Int
  PROVE  /\ Max({a, b}) \in Int /\ Max({a, b}) >= a /\ Max({a, b}) >= b
         /\ Min({a, b}) \in {a, b}
<1>1. \E x \in {a, b} : \A y \in {a, b} : x >= y
  OBVIOUS
<1>2. \E x \in {a, b} : \A y \in {a, b} : x <= y
  OBVIOUS
<1> QED
  BY <1>1, <1>2 DEF Max, Min

LEMMA DivNat ==
  ASSUME NEW a \in Nat, NEW b \in Nat \ {0}
  PROVE  a \div b \in Nat
  BY Z3

(***************************************************************************)
(* The frames of the moment.                                               *)
(***************************************************************************)
LEMMA ClockTypes ==
  /\ EpochsPerFrame \in Nat \ {0} /\ EpochLength \in Nat \ {0}
  /\ InitialEpoch \in Nat /\ Genesis \in Nat
  /\ FrameLength \in Nat \ {0}
  /\ InitialEpoch * EpochLength \in Nat
<1>1. /\ EpochsPerFrame \in Nat \ {0} /\ EpochLength \in Nat \ {0}
      /\ InitialEpoch \in Nat /\ Genesis \in Nat
  BY ClockConstants
<1>2. FrameLength \in Nat \ {0}
  BY <1>1, Z3 DEF FrameLength
<1>3. InitialEpoch * EpochLength \in Nat
  BY <1>1, Z3
<1> QED
  BY <1>1, <1>2, <1>3

\* Report times are evenly spaced.
LEMMA ReportTimes ==
  ASSUME NEW f \in Int
  PROVE  /\ ReportTime(f) \in Int
         /\ ReportTime(f) = Genesis + InitialEpoch * EpochLength + FrameLength * f
         /\ ReportTime(f + 1) = ReportTime(f) + FrameLength
         /\ ReportTime(f - 1) = ReportTime(f) - FrameLength
<1>1. ReportTime(f) = Genesis + InitialEpoch * EpochLength + FrameLength * f
  BY ClockTypes, Z3 DEF ReportTime, FrameLength
<1>2. FrameLength * (f + 1) = FrameLength * f + FrameLength
  BY ClockTypes, Z3
<1>3. FrameLength * (f - 1) = FrameLength * f - FrameLength
  BY ClockTypes, Z3
<1>4. FrameLength * f \in Int
  BY ClockTypes
<1>5. ReportTime(f + 1) = Genesis + InitialEpoch * EpochLength + FrameLength * (f + 1)
  BY ClockTypes, Z3 DEF ReportTime, FrameLength
<1>6. ReportTime(f - 1) = Genesis + InitialEpoch * EpochLength + FrameLength * (f - 1)
  BY ClockTypes, Z3 DEF ReportTime, FrameLength
<1> HIDE DEF FrameLength
<1> QED
  BY <1>1, <1>2, <1>3, <1>4, <1>5, <1>6, ClockTypes

\* The frame is the one whose report time comes before and whose end comes after.
LEMMA FrameUnique ==
  ASSUME NEW t \in Int, NEW f \in Int,
         ReportTime(f) <= t, t < ReportTime(f) + FrameLength
  PROVE  FrameAt(t) = f
<1> DEFINE x == t - Genesis - InitialEpoch * EpochLength
<1>1. x \in Int /\ FrameLength * f \in Int
  BY ClockTypes
<1>2. FrameLength * f <= x /\ x < FrameLength * f + FrameLength
  BY <1>1, ReportTimes, ClockTypes
<1> QED
  BY <1>1, <1>2, ClockTypes, DivUnique DEF FrameAt

\* The report frame of a moment: its report is done, with the gap, and the next
\* one is not.
LEMMA ReportFrameBracket ==
  ASSUME now \in Nat, now >= StartTime
  PROVE  /\ CurrentFrame \in Nat \ {0} /\ ReportFrame \in Nat
         /\ ReportTime(CurrentFrame) <= now /\ now < ReportTime(CurrentFrame + 1)
         /\ ReportTime(ReportFrame) <= now - Gap
         /\ now - Gap < ReportTime(ReportFrame + 1)
<1> DEFINE c == CurrentFrame
<1>1. /\ Gap \in Nat /\ Margin \in Nat /\ StartTime \in Nat
      /\ StartTime >= ReportTime(1) /\ Gap + Margin <= FrameLength
  BY EstimateConstants
<1>2. c = FrameAt(now)
  BY FramesAgree DEF CurrentFrame, CurrentEpoch
<1>3. /\ c \in Int /\ ReportTime(c) <= now /\ now < ReportTime(c + 1)
  BY <1>2, NextReportIsAhead
<1> HIDE DEF c
<1>4. c >= 1
  <2>1. ReportTime(1) < ReportTime(c + 1)
    BY <1>1, <1>3, ReportTimes
  <2>2. FrameLength * 1 < FrameLength * (c + 1)
    BY <2>1, <1>3, ReportTimes, ClockTypes
  <2> QED
    BY <2>2, <1>3, ClockTypes, Z3
<1>5. CASE FrameAt(now - Gap) = c
  <2>1. ReportFrame = c
    BY <1>5 DEF ReportFrame, c
  <2>2. now - Gap \in Int
    BY <1>1
  <2> QED
    BY <1>3, <1>4, <1>5, <2>1, <2>2, NextReportIsAhead DEF c
<1>6. CASE FrameAt(now - Gap) # c
  <2>1. ReportFrame = c - 1
    BY <1>6 DEF ReportFrame, c
  <2>2. now - Gap < ReportTime(c)
    <3>1. ReportTime(c) \in Int /\ ReportTime(c + 1) = ReportTime(c) + FrameLength
      BY <1>3, ReportTimes
    <3>2. now - Gap \in Int /\ now - Gap <= now
      BY <1>1
    <3>3. ReportTime(c) <= now - Gap => FrameAt(now - Gap) = c
      BY <1>3, <3>1, <3>2, ClockTypes, FrameUnique
    <3> QED
      BY <1>6, <3>1, <3>2, <3>3
  <2>3. ReportTime(c - 1) <= now - Gap
    BY <1>1, <1>3, ReportTimes, ClockTypes
  <2> QED
    BY <1>3, <1>4, <2>1, <2>2, <2>3 DEF c
<1> QED
  BY <1>5, <1>6

(***************************************************************************)
(* Epochs and the frames computed from them.                               *)
(***************************************************************************)
LEMMA EpochsSinceStart ==
  ASSUME NEW t \in Nat, t >= StartTime
  PROVE  EpochAt(t) \in Nat /\ EpochAt(t) >= InitialEpoch
<1> DEFINE q == EpochAt(t)
           c == EpochLength
<1>1. q \in Int /\ c * q <= t - Genesis /\ t - Genesis < c * q + c
  BY ClockTypes, DivBounds DEF EpochAt
<1> HIDE DEF q
<1>2. t - Genesis >= (InitialEpoch + EpochsPerFrame) * c
  <2>1. ReportTime(1) = Genesis + (InitialEpoch + EpochsPerFrame) * c
    BY ClockTypes DEF ReportTime
  <2>2. (InitialEpoch + EpochsPerFrame) * c \in Int
    BY ClockTypes
  <2> QED
    BY <2>1, <2>2, ClockTypes, EstimateConstants
<1>3. c * (q + 1) > c * (InitialEpoch + EpochsPerFrame)
  BY <1>1, <1>2, ClockTypes, Z3
<1>4. q + 1 > InitialEpoch + EpochsPerFrame
  BY <1>1, <1>3, ClockTypes, Z3
<1>5. q >= InitialEpoch
  BY <1>1, <1>4, ClockTypes
<1> QED
  BY <1>1, <1>5, ClockTypes DEF q

LEMMA FramesSinceStart ==
  ASSUME NEW e \in Int, e >= InitialEpoch
  PROVE  FrameOfEpoch(e) \in Nat
<1>1. e - InitialEpoch \in Nat
  BY ClockTypes
<1> QED
  BY <1>1, ClockTypes, DivNat DEF FrameOfEpoch

LEMMA ExitEpochs ==
  ASSUME NEW s \in ProtocolStates, NEW requestedAt \in Nat, requestedAt >= StartTime,
         now \in Nat, now >= StartTime
  PROVE  /\ CurrentEpoch \in Nat /\ CurrentEpoch >= InitialEpoch
         /\ MaxExitEpoch(s) \in Int /\ MaxExitEpoch(s) >= InitialEpoch
         /\ MaxExitEpochInPast(s, requestedAt) \in Int
         /\ MaxExitEpochInPast(s, requestedAt) >= InitialEpoch
<1>1. s.maxExit \in Nat /\ SeedLookahead \in Nat /\ InitialEpoch \in Nat
  BY SnapshotTypes, EstimateConstants, ClockTypes
<1>2. CurrentEpoch \in Nat /\ CurrentEpoch >= InitialEpoch
  BY EpochsSinceStart DEF CurrentEpoch
<1>3. CurrentEpoch + SeedLookahead + 1 \in Int
  BY <1>1, <1>2
<1>4. MaxExitEpoch(s) \in Int /\ MaxExitEpoch(s) >= CurrentEpoch + SeedLookahead + 1
  <2> DEFINE b == CurrentEpoch + SeedLookahead + 1
  <2>1. b \in Int /\ s.maxExit \in Int
    BY <1>1, <1>3
  <2> HIDE DEF b
  <2>2. Max({s.maxExit, b}) \in Int /\ Max({s.maxExit, b}) >= b
    BY <2>1, ExtremesOfPair
  <2> QED
    BY <2>2 DEF MaxExitEpoch, b
<1>5. EpochAt(requestedAt) \in Nat /\ EpochAt(requestedAt) >= InitialEpoch
  BY EpochsSinceStart
<1>6. /\ Max({MaxExitEpoch(s) - CurrentEpoch, SeedLookahead}) \in Int
      /\ Max({MaxExitEpoch(s) - CurrentEpoch, SeedLookahead}) >= SeedLookahead
  <2>1. MaxExitEpoch(s) - CurrentEpoch \in Int
    BY <1>2, <1>4
  <2> QED
    BY <1>1, <2>1, ExtremesOfPair
<1>7. /\ MaxExitEpochInPast(s, requestedAt) \in Int
      /\ MaxExitEpochInPast(s, requestedAt) >= InitialEpoch
  BY <1>1, <1>5, <1>6 DEF MaxExitEpochInPast
<1> QED
  BY <1>1, <1>2, <1>4, <1>7

(***************************************************************************)
(* The cases.                                                              *)
(***************************************************************************)
IsSnapshot(s) ==
  /\ s.unfinalized \in Nat /\ s.buffer \in Nat /\ s.vaults \in Nat
  /\ s.rewards \in Int /\ s.target \in Nat
  /\ IsFiniteSet(DOMAIN s.balances) /\ DOMAIN s.balances \subseteq Nat \ {0}
  /\ \A f \in DOMAIN s.balances : s.balances[f] \in Nat
  /\ s.exitPerEpoch \in Nat /\ s.cap \in Nat
  /\ s.sweep \in Nat /\ s.maxExit \in Nat /\ s.bunker \in BOOLEAN

LEMMA SnapshotsAreTyped == \A s \in ProtocolStates : IsSnapshot(s)
  BY SnapshotTypes DEF IsSnapshot

\* Netting leaves a natural number of rewards, whatever the sign of the rewards
\* the last report brought and the size of the reserve's claim.
LEMMA NettingIsNatural ==
  ASSUME NEW s, IsSnapshot(s)
  PROVE  Available(s) \in Nat /\ RewardsPerEpoch(s) \in Nat
<1>1. Available(s) \in Nat
  BY DEF Available, IsSnapshot
<1> QED
  BY <1>1, ClockTypes, DivNat DEF RewardsPerEpoch

LEMMA CaseFrames ==
  ASSUME NEW s, IsSnapshot(s), NEW need \in Nat,
         NEW latestEpoch \in Int, latestEpoch >= InitialEpoch,
         now \in Nat, now >= StartTime, ~DividesByZero(s)
  PROVE  /\ FrameByValidatorBalances(s, need) \in Nat
         /\ FrameByRewardsOnly(s, need) \in Nat
         /\ FrameByExitValidators(s, need, latestEpoch) \in Nat
<1>1. Available(s) \in Nat /\ RewardsPerEpoch(s) \in Nat
  BY NettingIsNatural
<1>2. FrameByValidatorBalances(s, need) \in Nat
  <2> DEFINE covered == {f \in DOMAIN s.balances : Walk(s, need)[f] <= 0}
  <2>1. covered \in SUBSET Nat
    BY DEF IsSnapshot
  <2> HIDE DEF covered
  <2>2. covered # {} => Min(covered) \in Nat
    BY <2>1, MinOfNats
  <2> QED
    BY <2>2 DEF FrameByValidatorBalances, covered, NoFrame
<1>3. FrameByRewardsOnly(s, need) \in Nat
  <2>1. CASE Available(s) = 0
    BY <2>1 DEF FrameByRewardsOnly, NoFrame
  <2>2. CASE Available(s) # 0
    <3>1. RewardsPerEpoch(s) \in Nat \ {0}
      BY <1>1, <2>2 DEF DividesByZero
    <3>2. need \div RewardsPerEpoch(s) \in Nat
      BY <3>1, DivNat
    <3>3. CurrentEpoch \in Nat /\ CurrentEpoch >= InitialEpoch
      BY EpochsSinceStart DEF CurrentEpoch
    <3>4. FrameOfEpoch(CurrentEpoch + need \div RewardsPerEpoch(s)) \in Nat
      BY <3>2, <3>3, ClockTypes, FramesSinceStart
    <3> QED
      BY <2>2, <3>4 DEF FrameByRewardsOnly
  <2> QED
    BY <2>1, <2>2
<1>4. FrameByExitValidators(s, need, latestEpoch) \in Nat
  <2>1. /\ s.exitPerEpoch \in Nat /\ s.cap \in Nat /\ s.sweep \in Nat
        /\ EpochsPerFrameVEBO \in Nat \ {0}
    BY EstimateConstants DEF IsSnapshot
  <2>2. /\ s.exitPerEpoch * EpochsPerFrameVEBO \in Nat
        /\ RewardsPerEpoch(s) * EpochsPerFrameVEBO \in Nat
    BY <1>1, <2>1, Z3
  <2>3. ExitThroughput(s) \in Nat
    <3> DEFINE a == s.exitPerEpoch * EpochsPerFrameVEBO
    <3>1. a \in Nat
      BY <2>2
    <3> HIDE DEF a
    <3>x. a \in Int /\ s.cap \in Int
      BY <2>1, <3>1
    <3>2. Min({a, s.cap}) \in {a, s.cap}
      BY <3>x, ExtremesOfPair
    <3>3. Min({a, s.cap}) \in Nat
      BY <2>1, <3>1, <3>2
    <3> DEFINE r == RewardsPerEpoch(s) * EpochsPerFrameVEBO
    <3>4. r \in Nat
      BY <2>2
    <3>5. ExitThroughput(s) = Min({a, s.cap}) + r
      BY DEF ExitThroughput, a
    <3> HIDE DEF r
    <3> QED
      BY <3>3, <3>4, <3>5
  <2>4. CASE ExitThroughput(s) = 0
    BY <2>4 DEF FrameByExitValidators, NoFrame
  <2>5. CASE ExitThroughput(s) # 0
    <3>1. need \div ExitThroughput(s) \in Nat
      BY <2>3, <2>5, DivNat
    <3>2. (need \div ExitThroughput(s) + 1) * EpochsPerFrameVEBO \in Nat
      BY <2>1, <3>1, Z3
    <3> DEFINE e == latestEpoch
                      + (need \div ExitThroughput(s) + 1) * EpochsPerFrameVEBO + s.sweep
    <3>3. e \in Int /\ e >= InitialEpoch
      BY <2>1, <3>2, ClockTypes
    <3> HIDE DEF e
    <3>4. FrameOfEpoch(e) \in Nat
      BY <3>3, FramesSinceStart
    <3> QED
      BY <2>5, <3>4 DEF FrameByExitValidators, e
  <2> QED
    BY <2>4, <2>5
<1> QED
  BY <1>2, <1>3, <1>4

ProjectedTypes == {"validatorBalances", "rewardsOnly", "exitValidators"}
BufferTypes    == {"buffer", "vaultsBalance", "requestTimestampMargin"}

\* The comparison takes a smallest of the cases that apply.
LEMMA SoonestIsSmallest ==
  ASSUME NEW cases \in [1..3 -> [frame : Nat, type : ProjectedTypes]]
  PROVE  \/ /\ Soonest(cases) = Failed
            /\ \A i \in 1..3 : cases[i].frame = NoFrame
         \/ \E k \in 1..3 : /\ Soonest(cases) = cases[k] /\ cases[k].frame # NoFrame
                            /\ \A j \in 1..3 : cases[j].frame # NoFrame =>
                                                 cases[k].frame <= cases[j].frame
<1> DEFINE offered == {i \in 1..3 : cases[i].frame # NoFrame}
           best == {i \in offered : \A j \in offered : cases[i].frame <= cases[j].frame}
           frames == {cases[i].frame : i \in offered}
<1>1. DOMAIN cases = 1..3
  OBVIOUS
<1>2. CASE offered = {}
  BY <1>1, <1>2 DEF Soonest
<1>3. CASE offered # {}
  <2>1. frames \in SUBSET Nat /\ frames # {}
    BY <1>3
  <2>2. PICK m \in frames : \A n \in frames : m <= n
    BY <2>1, LeastOfNats
  <2>3. PICK i \in offered : cases[i].frame = m
    BY <2>2
  <2>4. i \in best
    BY <2>2, <2>3
  <2>5. \E k \in best : \A j \in best : j <= k
    <3>1. best \subseteq {1, 2, 3}
      OBVIOUS
    <3> HIDE DEF best
    <3> QED
      BY <2>4, <3>1
  <2> DEFINE k == CHOOSE k \in best : \A j \in best : j <= k
  <2>6. k \in best
    BY <2>5
  <2>7. Soonest(cases) = cases[k]
    BY <1>1, <1>3 DEF Soonest
  <2> HIDE DEF k
  <2>8. k \in 1..3 /\ cases[k].frame # NoFrame
    BY <2>6
  <2>9. \A j \in 1..3 : cases[j].frame # NoFrame => cases[k].frame <= cases[j].frame
    BY <2>6
  <2> QED
    BY <2>7, <2>8, <2>9
<1> QED
  BY <1>2, <1>3

\* The comparison picks one of the cases that apply, or fails when none does.
LEMMA SoonestIsACase ==
  ASSUME NEW cases \in [1..3 -> [frame : Nat, type : ProjectedTypes]]
  PROVE  \/ Soonest(cases) = Failed
         \/ Soonest(cases) \in [frame : Nat \ {0}, type : ProjectedTypes]
<1>1. CASE Soonest(cases) = Failed
  BY <1>1
<1>2. ASSUME NEW k \in 1..3, Soonest(cases) = cases[k], cases[k].frame # NoFrame
      PROVE  Soonest(cases) \in [frame : Nat \ {0}, type : ProjectedTypes]
  <2>1. cases[k] \in [frame : Nat, type : ProjectedTypes]
    OBVIOUS
  <2> QED
    BY <1>2, <2>1 DEF NoFrame
<1> QED
  BY <1>1, <1>2, SoonestIsSmallest

\* What a forecast can be: a failure, one of the cases with a frame, or a case of
\* the full buffer, which the report frame and the margin alone determine.
IsForecast(f, requestedAt) ==
  \/ f = Failed
  \/ f \in [frame : Nat \ {0}, type : ProjectedTypes \cup {"bunker"}]
  \/ /\ f \in [frame : Nat \ {0}, type : BufferTypes]
     /\ f = ByBuffer("buffer", requestedAt) \/ f = ByBuffer("vaultsBalance", requestedAt)

LEMMA ForecastShape ==
  ASSUME NEW s \in ProtocolStates, NEW unfinalized \in Nat, NEW requestedAt \in Int,
         NEW latestEpoch \in Int, latestEpoch >= InitialEpoch,
         now \in Nat, now >= StartTime
  PROVE  IsForecast(Forecast(s, unfinalized, requestedAt, latestEpoch), requestedAt)
<1> DEFINE f == Forecast(s, unfinalized, requestedAt, latestEpoch)
           full == s.buffer + s.vaults
<1>1. s.buffer \in Nat /\ s.vaults \in Nat /\ s.bunker \in BOOLEAN
  BY SnapshotTypes
<1>2. CurrentFrame \in Nat \ {0} /\ ReportFrame \in Nat
  BY ReportFrameBracket
<1>3. CASE s.bunker
  <2>1. f = Bunker
    BY <1>1, <1>3 DEF Forecast
  <2>2. CurrentFrame + BunkerFrames \in Nat \ {0}
    BY <1>2, EstimateConstants
  <2> QED
    BY <2>1, <2>2 DEF Bunker, IsForecast
<1>4. CASE ~s.bunker /\ full > unfinalized
  <2>1. f = ByBuffer("buffer", requestedAt) \/ f = ByBuffer("vaultsBalance", requestedAt)
    <3>1. CASE s.buffer > unfinalized
      BY <1>1, <1>4, <3>1 DEF Forecast
    <3>2. CASE ~(s.buffer > unfinalized)
      <4>1. s.buffer <= unfinalized
        BY <1>1, <3>2
      <4> QED
        BY <1>4, <3>2, <4>1 DEF Forecast
    <3> QED
      BY <3>1, <3>2
  <2>2. ReportFrame + 1 \in Nat \ {0} /\ ReportFrame + 2 \in Nat \ {0}
    BY <1>2
  <2> QED
    BY <2>1, <2>2 DEF ByBuffer, BufferTypes, IsForecast
<1>5. CASE ~s.bunker /\ ~(full > unfinalized)
  <2>1. ~(s.buffer > unfinalized) /\ unfinalized - full \in Nat
    BY <1>1, <1>5
  <2>2. f = IF DividesByZero(s) THEN Failed
            ELSE Soonest(Cases(s, unfinalized - full, latestEpoch))
    BY <1>5, <2>1 DEF Forecast
  <2>3. CASE ~DividesByZero(s)
    <3> DEFINE cases == Cases(s, unfinalized - full, latestEpoch)
    <3>1. /\ FrameByValidatorBalances(s, unfinalized - full) \in Nat
          /\ FrameByRewardsOnly(s, unfinalized - full) \in Nat
          /\ FrameByExitValidators(s, unfinalized - full, latestEpoch) \in Nat
      BY <2>1, <2>3, SnapshotsAreTyped, CaseFrames
    <3>2. cases \in [1..3 -> [frame : Nat, type : ProjectedTypes]]
      BY <3>1 DEF Cases, ProjectedTypes
    <3> HIDE DEF cases
    <3>3. \/ Soonest(cases) = Failed
          \/ Soonest(cases) \in [frame : Nat \ {0}, type : ProjectedTypes]
      BY <3>2, SoonestIsACase
    <3>4. f = Soonest(cases)
      BY <2>2, <2>3 DEF cases
    <3> HIDE DEF f
    <3> QED
      BY <3>3, <3>4 DEF f, IsForecast
  <2> QED
    BY <2>2, <2>3 DEF IsForecast
<1> QED
  BY <1>3, <1>4, <1>5

(***************************************************************************)
(* From frames to times.                                                   *)
(***************************************************************************)
\* The time left is that until the report, to the nearest second; from a whole
\* second it is exact.
LEMMA TimeLeft ==
  ASSUME NEW frame \in Int, NEW from \in Int
  PROVE  LET left == ReportTime(frame) - from
         IN  /\ left \in Int /\ TimeToFrame(frame, from) \in Int
             /\ 2 * left - Second < 2 * TimeToFrame(frame, from)
             /\ 2 * TimeToFrame(frame, from) <= 2 * left + Second
             /\ IsWhole(from) => TimeToFrame(frame, from) = left
<1> DEFINE left == ReportTime(frame) - from
<1>1. ReportTime(frame) \in Int /\ left \in Int
  BY ReportTimes
<1>2. IsWhole(from) => IsWhole(left)
  BY <1>1, ReportsAreWhole, WholeDifference
<1>3. TimeToFrame(frame, from) = Rounded(left)
  BY DEF TimeToFrame
<1> HIDE DEF left
<1>4. IsWhole(left) => Rounded(left) = left
  BY <1>1, RoundedWhole
<1> QED
  BY <1>1, <1>2, <1>3, <1>4, RoundedIsNear DEF left

LEMMA Durations ==
  ASSUME NEW frame \in Int, NEW from \in Int
  PROVE  /\ TimeToFrame(frame, from) \in Int
         /\ FinalizationIn(frame, from) \in Nat
         /\ TimeToFrame(frame, from) >= 0 =>
              FinalizationIn(frame, from) = TimeToFrame(frame, from) + Gap
<1>1. Gap \in Nat /\ FallbackDelay \in Nat
  BY EstimateConstants
<1>2. TimeToFrame(frame, from) \in Int
  BY TimeLeft
<1> QED
  BY <1>1, <1>2 DEF FinalizationIn, WithFallback

\* The date is that of the report and the gap: within half a second, as the time
\* left is rounded, and for a request of the queue exactly.
OnReport(kind, frame, at) ==
  LET off == at - (ReportTime(frame) + Gap)
  IN  IF kind = "request" THEN off = 0 ELSE -Second < 2 * off /\ 2 * off <= Second

\* The report a buffer case chooses is the closest suitable one.
LEMMA ClosestReport ==
  ASSUME NEW type, NEW requestedAt \in Nat, requestedAt <= now,
         now \in Nat, now >= StartTime
  PROVE  LET frame == ByBuffer(type, requestedAt).frame
         IN  /\ frame \in Int
             /\ ReportTime(frame) > now - Gap
             /\ TimeToFrame(frame, requestedAt) >= Margin
             /\ ~(/\ ReportTime(frame - 1) > now - Gap
                  /\ TimeToFrame(frame - 1, requestedAt) >= Margin)
             /\ OnReport("amount", frame, requestedAt + FinalizationIn(frame, requestedAt))
             /\ IsWhole(requestedAt) =>
                  /\ OnReport("request", frame, requestedAt + FinalizationIn(frame, requestedAt))
                  /\ requestedAt + FinalizationIn(frame, requestedAt) >= now
<1> DEFINE r == ReportFrame
           frame == ByBuffer(type, requestedAt).frame
<1>1. Gap \in Nat /\ Margin \in Nat /\ Gap + Margin <= FrameLength
  BY EstimateConstants
<1>2. /\ r \in Nat /\ ReportTime(r) <= now - Gap /\ now - Gap < ReportTime(r + 1)
  BY ReportFrameBracket
<1> HIDE DEF r
<1>3. /\ ReportTime(r) \in Int /\ ReportTime(r + 1) = ReportTime(r) + FrameLength
  BY <1>2, ReportTimes
<1>4. ReportTime(r + 2) = ReportTime(r + 1) + FrameLength
  <2>1. r + 1 \in Int /\ (r + 1) + 1 = r + 2
    BY <1>2
  <2> QED
    BY <2>1, ReportTimes
<1>5. /\ frame \in Int
      /\ ReportTime(frame) > now - Gap
      /\ TimeToFrame(frame, requestedAt) >= Margin
      /\ ~(/\ ReportTime(frame - 1) > now - Gap
           /\ TimeToFrame(frame - 1, requestedAt) >= Margin)
  <2>1. CASE IsPostponed(requestedAt)
    <3>1. frame = r + 2 /\ frame - 1 = r + 1
      BY <1>2, <2>1 DEF ByBuffer, r
    <3>2. TimeToFrame(r + 1, requestedAt) < Margin
      BY <2>1 DEF IsPostponed, r
    <3> HIDE DEF frame
    <3>3. TimeToFrame(r + 2, requestedAt) >= Margin /\ ReportTime(r + 2) > now - Gap
      <4>1. /\ ReportTime(r + 2) - requestedAt \in Int /\ Margin <= ReportTime(r + 2) - requestedAt
            /\ ReportTime(r + 2) > now - Gap
        BY <1>1, <1>2, <1>3, <1>4, ClockTypes
      <4>2. Rounded(Margin) = Margin
        BY <1>1, EstimateConstants, RoundedWhole
      <4>3. Margin <= TimeToFrame(r + 2, requestedAt)
        BY <1>1, <4>1, <4>2, RoundedInOrder DEF TimeToFrame
      <4>4. TimeToFrame(r + 2, requestedAt) \in Int
        BY <1>2, TimeLeft
      <4> QED
        BY <1>1, <4>1, <4>3, <4>4
    <3>4. ~(TimeToFrame(r + 1, requestedAt) >= Margin)
      <4>1. TimeToFrame(r + 1, requestedAt) \in Int
        BY <1>2, TimeLeft
      <4> QED
        BY <1>1, <3>2, <4>1
    <3> QED
      BY <1>2, <3>1, <3>3, <3>4
  <2>2. CASE ~IsPostponed(requestedAt)
    <3>1. frame = r + 1 /\ frame - 1 = r
      BY <1>2, <2>2 DEF ByBuffer, r
    <3>2. TimeToFrame(r + 1, requestedAt) >= Margin
      <4>1. TimeToFrame(r + 1, requestedAt) \in Int
        BY <1>2, TimeLeft
      <4>2. ~(TimeToFrame(r + 1, requestedAt) < Margin)
        BY <2>2 DEF IsPostponed, r
      <4> QED
        BY <1>1, <4>1, <4>2
    <3> HIDE DEF frame
    <3>3. ~(ReportTime(r) > now - Gap)
      BY <1>1, <1>2, <1>3
    <3> QED
      BY <1>2, <3>1, <3>2, <3>3
  <2> QED
    BY <2>1, <2>2
<1> HIDE DEF frame
<1> DEFINE left == TimeToFrame(frame, requestedAt)
           date == requestedAt + FinalizationIn(frame, requestedAt)
<1>6. /\ ReportTime(frame) \in Int /\ left \in Int /\ Second \in Nat
      /\ 2 * (ReportTime(frame) - requestedAt) - Second < 2 * left
      /\ 2 * left <= 2 * (ReportTime(frame) - requestedAt) + Second
      /\ IsWhole(requestedAt) => left = ReportTime(frame) - requestedAt
  BY <1>5, ReportTimes, TimeLeft, ClockConstants
<1>7. date = requestedAt + left + Gap
  <2>1. left >= 0
    BY <1>1, <1>5, <1>6
  <2> QED
    BY <1>1, <1>5, <1>6, <2>1, Durations
<1> HIDE DEF left, date
<1>8. OnReport("amount", frame, date)
  BY <1>1, <1>6, <1>7 DEF OnReport
<1>9. ASSUME IsWhole(requestedAt) PROVE OnReport("request", frame, date) /\ date >= now
  BY <1>1, <1>5, <1>6, <1>7, <1>9 DEF OnReport
<1> QED
  BY <1>5, <1>8, <1>9 DEF frame, date

\* The result of the two in-the-past checks never lies in the past; they leave
\* the time of a buffer case alone.
LEMMA SettledFacts ==
  ASSUME NEW s \in ProtocolStates, NEW sum \in Nat, NEW requestedAt \in Nat,
         requestedAt <= now, requestedAt >= StartTime, now \in Nat, now >= StartTime,
         IsWhole(requestedAt), NEW f, IsForecast(f, requestedAt)
  PROVE  LET result == Settled(s, sum, requestedAt, f)
             g == result.forecast
         IN  /\ IsForecast(g, requestedAt)
             /\ result.in \in Nat
             /\ requestedAt + result.in >= now
             /\ g.type \in BufferTypes => result.in = FinalizationIn(g.frame, requestedAt)
<1> DEFINE again == Forecast(s, sum, requestedAt, MaxExitEpoch(s))
           isPast(h) == requestedAt + FinalizationIn(h.frame, requestedAt) < now
           g == IF isPast(f) THEN again ELSE f
           next == TimeToFrame(CurrentFrame + 1, requestedAt) + Gap
           in == IF isPast(g) THEN next ELSE FinalizationIn(g.frame, requestedAt)
           result == Settled(s, sum, requestedAt, f)
<1>1. result.forecast = g /\ result.in = in
  BY DEF Settled
<1>2. IsForecast(again, requestedAt)
  BY ExitEpochs, ForecastShape
<1> HIDE DEF again
<1>3. IsForecast(g, requestedAt)
  BY <1>2
<1> HIDE DEF g
<1>4. g.frame \in Nat
  BY <1>3 DEF IsForecast, Failed, NoFrame
<1>5. FinalizationIn(g.frame, requestedAt) \in Nat
  <2>1. g.frame \in Int /\ requestedAt \in Int
    BY <1>4
  <2> QED
    BY <2>1, Durations
<1>6. next \in Nat /\ requestedAt + next >= now
  <2>1. /\ CurrentFrame + 1 \in Int /\ now < ReportTime(CurrentFrame + 1)
        /\ Gap \in Nat
    BY ReportFrameBracket, EstimateConstants
  <2>2. /\ ReportTime(CurrentFrame + 1) \in Int
        /\ TimeToFrame(CurrentFrame + 1, requestedAt) = ReportTime(CurrentFrame + 1) - requestedAt
    BY <2>1, ReportTimes, TimeLeft
  <2> QED
    BY <2>1, <2>2
<1> HIDE DEF next
<1>7. in \in Nat /\ requestedAt + in >= now
  BY <1>5, <1>6
<1>8. ASSUME g.type \in BufferTypes
      PROVE  in = FinalizationIn(g.frame, requestedAt)
  <2>1. \/ g = ByBuffer("buffer", requestedAt)
        \/ g = ByBuffer("vaultsBalance", requestedAt)
    BY <1>3, <1>8 DEF IsForecast, Failed, BufferTypes, ProjectedTypes
  <2>2. requestedAt + FinalizationIn(g.frame, requestedAt) >= now
    BY <2>1, ClosestReport
  <2> QED
    BY <1>5, <2>2
<1> QED
  BY <1>1, <1>3, <1>7, <1>8

(***************************************************************************)
(* The invariants.                                                         *)
(***************************************************************************)
\* What the properties say of an answer given at moment t.
IsAnswer(a, t) ==
  /\ a.kind \in {"amount", "request"} /\ a.amount \in Nat
  /\ a.at = t /\ a.requestedAt \in StartTime..t
  /\ a.type \in Types => a.frame \in Nat \ {0}
  /\ a.type \in Types \cup {"error"}
  /\ a.finalizationAt \in Nat
  /\ a.kind = "request" => a.finalizationAt >= t
  /\ a.type \in BufferTypes =>
       /\ ReportTime(a.frame) > t - Gap /\ TimeToFrame(a.frame, a.requestedAt) >= Margin
       /\ ~(/\ ReportTime(a.frame - 1) > t - Gap
            /\ TimeToFrame(a.frame - 1, a.requestedAt) >= Margin)
       /\ OnReport(a.kind, a.frame, a.finalizationAt)

\* An answer built from a forecast and a duration that suits it.
LEMMA AnswerShape ==
  ASSUME now \in Nat, now >= StartTime,
         NEW kind \in {"amount", "request"}, NEW amount \in Nat,
         NEW requestedAt \in Nat, requestedAt >= StartTime, requestedAt <= now,
         NEW f, IsForecast(f, requestedAt), NEW in \in Nat,
         kind = "request" => IsWhole(requestedAt) /\ requestedAt + in >= now,
         f.type \in BufferTypes => in = FinalizationIn(f.frame, requestedAt)
  PROVE  IsAnswer(Answer(kind, amount, requestedAt, f, in), now)
<1> DEFINE a == Answer(kind, amount, requestedAt, f, in)
<1>1. /\ a.kind = kind /\ a.amount = amount /\ a.requestedAt = requestedAt /\ a.at = now
      /\ a.frame = f.frame /\ a.type = f.type
      /\ a.finalizationAt = IF f = Failed THEN now ELSE requestedAt + in
  BY DEF Answer
<1> HIDE DEF a
<1>2. StartTime \in Nat
  BY EstimateConstants
<1>3. ASSUME f = Failed PROVE IsAnswer(a, now)
  <2>1. f.type = "error"
    BY <1>3 DEF Failed
  <2> QED
    BY <1>1, <1>2, <1>3, <2>1 DEF IsAnswer, Types, BufferTypes
<1>4. ASSUME f \in [frame : Nat \ {0}, type : ProjectedTypes \cup {"bunker"}]
      PROVE  IsAnswer(a, now)
  <2>1. /\ f.type \in Types /\ f.type \notin BufferTypes /\ f.frame \in Nat \ {0}
        /\ f # Failed
    BY <1>4 DEF Types, BufferTypes, ProjectedTypes, Failed, NoFrame
  <2> QED
    BY <1>1, <1>2, <2>1 DEF IsAnswer
<1>5. ASSUME f \in [frame : Nat \ {0}, type : BufferTypes],
             f = ByBuffer("buffer", requestedAt) \/ f = ByBuffer("vaultsBalance", requestedAt)
      PROVE  IsAnswer(a, now)
  <2>1. /\ f.type \in Types /\ f.type \in BufferTypes /\ f.frame \in Nat \ {0}
        /\ f # Failed
    BY <1>5 DEF Types, BufferTypes, Failed, NoFrame
  <2>2. /\ ReportTime(f.frame) > now - Gap /\ TimeToFrame(f.frame, requestedAt) >= Margin
        /\ ~(/\ ReportTime(f.frame - 1) > now - Gap
             /\ TimeToFrame(f.frame - 1, requestedAt) >= Margin)
        /\ OnReport("amount", f.frame, requestedAt + FinalizationIn(f.frame, requestedAt))
        /\ kind = "request" =>
             OnReport("request", f.frame, requestedAt + FinalizationIn(f.frame, requestedAt))
    BY <1>5, ClosestReport
  <2>3. OnReport(a.kind, a.frame, a.finalizationAt) /\ a.finalizationAt = requestedAt + in
    BY <1>1, <2>1, <2>2
  <2> QED
    BY <1>1, <1>2, <2>1, <2>2, <2>3 DEF IsAnswer
<1> QED
  BY <1>3, <1>4, <1>5 DEF IsForecast, a

\* The inductive invariant: the clock, the snapshot and the last answer.
IInv == /\ now \in StartTime..MaxTime /\ st \in ProtocolStates
        /\ answer # NoAnswer => answer.at \in StartTime..now /\ IsAnswer(answer, answer.at)

LEMMA InitIInv == Init => IInv
  BY EstimateConstants DEF Init, IInv

LEMMA AskIInv ==
  ASSUME IInv, NEW amount \in Amounts, Ask(amount)
  PROVE  IInv'
<1> DEFINE f == Forecast(st, st.unfinalized + amount, now, MaxExitEpoch(st))
           in == FinalizationIn(f.frame, now)
<1>1. /\ now \in Nat /\ now >= StartTime /\ now \in StartTime..MaxTime
      /\ st \in ProtocolStates
      /\ amount \in Nat /\ st.unfinalized + amount \in Nat
  BY EstimateConstants, SnapshotTypes DEF IInv
<1>2. IsForecast(f, now)
  BY <1>1, ExitEpochs, ForecastShape
<1>3. answer' = Answer("amount", amount, now, f, in) /\ now' = now /\ st' = st
  BY DEF Ask
<1> HIDE DEF f
<1>4. f.frame \in Int /\ now \in Int
  BY <1>1, <1>2 DEF IsForecast, Failed, NoFrame
<1>5. in \in Nat
  BY <1>4, Durations
<1>6. IsAnswer(Answer("amount", amount, now, f, in), now)
  BY <1>1, <1>2, <1>5, AnswerShape
<1>7. IsAnswer(answer', now) /\ answer'.at = now
  BY <1>3, <1>6 DEF IsAnswer
<1>8. now' \in StartTime..MaxTime /\ st' \in ProtocolStates /\ answer'.at \in StartTime..now'
  BY <1>1, <1>3, <1>7, EstimateConstants
<1> QED
  BY <1>7, <1>8 DEF IInv, IsAnswer

LEMMA AskByIdIInv ==
  ASSUME IInv, NEW sum \in RequestSums, NEW requestedAt \in BlockTimes,
         AskById(sum, requestedAt)
  PROVE  IInv'
<1> DEFINE first == Forecast(st, sum, requestedAt, MaxExitEpochInPast(st, requestedAt))
           last == Settled(st, sum, requestedAt, first)
           f == IF first = Failed THEN Failed ELSE last.forecast
<1>1. /\ now \in Nat /\ now >= StartTime /\ now \in StartTime..MaxTime
      /\ st \in ProtocolStates /\ sum \in Nat
      /\ requestedAt \in Nat /\ requestedAt >= StartTime /\ requestedAt <= now
      /\ IsWhole(requestedAt)
  BY EstimateConstants DEF IInv, BlockTimes
<1>2. IsForecast(first, requestedAt)
  BY <1>1, ExitEpochs, ForecastShape
<1>3. answer' = Answer("request", sum, requestedAt, f, last.in) /\ now' = now /\ st' = st
  BY DEF AskById
<1> HIDE DEF first
<1>4. /\ IsForecast(last.forecast, requestedAt)
      /\ last.in \in Nat /\ requestedAt + last.in >= now
      /\ last.forecast.type \in BufferTypes =>
           last.in = FinalizationIn(last.forecast.frame, requestedAt)
  BY <1>1, <1>2, SettledFacts
<1> HIDE DEF last
<1>5. /\ IsForecast(f, requestedAt)
      /\ f.type \in BufferTypes => last.in = FinalizationIn(f.frame, requestedAt)
  BY <1>4 DEF IsForecast, Failed, BufferTypes
<1> HIDE DEF f
<1>6. IsAnswer(Answer("request", sum, requestedAt, f, last.in), now)
  BY <1>1, <1>4, <1>5, AnswerShape
<1>7. IsAnswer(answer', now) /\ answer'.at = now
  BY <1>3, <1>6 DEF IsAnswer
<1>8. now' \in StartTime..MaxTime /\ st' \in ProtocolStates /\ answer'.at \in StartTime..now'
  BY <1>1, <1>3, <1>7, EstimateConstants
<1> QED
  BY <1>7, <1>8 DEF IInv, IsAnswer

LEMMA StepIInv == IInv /\ [Next]_vars => IInv'
<1> SUFFICES ASSUME IInv, [Next]_vars PROVE IInv'
  OBVIOUS
<1>1. CASE Tick
  <2>1. now' = now + 1 /\ now < MaxTime /\ st' = st /\ answer' = answer
    BY <1>1 DEF Tick
  <2>2. now \in StartTime..MaxTime /\ StartTime \in Nat /\ MaxTime \in Nat
    BY EstimateConstants DEF IInv
  <2>3. now' \in StartTime..MaxTime
    BY <2>1, <2>2
  <2>4. ASSUME answer # NoAnswer
        PROVE  answer.at \in StartTime..now' /\ IsAnswer(answer, answer.at)
    BY <2>1, <2>2, <2>4 DEF IInv
  <2> QED
    BY <2>1, <2>3, <2>4 DEF IInv, IsAnswer
<1>2. CASE Refresh
  BY <1>2 DEF Refresh, IInv
<1>3. ASSUME NEW amount \in Amounts, Ask(amount) PROVE IInv'
  BY <1>3, AskIInv
<1>4. ASSUME NEW sum \in RequestSums, NEW requestedAt \in BlockTimes,
             AskById(sum, requestedAt)
      PROVE  IInv'
  BY <1>4, AskByIdIInv
<1>5. CASE UNCHANGED vars
  BY <1>5 DEF vars, IInv, IsAnswer
<1> QED
  BY <1>1, <1>2, <1>3, <1>4, <1>5 DEF Next

LEMMA Invariance == Spec => []IInv
  BY InitIInv, StepIInv, PTL DEF Spec

(***************************************************************************)
(* The theorems.                                                           *)
(***************************************************************************)
\* Every answer is a time with the type of a case and a frame, or a failure:
\* TypeOK of the waiting-time specification.
THEOREM TypeCorrect == Spec => []TypeOK
<1>1. IInv => TypeOK
  BY EstimateConstants DEF IInv, TypeOK, IsAnswer
<1> QED
  BY <1>1, Invariance, PTL

\* checkInPastCase: whatever the age of the request, whatever the snapshot, the
\* answer for a request of the queue does not lie in the past.
THEOREM RequestsAreAhead == Spec => []ByIdNeverInPast
<1>1. IInv => ByIdNeverInPast
  BY DEF IInv, ByIdNeverInPast, IsAnswer, Answered
<1> QED
  BY <1>1, Invariance, PTL

\* calculateWithdrawalFrame: with enough ether in buffer and vaults the answer is
\* the closest report that is neither done nor within the margin.
THEOREM BufferIsClosest == Spec => []BufferIsClosestReport
<1>1. IInv => BufferIsClosestReport
  BY DEF IInv, BufferIsClosestReport, IsAnswer, OnReport, Answered, BufferTypes
<1> QED
  BY <1>1, Invariance, PTL

(***************************************************************************)
(* Finite sets of integers.                                                *)
(***************************************************************************)
LEMMA FiniteImage ==
  ASSUME NEW S, IsFiniteSet(S), NEW R, NEW f \in [S -> R],
         \A y \in R : \E x \in S : f[x] = y
  PROVE  IsFiniteSet(R)
<1>1. f \in Surjection(S, R)
  BY DEF Surjection
<1> QED
  BY <1>1, FS_Surjection

LEMMA LesserOfInts ==
  ASSUME NEW a \in Int, NEW b \in Int PROVE \E l \in Int : l <= a /\ l <= b
<1>1. CASE a <= b
  BY <1>1
<1>2. CASE ~(a <= b)
  BY <1>2
<1> QED
  BY <1>1, <1>2

LEMMA LeqOfInts ==
  ASSUME NEW a \in Int, NEW b \in Int, NEW c \in Int, a <= b, b <= c PROVE a <= c
  OBVIOUS

\* A list of integers has a lower bound: a shortest one without would have one
\* but for its last element.
LEMMA LowerBound ==
  ASSUME NEW n \in Nat, NEW f \in [1..n -> Int]
  PROVE  \E m \in Int : \A i \in 1..n : m <= f[i]
<1> DEFINE Bounded(k) == \A g \in [1..k -> Int] : \E m \in Int : \A i \in 1..k : m <= g[i]
           Bad == {k \in Nat : ~Bounded(k)}
<1>1. Bad = {}
  <2> SUFFICES ASSUME Bad # {} PROVE FALSE
    OBVIOUS
  <2>1. PICK k \in Bad : \A j \in Bad : k <= j
    <3> HIDE DEF Bad
    <3>1. Bad \in SUBSET Nat
      BY DEF Bad
    <3> QED
      BY <3>1, LeastOfNats
  <2>2. k \in Nat /\ ~Bounded(k)
    OBVIOUS
  <2>3. k # 0
    <3>1. Bounded(0)
      OBVIOUS
    <3> QED
      BY <2>2, <3>1
  <2>4. k - 1 \in Nat /\ k - 1 \notin Bad
    <3> HIDE DEF Bad
    <3> QED
      BY <2>1, <2>2, <2>3
  <2>5. Bounded(k - 1)
    BY <2>4
  <2>6. ASSUME NEW g \in [1..k -> Int] PROVE \E m \in Int : \A i \in 1..k : m <= g[i]
    <3> DEFINE h == [i \in 1..(k - 1) |-> g[i]]
    <3>1. h \in [1..(k - 1) -> Int] /\ g[k] \in Int
      BY <2>2, <2>3
    <3>2. PICK m \in Int : \A i \in 1..(k - 1) : m <= h[i]
      BY <2>5, <3>1
    <3>3. \A i \in 1..(k - 1) : m <= g[i]
      BY <3>2
    <3>4. PICK l \in Int : l <= m /\ l <= g[k]
      <4>1. m \in Int /\ g[k] \in Int
        BY <3>1
      <4> QED
        BY <4>1, LesserOfInts
    <3>5. \A i \in 1..k : i = k \/ i \in 1..(k - 1)
      BY <2>2
    <3>6. ASSUME NEW i \in 1..k PROVE l <= g[i]
      <4>1. CASE i = k
        BY <3>4, <4>1
      <4>2. CASE i \in 1..(k - 1)
        <5>1. m <= g[i] /\ g[i] \in Int
          BY <3>3, <4>2
        <5>2. l \in Int /\ l <= m /\ m \in Int
          BY <3>4
        <5> QED
          BY <5>1, <5>2, LeqOfInts
      <4> QED
        BY <3>5, <4>1, <4>2
    <3> QED
      BY <3>4, <3>6
  <2> QED
    BY <2>2, <2>6
<1>2. Bounded(n)
  BY <1>1
<1> HIDE DEF Bad
<1> QED
  BY <1>2

LEMMA MinOfInts ==
  ASSUME NEW S \in SUBSET Int, S # {}, IsFiniteSet(S)
  PROVE  Min(S) \in S /\ \A x \in S : Min(S) <= x
<1>1. PICK n \in Nat : ExistsBijection(1..n, S)
  BY FS_CardinalityType
<1>2. PICK f : f \in Bijection(1..n, S)
  BY <1>1 DEF ExistsBijection
<1>3. f \in [1..n -> Int] /\ \A x \in S : \E i \in 1..n : f[i] = x
  BY <1>2 DEF Bijection, Injection, Surjection
<1>4. PICK m \in Int : \A i \in 1..n : m <= f[i]
  BY <1>3, LowerBound
<1>5. \A x \in S : m <= x
  BY <1>3, <1>4
<1> DEFINE T == {x - m : x \in S}
<1>6. T \in SUBSET Nat /\ T # {}
  <2>1. \A x \in S : x \in Int /\ m <= x
    BY <1>5
  <2>2. \A x \in S : x - m \in Nat
    BY <2>1
  <2> QED
    BY <2>2
<1>7. PICK t \in T : \A y \in T : t <= y
  BY <1>6, LeastOfNats
<1>8. PICK x \in S : t = x - m
  BY <1>7
<1>9. \A y \in S : y - m \in T /\ x - m <= y - m
  BY <1>7, <1>8
<1>10. \A y \in S : x <= y
  BY <1>9
<1> QED
  BY <1>10 DEF Min

(***************************************************************************)
(* Sums over finite sets.                                                  *)
(***************************************************************************)
SumOf(b, S) == MapThenSumSet(LAMBDA g : b[g], S)

\* One step of the fold, and the fold over all subsets of a set.
Picked(s) == CHOOSE x \in s : TRUE
SumStep(b, f, s) == IF s = {} THEN 0 ELSE b[Picked(s)] + f[s \ {Picked(s)}]
IsSums(b, f, S) == f = [s \in SUBSET S |-> SumStep(b, f, s)]
Sums(b, S) == CHOOSE f : IsSums(b, f, S)

LEMMA SumIsFold == ASSUME NEW b, NEW S PROVE SumOf(b, S) = Sums(b, S)[S]
  BY DEF SumOf, MapThenSumSet, MapThenFoldSet, Sums, IsSums, SumStep, Picked

\* Among the subsets of a finite set there is a smallest one of any kind.
LEMMA SmallestSubset ==
  ASSUME NEW K, IsFiniteSet(K), NEW B \in SUBSET SUBSET K, B # {}
  PROVE  \E s \in B : \A t \in B : Cardinality(s) <= Cardinality(t)
<1> DEFINE N == {Cardinality(s) : s \in B}
<1>1. \A s \in B : IsFiniteSet(s) /\ Cardinality(s) \in Nat
  BY FS_Subset, FS_CardinalityType
<1>2. N \in SUBSET Nat /\ N # {}
  BY <1>1
<1>3. PICK n \in N : \A m \in N : n <= m
  BY <1>2, LeastOfNats
<1> QED
  BY <1>3

LEMMA PickedSmaller ==
  ASSUME NEW s, IsFiniteSet(s), s # {}, NEW x \in s
  PROVE  /\ Picked(s) \in s
         /\ IsFiniteSet(s \ {x}) /\ Cardinality(s) \in Nat \ {0}
         /\ Cardinality(s \ {x}) = Cardinality(s) - 1
<1>1. Picked(s) \in s
  BY DEF Picked
<1>2. IsFiniteSet(s \ {x}) /\ Cardinality(s \ {x}) = Cardinality(s) - 1
  BY FS_RemoveElement
<1>3. Cardinality(s) \in Nat /\ Cardinality(s) # 0
  BY FS_CardinalityType, FS_EmptySet
<1> QED
  BY <1>1, <1>2, <1>3

\* Two folds agree on the sets they have in common.
LEMMA SumsAgree ==
  ASSUME NEW S, NEW T, IsFiniteSet(S), NEW b, NEW f, NEW g, IsSums(b, f, S), IsSums(b, g, T)
  PROVE  \A s \in SUBSET S : s \in SUBSET T => f[s] = g[s]
<1> DEFINE Bad == {s \in SUBSET S : s \in SUBSET T /\ f[s] # g[s]}
<1>1. ASSUME Bad # {} PROVE FALSE
  <2>1. PICK s \in Bad : \A t \in Bad : Cardinality(s) <= Cardinality(t)
    BY <1>1, SmallestSubset
  <2>2. s \in SUBSET S /\ s \in SUBSET T /\ f[s] # g[s] /\ IsFiniteSet(s)
    BY <2>1, FS_Subset
  <2>3. f[s] = SumStep(b, f, s) /\ g[s] = SumStep(b, g, s)
    BY <2>2 DEF IsSums
  <2>4. s # {}
    BY <2>2, <2>3 DEF SumStep
  <2> DEFINE p == s \ {Picked(s)}
  <2>5. Picked(s) \in s /\ IsFiniteSet(p) /\ Cardinality(p) = Cardinality(s) - 1 /\ Cardinality(s) \in Nat
    BY <2>2, <2>4, PickedSmaller DEF Picked
  <2>6. p \notin Bad
    BY <2>1, <2>5
  <2>7. f[p] = g[p]
    BY <2>2, <2>6
  <2> QED
    BY <2>2, <2>3, <2>4, <2>7 DEF SumStep
<1> QED
  BY <1>1

\* There is a fold, of integers.
LEMMA SumsExist ==
  ASSUME NEW S, IsFiniteSet(S), NEW b, \A x \in S : b[x] \in Int
  PROVE  \E f \in [SUBSET S -> Int] : IsSums(b, f, S)
<1> DEFINE UpTo(f, n) == \A s \in SUBSET S : Cardinality(s) <= n => f[s] = SumStep(b, f, s)
           Bad == {n \in Nat : ~(\E f \in [SUBSET S -> Int] : UpTo(f, n))}
<1>0. \A s \in SUBSET S : IsFiniteSet(s) /\ Cardinality(s) \in Nat
  BY FS_Subset, FS_CardinalityType
<1>1. ASSUME Bad # {} PROVE FALSE
  <2>1. PICK m \in Bad : \A n \in Bad : m <= n
    <3>1. Bad \in SUBSET Nat
      OBVIOUS
    <3> HIDE DEF Bad
    <3> QED
      BY <1>1, <3>1, LeastOfNats
  <2>2. m \in Nat
    BY <2>1
  <2>3. CASE m = 0
    <3> DEFINE f == [s \in SUBSET S |-> 0]
    <3>1. f \in [SUBSET S -> Int]
      OBVIOUS
    <3>2. ASSUME NEW s \in SUBSET S, Cardinality(s) <= 0 PROVE f[s] = SumStep(b, f, s)
      <4>1. s = {}
        BY <1>0, <3>2, FS_EmptySet
      <4> QED
        BY <4>1 DEF SumStep
    <3>3. UpTo(f, 0)
      BY <3>2
    <3> HIDE DEF f, UpTo
    <3> QED
      BY <2>1, <2>3, <3>1, <3>3
  <2>4. CASE m # 0
    <3>1. m - 1 \in Nat /\ m - 1 \notin Bad
      <4> HIDE DEF Bad
      <4> QED
        BY <2>1, <2>2, <2>4
    <3>2. PICK f \in [SUBSET S -> Int] : UpTo(f, m - 1)
      BY <3>1
    <3> DEFINE g == [s \in SUBSET S |-> IF Cardinality(s) <= m - 1 THEN f[s] ELSE SumStep(b, f, s)]
    <3>3. \A s \in SUBSET S : SumStep(b, f, s) \in Int
      <4> TAKE s \in SUBSET S
      <4>1. CASE s = {}
        BY <4>1 DEF SumStep
      <4>2. CASE s # {}
        <5>1. Picked(s) \in S /\ s \ {Picked(s)} \in SUBSET S
          BY <4>2 DEF Picked
        <5>2. b[Picked(s)] \in Int /\ f[s \ {Picked(s)}] \in Int
          BY <5>1
        <5> QED
          BY <4>2, <5>2 DEF SumStep
      <4> QED
        BY <4>1, <4>2
    <3>4. g \in [SUBSET S -> Int]
      BY <3>3
    <3>5. ASSUME NEW s \in SUBSET S, Cardinality(s) <= m PROVE g[s] = SumStep(b, g, s)
      <4>1. g[s] = SumStep(b, f, s)
        BY <3>2
      <4>2. SumStep(b, g, s) = SumStep(b, f, s)
        <5>1. CASE s = {}
          BY <5>1 DEF SumStep
        <5>2. CASE s # {}
          <6> DEFINE p == s \ {Picked(s)}
          <6>1. p \in SUBSET S /\ Cardinality(p) = Cardinality(s) - 1 /\ Cardinality(s) \in Nat
            BY <1>0, <5>2, PickedSmaller DEF Picked
          <6>2. Cardinality(p) <= m - 1
            BY <2>2, <3>5, <6>1
          <6>3. g[p] = f[p]
            BY <6>1, <6>2
          <6> HIDE DEF g
          <6> QED
            BY <5>2, <6>3 DEF SumStep
        <5> QED
          BY <5>1, <5>2
      <4> QED
        BY <4>1, <4>2
    <3>6. UpTo(g, m)
      BY <3>5
    <3> HIDE DEF g, UpTo
    <3> QED
      BY <2>1, <3>4, <3>6
  <2> QED
    BY <2>3, <2>4
<1>2. PICK f \in [SUBSET S -> Int] : UpTo(f, Cardinality(S))
  <2>1. Cardinality(S) \in Nat
    BY <1>0
  <2> HIDE DEF UpTo
  <2> QED
    BY <1>1, <2>1
<1>3. \A s \in SUBSET S : f[s] = SumStep(b, f, s)
  <2> TAKE s \in SUBSET S
  <2>1. Cardinality(s) <= Cardinality(S)
    BY FS_Subset
  <2> QED
    BY <1>2, <2>1
<1> QED
  BY <1>3 DEF IsSums

LEMMA SumsAreSums ==
  ASSUME NEW S, IsFiniteSet(S), NEW b, \A x \in S : b[x] \in Int
  PROVE  IsSums(b, Sums(b, S), S) /\ \A s \in SUBSET S : SumOf(b, s) = Sums(b, S)[s] /\ SumOf(b, s) \in Int
<1>1. \A s \in SUBSET S : IsSums(b, Sums(b, s), s)
  <2> TAKE s \in SUBSET S
  <2>1. \E f : IsSums(b, f, s)
    BY FS_Subset, SumsExist
  <2> QED
    BY <2>1 DEF Sums
<1>2. IsSums(b, Sums(b, S), S)
  BY <1>1
<1>3. ASSUME NEW s \in SUBSET S PROVE SumOf(b, s) = Sums(b, S)[s] /\ SumOf(b, s) \in Int
  <2>1. SumOf(b, s) = Sums(b, s)[s]
    BY SumIsFold
  <2>2. IsSums(b, Sums(b, s), s) /\ IsFiniteSet(s)
    BY <1>1, FS_Subset
  <2>3. Sums(b, s)[s] = Sums(b, S)[s]
    <3>1. \A t \in SUBSET s : t \in SUBSET S => Sums(b, s)[t] = Sums(b, S)[t]
      BY <1>2, <2>2, SumsAgree
    <3> QED
      BY <3>1
  <2>4. PICK f \in [SUBSET s -> Int] : IsSums(b, f, s)
    BY <2>2, SumsExist
  <2>5. Sums(b, s)[s] = f[s]
    <3>1. \A t \in SUBSET s : t \in SUBSET s => Sums(b, s)[t] = f[t]
      BY <2>2, <2>4, SumsAgree
    <3> QED
      BY <3>1
  <2> QED
    BY <2>1, <2>3, <2>4, <2>5
<1> QED
  BY <1>2, <1>3

\* A sum over a set is any element's share and the sum over the others.
LEMMA SumRemove ==
  ASSUME NEW S, IsFiniteSet(S), NEW b, \A x \in S : b[x] \in Int
  PROVE  SumOf(b, {}) = 0 /\ \A x \in S : SumOf(b, S) = b[x] + SumOf(b, S \ {x})
<1>1. SumOf(b, {}) = 0
  <2>1. IsFiniteSet({}) /\ {} \in SUBSET {}
    BY FS_EmptySet
  <2>2. IsSums(b, Sums(b, S), S) /\ SumOf(b, {}) = Sums(b, S)[{}]
    BY SumsAreSums
  <2>3. Sums(b, S)[{}] = SumStep(b, Sums(b, S), {})
    BY <2>2 DEF IsSums
  <2> QED
    BY <2>2, <2>3 DEF SumStep
<1>2. ASSUME NEW s \in SUBSET S, s # {}
      PROVE  Picked(s) \in s /\ SumOf(b, s) = b[Picked(s)] + SumOf(b, s \ {Picked(s)})
  <2>1. Picked(s) \in s
    BY <1>2 DEF Picked
  <2>2. IsSums(b, Sums(b, S), S) /\ \A t \in SUBSET S : SumOf(b, t) = Sums(b, S)[t]
    BY SumsAreSums
  <2>3. Sums(b, S)[s] = SumStep(b, Sums(b, S), s)
    BY <2>2 DEF IsSums
  <2>4. s \ {Picked(s)} \in SUBSET S
    OBVIOUS
  <2>5. SumOf(b, s) = Sums(b, S)[s] /\ SumOf(b, s \ {Picked(s)}) = Sums(b, S)[s \ {Picked(s)}]
    BY <2>2, <2>4
  <2> QED
    BY <1>2, <2>1, <2>3, <2>5 DEF SumStep
<1>3. \A s \in SUBSET S : SumOf(b, s) \in Int
  BY SumsAreSums
<1> DEFINE Bad == {s \in SUBSET S : \E x \in s : SumOf(b, s) # b[x] + SumOf(b, s \ {x})}
<1>4. ASSUME Bad # {} PROVE FALSE
  <2>1. PICK s \in Bad : \A t \in Bad : Cardinality(s) <= Cardinality(t)
    BY <1>4, SmallestSubset
  <2>2. PICK x \in s : SumOf(b, s) # b[x] + SumOf(b, s \ {x})
    BY <2>1
  <2>3. s \in SUBSET S /\ s # {} /\ IsFiniteSet(s)
    BY <2>1, <2>2, FS_Subset
  <2> DEFINE y == Picked(s)
  <2>4. y \in s /\ SumOf(b, s) = b[y] + SumOf(b, s \ {y}) /\ x # y
    BY <1>2, <2>2, <2>3
  <2> HIDE DEF y
  <2>5. /\ Cardinality(s) \in Nat
        /\ Cardinality(s \ {x}) = Cardinality(s) - 1 /\ Cardinality(s \ {y}) = Cardinality(s) - 1
    BY <2>3, <2>4, PickedSmaller
  <2>6. s \ {x} \notin Bad /\ s \ {y} \notin Bad
    <3> HIDE DEF Bad
    <3> QED
      BY <2>1, <2>5
  <2>7. /\ SumOf(b, s \ {y}) = b[x] + SumOf(b, (s \ {y}) \ {x})
        /\ SumOf(b, s \ {x}) = b[y] + SumOf(b, (s \ {x}) \ {y})
    BY <2>2, <2>3, <2>4, <2>6
  <2>8. (s \ {y}) \ {x} = (s \ {x}) \ {y} /\ (s \ {x}) \ {y} \in SUBSET S
    BY <2>3
  <2>9. b[x] \in Int /\ b[y] \in Int /\ SumOf(b, (s \ {x}) \ {y}) \in Int
    BY <1>3, <2>2, <2>3, <2>4, <2>8
  <2> DEFINE z == SumOf(b, (s \ {x}) \ {y})
  <2>10. SumOf(b, s) = b[y] + (b[x] + z) /\ b[x] + SumOf(b, s \ {x}) = b[x] + (b[y] + z)
    BY <2>4, <2>7, <2>8
  <2>11. z \in Int
    BY <2>9
  <2> HIDE DEF z
  <2> QED
    BY <2>2, <2>9, <2>10, <2>11
<1> QED
  BY <1>1, <1>4

(***************************************************************************)
(* The walk over the frames of withdrawing validators in closed form.      *)
(***************************************************************************)
LEMMA MaxOfNats ==
  ASSUME NEW S \in SUBSET Nat, S # {}, IsFiniteSet(S)
  PROVE  Max(S) \in S /\ \A x \in S : x <= Max(S)
<1> DEFINE T == {-x : x \in S}
           f == [x \in S |-> -x]
<1>1. T \in SUBSET Int /\ T # {}
  <2>1. \A x \in S : -x \in Int
    OBVIOUS
  <2> QED
    BY <2>1
<1>2. IsFiniteSet(T)
  <2>1. f \in [S -> T] /\ \A y \in T : \E x \in S : f[x] = y
    OBVIOUS
  <2> HIDE DEF f, T
  <2> QED
    BY <2>1, FiniteImage
<1>3. Min(T) \in T /\ \A y \in T : Min(T) <= y
  <2> HIDE DEF T
  <2> QED
    BY <1>1, <1>2, MinOfInts
<1>4. PICK m \in S : Min(T) = -m
  <2> DEFINE t == Min(T)
  <2>1. t \in T
    BY <1>3
  <2> HIDE DEF t
  <2> QED
    BY <2>1 DEF t
<1>5. \A x \in S : m >= x
  <2> TAKE x \in S
  <2>1. -m <= -x
    BY <1>3, <1>4
  <2> QED
    BY <2>1
<1>6. Max(S) \in S /\ \A x \in S : Max(S) >= x
  <2> HIDE DEF T, f
  <2> QED
    BY <1>5 DEF Max
<1> QED
  <2> DEFINE n == Max(S)
  <2>1. n \in S /\ \A x \in S : n >= x
    BY <1>6
  <2> HIDE DEF n
  <2>2. n \in S /\ \A x \in S : x <= n
    BY <2>1
  <2> QED
    BY <2>2 DEF n

\* All balances until a frame, and with them the rewards since the report frame.
FramesTo(b, f) == {g \in DOMAIN b : g <= f}
Elapsed(report, f) == Max({0, f - report})
Income(s, report, f) ==
  SumOf(s.balances, FramesTo(s.balances, f)) + Available(s) * Elapsed(report, f)

LEMMA IncomeTyped ==
  ASSUME NEW s, IsSnapshot(s), NEW report \in Nat, NEW f \in Nat
  PROVE  /\ SumOf(s.balances, FramesTo(s.balances, f)) \in Int
         /\ Elapsed(report, f) \in Nat
         /\ Available(s) * Elapsed(report, f) \in Nat
         /\ Income(s, report, f) \in Int
<1> DEFINE T == FramesTo(s.balances, f)
           m == Elapsed(report, f)
           x == SumOf(s.balances, T)
<1>1. IsFiniteSet(DOMAIN s.balances) /\ \A g \in DOMAIN s.balances : s.balances[g] \in Int
  BY DEF IsSnapshot
<1>2. T \in SUBSET DOMAIN s.balances
  BY DEF FramesTo
<1>3. x \in Int
  <2> HIDE DEF T
  <2> QED
    BY <1>1, <1>2, SumsAreSums
<1>4. m \in Nat
  BY DEF Max, Elapsed
<1>5. Available(s) \in Nat
  BY NettingIsNatural
<1> HIDE DEF m, x
<1>6. Available(s) * m \in Nat
  BY <1>4, <1>5, Z3
<1>7. x + Available(s) * m \in Int
  BY <1>3, <1>6
<1> QED
  BY <1>3, <1>4, <1>6, <1>7 DEF Income, m, x

\* The rewards between two frames, counted from the later of the first and the report.
AddsUp(A, r, p, f, l) ==
  A * Elapsed(r, f) = A * Elapsed(r, p) + (IF f >= l THEN (f - l) * A ELSE 0)

LEMMA RewardsAddUp ==
  ASSUME NEW A \in Nat, NEW r \in Nat, NEW p \in Nat, NEW f \in Nat, p < f,
         NEW l \in Nat, l = p \/ l = r, p <= l, r <= l
  PROVE  AddsUp(A, r, p, f, l)
<1>1. Elapsed(r, f) = (IF r <= f THEN f - r ELSE 0) /\ Elapsed(r, p) = (IF r <= p THEN p - r ELSE 0)
  BY DEF Max, Elapsed
<1>2. CASE r <= p
  <2>1. l = p /\ Elapsed(r, f) = f - r /\ Elapsed(r, p) = p - r
    BY <1>1, <1>2
  <2>2. A * (f - r) = A * (p - r) + (f - p) * A
    BY Z3
  <2> QED
    BY <2>1, <2>2 DEF AddsUp
<1>3. CASE p < r /\ r <= f
  <2>1. l = r /\ Elapsed(r, f) = f - r /\ Elapsed(r, p) = 0
    BY <1>1, <1>3
  <2>2. A * (f - r) = A * 0 + (f - r) * A
    BY Z3
  <2> QED
    BY <1>3, <2>1, <2>2 DEF AddsUp
<1>4. CASE f < r
  <2>1. l = r /\ Elapsed(r, f) = 0 /\ Elapsed(r, p) = 0
    BY <1>1, <1>4
  <2>2. A * 0 = A * 0 + 0
    BY Z3
  <2> QED
    BY <1>4, <2>1, <2>2 DEF AddsUp
<1> QED
  BY <1>2, <1>3, <1>4

\* A step of the walk takes off what a frame adds to the income.
LEMMA WalkStep ==
  ASSUME NEW s, IsSnapshot(s), NEW report \in Nat, NEW need \in Int, NEW f \in DOMAIN s.balances,
         NEW w, \A g \in DOMAIN s.balances : g < f => w[g] = need - Income(s, report, g)
  PROVE  LET before == {g \in DOMAIN s.balances : g < f}
             from   == IF before = {} THEN need ELSE w[Max(before)]
             last   == Max(before \cup {report})
         IN  need - Income(s, report, f) = from - s.balances[f]
                                             - (IF f >= last THEN (f - last) * Available(s) ELSE 0)
<1> DEFINE b == s.balances
           K == DOMAIN s.balances
           A == Available(s)
           prior == {g \in K : g < f}
           last == Max(prior \cup {report})
           earned == IF f >= last THEN (f - last) * A ELSE 0
<1>1. /\ IsFiniteSet(K) /\ K \subseteq Nat \ {0} /\ \A g \in K : b[g] \in Int
      /\ f \in K /\ f \in Nat /\ A \in Nat
  BY NettingIsNatural DEF IsSnapshot
<1>2. IsFiniteSet(prior) /\ prior \in SUBSET K /\ prior \in SUBSET Nat
  <2>1. prior \in SUBSET K
    OBVIOUS
  <2> QED
    BY <1>1, <2>1, FS_Subset
<1>3. SumOf(b, FramesTo(b, f)) = b[f] + SumOf(b, prior) /\ SumOf(b, prior) \in Int /\ SumOf(b, {}) = 0
  <2>1. FramesTo(b, f) \in SUBSET K /\ f \in FramesTo(b, f) /\ FramesTo(b, f) \ {f} = prior
    BY <1>1 DEF FramesTo
  <2>2. IsFiniteSet(FramesTo(b, f))
    BY <1>1, <2>1, FS_Subset
  <2>3. \A g \in FramesTo(b, f) : b[g] \in Int
    BY <1>1, <2>1
  <2> HIDE DEF b, K, prior
  <2> QED
    BY <1>1, <1>2, <2>1, <2>2, <2>3, SumRemove, SumsAreSums
<1>4. b[f] \in Int
  BY <1>1
<1>5. CASE prior = {}
  <2>1. last = report
    BY <1>5 DEF Max
  <2>2. A * Elapsed(report, f) = earned
    <3>1. Elapsed(report, f) = IF report <= f THEN f - report ELSE 0
      BY <1>1 DEF Max, Elapsed
    <3>2. A * (f - report) = (f - report) * A /\ A * 0 = 0
      BY <1>1, Z3
    <3> HIDE DEF A, last
    <3> QED
      BY <1>1, <2>1, <3>1, <3>2
  <2>3. Income(s, report, f) = b[f] + earned
    <3>1. SumOf(b, prior) = 0
      BY <1>3, <1>5, Zenon
    <3>2. SumOf(b, FramesTo(b, f)) = b[f]
      <4> HIDE DEF b, K, prior
      <4> QED
        BY <1>3, <1>4, <3>1
    <3> HIDE DEF earned, A
    <3> QED
      BY <2>2, <3>2 DEF Income, A
  <2>4. earned \in Int
    BY <1>1, <2>2, IncomeTyped
  <2> HIDE DEF earned, last
  <2>5. need - Income(s, report, f) = need - b[f] - earned
    <3> HIDE DEF b, K, prior
    <3> QED
      BY <1>4, <2>3, <2>4
  <2> QED
    BY <1>5, <2>5 DEF earned, last
<1>6. CASE prior # {}
  <2> DEFINE p == Max(prior)
  <2>1. p \in prior /\ \A g \in prior : g <= p
    <3> HIDE DEF prior
    <3> QED
      BY <1>2, <1>6, MaxOfNats
  <2>2. p \in K /\ p \in Nat /\ p < f
    <3> HIDE DEF p
    <3> QED
      BY <1>1, <2>1
  <2>3. prior = FramesTo(b, p)
    <3> HIDE DEF p
    <3> QED
      BY <1>1, <2>1, <2>2 DEF FramesTo
  <2>4. last \in {p, report} /\ p <= last /\ report <= last
    <3>1. IsFiniteSet(prior \cup {report}) /\ prior \cup {report} \in SUBSET Nat
      BY <1>2, FS_AddElement
    <3>2. last \in prior \cup {report} /\ \A g \in prior \cup {report} : g <= last
      <4> HIDE DEF prior
      <4> QED
        BY <3>1, MaxOfNats
    <3> HIDE DEF p, last
    <3>3. last \in prior => last = p
      BY <1>2, <2>1, <3>2
    <3> QED
      BY <2>1, <3>2, <3>3
  <2>5. A * Elapsed(report, f) = A * Elapsed(report, p) + earned
    <3>1. /\ A \in Nat /\ report \in Nat /\ p \in Nat /\ f \in Nat /\ p < f
          /\ last \in Nat /\ (last = p \/ last = report) /\ p <= last /\ report <= last
      <4> HIDE DEF p, last, A, prior
      <4> QED
        BY <1>1, <2>2, <2>4
    <3> HIDE DEF p, last, A, prior
    <3>2. AddsUp(A, report, p, f, last)
      BY <3>1, RewardsAddUp
    <3> QED
      BY <3>2, Zenon DEF AddsUp
  <2>6. w[p] = need - Income(s, report, p)
    BY <2>2
  <2> DEFINE x == SumOf(b, FramesTo(b, p))
             y == A * Elapsed(report, p)
  <2>7. x \in Int /\ y \in Int
    <3> HIDE DEF p
    <3> QED
      BY <2>2, IncomeTyped
  <2>8. Income(s, report, p) = x + y
    BY DEF Income
  <2>9. Income(s, report, f) = (b[f] + x) + (y + earned)
    <3>1. SumOf(b, FramesTo(b, f)) = b[f] + x
      BY <1>3, <2>3, Zenon
    <3> HIDE DEF earned, x, y, b
    <3> QED
      BY <2>5, <3>1 DEF Income, A, b, y
  <2>10. earned \in Int
    <3> HIDE DEF A, p
    <3>1. last \in Int
      <4> HIDE DEF last
      <4> QED
        BY <2>2, <2>4
    <3> HIDE DEF last
    <3>2. (f - last) * A \in Int
      BY <1>1, <3>1, Z3
    <3> QED
      BY <3>2
  <2> HIDE DEF earned, last, x, y, p
  <2>11. need - Income(s, report, f) = w[p] - b[f] - earned
    <3> HIDE DEF b, K, prior
    <3> QED
      BY <1>4, <2>6, <2>7, <2>8, <2>9, <2>10
  <2> QED
    BY <1>6, <2>11 DEF earned, last, p
<1> QED
  BY <1>5, <1>6

\* The recursion of the walk has one solution, the need less the income.
LEMMA WalkIsIncome ==
  ASSUME NEW s, IsSnapshot(s), ReportFrame \in Nat, NEW need \in Int
  PROVE  \A f \in DOMAIN s.balances : Walk(s, need)[f] = need - Income(s, ReportFrame, f)
<1> DEFINE K == DOMAIN s.balances
           from(w, f) == LET before == {g \in K : g < f}
                         IN  IF before = {} THEN need ELSE w[Max(before)]
           next(w, f) ==
             LET before == {g \in K : g < f}
                 last   == Max(before \cup {ReportFrame})
             IN  from(w, f) - s.balances[f]
                   - (IF f >= last THEN (f - last) * Available(s) ELSE 0)
           closed == [f \in K |-> need - Income(s, ReportFrame, f)]
           walk == Walk(s, need)
<1>1. ASSUME NEW f \in K, NEW w, \A g \in K : g < f => w[g] = need - Income(s, ReportFrame, g)
      PROVE  need - Income(s, ReportFrame, f) = next(w, f)
  BY <1>1, WalkStep
<1>2. closed = [f \in K |-> next(closed, f)]
  <2>1. \A g \in K : closed[g] = need - Income(s, ReportFrame, g)
    OBVIOUS
  <2>2. closed = [f \in K |-> need - Income(s, ReportFrame, f)]
    OBVIOUS
  <2> HIDE DEF closed, next
  <2>3. \A f \in K : need - Income(s, ReportFrame, f) = next(closed, f)
    BY <1>1, <2>1
  <2> QED
    BY <2>2, <2>3
<1>3. walk = CHOOSE w : w = [f \in K |-> next(w, f)]
  BY DEF Walk
<1>4. walk = [f \in K |-> next(walk, f)]
  <2> HIDE DEF closed, next, walk
  <2> QED
    BY <1>2, <1>3
<1>5. \A f \in K : walk[f] = next(walk, f)
  <2> HIDE DEF next, walk
  <2> QED
    BY <1>4
<1> DEFINE Bad == {f \in K : walk[f] # need - Income(s, ReportFrame, f)}
<1>6. ASSUME Bad # {} PROVE FALSE
  <2>1. Bad \in SUBSET Nat
    BY DEF IsSnapshot
  <2>2. PICK f \in Bad : \A g \in Bad : f <= g
    <3> HIDE DEF Bad
    <3> QED
      BY <1>6, <2>1, LeastOfNats
  <2>3. f \in K /\ walk[f] # need - Income(s, ReportFrame, f)
    OBVIOUS
  <2>4. \A g \in K : g < f => walk[g] = need - Income(s, ReportFrame, g)
    <3> SUFFICES ASSUME NEW g \in K, g < f, walk[g] # need - Income(s, ReportFrame, g) PROVE FALSE
      OBVIOUS
    <3>1. g \in Bad
      OBVIOUS
    <3>2. f \in Nat /\ g \in Nat /\ f <= g
      BY <2>1, <2>2, <3>1
    <3> QED
      BY <3>2
  <2>5. need - Income(s, ReportFrame, f) = next(walk, f)
    <3> HIDE DEF next, walk
    <3> QED
      BY <1>1, <2>3, <2>4
  <2> HIDE DEF next, walk
  <2> QED
    BY <1>5, <2>3, <2>5
<1> QED
  BY <1>6

\* The first frame whose income covers the need.
FirstCovered(s, report, need) ==
  LET covered == {f \in DOMAIN s.balances : Income(s, report, f) >= need}
  IN  IF covered = {} THEN NoFrame ELSE Min(covered)

LEMMA BalancesFrame ==
  ASSUME NEW s, IsSnapshot(s), ReportFrame \in Nat, NEW need \in Int
  PROVE  FrameByValidatorBalances(s, need) = FirstCovered(s, ReportFrame, need)
<1> DEFINE left == Walk(s, need)
<1>1. \A f \in DOMAIN s.balances : left[f] = need - Income(s, ReportFrame, f)
  BY WalkIsIncome
<1>2. \A f \in DOMAIN s.balances : Income(s, ReportFrame, f) \in Int
  BY IncomeTyped DEF IsSnapshot
<1>3. FrameByValidatorBalances(s, need)
        = LET covered == {f \in DOMAIN s.balances : left[f] <= 0}
          IN  IF covered = {} THEN NoFrame ELSE Min(covered)
  BY DEF FrameByValidatorBalances
<1> HIDE DEF left
<1>4. \A f \in DOMAIN s.balances : left[f] <= 0 <=> Income(s, ReportFrame, f) >= need
  <2> TAKE f \in DOMAIN s.balances
  <2>1. left[f] = need - Income(s, ReportFrame, f) /\ Income(s, ReportFrame, f) \in Int
    BY <1>1, <1>2
  <2> QED
    BY <2>1
<1>5. {f \in DOMAIN s.balances : left[f] <= 0}
        = {f \in DOMAIN s.balances : Income(s, ReportFrame, f) >= need}
  BY <1>4
<1> QED
  BY <1>3, <1>5, Zenon DEF FirstCovered

LEMMA FirstCoveredIsFirst ==
  ASSUME NEW s, IsSnapshot(s), NEW report, NEW need
  PROVE  LET end == FirstCovered(s, report, need)
         IN  \/ /\ end = NoFrame
                /\ \A f \in DOMAIN s.balances : ~(Income(s, report, f) >= need)
             \/ /\ end \in DOMAIN s.balances /\ end \in Nat \ {0} /\ Income(s, report, end) >= need
                /\ \A f \in DOMAIN s.balances : Income(s, report, f) >= need => end <= f
<1> DEFINE covered == {f \in DOMAIN s.balances : Income(s, report, f) >= need}
           m == Min(covered)
<1>1. CASE covered = {}
  BY <1>1 DEF FirstCovered
<1>2. CASE covered # {}
  <2>1. covered \in SUBSET Nat /\ DOMAIN s.balances \subseteq Nat \ {0}
    BY DEF IsSnapshot
  <2>2. m \in covered /\ \A f \in covered : m <= f
    <3> HIDE DEF covered
    <3> QED
      BY <1>2, <2>1, LeastOfNats DEF Min
  <2>3. FirstCovered(s, report, need) = m
    BY <1>2 DEF FirstCovered
  <2> HIDE DEF m
  <2>4. m \in DOMAIN s.balances /\ Income(s, report, m) >= need
    BY <2>2
  <2>5. m \in Nat \ {0}
    BY <2>1, <2>4
  <2>6. \A f \in DOMAIN s.balances : Income(s, report, f) >= need => m <= f
    BY <2>2
  <2> QED
    BY <2>3, <2>4, <2>5, <2>6
<1> QED
  BY <1>1, <1>2

\* calculateFrameByValidatorBalances: for any balances, any rewards and any need the
\* walk ends at the first frame that covers the need, or at none.
THEOREM WalkIsFirstCovered == Spec => []WalkFindsFirstCovered
<1>1. IInv => WalkFindsFirstCovered
  <2> SUFFICES ASSUME IInv PROVE WalkFindsFirstCovered
    OBVIOUS
  <2> DEFINE keys == DOMAIN st.balances
             income(f) == MapThenSumSet(LAMBDA g : st.balances[g], {g \in keys : g <= f})
                            + Available(st) * Max({0, f - ReportFrame})
             covers(f, need) == income(f) >= need
  <2>1. IsSnapshot(st) /\ ReportFrame \in Nat
    <3>1. st \in ProtocolStates /\ now \in Nat /\ now >= StartTime
      BY EstimateConstants DEF IInv
    <3> QED
      BY <3>1, SnapshotsAreTyped, ReportFrameBracket
  <2>2. \A f : income(f) = Income(st, ReportFrame, f)
    BY DEF Income, SumOf, FramesTo, Elapsed
  <2> HIDE DEF income
  <2>3. ASSUME NEW need \in 0..st.unfinalized
        PROVE  LET end == FrameByValidatorBalances(st, need)
               IN  IF end = NoFrame THEN \A f \in keys : ~covers(f, need)
                   ELSE /\ end \in keys /\ covers(end, need)
                        /\ \A f \in keys : f < end => ~covers(f, need)
    <3> DEFINE end == FrameByValidatorBalances(st, need)
    <3>1. need \in Int
      BY <2>1 DEF IsSnapshot
    <3>2. end = FirstCovered(st, ReportFrame, need)
      BY <2>1, <3>1, BalancesFrame
    <3>3. \A f \in keys : covers(f, need) <=> Income(st, ReportFrame, f) >= need
      BY <2>2
    <3> HIDE DEF end, covers
    <3>4. \/ /\ end = NoFrame
             /\ \A f \in keys : ~(Income(st, ReportFrame, f) >= need)
          \/ /\ end \in keys /\ end \in Nat \ {0} /\ Income(st, ReportFrame, end) >= need
             /\ \A f \in keys : Income(st, ReportFrame, f) >= need => end <= f
      BY <2>1, <3>2, FirstCoveredIsFirst
    <3>5. \A f \in keys : f \in Nat
      BY <2>1 DEF IsSnapshot
    <3>6. CASE end = NoFrame
      BY <3>3, <3>4, <3>6 DEF NoFrame, end
    <3>7. CASE end # NoFrame
      <4>1. /\ end \in keys /\ end \in Nat /\ covers(end, need)
            /\ \A f \in keys : covers(f, need) => end <= f
        BY <3>3, <3>4, <3>7
      <4>2. \A f \in keys : f < end => ~covers(f, need)
        <5> TAKE f \in keys
        <5>1. f \in Nat /\ (end <= f => ~(f < end))
          BY <3>5, <4>1
        <5> QED
          BY <4>1, <5>1
      <4> QED
        BY <3>7, <4>1, <4>2 DEF end
    <3> QED
      BY <3>6, <3>7
  <2>4. WalkFindsFirstCovered
    <3> HIDE DEF covers
    <3> QED
      BY <2>3 DEF WalkFindsFirstCovered, income, covers
  <2> QED
    BY <2>4
<1> QED
  BY <1>1, Invariance, PTL

(***************************************************************************)
(* Comparing forecasts: with more to wait for, fewer rewards or later, no  *)
(* case is forecast sooner.                                                *)
(***************************************************************************)
\* A case is no later than another one that applies.
NoLater(c, d) == d = NoFrame \/ (c # NoFrame /\ c <= d)

LEMMA DivMonotone ==
  ASSUME NEW a \in Nat, NEW b \in Nat, a <= b, NEW c \in Nat \ {0}, NEW d \in Nat \ {0}, d <= c
  PROVE  a \div c <= b \div d
<1> DEFINE q == a \div c
           p == b \div d
<1>1. q \in Nat /\ p \in Nat
  BY DivNat
<1>2. c * q <= a /\ b < d * p + d
  BY DivBounds
<1> HIDE DEF q, p
<1>3. d * q <= c * q /\ d * (p + 1) = d * p + d
  BY <1>1, Z3
<1>4. d * q \in Int /\ c * q \in Int /\ d * p \in Int
  BY <1>1, Z3
<1>5. d * q < d * (p + 1)
  BY <1>2, <1>3, <1>4
<1>6. q < p + 1
  BY <1>1, <1>5, Z3
<1> QED
  BY <1>1, <1>6 DEF q, p

LEMMA FramesInOrder ==
  ASSUME NEW e \in Int, NEW f \in Int, InitialEpoch <= e, e <= f
  PROVE  FrameOfEpoch(e) \in Nat /\ FrameOfEpoch(f) \in Nat /\ FrameOfEpoch(e) <= FrameOfEpoch(f)
<1>1. e - InitialEpoch \in Nat /\ f - InitialEpoch \in Nat /\ e - InitialEpoch <= f - InitialEpoch
  BY ClockTypes
<1>2. FrameOfEpoch(e) <= FrameOfEpoch(f)
  BY <1>1, ClockTypes, DivMonotone DEF FrameOfEpoch
<1>3. InitialEpoch <= f
  BY ClockTypes
<1> QED
  BY <1>2, <1>3, FramesSinceStart

\* s drains the queue no faster than t.
NoFaster(s, t) ==
  /\ IsSnapshot(s) /\ IsSnapshot(t)
  /\ t.balances = s.balances /\ t.exitPerEpoch = s.exitPerEpoch /\ t.cap = s.cap /\ t.sweep = s.sweep
  /\ Available(s) <= Available(t)

LEMMA RewardsNoFaster ==
  ASSUME NEW s, NEW t, NoFaster(s, t)
  PROVE  RewardsPerEpoch(s) <= RewardsPerEpoch(t)
<1>1. Available(s) \in Nat /\ Available(t) \in Nat /\ Available(s) <= Available(t)
  BY NettingIsNatural DEF NoFaster
<1> QED
  BY <1>1, ClockTypes, DivMonotone DEF RewardsPerEpoch

LEMMA IncomeNoFaster ==
  ASSUME NEW s, NEW t, NoFaster(s, t), NEW q \in Nat, NEW r \in Nat, q <= r, NEW f \in Nat
  PROVE  Income(s, r, f) <= Income(t, q, f)
<1> DEFINE x == SumOf(s.balances, FramesTo(s.balances, f))
           A == Available(s)
           B == Available(t)
           m == Elapsed(r, f)
           n == Elapsed(q, f)
<1>1. IsSnapshot(s) /\ IsSnapshot(t) /\ A <= B /\ A \in Nat /\ B \in Nat
  BY NettingIsNatural DEF NoFaster
<1>2. x \in Int /\ m \in Nat /\ n \in Nat
  BY <1>1, IncomeTyped
<1>3. m <= n
  BY DEF Elapsed, Max
<1>4. Income(s, r, f) = x + A * m
  BY DEF Income
<1>5. Income(t, q, f) = x + B * n
  BY DEF Income, NoFaster
<1> HIDE DEF A, B, m, n, x
<1>6. A * m <= B * n /\ A * m \in Int /\ B * n \in Int
  <2>1. A * m <= A * n
    BY <1>1, <1>2, <1>3, Z3
  <2>2. A * n <= B * n
    BY <1>1, <1>2, Z3
  <2>3. A * m \in Int /\ B * n \in Int /\ A * n \in Int
    BY <1>1, <1>2, Z3
  <2> QED
    BY <2>1, <2>2, <2>3
<1> QED
  BY <1>2, <1>4, <1>5, <1>6

LEMMA BalancesNoLater ==
  ASSUME NEW s, NEW t, NoFaster(s, t), NEW q \in Nat, NEW r \in Nat, q <= r,
         NEW m \in Nat, NEW n \in Nat, m <= n
  PROVE  NoLater(FirstCovered(t, q, m), FirstCovered(s, r, n))
<1> DEFINE c == FirstCovered(t, q, m)
           d == FirstCovered(s, r, n)
<1>1. IsSnapshot(s) /\ IsSnapshot(t) /\ t.balances = s.balances
  BY DEF NoFaster
<1>2. \/ c = NoFrame /\ \A f \in DOMAIN t.balances : ~(Income(t, q, f) >= m)
      \/ c # NoFrame /\ \A f \in DOMAIN t.balances : Income(t, q, f) >= m => c <= f
  BY <1>1, FirstCoveredIsFirst DEF NoFrame
<1>3. d = NoFrame \/ (d \in DOMAIN s.balances /\ d \in Nat /\ Income(s, r, d) >= n)
  BY <1>1, FirstCoveredIsFirst
<1> HIDE DEF c, d
<1>4. ASSUME d # NoFrame PROVE d \in DOMAIN t.balances /\ Income(t, q, d) >= m
  <2>1. d \in DOMAIN s.balances /\ d \in Nat /\ Income(s, r, d) >= n
    BY <1>3, <1>4
  <2>2. Income(s, r, d) \in Int /\ Income(t, q, d) \in Int
    BY <1>1, <2>1, IncomeTyped
  <2>3. Income(s, r, d) <= Income(t, q, d)
    BY <2>1, IncomeNoFaster
  <2> QED
    BY <1>1, <2>1, <2>2, <2>3
<1> QED
  BY <1>2, <1>4 DEF NoLater, c, d

\* The case of the rewards from an epoch on.
RewardsFrame(s, epoch, need) ==
  IF Available(s) = 0 THEN NoFrame ELSE FrameOfEpoch(epoch + need \div RewardsPerEpoch(s)) + 1

LEMMA RewardsNoLater ==
  ASSUME NEW s, NEW t, NoFaster(s, t), ~DividesByZero(s), ~DividesByZero(t),
         NEW e \in Int, NEW f \in Int, InitialEpoch <= e, e <= f,
         NEW m \in Nat, NEW n \in Nat, m <= n
  PROVE  NoLater(RewardsFrame(t, e, m), RewardsFrame(s, f, n))
<1>1. /\ Available(s) \in Nat /\ Available(t) \in Nat /\ Available(s) <= Available(t)
      /\ RewardsPerEpoch(s) \in Nat /\ RewardsPerEpoch(t) \in Nat
      /\ RewardsPerEpoch(s) <= RewardsPerEpoch(t)
  BY NettingIsNatural, RewardsNoFaster DEF NoFaster
<1>2. CASE Available(s) = 0
  BY <1>2 DEF NoLater, RewardsFrame
<1>3. CASE Available(s) # 0
  <2> DEFINE x == m \div RewardsPerEpoch(t)
             y == n \div RewardsPerEpoch(s)
  <2>1. Available(t) # 0 /\ RewardsPerEpoch(s) \in Nat \ {0} /\ RewardsPerEpoch(t) \in Nat \ {0}
    BY <1>1, <1>3 DEF DividesByZero
  <2>2. x \in Nat /\ y \in Nat /\ x <= y
    BY <1>1, <2>1, DivMonotone, DivNat
  <2>3. /\ RewardsFrame(t, e, m) = FrameOfEpoch(e + x) + 1
        /\ RewardsFrame(s, f, n) = FrameOfEpoch(f + y) + 1
    BY <1>3, <2>1 DEF RewardsFrame
  <2> HIDE DEF x, y
  <2>4. e + x \in Int /\ f + y \in Int /\ InitialEpoch <= e + x /\ e + x <= f + y
    BY <2>2, ClockTypes
  <2>5. /\ FrameOfEpoch(e + x) \in Nat /\ FrameOfEpoch(f + y) \in Nat
        /\ FrameOfEpoch(e + x) <= FrameOfEpoch(f + y)
    BY <2>4, FramesInOrder
  <2> QED
    BY <2>3, <2>5 DEF NoLater, NoFrame
<1> QED
  BY <1>2, <1>3

LEMMA ThroughputNoFaster ==
  ASSUME NEW s, NEW t, NoFaster(s, t)
  PROVE  ExitThroughput(s) \in Nat /\ ExitThroughput(t) \in Nat /\ ExitThroughput(s) <= ExitThroughput(t)
<1> DEFINE w == Min({s.exitPerEpoch * EpochsPerFrameVEBO, s.cap})
           x == RewardsPerEpoch(s) * EpochsPerFrameVEBO
           y == RewardsPerEpoch(t) * EpochsPerFrameVEBO
<1>1. /\ IsSnapshot(s) /\ IsSnapshot(t) /\ t.exitPerEpoch = s.exitPerEpoch /\ t.cap = s.cap
      /\ s.exitPerEpoch \in Nat /\ s.cap \in Nat /\ EpochsPerFrameVEBO \in Nat
      /\ RewardsPerEpoch(s) \in Nat /\ RewardsPerEpoch(t) \in Nat
      /\ RewardsPerEpoch(s) <= RewardsPerEpoch(t)
  BY EstimateConstants, NettingIsNatural, RewardsNoFaster DEF NoFaster, IsSnapshot
<1>2. ExitThroughput(s) = w + x /\ ExitThroughput(t) = w + y
  BY <1>1 DEF ExitThroughput
<1>3. x \in Nat /\ y \in Nat /\ x <= y
  <2> DEFINE a == RewardsPerEpoch(s)
             b == RewardsPerEpoch(t)
             v == EpochsPerFrameVEBO
  <2>1. a \in Nat /\ b \in Nat /\ v \in Nat /\ a <= b
    BY <1>1
  <2> HIDE DEF a, b, v
  <2>2. a * v \in Nat /\ b * v \in Nat /\ a * v <= b * v
    BY <2>1, Z3
  <2> QED
    BY <2>2 DEF a, b, v
<1>4. w \in Nat
  <2> DEFINE a == s.exitPerEpoch * EpochsPerFrameVEBO
             b == s.cap
  <2>1. a \in Nat /\ b \in Nat
    BY <1>1, Z3
  <2> HIDE DEF a, b
  <2>2. Min({a, b}) \in {a, b}
    <3>1. a \in Int /\ b \in Int
      BY <2>1
    <3> QED
      BY <3>1, ExtremesOfPair
  <2>3. Min({a, b}) \in Nat
    BY <2>1, <2>2
  <2> QED
    BY <2>3 DEF a, b
<1> HIDE DEF w, x, y
<1> QED
  BY <1>2, <1>3, <1>4

LEMMA ExitsNoLater ==
  ASSUME NEW s, NEW t, NoFaster(s, t),
         NEW e \in Int, NEW f \in Int, InitialEpoch <= e, e <= f,
         NEW m \in Nat, NEW n \in Nat, m <= n
  PROVE  NoLater(FrameByExitValidators(t, m, e), FrameByExitValidators(s, n, f))
<1> DEFINE a == ExitThroughput(t)
           b == ExitThroughput(s)
           v == EpochsPerFrameVEBO
           x == e + (m \div a + 1) * v + t.sweep
           y == f + (n \div b + 1) * v + s.sweep
<1>1. a \in Nat /\ b \in Nat /\ b <= a
  BY ThroughputNoFaster
<1>2. CASE b = 0
  BY <1>2 DEF NoLater, FrameByExitValidators
<1>3. CASE b # 0
  <2>1. a # 0 /\ a \in Nat \ {0} /\ b \in Nat \ {0}
    BY <1>1, <1>3
  <2>2. FrameByExitValidators(t, m, e) = FrameOfEpoch(x) + 1
    BY <2>1 DEF FrameByExitValidators
  <2>3. FrameByExitValidators(s, n, f) = FrameOfEpoch(y) + 1
    BY <2>1 DEF FrameByExitValidators
  <2>4. x \in Int /\ y \in Int /\ InitialEpoch <= x /\ x <= y
    <3> DEFINE c == m \div a
               d == n \div b
    <3>1. c \in Nat /\ d \in Nat /\ c <= d
      <4> HIDE DEF a, b
      <4> QED
        BY <1>1, <2>1, DivMonotone, DivNat
    <3>2. v \in Nat /\ s.sweep \in Nat /\ t.sweep = s.sweep
      BY EstimateConstants DEF NoFaster, IsSnapshot
    <3> HIDE DEF c, d, v
    <3>3. (c + 1) * v \in Nat /\ (d + 1) * v \in Nat /\ (c + 1) * v <= (d + 1) * v
      BY <3>1, <3>2, Z3
    <3>4. x = e + (c + 1) * v + s.sweep /\ y = f + (d + 1) * v + s.sweep
      BY <3>2 DEF c, d
    <3> HIDE DEF x, y
    <3> QED
      BY <3>2, <3>3, <3>4, ClockTypes
  <2> HIDE DEF x, y
  <2>5. FrameOfEpoch(x) \in Nat /\ FrameOfEpoch(y) \in Nat /\ FrameOfEpoch(x) <= FrameOfEpoch(y)
    BY <2>4, FramesInOrder
  <2> QED
    BY <2>2, <2>3, <2>5 DEF NoLater, NoFrame
<1> QED
  BY <1>2, <1>3

LEMMA SoonestNoLater ==
  ASSUME NEW c \in [1..3 -> [frame : Nat, type : ProjectedTypes]],
         NEW d \in [1..3 -> [frame : Nat, type : ProjectedTypes]],
         \A i \in 1..3 : NoLater(c[i].frame, d[i].frame), Soonest(d) # Failed
  PROVE  /\ Soonest(c) # Failed
         /\ Soonest(c).frame \in Nat /\ Soonest(d).frame \in Nat
         /\ Soonest(c).frame <= Soonest(d).frame
<1>1. PICK k \in 1..3 : Soonest(d) = d[k] /\ d[k].frame # NoFrame
  BY SoonestIsSmallest
<1>2. c[k].frame # NoFrame /\ c[k].frame <= d[k].frame
  BY <1>1 DEF NoLater
<1>3. PICK l \in 1..3 : /\ Soonest(c) = c[l] /\ c[l].frame # NoFrame
                        /\ \A j \in 1..3 : c[j].frame # NoFrame => c[l].frame <= c[j].frame
  BY <1>2, SoonestIsSmallest
<1>4. /\ c[l] \in [frame : Nat, type : ProjectedTypes] /\ c[k] \in [frame : Nat, type : ProjectedTypes]
      /\ d[k] \in [frame : Nat, type : ProjectedTypes]
  OBVIOUS
<1>5. c[l].frame \in Nat /\ c[k].frame \in Nat /\ d[k].frame \in Nat
  BY <1>4
<1>6. c[l].frame <= c[k].frame
  BY <1>2, <1>3
<1>7. Soonest(c) # Failed
  BY <1>3 DEF Failed
<1> QED
  BY <1>1, <1>2, <1>3, <1>5, <1>6, <1>7

\* The comparison of the three cases at given frames and epochs.
CasesAt(s, report, epoch, need, latest) ==
  << [frame |-> FirstCovered(s, report, need), type |-> "validatorBalances"],
     [frame |-> RewardsFrame(s, epoch, need), type |-> "rewardsOnly"],
     [frame |-> FrameByExitValidators(s, need, latest), type |-> "exitValidators"] >>

Projected(s, report, epoch, need, latest) ==
  IF DividesByZero(s) THEN Failed ELSE Soonest(CasesAt(s, report, epoch, need, latest))

LEMMA CasesTyped ==
  ASSUME NEW s, IsSnapshot(s), ~DividesByZero(s), NEW report \in Nat, NEW need \in Nat,
         NEW epoch \in Int, InitialEpoch <= epoch, NEW latest \in Int, InitialEpoch <= latest
  PROVE  CasesAt(s, report, epoch, need, latest) \in [1..3 -> [frame : Nat, type : ProjectedTypes]]
<1>1. FirstCovered(s, report, need) \in Nat
  BY FirstCoveredIsFirst DEF NoFrame
<1>2. NoFaster(s, s)
  <2>1. Available(s) \in Nat
    BY NettingIsNatural
  <2> QED
    BY <2>1 DEF NoFaster
<1>3. RewardsFrame(s, epoch, need) \in Nat
  <2>1. CASE Available(s) = 0
    BY <2>1 DEF RewardsFrame, NoFrame
  <2>2. CASE Available(s) # 0
    <3> DEFINE x == need \div RewardsPerEpoch(s)
    <3>1. RewardsPerEpoch(s) \in Nat \ {0}
      BY <2>2, NettingIsNatural DEF DividesByZero
    <3>2. x \in Nat
      BY <3>1, DivNat
    <3>3. RewardsFrame(s, epoch, need) = FrameOfEpoch(epoch + x) + 1
      BY <2>2 DEF RewardsFrame
    <3> HIDE DEF x
    <3>4. FrameOfEpoch(epoch + x) \in Nat
      BY <3>2, ClockTypes, FramesSinceStart
    <3> QED
      BY <3>3, <3>4
  <2> QED
    BY <2>1, <2>2
<1>4. FrameByExitValidators(s, need, latest) \in Nat
  <2> DEFINE a == ExitThroughput(s)
             x == latest + (need \div a + 1) * EpochsPerFrameVEBO + s.sweep
  <2>1. a \in Nat
    BY <1>2, ThroughputNoFaster
  <2>2. CASE a = 0
    BY <2>2 DEF FrameByExitValidators, NoFrame
  <2>3. CASE a # 0
    <3>1. FrameByExitValidators(s, need, latest) = FrameOfEpoch(x) + 1
      BY <2>3 DEF FrameByExitValidators
    <3>2. x \in Int /\ InitialEpoch <= x
      <4> DEFINE c == need \div a
                 v == EpochsPerFrameVEBO
      <4>1. c \in Nat
        <5> HIDE DEF a
        <5> QED
          BY <2>1, <2>3, DivNat
      <4>2. v \in Nat /\ s.sweep \in Nat
        BY EstimateConstants DEF IsSnapshot
      <4> HIDE DEF c, v
      <4>3. (c + 1) * v \in Nat
        BY <4>1, <4>2, Z3
      <4>4. x = latest + (c + 1) * v + s.sweep
        BY DEF c, v
      <4> HIDE DEF x
      <4> QED
        BY <4>2, <4>3, <4>4, ClockTypes
    <3> HIDE DEF x
    <3>3. FrameOfEpoch(x) \in Nat
      BY <3>2, FramesSinceStart
    <3> QED
      BY <3>1, <3>3
  <2> QED
    BY <2>2, <2>3
<1> DEFINE c1 == FirstCovered(s, report, need)
           c2 == RewardsFrame(s, epoch, need)
           c3 == FrameByExitValidators(s, need, latest)
<1> HIDE DEF c1, c2, c3
<1>5. << [frame |-> c1, type |-> "validatorBalances"], [frame |-> c2, type |-> "rewardsOnly"],
         [frame |-> c3, type |-> "exitValidators"] >> \in [1..3 -> [frame : Nat, type : ProjectedTypes]]
  BY <1>1, <1>3, <1>4 DEF c1, c2, c3, ProjectedTypes
<1> QED
  BY <1>5, Zenon DEF CasesAt, c1, c2, c3

LEMMA ProjectedNoLater ==
  ASSUME NEW s, NEW t, NoFaster(s, t), ~DividesByZero(t),
         NEW q \in Nat, NEW r \in Nat, q <= r,
         NEW e \in Int, NEW f \in Int, InitialEpoch <= e, e <= f,
         NEW g \in Int, NEW h \in Int, InitialEpoch <= g, g <= h,
         NEW m \in Nat, NEW n \in Nat, m <= n,
         Projected(s, r, f, n, h) # Failed
  PROVE  /\ Projected(t, q, e, m, g) # Failed
         /\ Projected(t, q, e, m, g).frame \in Nat /\ Projected(s, r, f, n, h).frame \in Nat
         /\ Projected(t, q, e, m, g).frame <= Projected(s, r, f, n, h).frame
<1> DEFINE c == CasesAt(t, q, e, m, g)
           d == CasesAt(s, r, f, n, h)
<1>1. ~DividesByZero(s) /\ IsSnapshot(s) /\ IsSnapshot(t) /\ InitialEpoch <= f /\ InitialEpoch <= h
  <2>1. InitialEpoch <= f /\ InitialEpoch <= h
    BY ClockTypes
  <2> QED
    BY <2>1 DEF Projected, NoFaster
<1>2. Projected(t, q, e, m, g) = Soonest(c) /\ Projected(s, r, f, n, h) = Soonest(d)
  BY <1>1 DEF Projected
<1>3. /\ c \in [1..3 -> [frame : Nat, type : ProjectedTypes]]
      /\ d \in [1..3 -> [frame : Nat, type : ProjectedTypes]]
  BY <1>1, CasesTyped
<1>4. /\ c[1].frame = FirstCovered(t, q, m) /\ d[1].frame = FirstCovered(s, r, n)
      /\ c[2].frame = RewardsFrame(t, e, m) /\ d[2].frame = RewardsFrame(s, f, n)
      /\ c[3].frame = FrameByExitValidators(t, m, g) /\ d[3].frame = FrameByExitValidators(s, n, h)
  BY DEF CasesAt
<1>5. /\ NoLater(FirstCovered(t, q, m), FirstCovered(s, r, n))
      /\ NoLater(RewardsFrame(t, e, m), RewardsFrame(s, f, n))
      /\ NoLater(FrameByExitValidators(t, m, g), FrameByExitValidators(s, n, h))
  BY <1>1, BalancesNoLater, RewardsNoLater, ExitsNoLater
<1> HIDE DEF c, d
<1>6. \A i \in 1..3 : NoLater(c[i].frame, d[i].frame)
  <2>1. \A i \in 1..3 : i = 1 \/ i = 2 \/ i = 3
    OBVIOUS
  <2> QED
    BY <1>4, <1>5, <2>1, Zenon
<1> QED
  BY <1>2, <1>3, <1>6, SoonestNoLater

\* calculateWithdrawalFrame case by case.
LEMMA ForecastCases ==
  ASSUME NEW s, IsSnapshot(s), NEW n \in Nat, NEW requestedAt, NEW latest, ReportFrame \in Nat
  PROVE  Forecast(s, n, requestedAt, latest) =
           IF s.bunker THEN Bunker
           ELSE IF s.buffer > n THEN ByBuffer("buffer", requestedAt)
           ELSE IF s.buffer + s.vaults > n THEN ByBuffer("vaultsBalance", requestedAt)
           ELSE Projected(s, ReportFrame, CurrentEpoch, n - (s.buffer + s.vaults), latest)
<1> DEFINE f == Forecast(s, n, requestedAt, latest)
           full == s.buffer + s.vaults
<1>1. s.buffer \in Nat /\ s.vaults \in Nat /\ s.bunker \in BOOLEAN
  BY DEF IsSnapshot
<1>2. CASE s.bunker
  BY <1>2 DEF Forecast
<1>3. CASE ~s.bunker /\ s.buffer > n
  <2>1. ~(s.buffer <= n)
    BY <1>1, <1>3
  <2> QED
    BY <1>3, <2>1 DEF Forecast
<1>4. CASE ~s.bunker /\ ~(s.buffer > n) /\ full > n
  <2>1. s.buffer <= n
    BY <1>1, <1>4
  <2> QED
    BY <1>4, <2>1 DEF Forecast
<1>5. CASE ~s.bunker /\ ~(s.buffer > n) /\ ~(full > n)
  <2>1. f = IF DividesByZero(s) THEN Failed ELSE Soonest(Cases(s, n - full, latest))
    BY <1>5 DEF Forecast
  <2>2. n - full \in Int
    BY <1>1
  <2>3. FrameByValidatorBalances(s, n - full) = FirstCovered(s, ReportFrame, n - full)
    <3> HIDE DEF full
    <3> QED
      BY <2>2, BalancesFrame
  <2>4. FrameByRewardsOnly(s, n - full) = RewardsFrame(s, CurrentEpoch, n - full)
    BY DEF FrameByRewardsOnly, RewardsFrame
  <2>5. Cases(s, n - full, latest) = CasesAt(s, ReportFrame, CurrentEpoch, n - full, latest)
    BY <2>3, <2>4, Zenon DEF Cases, CasesAt
  <2>6. f = Projected(s, ReportFrame, CurrentEpoch, n - full, latest)
    BY <2>1, <2>5, Zenon DEF Projected
  <2> HIDE DEF f
  <2> QED
    BY <1>5, <2>6 DEF f
<1> QED
  BY <1>2, <1>3, <1>4, <1>5

\* A snapshot without the reserve's claim.
LEMMA WithoutClaim ==
  ASSUME NEW s \in ProtocolStates
  PROVE  LET unclaimed == [s EXCEPT !.target = 0]
         IN  /\ NoFaster(s, unclaimed)
             /\ unclaimed.unfinalized = s.unfinalized /\ unclaimed.buffer = s.buffer
             /\ unclaimed.vaults = s.vaults /\ unclaimed.bunker = s.bunker
             /\ unclaimed.maxExit = s.maxExit
<1> DEFINE u == [s EXCEPT !.target = 0]
<1>1. /\ u.unfinalized = s.unfinalized /\ u.buffer = s.buffer /\ u.vaults = s.vaults
      /\ u.rewards = s.rewards /\ u.target = 0 /\ u.balances = s.balances
      /\ u.exitPerEpoch = s.exitPerEpoch /\ u.cap = s.cap /\ u.sweep = s.sweep
      /\ u.maxExit = s.maxExit /\ u.bunker = s.bunker
  BY SnapshotTypes
<1>2. IsSnapshot(s)
  BY SnapshotsAreTyped
<1> HIDE DEF u
<1>3. IsSnapshot(u)
  BY <1>1, <1>2 DEF IsSnapshot
<1>4. Available(s) <= Available(u)
  <2>1. s.rewards \in Int /\ s.target \in Nat
    BY <1>2 DEF IsSnapshot
  <2>2. Available(u) = s.rewards - (IF 0 > s.rewards THEN s.rewards ELSE 0)
    BY <1>1 DEF Available
  <2> QED
    BY <2>1, <2>2 DEF Available
<1> QED
  BY <1>1, <1>2, <1>3, <1>4 DEF NoFaster, u

\* The same question of a slower and a faster snapshot.
LEMMA SlowerIsNotSooner ==
  ASSUME NEW s, NEW t, NoFaster(s, t), now \in Nat, now >= StartTime,
         t.buffer = s.buffer, t.vaults = s.vaults, t.bunker = s.bunker,
         NEW m \in Nat, NEW n \in Nat, m <= n, m = n \/ s.buffer + s.vaults <= m,
         NEW requestedAt \in Nat, NEW latest \in Int, InitialEpoch <= latest,
         Forecast(s, n, requestedAt, latest) # Failed
  PROVE  Forecast(t, m, requestedAt, latest).frame <= Forecast(s, n, requestedAt, latest).frame
<1> DEFINE full == s.buffer + s.vaults
           c == Forecast(t, m, requestedAt, latest)
           d == Forecast(s, n, requestedAt, latest)
           a == Projected(t, ReportFrame, CurrentEpoch, m - full, latest)
           b == Projected(s, ReportFrame, CurrentEpoch, n - full, latest)
<1>1. /\ IsSnapshot(s) /\ IsSnapshot(t) /\ s.buffer \in Nat /\ s.vaults \in Nat /\ s.bunker \in BOOLEAN
  BY DEF NoFaster, IsSnapshot
<1>2. /\ CurrentFrame \in Nat \ {0} /\ ReportFrame \in Nat
      /\ CurrentEpoch \in Nat /\ InitialEpoch <= CurrentEpoch
  BY ReportFrameBracket, EpochsSinceStart, ClockTypes DEF CurrentEpoch
<1>3. c = IF s.bunker THEN Bunker
          ELSE IF s.buffer > m THEN ByBuffer("buffer", requestedAt)
          ELSE IF full > m THEN ByBuffer("vaultsBalance", requestedAt)
          ELSE a
  BY <1>1, <1>2, ForecastCases
<1>4. d = IF s.bunker THEN Bunker
          ELSE IF s.buffer > n THEN ByBuffer("buffer", requestedAt)
          ELSE IF full > n THEN ByBuffer("vaultsBalance", requestedAt)
          ELSE b
  BY <1>1, <1>2, ForecastCases
<1>5. d # Failed
  OBVIOUS
<1>6. \A type : ByBuffer(type, requestedAt).frame \in Int
  BY <1>2 DEF ByBuffer
<1>7. Bunker.frame \in Int
  BY <1>2, EstimateConstants DEF Bunker
<1> HIDE DEF c, d, a, b
<1>8. CASE s.bunker
  <2>1. c = Bunker /\ d = Bunker
    BY <1>3, <1>4, <1>8
  <2>2. d.frame \in Int /\ c.frame = d.frame
    BY <1>7, <2>1
  <2> QED
    BY <2>2 DEF c, d
<1>9. CASE ~s.bunker /\ full > n
  <2>1. m = n
    BY <1>1, <1>9
  <2>2. c = d /\ (d = ByBuffer("buffer", requestedAt) \/ d = ByBuffer("vaultsBalance", requestedAt))
    BY <1>3, <1>4, <1>9, <2>1
  <2>3. d.frame \in Int /\ c.frame = d.frame
    BY <1>6, <2>2
  <2> QED
    BY <2>3 DEF c, d
<1>10. CASE ~s.bunker /\ ~(full > n)
  <2>1. ~(full > m) /\ ~(s.buffer > n) /\ ~(s.buffer > m) /\ m - full \in Nat /\ n - full \in Nat
        /\ m - full <= n - full
    BY <1>1, <1>10
  <2>2. c = a /\ d = b
    BY <1>3, <1>4, <1>10, <2>1
  <2>3. CASE DividesByZero(t)
    <3>1. a.frame = 0
      BY <2>3 DEF a, Projected, Failed, NoFrame
    <3>2. b.frame \in Nat
      <4>1. ~DividesByZero(s)
        BY <1>5, <2>2 DEF b, Projected
      <4>2. CasesAt(s, ReportFrame, CurrentEpoch, n - full, latest)
              \in [1..3 -> [frame : Nat, type : ProjectedTypes]]
        <5> DEFINE k == n - full
        <5>1. /\ k \in Nat /\ ReportFrame \in Nat /\ CurrentEpoch \in Int /\ InitialEpoch <= CurrentEpoch
              /\ latest \in Int /\ InitialEpoch <= latest /\ IsSnapshot(s) /\ ~DividesByZero(s)
          BY <1>1, <1>2, <2>1, <4>1
        <5> HIDE DEF k
        <5>2. CasesAt(s, ReportFrame, CurrentEpoch, k, latest)
                \in [1..3 -> [frame : Nat, type : ProjectedTypes]]
          BY <5>1, CasesTyped
        <5> QED
          BY <5>2 DEF k
      <4> DEFINE cases == CasesAt(s, ReportFrame, CurrentEpoch, n - full, latest)
      <4>3. b = Soonest(cases)
        BY <4>1 DEF b, Projected
      <4> HIDE DEF cases
      <4>4. Soonest(cases) = Failed \/ Soonest(cases) \in [frame : Nat \ {0}, type : ProjectedTypes]
        BY <4>2, SoonestIsACase DEF cases
      <4> QED
        BY <1>5, <2>2, <4>3, <4>4
    <3> QED
      BY <2>2, <3>1, <3>2 DEF c, d
  <2>4. CASE ~DividesByZero(t)
    <3>1. NoFaster(s, s)
      BY <1>1, NettingIsNatural DEF NoFaster
    <3>2. b # Failed
      BY <1>5, <2>2
    <3> HIDE DEF full
    <3>3. a.frame <= b.frame
      BY <1>2, <2>1, <2>4, <3>2, ProjectedNoLater DEF a, b
    <3> QED
      BY <2>2, <3>3 DEF c, d
  <2> QED
    BY <2>3, <2>4
<1> QED
  BY <1>8, <1>9, <1>10 DEF c, d

\* calculateWithdrawalFrame: neither a claim of the deposits reserve on the rewards
\* nor a larger amount beyond the full buffer brings a forecast forward, for any
\* snapshots, balances, rewards and limits, although the smallest of three cases
\* computed in different ways is taken.
THEOREM MoreToWaitFor == Spec => []MoreIsNotSooner
<1>1. IInv => MoreIsNotSooner
  <2> SUFFICES ASSUME IInv PROVE MoreIsNotSooner
    OBVIOUS
  <2>1. /\ now \in Nat /\ now >= StartTime /\ st \in ProtocolStates
        /\ IsSnapshot(st) /\ st.unfinalized \in Nat /\ Amounts \subseteq Nat
    BY EstimateConstants, SnapshotsAreTyped DEF IInv, IsSnapshot
  <2>2. MaxExitEpoch(st) \in Int /\ InitialEpoch <= MaxExitEpoch(st)
    BY <2>1, ExitEpochs, ClockTypes
  <2>3. NettingNeverHastens
    <3> DEFINE u == [st EXCEPT !.target = 0]
    <3>1. /\ NoFaster(st, u) /\ u.unfinalized = st.unfinalized /\ u.buffer = st.buffer
          /\ u.vaults = st.vaults /\ u.bunker = st.bunker /\ u.maxExit = st.maxExit
      BY <2>1, WithoutClaim
    <3> HIDE DEF u
    <3>2. ASSUME NEW amount \in Amounts, ForecastNow(st, amount) # Failed
          PROVE  ForecastNow(st, amount).frame >= ForecastNow(u, amount).frame
      <4> DEFINE n == st.unfinalized + amount
                 c == Forecast(u, n, now, MaxExitEpoch(st)).frame
                 d == Forecast(st, n, now, MaxExitEpoch(st)).frame
      <4>1. n \in Nat
        BY <2>1
      <4>2. MaxExitEpoch(u) = MaxExitEpoch(st)
        BY <3>1 DEF MaxExitEpoch
      <4>3. ForecastNow(u, amount).frame = c /\ ForecastNow(st, amount).frame = d
        BY <3>1, <4>2 DEF ForecastNow
      <4>4. Forecast(st, n, now, MaxExitEpoch(st)) # Failed
        BY <3>2 DEF ForecastNow
      <4> HIDE DEF n
      <4>5. c <= d
        BY <2>1, <2>2, <3>1, <4>1, <4>4, SlowerIsNotSooner
      <4> HIDE DEF c, d
      <4> QED
        BY <4>3, <4>5
    <3> QED
      BY <3>2 DEF NettingNeverHastens, u
  <2>4. LargerIsNotSooner
    <3>1. NoFaster(st, st)
      BY <2>1, NettingIsNatural DEF NoFaster
    <3>2. ASSUME NEW small \in Amounts, NEW large \in Amounts, small <= large,
                 st.unfinalized + small >= st.buffer + st.vaults, ForecastNow(st, large) # Failed
          PROVE  ForecastNow(st, small).frame <= ForecastNow(st, large).frame
      <4> DEFINE m == st.unfinalized + small
                 n == st.unfinalized + large
      <4>1. st.buffer \in Nat /\ st.vaults \in Nat
        BY <2>1 DEF IsSnapshot
      <4>2. m \in Nat /\ n \in Nat /\ m <= n /\ st.buffer + st.vaults <= m
        BY <2>1, <3>2, <4>1
      <4>3. ForecastNow(st, small) = Forecast(st, m, now, MaxExitEpoch(st))
        BY DEF ForecastNow
      <4>4. ForecastNow(st, large) = Forecast(st, n, now, MaxExitEpoch(st))
        BY DEF ForecastNow
      <4> HIDE DEF m, n
      <4> QED
        BY <2>1, <2>2, <3>1, <3>2, <4>2, <4>3, <4>4, SlowerIsNotSooner
    <3> QED
      BY <3>2 DEF LargerIsNotSooner
  <2> QED
    BY <2>3, <2>4 DEF MoreIsNotSooner
<1> QED
  BY <1>1, Invariance, PTL

(***************************************************************************)
(* Polling: the forecast of a moment, as an operator of the moment.        *)
(***************************************************************************)
CurrentFrameAt(t) == FrameOfEpoch(EpochAt(t))
ReportFrameAt(t) ==
  IF FrameAt(t - Gap) = CurrentFrameAt(t) THEN CurrentFrameAt(t) ELSE CurrentFrameAt(t) - 1
MaxExitEpochAt(t, s) == Max({s.maxExit, EpochAt(t) + SeedLookahead + 1})

\* The report a request placed at that moment waits for.
NextReportAt(t) ==
  IF TimeToFrame(ReportFrameAt(t) + 1, t) < Margin THEN ReportFrameAt(t) + 2 ELSE ReportFrameAt(t) + 1

ForecastAt(t, s, n) ==
  IF s.bunker THEN [frame |-> CurrentFrameAt(t) + BunkerFrames, type |-> "bunker"]
  ELSE IF s.buffer + s.vaults > n
  THEN [frame |-> NextReportAt(t),
        type  |-> IF TimeToFrame(ReportFrameAt(t) + 1, t) < Margin THEN "requestTimestampMargin"
                  ELSE IF s.buffer > n THEN "buffer" ELSE "vaultsBalance"]
  ELSE Projected(s, ReportFrameAt(t), EpochAt(t), n - (s.buffer + s.vaults), MaxExitEpochAt(t, s))

LEMMA ForecastOfNow ==
  ASSUME NEW s, IsSnapshot(s), NEW n \in Nat, now \in Nat, now >= StartTime
  PROVE  Forecast(s, n, now, MaxExitEpoch(s)) = ForecastAt(now, s, n)
<1> DEFINE f == Forecast(s, n, now, MaxExitEpoch(s))
           a == Projected(s, ReportFrame, CurrentEpoch, n - (s.buffer + s.vaults), MaxExitEpoch(s))
<1>1. s.buffer \in Nat /\ s.vaults \in Nat
  BY DEF IsSnapshot
<1>2. ReportFrame \in Nat
  BY ReportFrameBracket
<1>3. f = IF s.bunker THEN Bunker
          ELSE IF s.buffer > n THEN ByBuffer("buffer", now)
          ELSE IF s.buffer + s.vaults > n THEN ByBuffer("vaultsBalance", now)
          ELSE a
  BY <1>2, ForecastCases
<1>4. CurrentEpoch = EpochAt(now) /\ CurrentFrame = CurrentFrameAt(now)
  BY DEF CurrentEpoch, CurrentFrame, CurrentFrameAt
<1>5. ReportFrame = ReportFrameAt(now)
  BY <1>4 DEF ReportFrame, ReportFrameAt
<1>6. MaxExitEpoch(s) = MaxExitEpochAt(now, s)
  BY <1>4, Zenon DEF MaxExitEpoch, MaxExitEpochAt
<1>7. a = Projected(s, ReportFrameAt(now), EpochAt(now), n - (s.buffer + s.vaults), MaxExitEpochAt(now, s))
  BY <1>4, <1>5, <1>6, Zenon
<1>8. Bunker = [frame |-> CurrentFrameAt(now) + BunkerFrames, type |-> "bunker"]
  BY <1>4 DEF Bunker
<1>9. \A type : ByBuffer(type, now) =
         [frame |-> NextReportAt(now),
          type  |-> IF TimeToFrame(ReportFrameAt(now) + 1, now) < Margin
                    THEN "requestTimestampMargin" ELSE type]
  BY <1>5 DEF ByBuffer, IsPostponed, NextReportAt
<1> HIDE DEF f, a
<1>10. s.buffer > n => s.buffer + s.vaults > n
  BY <1>1
<1> QED
  BY <1>3, <1>7, <1>8, <1>9, <1>10 DEF ForecastAt, f

LEMMA ReportsInOrder ==
  ASSUME NEW f \in Int, NEW g \in Int, ReportTime(f) < ReportTime(g)
  PROVE  f < g
<1> DEFINE l == FrameLength
<1>1. l \in Nat \ {0} /\ InitialEpoch * EpochLength \in Nat /\ Genesis \in Nat
  BY ClockTypes
<1>2. /\ ReportTime(f) = Genesis + InitialEpoch * EpochLength + l * f
      /\ ReportTime(g) = Genesis + InitialEpoch * EpochLength + l * g
  BY ReportTimes
<1> HIDE DEF l
<1>3. l * f \in Int /\ l * g \in Int
  BY <1>1
<1>4. l * f < l * g
  BY <1>1, <1>2, <1>3
<1> QED
  BY <1>1, <1>4, Z3

LEMMA ReportsKeepOrder ==
  ASSUME NEW f \in Int, NEW g \in Int, f <= g
  PROVE  ReportTime(f) <= ReportTime(g)
<1>1. ReportTime(f) \in Int /\ ReportTime(g) \in Int
  BY ReportTimes
<1>2. ~(ReportTime(g) < ReportTime(f))
  BY ReportsInOrder
<1> QED
  BY <1>1, <1>2

\* The frames and epochs of a moment after the start.
LEMMA MomentTyped ==
  ASSUME NEW t \in Nat, StartTime <= t
  PROVE  /\ EpochAt(t) \in Nat /\ InitialEpoch <= EpochAt(t)
         /\ CurrentFrameAt(t) \in Nat \ {0} /\ ReportFrameAt(t) \in Nat
         /\ ReportTime(CurrentFrameAt(t)) <= t
         /\ ReportTime(ReportFrameAt(t)) <= t - Gap /\ t - Gap < ReportTime(ReportFrameAt(t) + 1)
<1> DEFINE c == CurrentFrameAt(t)
<1>1. /\ Gap \in Nat /\ Margin \in Nat /\ StartTime \in Nat
      /\ StartTime >= ReportTime(1) /\ Gap + Margin <= FrameLength
  BY EstimateConstants
<1>2. c = FrameAt(t)
  BY FramesAgree DEF CurrentFrameAt
<1>3. c \in Int /\ ReportTime(c) <= t /\ t < ReportTime(c + 1)
  BY <1>2, NextReportIsAhead
<1> HIDE DEF c
<1>4. c \in Nat \ {0}
  <2>1. ReportTime(1) < ReportTime(c + 1)
    BY <1>1, <1>3, ReportTimes
  <2>2. 1 < c + 1
    BY <1>3, <2>1, ReportsInOrder
  <2> QED
    BY <1>3, <2>2
<1>5. EpochAt(t) \in Nat /\ InitialEpoch <= EpochAt(t)
  BY EpochsSinceStart, ClockTypes
<1>6. /\ ReportFrameAt(t) \in Nat
      /\ ReportTime(ReportFrameAt(t)) <= t - Gap /\ t - Gap < ReportTime(ReportFrameAt(t) + 1)
  <2>1. t - Gap \in Int /\ t - Gap <= t
    BY <1>1
  <2>2. CASE FrameAt(t - Gap) = c
    <3>1. ReportFrameAt(t) = c
      BY <2>2 DEF ReportFrameAt, c
    <3> QED
      BY <1>4, <2>1, <2>2, <3>1, NextReportIsAhead
  <2>3. CASE FrameAt(t - Gap) # c
    <3>1. ReportFrameAt(t) = c - 1
      BY <2>3 DEF ReportFrameAt, c
    <3>2. ReportTime(c) \in Int /\ ReportTime(c + 1) = ReportTime(c) + FrameLength
          /\ ReportTime(c - 1) = ReportTime(c) - FrameLength
      BY <1>3, ReportTimes
    <3>3. ReportTime(c) <= t - Gap => FrameAt(t - Gap) = c
      BY <1>3, <2>1, <3>2, ClockTypes, FrameUnique
    <3>4. t - Gap < ReportTime(c)
      BY <2>1, <2>3, <3>2, <3>3
    <3>5. ReportTime(c - 1) <= t - Gap
      BY <1>1, <1>3, <3>2, ClockTypes
    <3>6. c - 1 \in Nat /\ (c - 1) + 1 = c
      BY <1>4
    <3> QED
      BY <3>1, <3>4, <3>5, <3>6
  <2> QED
    BY <2>2, <2>3
<1> QED
  BY <1>3, <1>4, <1>5, <1>6 DEF c

LEMMA MomentsInOrder ==
  ASSUME NEW t \in Nat, NEW u \in Nat, StartTime <= t, t <= u
  PROVE  /\ EpochAt(t) <= EpochAt(u) /\ CurrentFrameAt(t) <= CurrentFrameAt(u)
         /\ ReportFrameAt(t) <= ReportFrameAt(u) /\ NextReportAt(t) <= NextReportAt(u)
<1>1. StartTime <= u /\ StartTime \in Nat
  BY EstimateConstants
<1>2. /\ EpochAt(t) \in Nat /\ InitialEpoch <= EpochAt(t)
      /\ ReportFrameAt(t) \in Nat /\ ReportTime(ReportFrameAt(t)) <= t - Gap
      /\ t - Gap < ReportTime(ReportFrameAt(t) + 1)
  BY MomentTyped
<1>3. /\ EpochAt(u) \in Nat
      /\ ReportFrameAt(u) \in Nat /\ ReportTime(ReportFrameAt(u)) <= u - Gap
      /\ u - Gap < ReportTime(ReportFrameAt(u) + 1)
  BY <1>1, MomentTyped
<1>4. EpochAt(t) <= EpochAt(u)
  <2>1. ReportTime(1) = Genesis + InitialEpoch * EpochLength + FrameLength * 1
    BY ReportTimes
  <2>2. t - Genesis \in Nat /\ u - Genesis \in Nat /\ t - Genesis <= u - Genesis
    BY <1>1, <2>1, ClockTypes, EstimateConstants
  <2> QED
    BY <2>2, ClockTypes, DivMonotone DEF EpochAt
<1>5. CurrentFrameAt(t) <= CurrentFrameAt(u)
  <2>1. EpochAt(t) \in Int /\ EpochAt(u) \in Int
    BY <1>2, <1>3
  <2> QED
    BY <1>2, <1>4, <2>1, FramesInOrder DEF CurrentFrameAt
<1> DEFINE q == ReportFrameAt(t)
           r == ReportFrameAt(u)
<1>6. q <= r
  <2>1. Gap \in Nat /\ ReportTime(q) \in Int /\ ReportTime(r + 1) \in Int
    BY <1>2, <1>3, ReportTimes, EstimateConstants
  <2>2. ReportTime(q) < ReportTime(r + 1)
    BY <1>2, <1>3, <2>1
  <2> HIDE DEF q, r
  <2>3. q \in Nat /\ r \in Nat
    BY <1>2, <1>3 DEF q, r
  <2>4. q < r + 1
    BY <2>2, <2>3, ReportsInOrder
  <2> QED
    BY <2>3, <2>4
<1>7. NextReportAt(t) <= NextReportAt(u)
  <2>1. /\ NextReportAt(t) = IF TimeToFrame(q + 1, t) < Margin THEN q + 2 ELSE q + 1
        /\ NextReportAt(u) = IF TimeToFrame(r + 1, u) < Margin THEN r + 2 ELSE r + 1
    BY DEF NextReportAt
  <2>2. q \in Nat /\ r \in Nat
    BY <1>2, <1>3
  <2> HIDE DEF q, r
  <2>3. CASE q = r
    <3>1. ReportTime(q + 1) \in Int /\ Margin \in Nat
      BY <2>2, ReportTimes, EstimateConstants
    <3>2. TimeToFrame(q + 1, t) < Margin => TimeToFrame(r + 1, u) < Margin
      <4>1. TimeToFrame(q + 1, t) \in Int /\ TimeToFrame(q + 1, u) \in Int
        <5>1. q + 1 \in Int /\ t \in Int /\ u \in Int
          BY <2>2
        <5> QED
          BY <5>1, TimeLeft
      <4>2. TimeToFrame(q + 1, u) <= TimeToFrame(q + 1, t)
        BY <3>1, RoundedInOrder DEF TimeToFrame
      <4> QED
        BY <2>3, <3>1, <4>1, <4>2
    <3> QED
      BY <2>1, <2>2, <2>3, <3>2
  <2>4. CASE q # r
    <3>1. q + 1 <= r
      BY <1>6, <2>2, <2>4
    <3> QED
      BY <2>1, <2>2, <3>1
  <2> QED
    BY <2>3, <2>4
<1> QED
  BY <1>4, <1>5, <1>6, <1>7 DEF q, r

\* From one snapshot, no forecast is taken back as time passes.
LEMMA ForecastsInOrder ==
  ASSUME NEW s, IsSnapshot(s), NEW n \in Nat, NEW t \in Nat, NEW u \in Nat, StartTime <= t, t <= u,
         ForecastAt(u, s, n) # Failed
  PROVE  /\ ForecastAt(t, s, n).frame \in Nat /\ ForecastAt(u, s, n).frame \in Nat
         /\ ForecastAt(t, s, n).frame <= ForecastAt(u, s, n).frame
<1> DEFINE full == s.buffer + s.vaults
           c == ForecastAt(t, s, n)
           d == ForecastAt(u, s, n)
<1>1. /\ StartTime <= u /\ StartTime \in Nat /\ BunkerFrames \in Nat /\ SeedLookahead \in Nat
      /\ s.buffer \in Nat /\ s.vaults \in Nat /\ s.maxExit \in Nat /\ InitialEpoch \in Nat
  BY EstimateConstants, ClockTypes DEF IsSnapshot
<1>2. /\ EpochAt(t) \in Nat /\ InitialEpoch <= EpochAt(t) /\ CurrentFrameAt(t) \in Nat
      /\ ReportFrameAt(t) \in Nat
  BY MomentTyped
<1>3. EpochAt(u) \in Nat /\ CurrentFrameAt(u) \in Nat /\ ReportFrameAt(u) \in Nat
  BY <1>1, MomentTyped
<1>4. /\ EpochAt(t) <= EpochAt(u) /\ CurrentFrameAt(t) <= CurrentFrameAt(u)
      /\ ReportFrameAt(t) <= ReportFrameAt(u) /\ NextReportAt(t) <= NextReportAt(u)
  BY MomentsInOrder
<1>5. CASE s.bunker
  <2>1. c.frame = CurrentFrameAt(t) + BunkerFrames /\ d.frame = CurrentFrameAt(u) + BunkerFrames
    BY <1>5 DEF ForecastAt
  <2> HIDE DEF c, d
  <2>2. c.frame \in Nat /\ d.frame \in Nat /\ c.frame <= d.frame
    BY <1>1, <1>2, <1>3, <1>4, <2>1
  <2> QED
    BY <2>2 DEF c, d
<1>6. CASE ~s.bunker /\ full > n
  <2>1. c.frame = NextReportAt(t) /\ d.frame = NextReportAt(u)
    BY <1>6 DEF ForecastAt
  <2>2. NextReportAt(t) \in Nat /\ NextReportAt(u) \in Nat
    BY <1>2, <1>3 DEF NextReportAt
  <2> HIDE DEF c, d
  <2>3. c.frame \in Nat /\ d.frame \in Nat /\ c.frame <= d.frame
    BY <1>4, <2>1, <2>2
  <2> QED
    BY <2>3 DEF c, d
<1>7. CASE ~s.bunker /\ ~(full > n)
  <2> DEFINE m == n - full
             g == MaxExitEpochAt(t, s)
             h == MaxExitEpochAt(u, s)
             a == Projected(s, ReportFrameAt(t), EpochAt(t), m, g)
             b == Projected(s, ReportFrameAt(u), EpochAt(u), m, h)
  <2>1. c = a /\ d = b
    BY <1>7 DEF ForecastAt
  <2>2. m \in Nat
    BY <1>1, <1>7
  <2>3. g \in Int /\ h \in Int /\ InitialEpoch <= g /\ g <= h
    <3> DEFINE x == EpochAt(t) + SeedLookahead + 1
               y == EpochAt(u) + SeedLookahead + 1
               e == s.maxExit
    <3>1. x \in Int /\ y \in Int /\ x <= y /\ InitialEpoch <= x /\ e \in Int
      BY <1>1, <1>2, <1>3, <1>4
    <3>2. g = Max({e, x}) /\ h = Max({e, y})
      BY DEF MaxExitEpochAt
    <3> HIDE DEF x, y, e, g, h
    <3>3. g = (IF e >= x THEN e ELSE x) /\ h = (IF e >= y THEN e ELSE y)
      BY <3>1, <3>2 DEF Max
    <3> QED
      BY <1>1, <3>1, <3>3
  <2>4. NoFaster(s, s) /\ ~DividesByZero(s) /\ b # Failed
    <3>1. Available(s) \in Nat
      BY NettingIsNatural
    <3>2. NoFaster(s, s)
      BY <3>1 DEF NoFaster
    <3>3. b # Failed
      BY <2>1
    <3>4. ~DividesByZero(s)
      BY <3>3 DEF Projected
    <3> QED
      BY <3>2, <3>3, <3>4
  <2> HIDE DEF m, g, h, c, d
  <2>5. a.frame \in Nat /\ b.frame \in Nat /\ a.frame <= b.frame
    <3>1. m <= m
      BY <2>2
    <3>2. EpochAt(t) \in Int /\ EpochAt(u) \in Int
      BY <1>2, <1>3
    <3> QED
      BY <1>2, <1>3, <1>4, <2>2, <2>3, <2>4, <3>1, <3>2, ProjectedNoLater
  <2> HIDE DEF a, b
  <2> QED
    BY <2>1, <2>5 DEF c, d
<1> QED
  BY <1>5, <1>6, <1>7

\* What the last answer for an amount was computed from.
AmountIsForecast ==
  Answered /\ answer.kind = "amount" =>
    LET f == ForecastAt(answer.at, st, st.unfinalized + answer.amount)
    IN  /\ f # Failed /\ answer.frame = f.frame
        /\ answer.finalizationAt = answer.at + FinalizationIn(f.frame, answer.at)

LEMMA AskIsForecast ==
  ASSUME IInv, NEW amount \in Amounts, Ask(amount)
  PROVE  /\ answer'.kind = "amount" /\ answer'.at = now /\ answer'.amount = amount /\ st' = st
         /\ amount \in Nat /\ now \in Nat /\ StartTime <= now /\ IsSnapshot(st)
         /\ AmountIsForecast'
<1> DEFINE f == Forecast(st, st.unfinalized + amount, now, MaxExitEpoch(st))
           g == ForecastAt(now, st, st.unfinalized + amount)
<1>1. /\ now \in Nat /\ now >= StartTime /\ StartTime <= now /\ st \in ProtocolStates
      /\ amount \in Nat /\ st.unfinalized + amount \in Nat
  BY EstimateConstants, SnapshotTypes DEF IInv
<1>2. IsSnapshot(st)
  BY <1>1, SnapshotsAreTyped
<1>3. f = g
  <2> DEFINE n == st.unfinalized + amount
  <2>1. n \in Nat
    BY <1>1
  <2> HIDE DEF n
  <2>2. Forecast(st, n, now, MaxExitEpoch(st)) = ForecastAt(now, st, n)
    BY <1>1, <1>2, <2>1, ForecastOfNow
  <2> QED
    BY <2>2 DEF n
<1>4. answer' = Answer("amount", amount, now, f, FinalizationIn(f.frame, now)) /\ st' = st
  BY DEF Ask
<1> HIDE DEF f, g
<1>5. /\ answer'.kind = "amount" /\ answer'.amount = amount /\ answer'.at = now
      /\ answer'.frame = g.frame /\ answer'.type = g.type
      /\ g # Failed => answer'.finalizationAt = now + FinalizationIn(g.frame, now)
  BY <1>3, <1>4 DEF Answer
<1>6. g = Failed => g.type = "error"
  BY DEF Failed
<1>7. AmountIsForecast'
  <2> SUFFICES ASSUME Answered'
               PROVE  LET h == ForecastAt(answer'.at, st', st'.unfinalized + answer'.amount)
                      IN  /\ h # Failed /\ answer'.frame = h.frame
                          /\ answer'.finalizationAt = answer'.at + FinalizationIn(h.frame, answer'.at)
    BY DEF AmountIsForecast
  <2>1. g # Failed
    BY <1>5, <1>6 DEF Answered
  <2>2. ForecastAt(answer'.at, st', st'.unfinalized + answer'.amount) = g
    BY <1>4, <1>5 DEF g
  <2> QED
    BY <1>5, <2>1, <2>2
<1> QED
  BY <1>1, <1>2, <1>4, <1>5, <1>7

LEMMA AmountIsForecastKept == IInv /\ AmountIsForecast /\ [Next]_vars => AmountIsForecast'
<1> SUFFICES ASSUME IInv, AmountIsForecast, [Next]_vars PROVE AmountIsForecast'
  OBVIOUS
<1>1. ASSUME answer' = answer, st' = st PROVE AmountIsForecast'
  BY <1>1 DEF AmountIsForecast, Answered
<1>2. CASE Tick
  BY <1>1, <1>2 DEF Tick
<1>3. CASE Refresh
  BY <1>3 DEF Refresh, AmountIsForecast, Answered
<1>4. ASSUME NEW amount \in Amounts, Ask(amount) PROVE AmountIsForecast'
  BY <1>4, AskIsForecast
<1>5. ASSUME NEW sum \in RequestSums, NEW requestedAt \in BlockTimes, AskById(sum, requestedAt)
      PROVE  AmountIsForecast'
  <2>1. answer'.kind = "request"
    BY <1>5 DEF AskById, Answer
  <2> QED
    BY <2>1 DEF AmountIsForecast
<1>6. CASE UNCHANGED vars
  BY <1>1, <1>6 DEF vars
<1> QED
  BY <1>2, <1>3, <1>4, <1>5, <1>6 DEF Next

\* Two answers for one amount from one snapshot: each date is within half a second
\* of that of its frame, or the default, which is later.
LEMMA LaterAnswer ==
  ASSUME NEW s, IsSnapshot(s), NEW n \in Nat, NEW t \in Nat, NEW u \in Nat, StartTime <= t, t <= u,
         ForecastAt(u, s, n) # Failed, TimeToFrame(ForecastAt(t, s, n).frame, t) >= 0
  PROVE  u + FinalizationIn(ForecastAt(u, s, n).frame, u)
           > (t + FinalizationIn(ForecastAt(t, s, n).frame, t)) - Second
<1> DEFINE f == ForecastAt(t, s, n).frame
           g == ForecastAt(u, s, n).frame
<1>1. f \in Nat /\ g \in Nat /\ f <= g
  BY ForecastsInOrder
<1>2. TimeToFrame(f, t) >= 0
  OBVIOUS
<1> HIDE DEF f, g
<1> DEFINE left == TimeToFrame(f, t)
           rest == TimeToFrame(g, u)
<1>3. /\ ReportTime(f) \in Int /\ ReportTime(g) \in Int /\ ReportTime(f) <= ReportTime(g)
      /\ left \in Int /\ 2 * left <= 2 * (ReportTime(f) - t) + Second
      /\ rest \in Int /\ 2 * (ReportTime(g) - u) - Second < 2 * rest
  <2>1. f \in Int /\ g \in Int /\ t \in Int /\ u \in Int
    BY <1>1
  <2>2. /\ left \in Int /\ 2 * left <= 2 * (ReportTime(f) - t) + Second
        /\ rest \in Int /\ 2 * (ReportTime(g) - u) - Second < 2 * rest
    BY <2>1, TimeLeft
  <2>3. ReportTime(f) \in Int /\ ReportTime(g) \in Int /\ ReportTime(f) <= ReportTime(g)
    BY <1>1, <2>1, ReportTimes, ReportsKeepOrder
  <2> QED
    BY <2>2, <2>3
<1>4. FinalizationIn(f, t) = left + Gap
  BY <1>1, <1>2, Durations
<1>5. Gap \in Nat /\ FallbackDelay \in Nat /\ Second \in Nat
  BY EstimateConstants, ClockConstants
<1>6. FinalizationIn(g, u) \in Int /\ FinalizationIn(g, u) >= rest + Gap
  <2>1. FinalizationIn(g, u) \in Int
    BY <1>1, Durations
  <2>2. FinalizationIn(g, u) = (IF rest < 0 THEN FallbackDelay ELSE rest) + Gap
    BY DEF FinalizationIn, WithFallback
  <2> HIDE DEF rest
  <2> QED
    BY <1>3, <1>5, <2>1, <2>2
<1> HIDE DEF left, rest
<1>7. u + FinalizationIn(g, u) > (t + FinalizationIn(f, t)) - Second
  BY <1>3, <1>4, <1>5, <1>6
<1> QED
  BY <1>7 DEF f, g

\* A client that polls for the same amount is never answered with an earlier frame,
\* nor with a date earlier by a second or more, while the stored values stay, for any
\* snapshots, amounts and times between the questions, for any length of the second
\* in ticks, and whatever happens to the case of the forecast.
THEOREM PollsNeverGoBack == Spec => PollNeverEarlier
<1> DEFINE Later == /\ answer.frame <= answer'.frame
                    /\ TimeToFrame(answer.frame, answer.at) >= 0 =>
                         answer'.finalizationAt > answer.finalizationAt - Second
           A == /\ Answered /\ Answered' /\ st' = st
                /\ answer.kind = "amount" /\ answer'.kind = "amount"
                /\ answer.amount = answer'.amount
                => Later
<1>1. Init => AmountIsForecast
  BY DEF Init, AmountIsForecast, Answered
<1>2. IInv /\ AmountIsForecast /\ AmountIsForecast' /\ [Next]_vars => [A]_vars
  <2> SUFFICES ASSUME IInv, AmountIsForecast, Next PROVE A
    OBVIOUS
  <2> SUFFICES ASSUME Answered, Answered', st' = st,
                      answer.kind = "amount", answer'.kind = "amount",
                      answer.amount = answer'.amount
               PROVE  Later
    OBVIOUS
  <2>1. /\ answer.finalizationAt \in Nat /\ answer.at \in StartTime..now /\ now \in Nat
        /\ StartTime \in Nat /\ Second \in Nat \ {0}
    BY EstimateConstants, ClockConstants DEF IInv, IsAnswer, Answered
  <2>2. CASE Tick
    <3>1. answer' = answer
      BY <2>2 DEF Tick
    <3>2. answer.frame \in Nat
      <4>1. IsSnapshot(st) /\ answer.amount \in Nat
        BY SnapshotsAreTyped DEF IInv, IsAnswer, Answered
      <4> DEFINE n == st.unfinalized + answer.amount
                 t == answer.at
      <4>2. n \in Nat /\ t \in Nat /\ StartTime <= t /\ t <= t
        BY <2>1, <4>1 DEF IsSnapshot
      <4>3. ForecastAt(t, st, n) # Failed /\ answer.frame = ForecastAt(t, st, n).frame
        BY DEF AmountIsForecast
      <4> HIDE DEF n, t
      <4> QED
        BY <4>1, <4>2, <4>3, ForecastsInOrder
    <3> QED
      BY <2>1, <3>1, <3>2
  <2>3. CASE Refresh
    BY <2>3 DEF Refresh
  <2>4. ASSUME NEW amount \in Amounts, Ask(amount) PROVE Later
    <3> DEFINE n == st.unfinalized + amount
               t == answer.at
    <3>1. /\ answer'.at = now /\ answer'.amount = amount /\ amount \in Nat /\ IsSnapshot(st)
          /\ AmountIsForecast'
      BY <2>4, AskIsForecast
    <3>2. n \in Nat /\ t \in Nat /\ StartTime <= t /\ t <= now
      BY <2>1, <3>1 DEF IsSnapshot
    <3>3. /\ ForecastAt(now, st, n) # Failed /\ answer'.frame = ForecastAt(now, st, n).frame
          /\ answer'.finalizationAt = now + FinalizationIn(ForecastAt(now, st, n).frame, now)
      BY <3>1 DEF AmountIsForecast
    <3>4. /\ answer.frame = ForecastAt(t, st, n).frame
          /\ answer.finalizationAt = t + FinalizationIn(ForecastAt(t, st, n).frame, t)
      BY <3>1 DEF AmountIsForecast
    <3>5. answer.at = t
      OBVIOUS
    <3> HIDE DEF n, t
    <3>6. answer.frame <= answer'.frame
      BY <2>1, <3>1, <3>2, <3>3, <3>4, ForecastsInOrder
    <3>7. ASSUME TimeToFrame(answer.frame, answer.at) >= 0
          PROVE  answer'.finalizationAt > answer.finalizationAt - Second
      <4>1. TimeToFrame(ForecastAt(t, st, n).frame, t) >= 0
        BY <3>4, <3>5, <3>7
      <4>2. now + FinalizationIn(ForecastAt(now, st, n).frame, now)
              > (t + FinalizationIn(ForecastAt(t, st, n).frame, t)) - Second
        BY <2>1, <3>1, <3>2, <3>3, <4>1, LaterAnswer
      <4> QED
        BY <3>3, <3>4, <4>2, Zenon
    <3> QED
      BY <3>6, <3>7
  <2>5. ASSUME NEW sum \in RequestSums, NEW requestedAt \in BlockTimes, AskById(sum, requestedAt)
        PROVE  Later
    BY <2>5 DEF AskById, Answer
  <2> QED
    BY <2>2, <2>3, <2>4, <2>5 DEF Next
<1>3. Spec => [][A]_vars
  <2> HIDE DEF A
  <2> QED
    BY <1>1, <1>2, Invariance, AmountIsForecastKept, PTL DEF Spec
<1> QED
  BY <1>3, Zenon DEF PollNeverEarlier

(***************************************************************************)
(* The rewards of a frame.                                                 *)
(***************************************************************************)
Block == [report : BOOLEAN, frames : Nat, diff : Int, el : Nat, wr : Nat]

ChainTyped ==
  /\ chain \in Seq(Block) /\ \E c \in Chains : IsPrefix(chain, c)
  /\ Len(chain) >= Before /\ events \in Nat /\ events + Before <= Len(chain)

FlagsTyped  == sentry \in BOOLEAN /\ configured \in BOOLEAN /\ subscribed \in BOOLEAN
FaultsTyped == faults \in Nat /\ lost \in Nat /\ faults + lost <= MaxFaults

\* What an update has found: lists of values per block.
Values == UNION {[D -> Seq(Int)] : D \in SUBSET Nat}

UpdateTyped(u) == since[u] <= Len(chain) /\ (pc[u] \in {"idle", "head"} => since[u] = 0)

\* Rewards of the execution layer are not negative.
FoundTyped(u) ==
  /\ DOMAIN found[u] \subseteq Reports(WeekAgo(since[u]), Len(chain))
  /\ found[u] # NoFound => pc[u] = "logs"
  /\ \A b \in DOMAIN found[u] : /\ Len(found[u][b]) <= 3
                                /\ Len(found[u][b]) >= 2 => found[u][b][2] \in Nat

\* If every range was read, an update has found all reports of the week up to some
\* moment after it began ...
FoundIsOfWeek(u) ==
  lost = 0 /\ pc[u] = "logs" =>
    \E to \in since[u]..Len(chain) : DOMAIN found[u] = Reports(WeekAgo(since[u]), to)

\* ... and, if every report has all its logs, the values of the report itself.
LogsComplete ==
  \A b \in DOMAIN chain : chain[b].report => chain[b].el # 0 /\ chain[b].wr # 0

FoundIsOwn(u) ==
  lost = 0 /\ LogsComplete =>
    \A b \in DOMAIN found[u] : \A i \in 1..Len(found[u][b]) :
      found[u][b][i] = chain[b][Logs[i]]

UpdateInv(u) == UpdateTyped(u) /\ FoundTyped(u) /\ FoundIsOfWeek(u) /\ FoundIsOwn(u)

LocalsTyped == /\ pc \in [Updates -> {"idle", "head", "list", "logs"}]
               /\ since \in [Updates -> Nat] /\ found \in [Updates -> Values]

StoredTyped ==
  /\ stored \in [cl : Int, el : Nat, all : Int] /\ stored.all = stored.cl + stored.el
  /\ storedSince \in Nat /\ storedSince <= Len(chain)

Working == LocalsTyped /\ \A u \in Updates : UpdateInv(u)
Kept    == StoredTyped /\ PublishedIsMinimum
RewardsInv == ChainTyped /\ FlagsTyped /\ FaultsTyped /\ Working /\ Kept


(***************************************************************************)
(* The operators of an update.                                             *)
(***************************************************************************)
LEMMA RewardsBounds ==
  /\ Before \in Nat /\ Week \in Nat \ {0} /\ Step \in Nat \ {0} /\ MaxFaults \in Nat
  /\ Chains \subseteq Seq(Block) /\ \A c \in Chains : Before <= Len(c)
  /\ "first" \notin Handlers
  BY RewardsConstants DEF Block

LEMMA WeekAgoIsBefore ==
  ASSUME NEW b \in Nat PROVE WeekAgo(b) \in Nat /\ WeekAgo(b) <= b
<1>1. Week \in Nat \ {0}
  BY RewardsBounds
<1>2. Max({b - Week, 0}) \in {b - Week, 0} /\ Max({b - Week, 0}) >= 0
  <2>1. \E x \in {b - Week, 0} : \A y \in {b - Week, 0} : x >= y
    BY <1>1
  <2> QED
    BY <2>1 DEF Max
<1> QED
  BY <1>1, <1>2 DEF WeekAgo

\* The ranges are those of the blocks asked for, without gaps.
LEMMA RangesCover ==
  ASSUME NEW from \in Nat, NEW to \in Nat, from <= to
  PROVE  UNION Ranges(from, to) = from..to
<1> DEFINE n == (to - from) \div Step
           End(s) == Min({s + Step - 1, to})
<1>1. Step \in Nat \ {0}
  BY RewardsBounds
<1>2. n \in Nat
  BY <1>1, DivNat
<1>3. \A s \in Int : End(s) \in {s + Step - 1, to} /\ End(s) <= s + Step - 1 /\ End(s) <= to
  <2> TAKE s \in Int
  <2>1. \E x \in {s + Step - 1, to} : \A y \in {s + Step - 1, to} : x <= y
    BY <1>1
  <2> QED
    BY <2>1 DEF Min
<1>4. Ranges(from, to) = {s..End(s) : s \in {from + k * Step : k \in 0..n}}
  BY DEF Ranges
<1> HIDE DEF End
<1>5. ASSUME NEW b \in UNION Ranges(from, to) PROVE b \in from..to
  <2>1. PICK k \in 0..n : b \in (from + k * Step)..End(from + k * Step)
    BY <1>4
  <2>2. k * Step \in Nat /\ from + k * Step \in Int
    BY <1>1, <1>2
  <2>3. End(from + k * Step) <= to /\ End(from + k * Step) \in Int
    BY <1>1, <1>3, <2>2
  <2> QED
    BY <2>1, <2>2, <2>3
<1>6. ASSUME NEW b \in from..to PROVE b \in UNION Ranges(from, to)
  <2> DEFINE k == (b - from) \div Step
             s == from + k * Step
  <2>1. b - from \in Nat /\ to - from \in Nat /\ b - from <= to - from
    OBVIOUS
  <2>2. /\ k \in Nat /\ Step * k <= b - from /\ b - from < Step * k + Step
        /\ n \in Nat /\ to - from < Step * n + Step
    BY <1>1, <2>1, DivBounds, DivNat
  <2> HIDE DEF k, n
  <2>3. k <= n
    <3>1. SUFFICES ASSUME n + 1 <= k PROVE FALSE
      BY <2>2
    <3>2. Step * (n + 1) <= Step * k
      BY <1>1, <2>2, <3>1, ScaleLeq
    <3>3. Step * (n + 1) = Step * n + Step /\ Step * n \in Int /\ Step * k \in Int
      BY <1>1, <2>2
    <3> QED
      BY <1>1, <2>1, <2>2, <3>2, <3>3
  <2>4. s = from + Step * k /\ Step * k \in Nat /\ s \in Int
    BY <1>1, <2>2
  <2>5. s <= b /\ b <= s + Step - 1 /\ b <= to
    BY <1>1, <2>1, <2>2, <2>4
  <2>6. b \in s..End(s)
    <3> HIDE DEF s
    <3>1. End(s) \in {s + Step - 1, to}
      BY <1>3, <2>4
    <3>2. b <= End(s)
      BY <2>5, <3>1
    <3> QED
      BY <1>1, <2>4, <2>5, <3>1, <3>2
  <2> QED
    BY <1>4, <2>2, <2>3, <2>6
<1> QED
  BY <1>5, <1>6

LEMMA RangesFinite ==
  ASSUME NEW from \in Nat, NEW to \in Nat, from <= to
  PROVE  IsFiniteSet(Ranges(from, to))
<1> DEFINE n == (to - from) \div Step
           f == [k \in 0..n |-> (from + k * Step)..Min({from + k * Step + Step - 1, to})]
<1>1. Step \in Nat \ {0}
  BY RewardsBounds
<1>2. n \in Nat
  BY <1>1, DivNat
<1>3. Ranges(from, to) = {f[k] : k \in 0..n}
  BY DEF Ranges
<1>4. IsFiniteSet(0..n)
  BY <1>2, FS_Interval
<1> HIDE DEF n
<1>5. f \in [0..n -> Ranges(from, to)] /\ \A y \in Ranges(from, to) : \E k \in 0..n : f[k] = y
  BY <1>3
<1> HIDE DEF f
<1> QED
  BY <1>4, <1>5, FiniteImage

\* Of a number of lost ranges, nothing is lost only if all were read.
LEMMA ExhaustedRanges ==
  ASSUME FaultsTyped, NEW from \in Nat, NEW to \in Nat, from <= to,
         NEW failed \in SUBSET Ranges(from, to), Exhausted(failed)
  PROVE  /\ lost' \in Nat /\ lost <= lost' /\ lost' + faults <= MaxFaults
         /\ lost' = 0 => failed = {} /\ lost = 0
<1>1. IsFiniteSet(failed)
  BY RangesFinite, FS_Subset
<1>2. Cardinality(failed) \in Nat
  BY <1>1, FS_CardinalityType
<1>3. Cardinality(failed) = 0 => failed = {}
  BY <1>1, FS_EmptySet
<1>4. lost \in Nat /\ lost' = lost + Cardinality(failed) /\ lost' + faults <= MaxFaults
  BY DEF FaultsTyped, Exhausted
<1> QED
  BY <1>2, <1>3, <1>4

LogNames == {"diff", "el", "wr"}

LEMMA BlockTyped ==
  ASSUME ChainTyped
  PROVE  /\ Len(chain) \in Nat /\ DOMAIN chain = 1..Len(chain)
         /\ \A b \in DOMAIN chain :
              /\ b \in Nat /\ chain[b] \in Block /\ b <= Len(chain)
              /\ chain[b].report \in BOOLEAN /\ chain[b].frames \in Nat
              /\ chain[b].diff \in Int /\ chain[b].el \in Nat /\ chain[b].wr \in Nat
<1>1. chain \in Seq(Block)
  BY DEF ChainTyped
<1>2. Len(chain) \in Nat /\ DOMAIN chain = 1..Len(chain) /\ \A b \in DOMAIN chain : chain[b] \in Block
  BY <1>1
<1> QED
  BY <1>2 DEF Block

\* The value found is one of a block, or nothing.
LEMMA FoundIsTyped ==
  ASSUME ChainTyped, NEW log \in LogNames, NEW blocks
  PROVE  Found(log, blocks) \in Int /\ (log = "el" => Found(log, blocks) \in Nat)
<1> DEFINE bs == {b \in blocks \cap DOMAIN chain : Emits(b, log)}
<1>1. bs \in SUBSET Nat /\ bs \subseteq DOMAIN chain
  BY BlockTyped
<1>2. bs # {} => Min(bs) \in DOMAIN chain
  BY <1>1, MinOfNats
<1>3. Found(log, blocks) = IF bs = {} THEN 0 ELSE chain[Min(bs)][log]
  BY DEF Found
<1> HIDE DEF bs
<1>4. \A b \in DOMAIN chain : chain[b][log] \in Int /\ (log = "el" => chain[b][log] \in Nat)
  BY BlockTyped DEF LogNames
<1> QED
  BY <1>2, <1>3, <1>4

\* Read from the block of a report on, the value is that of the report.
LEMMA FoundOfReport ==
  ASSUME ChainTyped, NEW log \in LogNames, NEW b \in DOMAIN chain, Emits(b, log)
  PROVE  Found(log, b..Len(chain)) = chain[b][log]
<1> DEFINE bs == {d \in (b..Len(chain)) \cap DOMAIN chain : Emits(d, log)}
<1>1. b \in bs /\ bs \in SUBSET Nat /\ \A d \in bs : b <= d
  BY BlockTyped
<1>2. Min(bs) = b
  <2>1. Min(bs) \in bs /\ \A d \in bs : Min(bs) <= d
    <3>1. \E x \in bs : \A y \in bs : x <= y
      BY <1>1
    <3> HIDE DEF bs
    <3> QED
      BY <3>1 DEF Min
  <2> HIDE DEF bs
  <2> QED
    BY <1>1, <2>1
<1>3. bs # {}
  BY <1>1
<1> QED
  BY <1>2, <1>3 DEF Found

LEMMA QuotientTyped ==
  ASSUME NEW a \in Int, NEW n \in Nat \ {0}
  PROVE  Quotient(a, n) \in Int /\ (a >= 0 => Quotient(a, n) \in Nat)
<1>1. a \div n \in Int /\ (-a) \div n \in Int
  BY DivBounds
<1>2. a >= 0 => a \div n \in Nat
  BY DivNat
<1> QED
  BY <1>1, <1>2 DEF Quotient

\* The minimum over finitely many reports.
LEMMA MinimumTyped ==
  ASSUME NEW R \in SUBSET [cl : Int, el : Nat], IsFiniteSet(R)
  PROVE  Minimum(R) \in [cl : Int, el : Nat, all : Int] /\ Minimum(R).all = Minimum(R).cl + Minimum(R).el
<1>1. CASE R = {}
  BY <1>1 DEF Minimum, Zero
<1>2. CASE R # {}
  <2> DEFINE cls == {r.cl : r \in R}  els == {r.el : r \in R}
             f == [r \in R |-> r.cl]  g == [r \in R |-> r.el]
  <2>1. /\ f \in [R -> cls] /\ \A y \in cls : \E r \in R : f[r] = y
        /\ g \in [R -> els] /\ \A y \in els : \E r \in R : g[r] = y
    OBVIOUS
  <2>2. IsFiniteSet(cls) /\ IsFiniteSet(els)
    <3> HIDE DEF f, g, cls, els
    <3> QED
      BY <2>1, FiniteImage
  <2>3. cls \in SUBSET Int /\ els \in SUBSET Nat /\ cls # {} /\ els # {}
    BY <1>2
  <2>4. Minimum(R) = [cl |-> Min(cls), el |-> Min(els), all |-> Min(els) + Min(cls)]
    BY <1>2 DEF Minimum
  <2> HIDE DEF cls, els
  <2>5. Min(cls) \in Int /\ Min(els) \in Nat
    BY <2>2, <2>3, MinOfInts, MinOfNats
  <2> QED
    BY <2>4, <2>5
<1> QED
  BY <1>1, <1>2
(***************************************************************************)
(* The chain only grows: what was found and stored stays right.            *)
(***************************************************************************)
Grown ==
  /\ ChainTyped' /\ Len(chain) <= Len(chain)'
  /\ \A b \in DOMAIN chain : b \in DOMAIN chain' /\ chain'[b] = chain[b]
  /\ lost \in Nat /\ lost' \in Nat /\ lost <= lost'

LEMMA NoFoundTyped == NoFound \in Values /\ DOMAIN NoFound = {}
<1>1. NoFound \in [{} -> Seq(Int)] /\ DOMAIN NoFound = {}
  BY DEF NoFound
<1> QED
  BY <1>1 DEF Values

LEMMA ReportsTyped ==
  ASSUME ChainTyped, NEW from, NEW to
  PROVE  /\ Reports(from, to) \subseteq DOMAIN chain
         /\ \A b \in Reports(from, to) : chain[b].report /\ chain[b].frames # 0
  BY DEF Reports

\* The reports up to a block of the chain stay those.
LEMMA ReportsKept ==
  ASSUME ChainTyped, Grown, NEW from \in Nat, NEW to \in Nat, to <= Len(chain)
  PROVE  /\ Reports(from, to)' = Reports(from, to)
         /\ Reports(from, to) \subseteq Reports(from, Len(chain))'
<1>1. DOMAIN chain = 1..Len(chain) /\ Len(chain) \in Nat
  BY BlockTyped
<1>2. DOMAIN chain' = 1..Len(chain)' /\ Len(chain)' \in Nat
  BY DEF Grown, ChainTyped
<1>3. \A b \in from..to : b \in DOMAIN chain <=> b \in DOMAIN chain'
  BY <1>1, <1>2 DEF Grown
<1>4. \A b \in DOMAIN chain : chain'[b] = chain[b]
  BY DEF Grown
<1>5. \A b \in from..to : b \in from..Len(chain)'
  BY <1>1, <1>2 DEF Grown
<1> QED
  BY <1>3, <1>4, <1>5 DEF Reports

LEMMA LogsCompleteBefore ==
  ASSUME Grown, LogsComplete' PROVE LogsComplete
  BY DEF LogsComplete, Grown

\* An update that makes no step.
LEMMA UpdateKept ==
  ASSUME RewardsInv, Grown, NEW u \in Updates,
         pc'[u] = pc[u], since'[u] = since[u], found'[u] = found[u]
  PROVE  UpdateInv(u)'
<1>1. /\ Len(chain) \in Nat /\ Len(chain)' \in Nat /\ Len(chain) <= Len(chain)'
      /\ since[u] \in Nat /\ since[u] <= Len(chain) /\ ChainTyped
  BY BlockTyped DEF Grown, RewardsInv, Working, LocalsTyped, UpdateInv, UpdateTyped, ChainTyped
<1>2. WeekAgo(since[u]) \in Nat
  BY <1>1, WeekAgoIsBefore
<1>3. UpdateTyped(u) /\ FoundTyped(u) /\ FoundIsOfWeek(u) /\ FoundIsOwn(u)
  BY DEF RewardsInv, Working, UpdateInv
<1>4. UpdateTyped(u)'
  BY <1>1, <1>3 DEF UpdateTyped
<1>5. FoundTyped(u)'
  <2>1. PICK w \in Nat : w = WeekAgo(since[u])
    BY <1>2
  <2>2. Reports(w, Len(chain)) \subseteq Reports(w, Len(chain))'
    BY <1>1, ReportsKept
  <2>3. DOMAIN found'[u] \subseteq Reports(w, Len(chain))'
    BY <1>3, <2>1, <2>2 DEF FoundTyped
  <2>4. w = WeekAgo(since[u])'
    BY <2>1 DEF WeekAgo
  <2> QED
    BY <1>3, <2>3, <2>4 DEF FoundTyped
<1>6. FoundIsOfWeek(u)'
  <2> SUFFICES ASSUME lost' = 0, pc[u] = "logs"
               PROVE  \E to \in since[u]..Len(chain)' : DOMAIN found[u] = Reports(WeekAgo(since[u]), to)'
    BY DEF FoundIsOfWeek, WeekAgo
  <2>1. lost = 0
    BY DEF Grown
  <2>2. PICK to \in since[u]..Len(chain) : DOMAIN found[u] = Reports(WeekAgo(since[u]), to)
    BY <1>3, <2>1 DEF FoundIsOfWeek
  <2>3. to \in Nat /\ to <= Len(chain) /\ to \in since[u]..Len(chain)'
    BY <1>1
  <2> QED
    BY <1>1, <1>2, <2>2, <2>3, ReportsKept
<1>7. FoundIsOwn(u)'
  <2> SUFFICES ASSUME lost' = 0, LogsComplete', NEW b \in DOMAIN found[u], NEW i \in 1..Len(found[u][b])
               PROVE  found[u][b][i] = chain'[b][Logs[i]]
    BY DEF FoundIsOwn, Logs
  <2>1. lost = 0 /\ LogsComplete
    BY LogsCompleteBefore DEF Grown
  <2>2. found[u][b][i] = chain[b][Logs[i]]
    BY <1>3, <2>1 DEF FoundIsOwn
  <2>3. b \in DOMAIN chain
    BY <1>1, <1>3, ReportsTyped DEF FoundTyped
  <2> QED
    BY <2>2, <2>3 DEF Grown
<1> QED
  BY <1>4, <1>5, <1>6, <1>7 DEF UpdateInv

\* An update that has not found anything.
LEMMA UpdateEmpty ==
  ASSUME ChainTyped', NEW u \in Updates, pc'[u] # "logs", found'[u] = NoFound,
         since'[u] \in Nat, since'[u] <= Len(chain)', pc'[u] \in {"idle", "head"} => since'[u] = 0
  PROVE  UpdateInv(u)'
<1>1. DOMAIN found'[u] = {}
  BY NoFoundTyped
<1>2. UpdateTyped(u)'
  BY DEF UpdateTyped
<1>3. FoundTyped(u)'
  BY <1>1 DEF FoundTyped
<1>4. FoundIsOfWeek(u)'
  BY DEF FoundIsOfWeek
<1>5. FoundIsOwn(u)'
  BY <1>1 DEF FoundIsOwn
<1> QED
  BY <1>2, <1>3, <1>4, <1>5 DEF UpdateInv

\* The stored figures, when they are not replaced.
LEMMA StoredKept ==
  ASSUME RewardsInv, Grown, UNCHANGED <<stored, storedSince>>
  PROVE  Kept'
<1>1. /\ Len(chain) \in Nat /\ Len(chain)' \in Nat /\ Len(chain) <= Len(chain)'
      /\ storedSince \in Nat /\ storedSince <= Len(chain) /\ ChainTyped
  BY BlockTyped DEF Grown, RewardsInv, Kept, StoredTyped, ChainTyped
<1>2. StoredTyped'
  BY <1>1 DEF RewardsInv, Kept, StoredTyped
<1>3. PublishedIsMinimum'
  <2>1. CASE stored = Zero
    BY <2>1 DEF PublishedIsMinimum
  <2>2. CASE lost > 0
    <3>1. lost' > 0
      BY <2>2 DEF Grown
    <3> QED
      BY <3>1 DEF PublishedIsMinimum
  <2>3. CASE \E b \in DOMAIN chain, log \in {"el", "wr"} : chain[b].report /\ chain[b][log] = 0
    <3>1. \E b \in DOMAIN chain', log \in {"el", "wr"} : chain'[b].report /\ chain'[b][log] = 0
      BY <2>3 DEF Grown
    <3> QED
      BY <3>1 DEF PublishedIsMinimum
  <2>4. CASE \E to \in storedSince..Len(chain) :
               stored = Minimum({Own(b) : b \in Reports(WeekAgo(storedSince), to)})
    <3>1. PICK to \in storedSince..Len(chain) :
            stored = Minimum({Own(b) : b \in Reports(WeekAgo(storedSince), to)})
      BY <2>4
    <3>2. to \in Nat /\ to <= Len(chain) /\ to \in storedSince..Len(chain)' /\ WeekAgo(storedSince) \in Nat
      BY <1>1, WeekAgoIsBefore
    <3> DEFINE R == Reports(WeekAgo(storedSince), to)
               P == {Own(b) : b \in R}
    <3>3. Reports(WeekAgo(storedSince), to)' = R
      BY <1>1, <3>2, ReportsKept DEF WeekAgo
    <3>4. \A b \in R : Own(b)' = Own(b)
      <4>1. \A b \in R : chain'[b] = chain[b]
        BY <1>1, ReportsTyped DEF Grown
      <4> QED
        BY <4>1 DEF Own, Rewards
    <3>5. {Own(b) : b \in Reports(WeekAgo(storedSince), to)}' = P
      BY <3>3, <3>4
    <3>6. Minimum({Own(b) : b \in Reports(WeekAgo(storedSince), to)})' = Minimum(P)
      BY <3>5 DEF Minimum
    <3>7. stored' = Minimum({Own(b) : b \in Reports(WeekAgo(storedSince), to)})'
      BY <3>1, <3>6
    <3> QED
      BY <3>2, <3>7 DEF PublishedIsMinimum
  <2> QED
    BY <2>1, <2>2, <2>3, <2>4 DEF RewardsInv, Kept, PublishedIsMinimum
<1> QED
  BY <1>2, <1>3 DEF Kept

(***************************************************************************)
(* The actions.                                                            *)
(***************************************************************************)
LEMMA BlocksOf ==
  ASSUME NEW c \in Chains
  PROVE  /\ c \in Seq(Block) /\ Len(c) \in Nat /\ Before <= Len(c) /\ SubSeq(c, 1, Len(c)) = c
         /\ \A n \in 0..Len(c) :
              /\ SubSeq(c, 1, n) \in Seq(Block) /\ Len(SubSeq(c, 1, n)) = n
              /\ \A b \in 1..n : SubSeq(c, 1, n)[b] = c[b]
              /\ IsPrefix(SubSeq(c, 1, n), c)
<1>1. c \in Seq(Block) /\ Before <= Len(c)
  BY RewardsBounds
<1>2. Len(c) \in Nat /\ SubSeq(c, 1, Len(c)) = c /\ \A b \in 1..Len(c) : c[b] \in Block
  BY <1>1, SubSeqFull, ElementOfSeq, LenProperties
<1>3. ASSUME NEW n \in 0..Len(c)
      PROVE  /\ SubSeq(c, 1, n) \in Seq(Block) /\ Len(SubSeq(c, 1, n)) = n
             /\ \A b \in 1..n : SubSeq(c, 1, n)[b] = c[b]
             /\ IsPrefix(SubSeq(c, 1, n), c)
  <2> DEFINE s == SubSeq(c, 1, n)
  <2>1. n \in Nat /\ n <= Len(c) /\ \A b \in 1..n : c[b] \in Block
    BY <1>2
  <2>2. s \in Seq(Block) /\ Len(s) = n /\ \A b \in 1..n : s[b] = c[b]
    <3>1. /\ s \in Seq(Block) /\ Len(s) = IF 1 <= n THEN n - 1 + 1 ELSE 0
          /\ \A b \in 1..(n - 1 + 1) : s[b] = c[1 + b - 1]
      BY <2>1, SubSeqProperties
    <3>2. n - 1 + 1 = n /\ \A b \in 1..n : 1 + b - 1 = b
      BY <2>1
    <3> HIDE DEF s
    <3> QED
      BY <2>1, <3>1, <3>2
  <2>3. SubSeq(s, 1, Len(s)) = s
    BY <2>2, SubSeqFull
  <2>4. IsPrefix(s, c)
    BY <1>2, <2>1, <2>2, <2>3 DEF IsPrefix
  <2> QED
    BY <2>2, <2>4
<1> QED
  BY <1>1, <1>2, <1>3

LEMMA UnchangedChain ==
  ASSUME ChainTyped, FaultsTyped, UNCHANGED chain, events' \in Nat, events' <= events,
         lost' \in Nat, lost <= lost'
  PROVE  Grown
<1>1. Len(chain) \in Nat /\ Len(chain)' = Len(chain)
  BY BlockTyped
<1>2. ChainTyped'
  <2>1. events' + Before <= Len(chain)
    BY <1>1, RewardsBounds DEF ChainTyped
  <2> QED
    BY <2>1 DEF ChainTyped
<1> QED
  BY <1>1, <1>2 DEF Grown, FaultsTyped

LEMMA MineGrows ==
  ASSUME ChainTyped, FlagsTyped, FaultsTyped, Mine PROVE Grown
<1>1. PICK c \in Chains : IsStrictPrefix(chain, c) /\ chain' = SubSeq(c, 1, Len(chain) + 1)
  BY DEF Mine
<1>2. /\ c \in Seq(Block) /\ Len(c) \in Nat /\ SubSeq(c, 1, Len(c)) = c
      /\ \A n \in 0..Len(c) :
           /\ SubSeq(c, 1, n) \in Seq(Block) /\ Len(SubSeq(c, 1, n)) = n
           /\ \A b \in 1..n : SubSeq(c, 1, n)[b] = c[b]
           /\ IsPrefix(SubSeq(c, 1, n), c)
  BY BlocksOf
<1>3. chain \in Seq(Block) /\ Len(chain) \in Nat /\ SubSeq(chain, 1, Len(chain)) = chain
  BY BlockTyped, SubSeqFull DEF ChainTyped
<1>4. Len(chain) <= Len(c) /\ chain = SubSeq(c, 1, Len(chain)) /\ chain # c
  BY <1>1, <1>3 DEF IsStrictPrefix, IsPrefix
<1>5. Len(chain) + 1 \in 0..Len(c)
  <2>1. Len(chain) # Len(c)
    <3>1. SubSeq(c, 1, Len(c)) = c
      BY <1>2
    <3>2. Len(chain) = Len(c) => SubSeq(c, 1, Len(chain)) = SubSeq(c, 1, Len(c))
      OBVIOUS
    <3> QED
      BY <1>4, <3>1, <3>2, Zenon
  <2>2. Len(c) \in Nat /\ Len(chain) \in Nat /\ Len(chain) <= Len(c)
    BY <1>2, <1>3, <1>4
  <2> QED
    BY <2>1, <2>2
<1>6. /\ chain' \in Seq(Block) /\ Len(chain)' = Len(chain) + 1 /\ IsPrefix(chain', c)
      /\ \A b \in 1..(Len(chain) + 1) : chain'[b] = c[b]
  BY <1>1, <1>2, <1>5
<1>7. \A b \in 1..Len(chain) : chain[b] = c[b]
  <2>1. Len(chain) \in 0..Len(c)
    BY <1>2, <1>3, <1>4
  <2> QED
    BY <1>2, <1>4, <2>1
<1>8. DOMAIN chain = 1..Len(chain) /\ DOMAIN chain' = 1..(Len(chain) + 1)
  BY <1>3, <1>6, LenProperties
<1>9. events' \in Nat /\ events' <= events + 1
  BY DEF Mine, ChainTyped
<1>10. events' + Before <= Len(chain)' /\ Len(chain)' >= Before
  BY <1>3, <1>6, <1>9, RewardsBounds DEF ChainTyped
<1>11. ChainTyped'
  BY <1>6, <1>9, <1>10 DEF ChainTyped
<1>12. \A b \in DOMAIN chain : b \in DOMAIN chain' /\ chain'[b] = chain[b]
  BY <1>3, <1>6, <1>7, <1>8
<1> QED
  BY <1>3, <1>6, <1>11, <1>12 DEF Grown, Mine, FaultsTyped

LEMMA MineKeeps ==
  ASSUME RewardsInv, Mine PROVE RewardsInv'
<1>1. Grown
  BY MineGrows DEF RewardsInv
<1>2. ChainTyped' /\ FlagsTyped' /\ FaultsTyped'
  BY <1>1 DEF Grown, RewardsInv, FlagsTyped, FaultsTyped, Mine
<1>3. UNCHANGED <<pc, since, found, stored, storedSince>>
  BY DEF Mine, locals
<1>4. Working'
  BY <1>1, <1>3, UpdateKept DEF RewardsInv, Working, LocalsTyped
<1>5. Kept'
  BY <1>1, <1>3, StoredKept
<1> QED
  BY <1>2, <1>4, <1>5 DEF RewardsInv

LEMMA ConfigureKeeps ==
  ASSUME RewardsInv, Configure \/ UNCHANGED rewardsVars PROVE RewardsInv'
<1>1. UNCHANGED <<chain, events, sentry, subscribed, pc, since, found, stored, storedSince, faults, lost>>
  BY DEF Configure, rewardsVars, locals
<1>2. Grown
  BY <1>1, UnchangedChain DEF RewardsInv, ChainTyped, FaultsTyped
<1>3. ChainTyped' /\ FaultsTyped'
  BY <1>1, <1>2 DEF Grown, RewardsInv, FaultsTyped
<1>4. FlagsTyped'
  BY <1>1 DEF Configure, rewardsVars, RewardsInv, FlagsTyped
<1>5. Working'
  BY <1>1, <1>2, UpdateKept DEF RewardsInv, Working, LocalsTyped
<1>6. Kept'
  BY <1>1, <1>2, StoredKept
<1> QED
  BY <1>3, <1>4, <1>5, <1>6 DEF RewardsInv

\* The state of a process that starts.
LEMMA RebootKeeps ==
  ASSUME RewardsInv, Reboot, FaultsTyped', lost <= lost' PROVE RewardsInv'
<1>1. Grown
  BY UnchangedChain DEF RewardsInv, ChainTyped, FaultsTyped, Reboot
<1>2. ChainTyped' /\ FlagsTyped'
  BY <1>1 DEF Grown, RewardsInv, FlagsTyped, Reboot
<1>3. LocalsTyped'
  BY NoFoundTyped DEF LocalsTyped, Reboot
<1>4. ASSUME NEW u \in Updates PROVE UpdateInv(u)'
  <2>1. pc'[u] # "logs" /\ found'[u] = NoFound /\ since'[u] = 0
    BY DEF Reboot
  <2>2. Len(chain)' \in Nat /\ ChainTyped'
    BY <1>1, <1>2 DEF ChainTyped
  <2> QED
    BY <2>1, <2>2, UpdateEmpty
<1>5. Kept'
  <2>1. stored' = Zero /\ storedSince' = 0
    BY DEF Reboot
  <2>2. StoredTyped'
    BY <1>2, <2>1 DEF StoredTyped, Zero, ChainTyped
  <2> QED
    BY <2>1, <2>2 DEF Kept, PublishedIsMinimum
<1> QED
  BY <1>2, <1>3, <1>4, <1>5 DEF RewardsInv, Working

\* A step of one update leaves the others as they are.
LEMMA StepOfUpdate ==
  ASSUME RewardsInv, Grown, NEW u \in Updates, UpdateInv(u)', LocalsTyped',
         \A v \in Updates \ {u} : pc'[v] = pc[v] /\ since'[v] = since[v] /\ found'[v] = found[v]
  PROVE  Working'
<1>1. \A v \in Updates \ {u} : UpdateInv(v)'
  BY UpdateKept
<1> QED
  BY <1>1 DEF Working

LEMMA EndKeeps ==
  ASSUME RewardsInv, Grown, NEW u \in Updates, EndUpdate(u) PROVE Working'
<1>1. /\ pc \in [Updates -> {"idle", "head", "list", "logs"}]
      /\ since \in [Updates -> Nat] /\ found \in [Updates -> Values]
  BY DEF RewardsInv, Working, LocalsTyped
<1>2. LocalsTyped'
  BY <1>1, NoFoundTyped DEF LocalsTyped, EndUpdate
<1>3. pc'[u] = "idle" /\ since'[u] = 0 /\ found'[u] = NoFound
  BY <1>1 DEF EndUpdate
<1>4. ChainTyped' /\ Len(chain)' \in Nat
  BY DEF Grown, ChainTyped
<1>5. UpdateInv(u)'
  BY <1>3, <1>4, UpdateEmpty
<1>6. \A v \in Updates \ {u} : pc'[v] = pc[v] /\ since'[v] = since[v] /\ found'[v] = found[v]
  BY <1>1 DEF EndUpdate
<1> QED
  BY <1>2, <1>5, <1>6, StepOfUpdate

LEMMA RejectKeeps ==
  ASSUME RewardsInv, FaultsTyped', NEW u \in Updates, Reject(u), UNCHANGED lost PROVE RewardsInv'
<1>1. lost' \in Nat /\ lost <= lost'
  BY DEF RewardsInv, FaultsTyped
<1>2. CASE Reboot
  BY <1>1, <1>2, RebootKeeps
<1>3. CASE EndUpdate(u) /\ UNCHANGED <<chain, events, sentry, configured, subscribed, stored, storedSince>>
  <2>1. Grown
    BY <1>1, <1>3, UnchangedChain DEF RewardsInv, ChainTyped
  <2>2. Working' /\ Kept'
    BY <1>3, <2>1, EndKeeps, StoredKept
  <2>3. ChainTyped' /\ FlagsTyped'
    BY <1>3, <2>1 DEF Grown, RewardsInv, FlagsTyped
  <2> QED
    BY <2>2, <2>3 DEF RewardsInv
<1> QED
  BY <1>2, <1>3 DEF Reject

LEMMA FailuresKeep ==
  ASSUME RewardsInv, NEW u \in Updates, Fail(u) \/ FailUnconfigured(u) \/ Restart PROVE RewardsInv'
<1>1. lost' \in Nat /\ lost' = lost
  BY DEF RewardsInv, FaultsTyped, Fail, FailUnconfigured, Restart
<1>2. FaultsTyped'
  BY RewardsBounds DEF RewardsInv, FaultsTyped, Fail, FailUnconfigured, Restart
<1>3. CASE Reject(u)
  BY <1>1, <1>2, <1>3, RejectKeeps
<1>4. CASE Reboot
  BY <1>1, <1>2, <1>4, RebootKeeps DEF RewardsInv, FaultsTyped
<1> QED
  BY <1>3, <1>4 DEF Fail, FailUnconfigured, Restart

LEMMA SumSwapped ==
  ASSUME NEW a \in Nat, NEW b \in Nat, NEW m \in Nat, a + b <= m PROVE b + a <= m
  OBVIOUS

LEMMA BeginKeeps ==
  ASSUME RewardsInv, NEW u \in Updates, Handle(u) \/ ReadHead(u) PROVE RewardsInv'
<1>1. /\ pc \in [Updates -> {"idle", "head", "list", "logs"}]
      /\ since \in [Updates -> Nat] /\ found \in [Updates -> Values]
      /\ UpdateTyped(u) /\ FoundTyped(u)
  BY DEF RewardsInv, Working, LocalsTyped, UpdateInv
<1>2. UNCHANGED <<chain, sentry, configured, subscribed, found, stored, storedSince, faults, lost>>
  BY DEF Handle, ReadHead
<1>3. events' \in Nat /\ events' <= events
  BY DEF RewardsInv, ChainTyped, Handle, ReadHead
<1>4. Grown
  BY <1>2, <1>3, UnchangedChain DEF RewardsInv, FaultsTyped
<1>5. ChainTyped' /\ FlagsTyped' /\ FaultsTyped' /\ Kept'
  BY <1>2, <1>4, StoredKept DEF Grown, RewardsInv, FlagsTyped, FaultsTyped
<1>6. Len(chain) \in Nat /\ Len(chain)' = Len(chain)
  BY <1>2, BlockTyped DEF RewardsInv
<1>7. /\ pc' \in [Updates -> {"idle", "head", "list", "logs"}] /\ since' \in [Updates -> Nat]
      /\ \A v \in Updates \ {u} : pc'[v] = pc[v] /\ since'[v] = since[v] /\ found'[v] = found[v]
  BY <1>1, <1>6 DEF Handle, ReadHead
<1>8. pc[u] # "logs" /\ found'[u] = NoFound
  BY <1>1, <1>2 DEF FoundTyped, Handle, ReadHead
<1>9. UpdateInv(u)'
  <2>1. CASE Handle(u)
    <3>1. pc'[u] = "head" /\ since'[u] = 0
      BY <1>1, <2>1 DEF Handle, UpdateTyped
    <3> QED
      BY <1>5, <1>6, <1>8, <3>1, UpdateEmpty
  <2>2. CASE ReadHead(u)
    <3>1. pc'[u] = "list" /\ since'[u] = Len(chain)
      BY <1>1, <2>2 DEF ReadHead
    <3> QED
      BY <1>5, <1>6, <1>8, <3>1, UpdateEmpty
  <2> QED
    BY <2>1, <2>2
<1>10. LocalsTyped'
  BY <1>1, <1>2, <1>7 DEF LocalsTyped
<1>11. Working'
  BY <1>4, <1>7, <1>9, <1>10, StepOfUpdate
<1> QED
  BY <1>5, <1>11 DEF RewardsInv

LEMMA ReadReportsKeeps ==
  ASSUME RewardsInv, NEW u \in Updates, ReadReports(u) PROVE RewardsInv'
<1> DEFINE from == WeekAgo(since[u])
           to == Len(chain)
<1>1. /\ pc \in [Updates -> {"idle", "head", "list", "logs"}]
      /\ since \in [Updates -> Nat] /\ found \in [Updates -> Values]
      /\ UpdateTyped(u) /\ FoundTyped(u) /\ ChainTyped /\ FaultsTyped
  BY DEF RewardsInv, Working, LocalsTyped, UpdateInv
<1>2. to \in Nat /\ from \in Nat /\ from <= to /\ since[u] \in Nat /\ since[u] <= to
  <2>1. since[u] \in Nat /\ since[u] <= Len(chain) /\ Len(chain) \in Nat
    BY <1>1, BlockTyped DEF UpdateTyped
  <2> QED
    BY <2>1, WeekAgoIsBefore
<1>3. /\ UNCHANGED <<chain, events, sentry, configured, subscribed, since, stored, storedSince, faults>>
      /\ pc' = [pc EXCEPT ![u] = "logs"]
  BY DEF ReadReports
<1>4. PICK failed \in SUBSET Ranges(from, to) :
        /\ Exhausted(failed)
        /\ found' = [found EXCEPT ![u] =
             [b \in {r \in {b \in DOMAIN chain \cap UNION (Ranges(from, to) \ failed) : chain[b].report} :
                       chain[r].frames # 0} |-> <<>>]]
  BY DEF ReadReports
<1>5. /\ lost' \in Nat /\ lost <= lost' /\ lost' + faults <= MaxFaults
      /\ lost' = 0 => failed = {} /\ lost = 0
  BY <1>1, <1>2, <1>4, ExhaustedRanges
<1> DEFINE D == {r \in DOMAIN chain \cap UNION (Ranges(from, to) \ failed) :
                   chain[r].report /\ chain[r].frames # 0}
<1>6. found' = [found EXCEPT ![u] = [b \in D |-> <<>>]]
  BY <1>4
<1>7. UNION Ranges(from, to) = from..to
  BY <1>2, RangesCover
<1>8. D \subseteq Reports(from, to) /\ (lost' = 0 => D = Reports(from, to)) /\ D \in SUBSET Nat
  <2>1. D \subseteq Reports(from, to)
    BY <1>7 DEF Reports
  <2>2. lost' = 0 => D = Reports(from, to)
    BY <1>5, <1>7 DEF Reports
  <2>3. DOMAIN chain \in SUBSET Nat
    BY <1>1, BlockTyped
  <2> QED
    BY <2>1, <2>2, <2>3
<1> HIDE DEF D
<1>9. [b \in D |-> <<>>] \in Values
  <2>1. <<>> \in Seq(Int)
    BY EmptySeq
  <2>2. [b \in D |-> <<>>] \in [D -> Seq(Int)]
    BY <2>1
  <2> QED
    BY <1>8, <2>2 DEF Values
<1>10. LocalsTyped'
  BY <1>1, <1>3, <1>6, <1>9 DEF LocalsTyped
<1>11. Grown
  BY <1>1, <1>3, <1>5, UnchangedChain DEF ChainTyped
<1>12. ChainTyped' /\ FlagsTyped' /\ Kept'
  BY <1>3, <1>11, StoredKept DEF Grown, RewardsInv, FlagsTyped
<1>13. FaultsTyped'
  <2>1. faults \in Nat /\ faults' = faults /\ MaxFaults \in Nat
    BY <1>1, <1>3, RewardsBounds DEF FaultsTyped
  <2>2. lost' \in Nat /\ lost' + faults <= MaxFaults
    BY <1>5
  <2>3. faults' + lost' <= MaxFaults
    BY <2>1, <2>2, SumSwapped
  <2> QED
    BY <2>1, <2>2, <2>3 DEF FaultsTyped
<1>14. /\ pc'[u] = "logs" /\ since'[u] = since[u] /\ DOMAIN found'[u] = D
       /\ \A b \in D : found'[u][b] = <<>>
  BY <1>1, <1>3, <1>6
<1>15. \A b \in D : Len(found'[u][b]) = 0
  BY <1>14, EmptySeq
<1>16. from = WeekAgo(since[u])' /\ to = Len(chain)' /\ Reports(from, to)' = Reports(from, to)
  BY <1>3 DEF WeekAgo, Reports
<1>17. Reports(WeekAgo(since[u]), Len(chain))' = Reports(from, to)
  BY <1>3 DEF WeekAgo, Reports
<1>18. UpdateInv(u)'
  <2>1. UpdateTyped(u)'
    BY <1>2, <1>14, <1>16 DEF UpdateTyped
  <2>2. FoundTyped(u)'
    <3>1. DOMAIN found'[u] \subseteq Reports(WeekAgo(since[u]), Len(chain))'
      BY <1>8, <1>14, <1>17
    <3>2. \A b \in DOMAIN found'[u] : Len(found'[u][b]) <= 3 /\ ~(Len(found'[u][b]) >= 2)
      BY <1>14, <1>15
    <3> QED
      BY <1>14, <3>1, <3>2 DEF FoundTyped
  <2>3. FoundIsOfWeek(u)'
    <3> SUFFICES ASSUME lost' = 0
                 PROVE  \E t \in since'[u]..Len(chain)' : DOMAIN found'[u] = Reports(WeekAgo(since[u]), t)'
      BY DEF FoundIsOfWeek
    <3>1. Len(chain)' \in since'[u]..Len(chain)'
      BY <1>2, <1>14, <1>16
    <3> QED
      BY <1>8, <1>14, <1>17, <3>1
  <2>4. FoundIsOwn(u)'
    BY <1>14, <1>15 DEF FoundIsOwn
  <2> QED
    BY <2>1, <2>2, <2>3, <2>4 DEF UpdateInv
<1>19. \A v \in Updates \ {u} : pc'[v] = pc[v] /\ since'[v] = since[v] /\ found'[v] = found[v]
  BY <1>1, <1>3, <1>6
<1>20. Working'
  BY <1>10, <1>11, <1>18, <1>19, StepOfUpdate
<1> QED
  BY <1>12, <1>13, <1>20 DEF RewardsInv

\* What a log of a report adds to the values found.
LEMMA FoundTypes ==
  ASSUME RewardsInv, NEW u \in Updates, NEW b \in DOMAIN found[u]
  PROVE  /\ found[u] \in Values /\ DOMAIN found[u] \in SUBSET Nat /\ found[u][b] \in Seq(Int)
         /\ Len(found[u][b]) \in Nat /\ DOMAIN found[u][b] = 1..Len(found[u][b])
         /\ \A i \in 1..Len(found[u][b]) : found[u][b][i] \in Int
         /\ b \in DOMAIN chain /\ b \in Nat /\ b <= Len(chain)
         /\ chain[b].report /\ chain[b].frames # 0
<1>1. found \in [Updates -> Values] /\ FoundTyped(u) /\ ChainTyped
  BY DEF RewardsInv, Working, LocalsTyped, UpdateInv
<1>2. found[u] \in Values
  BY <1>1
<1>3. PICK D \in SUBSET Nat : found[u] \in [D -> Seq(Int)]
  BY <1>2 DEF Values
<1>4. DOMAIN found[u] = D /\ found[u][b] \in Seq(Int)
  BY <1>3
<1>5. /\ Len(found[u][b]) \in Nat /\ DOMAIN found[u][b] = 1..Len(found[u][b])
      /\ \A i \in 1..Len(found[u][b]) : found[u][b][i] \in Int
  BY <1>4, LenProperties, ElementOfSeq
<1>6. b \in DOMAIN chain /\ chain[b].report /\ chain[b].frames # 0
  BY <1>1, ReportsTyped DEF FoundTyped
<1>7. b \in Nat /\ b <= Len(chain)
  BY <1>1, <1>6, BlockTyped
<1> QED
  BY <1>2, <1>4, <1>5, <1>6, <1>7

LEMMA LogsTyped == Len(Logs) = 3 /\ \A i \in 1..3 : Logs[i] \in LogNames /\ (i = 2 => Logs[i] = "el")
<1>1. Logs = <<"diff", "el", "wr">>
  BY DEF Logs
<1>2. Len(Logs) = 3 /\ Logs[1] = "diff" /\ Logs[2] = "el" /\ Logs[3] = "wr"
  BY <1>1
<1>3. \A i \in 1..3 : i = 1 \/ i = 2 \/ i = 3
  OBVIOUS
<1> QED
  BY <1>2, <1>3 DEF LogNames

\* A report with all its logs emits each of them.
LEMMA AllLogs ==
  ASSUME ChainTyped, LogsComplete, NEW b \in DOMAIN chain, chain[b].report, NEW log \in LogNames
  PROVE  Emits(b, log)
<1>1. chain[b].el \in Nat /\ chain[b].el # 0 /\ chain[b].wr \in Nat /\ chain[b].wr # 0
  BY BlockTyped DEF LogsComplete
<1>2. chain[b].el > 0 /\ chain[b].wr > 0
  BY <1>1
<1> QED
  BY <1>2 DEF Emits, LogNames

LEMMA ReadLogKeeps ==
  ASSUME RewardsInv, NEW u \in Updates, NEW b \in DOMAIN found[u], ReadLog(u, b) PROVE RewardsInv'
<1> DEFINE to == Len(chain)
           old == found[u][b]
           n == Len(old)
<1>1. /\ pc \in [Updates -> {"idle", "head", "list", "logs"}]
      /\ since \in [Updates -> Nat] /\ found \in [Updates -> Values]
      /\ UpdateTyped(u) /\ FoundTyped(u) /\ FoundIsOfWeek(u) /\ FoundIsOwn(u)
      /\ ChainTyped /\ FaultsTyped
  BY DEF RewardsInv, Working, LocalsTyped, UpdateInv
<1>2. /\ to \in Nat /\ b \in Nat /\ b <= to /\ b \in DOMAIN chain /\ chain[b].report
      /\ old \in Seq(Int) /\ n \in Nat
  BY <1>1, BlockTyped, FoundTypes
<1>3. /\ UNCHANGED <<chain, events, sentry, configured, subscribed, pc, since, stored, storedSince, faults>>
      /\ pc[u] = "logs" /\ n < 3
  BY LogsTyped DEF ReadLog
<1>4. PICK failed \in SUBSET Ranges(b, to) :
        /\ Exhausted(failed)
        /\ found' = [found EXCEPT ![u][b] = Append(@, Found(Logs[Len(@) + 1], UNION (Ranges(b, to) \ failed)))]
  BY DEF ReadLog
<1>5. /\ lost' \in Nat /\ lost <= lost' /\ lost' + faults <= MaxFaults
      /\ lost' = 0 => failed = {} /\ lost = 0
  BY <1>1, <1>2, <1>4, ExhaustedRanges
<1> DEFINE log == Logs[n + 1]
           value == Found(log, UNION (Ranges(b, to) \ failed))
           new == Append(old, value)
<1>6. n + 1 \in 1..3 /\ log \in LogNames /\ (n = 1 => log = "el")
  <2>1. n \in Nat /\ n < 3
    BY <1>2, <1>3
  <2> HIDE DEF n
  <2>2. n + 1 \in 1..3 /\ (n = 1 => n + 1 = 2)
    BY <2>1
  <2> QED
    BY <2>2, LogsTyped
<1>7. value \in Int /\ (n = 1 => value \in Nat)
  <2> HIDE DEF log
  <2> QED
    BY <1>1, <1>6, FoundIsTyped
<1>8. lost' = 0 /\ LogsComplete => value = chain[b][log]
  <2> HIDE DEF log
  <2> SUFFICES ASSUME lost' = 0, LogsComplete PROVE value = chain[b][log]
    OBVIOUS
  <2>1. UNION (Ranges(b, to) \ failed) = b..to
    BY <1>2, <1>5, RangesCover
  <2>2. Emits(b, log)
    BY <1>1, <1>2, <1>6, AllLogs
  <2> QED
    BY <1>1, <1>2, <1>6, <2>1, <2>2, FoundOfReport
<1>9. found' = [found EXCEPT ![u] = [found[u] EXCEPT ![b] = new]]
  BY <1>1, <1>4
<1> HIDE DEF value
<1>10. /\ new \in Seq(Int) /\ Len(new) = n + 1 /\ new[n + 1] = value
       /\ \A i \in 1..n : new[i] = old[i]
  BY <1>2, <1>7, AppendProperties
<1> HIDE DEF new
<1>11. /\ found'[u] = [found[u] EXCEPT ![b] = new] /\ DOMAIN found'[u] = DOMAIN found[u]
       /\ found'[u][b] = new /\ \A d \in DOMAIN found[u] \ {b} : found'[u][d] = found[u][d]
  BY <1>1, <1>9
<1>12. found'[u] \in Values
  <2>1. PICK D \in SUBSET Nat : found[u] \in [D -> Seq(Int)]
    BY <1>1 DEF Values
  <2>2. [found[u] EXCEPT ![b] = new] \in [D -> Seq(Int)]
    BY <1>10, <2>1
  <2> QED
    BY <1>11, <2>2 DEF Values
<1>13. LocalsTyped'
  <2>1. found' \in [Updates -> Values]
    <3> DEFINE f == [found[u] EXCEPT ![b] = new]
    <3>1. f \in Values
      BY <1>11, <1>12
    <3> HIDE DEF f
    <3> QED
      BY <1>1, <1>9, <3>1 DEF f
  <2> QED
    BY <1>1, <1>3, <2>1 DEF LocalsTyped
<1>14. Grown
  BY <1>1, <1>3, <1>5, UnchangedChain DEF ChainTyped
<1>15. ChainTyped' /\ FlagsTyped' /\ Kept'
  BY <1>3, <1>14, StoredKept DEF Grown, RewardsInv, FlagsTyped
<1>16. FaultsTyped'
  <2>1. faults \in Nat /\ faults' = faults /\ MaxFaults \in Nat
    BY <1>1, <1>3, RewardsBounds DEF FaultsTyped
  <2>2. lost' \in Nat /\ lost' + faults <= MaxFaults
    BY <1>5
  <2>3. faults' + lost' <= MaxFaults
    BY <2>1, <2>2, SumSwapped
  <2> QED
    BY <2>1, <2>2, <2>3 DEF FaultsTyped
<1>17. \A d : Reports(WeekAgo(since[u]), d)' = Reports(WeekAgo(since[u]), d)
  BY <1>3 DEF WeekAgo, Reports
<1>18. Reports(WeekAgo(since[u]), Len(chain))' = Reports(WeekAgo(since[u]), Len(chain))
  BY <1>3 DEF WeekAgo, Reports
<1>19. UpdateInv(u)'
  <2>1. UpdateTyped(u)'
    BY <1>1, <1>3 DEF UpdateTyped
  <2>2. FoundTyped(u)'
    <3>1. DOMAIN found'[u] \subseteq Reports(WeekAgo(since[u]), Len(chain))' /\ pc'[u] = "logs"
      BY <1>1, <1>3, <1>11, <1>18 DEF FoundTyped
    <3>2. Len(found'[u][b]) <= 3 /\ (Len(found'[u][b]) >= 2 => found'[u][b][2] \in Nat)
      <4>1. Len(new) <= 3
        BY <1>2, <1>3, <1>10
      <4>2. ASSUME Len(new) >= 2 PROVE new[2] \in Nat
        <5>1. CASE n = 1
          BY <1>7, <1>10, <5>1
        <5>2. CASE n >= 2
          <6>1. old[2] \in Nat
            BY <1>1, <5>2 DEF FoundTyped
          <6>2. 2 \in 1..n
            BY <1>2, <5>2
          <6> QED
            BY <1>10, <6>1, <6>2
        <5>3. n \in Nat /\ n + 1 >= 2
          BY <1>2, <1>10, <4>2
        <5>4. n = 1 \/ n >= 2
          <6>1. \A k \in Nat : k + 1 >= 2 => k = 1 \/ k >= 2
            OBVIOUS
          <6> QED
            BY <5>3, <6>1
        <5> QED
          BY <5>1, <5>2, <5>4
      <4> QED
        BY <1>11, <4>1, <4>2
    <3>3. \A d \in DOMAIN found'[u] : /\ Len(found'[u][d]) <= 3
                                      /\ Len(found'[u][d]) >= 2 => found'[u][d][2] \in Nat
      <4> TAKE d \in DOMAIN found'[u]
      <4>1. CASE d = b
        BY <3>2, <4>1
      <4>2. CASE d \in DOMAIN found[u] \ {b}
        BY <1>1, <1>11, <4>2 DEF FoundTyped
      <4> QED
        BY <1>11, <4>1, <4>2
    <3> QED
      BY <3>1, <3>3 DEF FoundTyped
  <2>3. FoundIsOfWeek(u)'
    BY <1>1, <1>3, <1>5, <1>11, <1>17 DEF FoundIsOfWeek
  <2>4. FoundIsOwn(u)'
    <3> SUFFICES ASSUME lost' = 0, LogsComplete', NEW d \in DOMAIN found'[u], NEW i \in 1..Len(found'[u][d])
                 PROVE  found'[u][d][i] = chain[d][Logs[i]]
      BY <1>3 DEF FoundIsOwn, Logs
    <3>1. lost = 0 /\ LogsComplete
      BY <1>5, <1>14, LogsCompleteBefore
    <3>2. \A e \in DOMAIN found[u] : \A j \in 1..Len(found[u][e]) : found[u][e][j] = chain[e][Logs[j]]
      BY <1>1, <3>1 DEF FoundIsOwn
    <3>3. CASE d \in DOMAIN found[u] \ {b}
      BY <1>11, <3>2, <3>3
    <3>4. CASE d = b
      <4>1. i \in 1..(n + 1)
        BY <1>10, <1>11, <3>4
      <4>2. CASE i = n + 1
        BY <1>8, <1>10, <1>11, <3>1, <3>4, <4>2
      <4>3. CASE i \in 1..n
        BY <1>10, <1>11, <3>2, <3>4, <4>3
      <4>4. i = n + 1 \/ i \in 1..n
        BY <1>2, <4>1
      <4> QED
        BY <4>2, <4>3, <4>4
    <3> QED
      BY <1>11, <3>3, <3>4
  <2> QED
    BY <2>1, <2>2, <2>3, <2>4 DEF UpdateInv
<1>20. \A v \in Updates \ {u} : pc'[v] = pc[v] /\ since'[v] = since[v] /\ found'[v] = found[v]
  BY <1>1, <1>3, <1>9
<1>21. Working'
  BY <1>13, <1>14, <1>19, <1>20, StepOfUpdate
<1> QED
  BY <1>15, <1>16, <1>21 DEF RewardsInv

\* The rewards of a report, from the values found for it.
LEMMA RewardsTyped ==
  ASSUME NEW kind \in Block, kind.frames # 0, NEW values \in Seq(Int), Len(values) = 3, values[2] \in Nat
  PROVE  Rewards(kind, values) \in [cl : Int, el : Nat]
<1>1. kind.frames \in Nat \ {0}
  BY DEF Block
<1>2. values[1] \in Int /\ values[2] \in Nat /\ values[3] \in Int
  BY ElementOfSeq
<1>3. values[1] + values[3] \in Int /\ values[2] >= 0
  BY <1>2
<1>4. Quotient(values[1] + values[3], kind.frames) \in Int
  BY <1>1, <1>3, QuotientTyped
<1>5. Quotient(values[2], kind.frames) \in Nat
  <2>1. values[2] \in Int
    BY <1>2
  <2> QED
    BY <1>1, <1>3, <2>1, QuotientTyped
<1> QED
  BY <1>4, <1>5 DEF Rewards

LEMMA PublishKeeps ==
  ASSUME RewardsInv, NEW u \in Updates, Publish(u) PROVE RewardsInv'
<1> DEFINE D == DOMAIN found[u]
           r(b) == Rewards(chain[b], found[u][b])
           R == {r(b) : b \in D}
<1>1. /\ UpdateTyped(u) /\ FoundTyped(u) /\ FoundIsOfWeek(u) /\ FoundIsOwn(u)
      /\ since[u] \in Nat /\ ChainTyped /\ FaultsTyped
  BY DEF RewardsInv, Working, LocalsTyped, UpdateInv
<1>2. /\ pc[u] = "logs" /\ \A b \in D : Len(found[u][b]) = 3
      /\ stored' = Minimum(R) /\ storedSince' = since[u]
      /\ subscribed' = (subscribed \/ u = "first") /\ EndUpdate(u)
      /\ UNCHANGED <<chain, events, sentry, configured, faults, lost>>
  BY LogsTyped DEF Publish
<1>3. \A b \in D : /\ b \in DOMAIN chain /\ chain[b] \in Block /\ chain[b].report /\ chain[b].frames # 0
                   /\ found[u][b] \in Seq(Int) /\ found[u][b][2] \in Nat
  <2> TAKE b \in D
  <2>1. b \in DOMAIN chain /\ chain[b].report /\ chain[b].frames # 0 /\ found[u][b] \in Seq(Int)
    BY FoundTypes
  <2>2. chain[b] \in Block
    BY <1>1, <2>1, BlockTyped
  <2>3. found[u][b][2] \in Nat
    BY <1>1, <1>2 DEF FoundTyped
  <2> QED
    BY <2>1, <2>2, <2>3
<1>4. \A b \in D : r(b) \in [cl : Int, el : Nat]
  BY <1>2, <1>3, RewardsTyped
<1>5. IsFiniteSet(R)
  <2>1. Len(chain) \in Nat /\ D \subseteq 1..Len(chain)
    BY <1>1, <1>3, BlockTyped
  <2>2. IsFiniteSet(D)
    <3>1. IsFiniteSet(1..Len(chain))
      BY <2>1, FS_Interval
    <3> HIDE DEF D
    <3> QED
      BY <2>1, <3>1, FS_Subset
  <2> DEFINE f == [b \in D |-> r(b)]
  <2>3. f \in [D -> R] /\ \A y \in R : \E b \in D : f[b] = y
    OBVIOUS
  <2> HIDE DEF f, R
  <2> QED
    BY <2>2, <2>3, FiniteImage
<1>6. stored' \in [cl : Int, el : Nat, all : Int] /\ stored'.all = stored'.cl + stored'.el
  <2>1. R \in SUBSET [cl : Int, el : Nat]
    BY <1>4
  <2> HIDE DEF R
  <2> QED
    BY <1>2, <1>5, <2>1, MinimumTyped
<1>7. Grown
  BY <1>1, <1>2, UnchangedChain DEF ChainTyped, FaultsTyped
<1>8. ChainTyped' /\ FlagsTyped' /\ FaultsTyped' /\ Working'
  <2>1. FlagsTyped'
    <3>1. subscribed \in BOOLEAN /\ sentry \in BOOLEAN /\ configured \in BOOLEAN
      BY DEF RewardsInv, FlagsTyped
    <3>2. subscribed' \in BOOLEAN
      BY <1>2, <3>1
    <3> QED
      BY <1>2, <3>1, <3>2 DEF FlagsTyped
  <2>2. FaultsTyped'
    BY <1>1, <1>2 DEF FaultsTyped
  <2> QED
    BY <1>2, <1>7, <2>1, <2>2, EndKeeps DEF Grown
<1>9. StoredTyped'
  BY <1>1, <1>2, <1>6 DEF StoredTyped, UpdateTyped
<1>10. PublishedIsMinimum'
  <2>1. CASE lost # 0
    <3>1. lost' > 0
      BY <1>1, <1>2, <2>1 DEF FaultsTyped
    <3> QED
      BY <3>1 DEF PublishedIsMinimum
  <2>2. CASE ~LogsComplete
    <3>1. \E b \in DOMAIN chain', log \in {"el", "wr"} : chain'[b].report /\ chain'[b][log] = 0
      BY <1>2, <2>2 DEF LogsComplete
    <3> QED
      BY <3>1 DEF PublishedIsMinimum
  <2>3. CASE lost = 0 /\ LogsComplete
    <3>1. PICK to \in since[u]..Len(chain) : D = Reports(WeekAgo(since[u]), to)
      BY <1>1, <1>2, <2>3 DEF FoundIsOfWeek
    <3>2. ASSUME NEW b \in D PROVE r(b) = Own(b)
      <4>1. \A i \in 1..3 : found[u][b][i] = chain[b][Logs[i]]
        BY <1>1, <1>2, <2>3 DEF FoundIsOwn
      <4>2. Logs[1] = "diff" /\ Logs[2] = "el" /\ Logs[3] = "wr"
        BY DEF Logs
      <4>3. found[u][b][1] = chain[b].diff /\ found[u][b][2] = chain[b].el /\ found[u][b][3] = chain[b].wr
        BY <4>1, <4>2
      <4> DEFINE own == <<chain[b].diff, chain[b].el, chain[b].wr>>
      <4>4. own[1] = chain[b].diff /\ own[2] = chain[b].el /\ own[3] = chain[b].wr
        OBVIOUS
      <4> HIDE DEF own
      <4>5. Rewards(chain[b], found[u][b]) = Rewards(chain[b], own)
        BY <4>3, <4>4 DEF Rewards
      <4> QED
        BY <4>5 DEF Own, own
    <3>3. R = {Own(b) : b \in Reports(WeekAgo(since[u]), to)}
      BY <3>1, <3>2
    <3>4. stored' = Minimum({Own(b) : b \in Reports(WeekAgo(since[u]), to)})
      BY <1>2, <3>3
    <3>5. Minimum({Own(b) : b \in Reports(WeekAgo(storedSince), to)})'
            = Minimum({Own(b) : b \in Reports(WeekAgo(since[u]), to)})
      <4>1. {Own(b) : b \in Reports(WeekAgo(storedSince), to)}' = {Own(b) : b \in Reports(WeekAgo(since[u]), to)}
        BY <1>2 DEF Own, Rewards, Reports, WeekAgo
      <4> QED
        BY <4>1 DEF Minimum
    <3>6. to \in storedSince'..Len(chain)'
      BY <1>2
    <3> QED
      BY <3>4, <3>5, <3>6 DEF PublishedIsMinimum
  <2> QED
    BY <2>1, <2>2, <2>3
<1> QED
  BY <1>8, <1>9, <1>10 DEF RewardsInv, Kept

LEMMA RewardsStarts == RewardsInit => RewardsInv
<1> SUFFICES ASSUME RewardsInit PROVE RewardsInv
  OBVIOUS
<1>1. PICK c \in Chains : chain = SubSeq(c, 1, Before)
  BY DEF RewardsInit
<1>2. Before \in 0..Len(c)
  BY BlocksOf, RewardsBounds
<1>3. chain \in Seq(Block) /\ Len(chain) = Before /\ IsPrefix(chain, c) /\ Before \in Nat
  BY <1>1, <1>2, BlocksOf, RewardsBounds
<1>4. ChainTyped
  BY <1>3 DEF ChainTyped, RewardsInit
<1>5. FlagsTyped /\ FaultsTyped
  <2>1. FlagsTyped
    BY DEF FlagsTyped, RewardsInit, Boot
  <2>2. faults = 0 /\ lost = 0 /\ MaxFaults \in Nat
    BY RewardsBounds DEF RewardsInit
  <2>3. FaultsTyped
    BY <2>2 DEF FaultsTyped
  <2> QED
    BY <2>1, <2>3
<1>6. LocalsTyped
  BY NoFoundTyped DEF LocalsTyped, RewardsInit, Boot
<1>7. ASSUME NEW u \in Updates PROVE UpdateInv(u)
  <2>1. pc[u] # "logs" /\ found[u] = NoFound /\ since[u] = 0
    BY DEF RewardsInit, Boot
  <2>2. DOMAIN found[u] = {}
    BY <2>1, NoFoundTyped
  <2>3. UpdateTyped(u)
    BY <1>3, <2>1 DEF UpdateTyped
  <2>4. FoundTyped(u) /\ FoundIsOfWeek(u) /\ FoundIsOwn(u)
    BY <2>1, <2>2 DEF FoundTyped, FoundIsOfWeek, FoundIsOwn
  <2> QED
    BY <2>3, <2>4 DEF UpdateInv
<1>8. Kept
  <2>1. stored = Zero /\ storedSince = 0
    BY DEF RewardsInit, Boot
  <2>2. StoredTyped
    BY <1>3, <2>1 DEF StoredTyped, Zero
  <2> QED
    BY <2>1, <2>2 DEF Kept, PublishedIsMinimum
<1> QED
  BY <1>4, <1>5, <1>6, <1>7, <1>8 DEF RewardsInv, Working

LEMMA RewardsKeeps == RewardsInv /\ [RewardsNext]_rewardsVars => RewardsInv'
<1> SUFFICES ASSUME RewardsInv, [RewardsNext]_rewardsVars PROVE RewardsInv'
  OBVIOUS
<1>1. CASE Mine
  BY <1>1, MineKeeps
<1>2. CASE Configure \/ UNCHANGED rewardsVars
  BY <1>2, ConfigureKeeps
<1>3. CASE Restart
  <2>1. "first" \in Updates
    BY DEF Updates
  <2> QED
    BY <1>3, <2>1, FailuresKeep
<1>4. CASE \E u \in Updates : Proceed(u) \/ Fail(u)
  <2>1. PICK u \in Updates : Proceed(u) \/ Fail(u)
    BY <1>4
  <2>2. CASE Handle(u) \/ ReadHead(u)
    BY <2>2, BeginKeeps
  <2>3. CASE ReadReports(u)
    BY <2>3, ReadReportsKeeps
  <2>4. CASE \E b \in DOMAIN found[u] : ReadLog(u, b)
    BY <2>4, ReadLogKeeps
  <2>5. CASE Publish(u)
    BY <2>5, PublishKeeps
  <2>6. CASE FailUnconfigured(u) \/ Fail(u)
    BY <2>6, FailuresKeep
  <2> QED
    BY <2>1, <2>2, <2>3, <2>4, <2>5, <2>6 DEF Proceed
<1> QED
  BY <1>1, <1>2, <1>3, <1>4 DEF RewardsNext

LEMMA RewardsInvariant == RewardsSpec => []RewardsInv
  BY RewardsStarts, RewardsKeeps, PTL DEF RewardsSpec

\* However many updates overlap, fail and start anew, each one knows only reports
\* of the blocks it has asked for, and the stored figures add up.
THEOREM RewardsTypesHold == RewardsSpec => []RewardsTypeOK
<1>1. RewardsInv => RewardsTypeOK
  <2> SUFFICES ASSUME RewardsInv PROVE RewardsTypeOK
    OBVIOUS
  <2>1. /\ \E c \in Chains : IsPrefix(chain, c)
        /\ Len(chain) >= Before /\ events \in 0..Len(chain) - Before /\ Len(chain) \in Nat
    <3>1. Len(chain) \in Nat /\ Before \in Nat /\ events \in Nat /\ events + Before <= Len(chain)
      BY BlockTyped, RewardsBounds DEF RewardsInv, ChainTyped
    <3>2. events \in 0..Len(chain) - Before
      BY <3>1
    <3> QED
      BY <3>1, <3>2 DEF RewardsInv, ChainTyped
  <2>2. sentry \in BOOLEAN /\ configured \in BOOLEAN /\ subscribed \in BOOLEAN
    BY DEF RewardsInv, FlagsTyped
  <2>3. pc \in [Updates -> {"idle", "head", "list", "logs"}]
    BY DEF RewardsInv, Working, LocalsTyped
  <2>4. ASSUME NEW u \in Updates
        PROVE  /\ since[u] \in 0..Len(chain)
               /\ pc[u] \in {"idle", "head"} => since[u] = 0
               /\ DOMAIN found[u] \subseteq Reports(WeekAgo(since[u]), Len(chain))
               /\ found[u] # NoFound => pc[u] = "logs"
               /\ \A b \in DOMAIN found[u] : Len(found[u][b]) <= Len(Logs)
    <3>1. since[u] \in Nat /\ UpdateTyped(u) /\ FoundTyped(u)
      BY DEF RewardsInv, Working, LocalsTyped, UpdateInv
    <3>2. since[u] \in 0..Len(chain)
      BY <2>1, <3>1 DEF UpdateTyped
    <3> QED
      BY <3>1, <3>2, LogsTyped DEF UpdateTyped, FoundTyped
  <2>5. /\ stored \in [cl : Int, el : Nat, all : Int] /\ stored.all = stored.cl + stored.el
        /\ storedSince \in 0..Len(chain)
    BY <2>1 DEF RewardsInv, Kept, StoredTyped
  <2>6. faults \in Nat /\ lost \in Nat /\ faults + lost <= MaxFaults
    BY DEF RewardsInv, FaultsTyped
  <2> QED
    BY <2>1, <2>2, <2>3, <2>4, <2>5, <2>6 DEF RewardsTypeOK
<1> QED
  BY <1>1, RewardsInvariant, PTL

\* When no range of blocks is lost and every report has all its logs, the stored
\* figures are the minimum over exactly the reports of the week before an update up
\* to some moment during it, for every chain, any number of overlapping updates and
\* reports that come meanwhile.
THEOREM PublishedIsTheMinimum == RewardsSpec => []PublishedIsMinimum
<1>1. RewardsInv => PublishedIsMinimum
  BY DEF RewardsInv, Kept
<1> QED
  BY <1>1, RewardsInvariant, PTL

=============================================================================
