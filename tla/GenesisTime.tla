----------------------------- MODULE GenesisTime -----------------------------
(***************************************************************************)
(* Clock arithmetic of GenesisTimeService: epochs since genesis and oracle *)
(* report frames since the initial epoch of the HashConsensus contract.    *)
(* Times and durations are in ticks of the clock Date.now(), milliseconds  *)
(* in the code.  Genesis and the epochs are whole seconds, which the code  *)
(* counts in seconds and converts.                                         *)
(***************************************************************************)
EXTENDS Integers

CONSTANTS Second,           \* 1000 ticks
          Genesis,          \* genesis_time of the beacon chain
          EpochLength,      \* SECONDS_PER_SLOT * SLOTS_PER_EPOCH
          InitialEpoch,     \* HashConsensus.getFrameConfig
          EpochsPerFrame

IsWhole(t) == t % Second = 0

ASSUME ClockConstants == /\ Second \in Nat \ {0}
                         /\ Genesis \in Nat /\ IsWhole(Genesis)
                         /\ EpochLength \in Nat \ {0} /\ IsWhole(EpochLength)
                         /\ InitialEpoch \in Nat
                         /\ EpochsPerFrame \in Nat \ {0}

FrameLength == EpochsPerFrame * EpochLength

\* Epoch of a timestamp: getEpochByTimestamp, and getCurrentEpoch for now.  The
\* code cuts the time to seconds first, which leaves it in the same epoch.
EpochAt(t) == (t - Genesis) \div EpochLength

FrameOfEpoch(epoch) == (epoch - InitialEpoch) \div EpochsPerFrame

\* Frame of a timestamp, computed without going through epochs.
FrameAt(t) == (t - Genesis - InitialEpoch * EpochLength) \div FrameLength

\* Reference time of the report of a frame, a whole second.
ReportTime(frame) == Genesis + (InitialEpoch + frame * EpochsPerFrame) * EpochLength

\* Math.round to seconds: to the nearest one, upwards from the middle.
Rounded(time) == Second * ((2 * time + Second) \div (2 * Second))

\* The time left until the report: of all the results the only one rounded.
TimeToFrame(frame, from) == Rounded(ReportTime(frame) - from)
=============================================================================
