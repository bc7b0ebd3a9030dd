------------------------------ MODULE Schedule ------------------------------
(***************************************************************************)
(* The cron jobs that run the full validators update (ValidatorsService):  *)
(* the times derived from the frames of the exit bus oracle, the jobs that *)
(* initialize() starts and their replacement by the contract-config job.   *)
(*                                                                         *)
(* A schedule is a set of cron entries and an entry the set of the times   *)
(* of a day, in seconds, at which it fires.  The jobs made by one          *)
(* assignment are one record, told apart from others by its number.        *)
(***************************************************************************)
EXTENDS Integers, FiniteSets

CONSTANTS DaySeconds,       \* 24 * 60 * 60
          MinuteSeconds,    \* resolution of a cron entry
          Genesis,          \* genesis_time of the beacon chain
          SecondsPerEpoch,  \* SECONDS_PER_SLOT * SLOTS_PER_EPOCH
          UpdateDelay,      \* UPDATE_DELAY_MS
          DefaultTimes      \* JOB_INTERVAL_VALIDATORS or the default of the chain

ASSUME ScheduleConstants ==
  /\ DaySeconds \in Nat \ {0} /\ MinuteSeconds \in Nat \ {0}
  /\ DaySeconds % MinuteSeconds = 0
  /\ Genesis \in Nat /\ SecondsPerEpoch \in Nat \ {0} /\ UpdateDelay \in Nat
  /\ DefaultTimes \in SUBSET SUBSET (0..DaySeconds - 1) /\ DefaultTimes # {}

VARIABLES
  boot,        \* initialize() awaits: the cache, the first update, nothing more
  cronTimes,   \* validatorUpdateCronTimes
  cronJobs,    \* the jobs the service can stop
  running,     \* the jobs that are started
  made         \* how many assignments have made jobs

schedule == <<boot, cronTimes, cronJobs, running, made>>

NoJobs == [number |-> 0, times |-> {}]

ScheduleInit ==
  /\ boot = "cache"
  /\ cronTimes = {} /\ cronJobs = NoJobs
  /\ running = {} /\ made = 0

-----------------------------------------------------------------------------
(* The times.                                                              *)

\* getTimestampByEpoch
EpochStart(epoch) == Genesis + epoch * SecondsPerEpoch

ToMinute(t) == t - (t % MinuteSeconds)

\* Slip: a run per frame until midnight, counted from the first one.
CronUntilMidnight(initialEpoch, epochsPerFrame) ==
  LET each  == epochsPerFrame * SecondsPerEpoch
      first == (EpochStart(initialEpoch) + UpdateDelay) % DaySeconds
  IN  IF DaySeconds % each # 0 THEN {}
      ELSE {{ToMinute(first + i * each)} :
              i \in {k \in 0..DaySeconds \div each - 1 : first + k * each < DaySeconds}}

\* buildCron: the times of a day at which a report of the exit bus oracle is
\* UpdateDelay old; nothing when a day is not a number of frames.
Cron(initialEpoch, epochsPerFrame) ==
  LET each  == epochsPerFrame * SecondsPerEpoch
      first == (EpochStart(initialEpoch) + UpdateDelay) % DaySeconds
  IN  IF DaySeconds % each # 0 THEN {}
      ELSE {{ToMinute((first + i * each) % DaySeconds)} : i \in 0..DaySeconds \div each - 1}

TimesOf(jobs) == UNION {UNION j.times : j \in jobs}

-----------------------------------------------------------------------------
(* The jobs.                                                               *)

StartJobs(times) ==
  /\ made' = made + 1
  /\ cronJobs' = [number |-> made + 1, times |-> times]

\* The cache file has been tried; the first update begins.
FirstUpdate ==
  /\ boot = "cache" /\ boot' = "first"
  /\ cronTimes' = DefaultTimes
  /\ UNCHANGED <<cronJobs, running, made>>

\* The first update has ended or failed: jobs of the times that initialize()
\* read before it, in the place of whatever was made meanwhile.
StartFirstJobs ==
  /\ boot = "first" /\ boot' = "started"
  /\ StartJobs(DefaultTimes)
  /\ running' = running \cup {cronJobs'}
  /\ UNCHANGED cronTimes

\* rescheduleCronJobs
Reschedule(times) ==
  /\ IF times = {} \/ times = cronTimes
     THEN UNCHANGED <<cronTimes, cronJobs, running, made>>
     ELSE /\ cronTimes' = times
          /\ StartJobs(times)
          /\ running' = (running \ {cronJobs}) \cup {cronJobs'}
  /\ UNCHANGED boot
=============================================================================
