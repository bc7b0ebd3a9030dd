# Withdrawals API: specification and verification

TLA+ modules, TLC configurations and machine-checked proofs for the Lido
withdrawals API (`src/`), the NestJS service that estimates when a withdrawal
request will be finalized. Paths below are relative to `src/src/` unless they
begin with `src/`.

## 1. The system

The process keeps everything in memory. Background *jobs* read the contracts
and the beacon node and write *storages*; *questions* over HTTP read the
storages and a cache of the balances of one block. Nothing is locked: a job or a
question is interrupted at every `await`, and only there. `@OneAtTime` on a job
drops a call that comes while another one runs. The only thing persisted is a
cache file of the validators storage; a restart loses the rest. A sidecar
rotates the secrets the process was started with.

### Inventory

| component | state | operations | interacts with | hard about it | what makes it correct |
|---|---|---|---|---|---|
| queue-info job `jobs/queue-info`, `storage/queue-info` | requests of the queue, last id, count, sums | cron update: two unpinned counters, reuse of cached requests, pages | withdrawal-queue contract; read by the estimate | torn reads, stale cache, a page that fails, restart | the storage is a window of the queue that is replaced as a whole; ids are classified soundly; exact once quiet |
| waiting-time estimate `waiting-time` | none of its own | `getWaitingTimeInfo` (amount), `getWaitingTimeInfoById`, `calculateRequestsTime` (a list of ids) | all storages, block-state cache, genesis time | five cases, a margin and a gap around every report, frames in the past, old requests, zero rewards; the queue is replaced during a list | closest suitable report, never in the past, monotone in amount, reserve and time; a response is of one moment of the queue |
| genesis time `common/genesis-time` | genesis time | times, epochs, frames | estimate, validators job, block state | two ways of computing a frame | they agree; the next report is ahead |
| block-state cache `waiting-time/block-state-cache`, `jobs/contract-config/lido-extension-reader.ts` | number with time to live, state of a block | resolve a number, read a state (four reads in parallel) | provider, accounting oracle, consensus node, rewards | overlapping questions overwrite each other; missed slots; a failed read counts as 0; rewards stored during the reads | an answer is fresh; its figures are of one block and one update of the rewards; the caches settle |
| validators jobs `jobs/validators`, `storage/validators` | figures, balances per frame, ids, cache file | full update in three portions, light update in batches, load and save of the file | consensus node, estimate gate `checkIsInitializing` | two jobs interleave, partial storage, a torn or old file, restart | the gate implies a complete storage; balances are those of the leaving validators |
| schedule of the full update (same service) | cron times, cron jobs | `initialize`, `rescheduleCronJobs`, `buildCron` | contract-config job | boot overlaps rescheduling; times wrap at midnight | an update follows every report; jobs do not pile up |
| contract-config job `jobs/contract-config`, `storage/contract-config` | configuration, one-way latch | cron, two event handlers, one update | contracts, validators schedule | dropped events, late probes, a target that lags | nothing goes back; everything arrives |
| rewards `events`, `storage/rewards` | rewards per frame | first update, update at `TokenRebased`, balance of the vaults | logs of Lido by ranges; block-state cache | overlapping handlers, reports during the reads, exhausted retries, first failure, a frame with a loss | the minimum over the reports of a week at one moment; every report counts |
| execution provider `common/execution-provider` | none | paged log search, fallback | rewards, blocks | a failed range counts as empty | modelled inside rewards |
| sweep prediction, churn `common/sweep`, `jobs/validators/utils` | none | withdrawals in a round, delay, churn limit, slot of a withdrawal | full and light update | arithmetic on strings, rounding, wrapping cursor | equal to the rules of the beacon chain |
| secrets rotation `common/shutdown` | content last read | watch, read, retry, close, exit | file system, container | changes before the watch, failed reads, a close that hangs | restarts for new secrets only, once, and in the end always |
| spec service and job `jobs/spec`, lookup of a slot in `common/genesis-time`, `common/consensus-provider` | epoch of a fork | refresh at start and daily, `getBlockBySlot` | consensus node, block-state cache | overlapping refreshes with answers out of order, failures, a fork that is moved | a payload is found in the block or in its envelope; an announced fork becomes known |
| streamed reads `common/consensus-provider` | none | attempts around requests with timers around a pipeline of batches | consensus node, validators jobs | two loops of retries, timers nobody clears, bodies that hang, batches in flight of an attempt given up | the whole list of one state, or an error, in bounded time |
| first version of the estimate `http/request-time` | none of its own | `getRequestTime` | validators and queue storage, genesis time | a churn limit cut to whole validators; figures of several moments | follows the churn limit of the network |
| rest of HTTP, nft, configuration, metrics, health, logging, process start | none that matters | formatting, validation, wiring | the estimate | - | not modelled |

### Hard behaviours

Listed with their lines in `PROJECT.json` under `hazards`. In short: reads
that are not of one block (queue counters, logs of reports); jobs that
interleave (full and light update, handlers of `TokenRebased`, boot and
rescheduling); a storage that is replaced while a response is computed from it;
dropped calls (`@OneAtTime`); requests repeated by two loops, with timers that
outlive them; a restart between two writes; file states the watcher never sees;
and boundary arithmetic around report frames.

## 2. Modules

| module | models | state corresponds to | actions correspond to |
|---|---|---|---|
| `QueueInfo` | queue-info job, its storage, classification of ids | `requests`, `lastRequestId`, `requestsCount` = storage; `unfinalizedRead`, `lastRead`, `kept`, `todo` = locals | `StartUpdate`, `ReadUnfinalized`/`ReadLast` (the `Promise.all`), `PlanFetch` = `getUpdatedRequests`, `FetchPage`/`RejectPage`, `FailUpdate`, `Restart`; `Place`, `Finalize` = contract |
| `QueueView` | what the queue storage promises its readers (abstract) | `view` = the storage as a whole | `Show`, `Forget`; `Place`, `Finalize` |
| `RequestTime` (extends `QueueInfo`) | `calculateRequestsTime`: a response about a list of ids, next to the job | `stage`, `statuses`, `sums`, `open` = the response; `told` = what a client that polls was told | `AskFor`, `Classify` (all ids up to their first `await`), `Settle` = `checkInPastCase`, `Respond`, `FailResponse`; the actions of `QueueInfo` |
| `GenesisTime` | arithmetic of `GenesisTimeService`, on a clock finer than seconds | none | operators; `Rounded` = `Math.round` of the time left |
| `WaitingTime` (extends `GenesisTime`) | every case of the forecast and both questions | `st` = what one calculation reads; `answer` = the last response | `Ask`, `AskById`; `Refresh` = any job or block; `Tick` |
| `Validators` | both updates, storage, cache file, boot | flags for the figures, the sets counted and identified, `file` | one action per portion and await of each update, `Restart`, `FailFull`, `FailLight` |
| `BlockState` | number and state cache | `number`, `age`, `state`; locals per client | `Ask`, `ReadHead`, `ReadProcessing`, `ReadSlot`, `FallBack`, `ReadState`, `Fail` |
| `FreshBlock` | what that cache promises its callers (abstract) | open questions and answers | `Ask`, `Answer`, `Reject`; `NewBlock`, `Tick` |
| `Balances` | the reads of a block's state, `getDepositsReserveAt`, `getVaultsBalance` | `cache` = `stateCache`; `reserve`, `balances`, `vaults`, `base` = promises of a question | `Ask`, `ReadBase`, `ReadReserve`/`MissReserve`, `ReadVault`, `Finish`, `Fail`; `Store` = rewards, `Support` = configuration, `Mine` |
| `Schedule` | `buildCron`, jobs of `initialize`, `rescheduleCronJobs` | `cronTimes`, `cronJobs`, jobs `running` | `FirstUpdate`, `StartFirstJobs`, `Reschedule` |
| `ContractConfig` (extends `Schedule`) | the job with its callers, reads, latch, storage and the rescheduling it ends with | `stored`, `latched`, `locked`; locals per caller | `CronTick`, `Deliver`, `ReadBlock`, `ReadField`, `ReadTarget`, `Probe`, `LateProbe`, `Publish`, `Fail`, `Restart`, `ValidatorsBoot` |
| `Rewards` | first update, handlers, log search, minimum | `stored` = storage; `since`, `found` per update | `Handle`, `ReadHead`, `ReadReports`, `ReadLog`, `Publish`, `Fail`, `FailUnconfigured`, `Restart`; `Mine` = chain |
| `RequestDays` | arithmetic of the first version of the estimate and of `getChurnLimit` | none | operators |
| `Sweep` (extends `RequestDays`) | `SweepService` and `validator-state-utils`; `getValidatorWithdrawalTimestamp` and the sweep it predicts; `getRequestTime` | a question and its figure | `ComputeDelay`, `ComputeSlots`, `ComputeDays` |
| `ConsensusStream` | `execute` of the retry service, `fetchStream` with its requests and timers, the pipeline | `attempt`, `try`, `phase` = the two loops; `armed` = timers; `sent`, `held`, `data` = pipelines | `Open`, `Batch`, `Push`, `Close`, `End`, `Break`, `Abort`, `Repeat`, `Retry`; `Tick`, `Mine` |
| `ForkEpoch` | spec service and job, `getBlockBySlot` with `getExecutionPayload` | `known` = `glamsterdamForkEpoch`; `refresh` = refreshes under way; `slot`, `stage` = a lookup | `Cron`, `Hear`, `Learn`, `FailRefresh`; `Ask`, `GetBlock`, `GetEnvelope`, `FailLookup`; `Produce`, `Announce` = chain |
| `SecretsRotation` | `registerSecretsRotationRestart`, the container around it | content and stat of the file; `lastContent`, what the watcher has seen, calls due | `Register`, `Poll`, `Listen` (`Read`, `Retry`), `Exit`; `Rotate`, `Rewrite`, `Delete`, `Recreate` |

Composition. `RequestTime` runs the response on top of the queue-info job,
`ContractConfig` the configuration job on top of the schedule, `WaitingTime` the
forecast on top of the arithmetic of `GenesisTime`. `QueueInfo` is shown to
implement `QueueView` and `BlockState` to implement `FreshBlock`; what another
module needs of the two it takes from there: `Balances` is asked about any block
so far, as `FreshBlock` allows, and a sum in `WaitingTime` is any sum a view
allows.

`MC*` modules give an instance the constants that are no plain values; the other
runs use the module itself. `*_proofs` modules hold proofs.
Some definitions are marked *Slip*: they are what a plausible mistake would
make of the definition after them, are used by no specification, and are listed
as `mutants` with the property that notices them.

Abstractions. A request is its id; a configuration value the number of its
changes; a state of a block its block number; a validator's figures whether they
are defined; a balance per frame the set of the validators counted in it; an
amount a small number, or in `RequestTime` the set of the requests summed. A
validator in a streamed list is the state it is of and its place. Time is in the
ticks of each module's arithmetic. A call to another service answers or fails;
what is behind it is left out.

## 3. Runs

Deadlock is checked wherever the program cannot stop, which is everywhere but in
`Rewards` (the chain is bounded, and updates come with blocks),
`SecretsRotation` (without changes of the file nothing happens),
`ConsensusStream` (the read ends) and `Sweep` (one step).

### Passing

Safety and liveness of a module are checked in one run, under its fair
specification; no symmetry is used. The type invariants of `ContractConfig`,
`Rewards` and `ForkEpoch` are checked with the rest; every type invariant is
proved (section 4), as are the properties that only theorems state. Prefixes as
in `ForkTypeOK` or `RewardsSpec` keep the modules apart that one module proves
about.

| run | shows | bounds, and why they are enough |
|---|---|---|
| `queue_info` (of `RequestTime` with `QueueInfo`) | `ImplementsQueueView`: what readers see is replaced as a whole, is an interval of ids, and hides no request to be finalized unless a placement fell between the two reads of the tick. `CalculatedIsInQueue`, `FinalizedIsTrue`, `EventuallyExact`; of the response `ResponseFollowsQueue`, `SumIsOfQueueBefore`, `StatusNeverGoesBack` | 3 requests, pages of 2, 1 fault: a full page with a rest, or one reused part and one page; a torn read, a failed page or a restart. A response about the ids 2 and 3, polled twice: a tick, a restart or a placement between any two steps of two responses that follow each other |
| `waiting_time` | `ByIdNeverInPast`, `BufferIsClosestReport`, `WalkFindsFirstCovered`, `PollNeverEarlier`, `MoreIsNotSooner` (with `NettingNeverHastens` and `LargerIsNotSooner`) | seconds of 4 ticks, frames of 4 seconds with gap and margin of one each, every tick of about two frames: both ends of the gap and of the margin, every order of two questions, and every fraction of a second the rounding tells apart, the middle one included; requests at whole seconds; snapshots with each case alone, tied, null and in the past |
| `validators` | `InitializedIsComplete`, `LightCountsIdentified`, `EventuallyExact` | 3 validators in batches of 2, 2 faults: more than one batch, and a failure after a restart |
| `block_state` | `ImplementsFreshBlock`: a question is answered once, from a block fresh at that moment; `EventuallyCurrent` | 2 clients, time to live 2, 3 blocks, 1 failure: the older of two resolutions ends last, with and without a reference block |
| `balances` | `BufferIsDrainable`, `VaultsOfOneUpdate` | 2 clients, 1 failure, three blocks: before the upgrade of the contract, after it, and with a reserve beyond the total; one store of rewards during the reads, of a frame with or without a loss |
| `contract_config` | `ConfigNeverGoesBack`, `SupportNeverReverts`, `ReportsAreFollowed`, `EventuallyConfigured` | 2 changes, 1 fault, frames of 8, 12 and 10 ticks in a day of 24: two reschedulings, one of them of a frame that fits no day; the runs wrap at midnight |
| `rewards` | `PublishedIsMinimum`, `ReportIsCounted`, `EventuallySubscribed` | a report before the start and two blocks after it, a week of one block, so that a report leaves it; ranges of 2 blocks, 2 handlers, 1 failure, restart or exhausted range; six courses of the chain with reports of one, two and no frames, of a loss, and a block without a report, in different orders. The full product of these reports shows nothing more and takes six times as long |
| `secrets` | `RestartsForNewSecrets`, `EventuallyFresh` | 4 changes at any time, 2 failed reads: deletion and recreation during a retry during a shutdown |
| `sweep` | `DelayIsExact`, `EstimateIsSweep`, `DaysFollowChurn` | delay: up to 3 validators out of eleven kinds, 2 pending withdrawals; 12 and 200 stand for 32 and 2048 ETH, so that a swept validator with its 0 meets maxima of two and three digits (and is counted right), and balances of other digits than their maximum occur before and after withdrawals of 1, 14 and 200 (the doubtful ones). Slots: up to 6 validators, 2 a slot, epochs of 2 slots, up to 3 epochs and 4 blocked slots: the cursor goes round more than once and slots are blocked before, across and after the epoch. Days: churn of 4 to 8 validators of a balance of 4, with limits below, between, on and above whole ones; 5 epochs a day, queues of none to many days, an update up to 2 epochs old |
| `consensus_stream` | `ResultIsOneState`, `NoneAbortedEarly`, `LongestCall`, `EventuallySettles` | 2 attempts of 2 requests, limit 3, pause and delay 1: timers of the first requests are due during the later ones; states of 3, 4 and 1 validators in batches of 2: a full batch with a rest, full batches only, no full batch. The longest call takes 15, so the horizon of 16 cuts nothing off |
| `fork_epoch` | `PayloadIsFoundWhenKnown`, `EventuallyKnown` | 4 slots in epochs of 2, 2 changes, 1 failure: the fork is announced and moved or withdrawn, and both refreshes overlap with answers before, between and after |

### Violation

It states what a message of the code says and ends in a behaviour of the code
that does not do it; `findings` in `PROJECT.json` quotes the lines.

| run | property | behaviour |
|---|---|---|
| `contract_config_forgotten_jobs` | `RememberedTimesRun` | jobs made by a rescheduling during the first validators update are overwritten and never stopped, and their times suppress the next rescheduling |

### Further divergences

Met while modelling and, unless it says otherwise, behaviours of the same
models, without a run of their own. The models do what the code does; the
properties except these cases.

- `waiting-time/waiting-time.service.ts:256`: the minimum is taken over frame
  numbers, so a frame of validator balances that has passed wins and becomes the
  default of five days although another case is sooner;
  `src/how-estimation-works.md:17` says "Choose the soonest possible case".
- `waiting-time/waiting-time.service.ts:258`: with all three cases null, `reduce` of an
  empty array throws and the question fails; the comment at :293 says "minimum is
  taken over the remaining cases".
- `waiting-time/waiting-time.service.ts:328`: a forecast in the past is made anew with
  the queue of that moment; when a tick has removed the request meanwhile, its sum
  runs to the end of the queue, and `src/how-estimation-works.md:80` says "summed with
  all of the unfinalized requests placed before". `SumIsOfQueueBefore` excepts
  requests finalized by then.
- `jobs/validators/validators.service.ts:258`: the ids are not in the cache file, so
  after a restart from it the light update has none and stores no balances over
  those loaded, until the next full update; the comment at :250 says it "updates
  withdrawable lido validators based on previously identified IDs".
- `waiting-time/waiting-time.service.ts:434`: `checkIsEmptyQueue` compares with `<`
  (:397) and `checkIsNotInQueueYet` with `>=`. With an empty queue the last id ever
  placed, finalized, is answered "calculating", which the comment at :437 means for
  requests not found.
- `waiting-time/waiting-time.service.ts:214`: the margin is applied to the buffer
  cases only (:178-193); `src/how-estimation-works.md:40` postpones every request
  "placed too close to the upcoming report".
- `jobs/queue-info/queue-info.service.ts:60`: a request placed between the two reads
  of a tick shortens the window by one at one end; the statuses of a client that
  polls may then go back once. `StatusNeverGoesBack` and `SumIsOfQueueBefore`
  except such ticks, and the first also the last id of an emptied queue.
- `events/rewards/rewards.service.ts:165`: `logs[0]` from the block of a report on is
  the log of a later report when it has emitted none of its own, so its zero does
  not lower the minimum, which the test (`rewards.service.spec.ts:22`) calls a
  "pessimistic projection".
- `events/rewards/rewards.service.ts:322`: the rewards of a frame are negative after a
  loss, and subtracting them counts more than the vaults hold ("note: it is
  pessimistic").
- `events/rewards/rewards.service.ts:68`: of two overlapping updates the one that
  began earlier may store last; its figures stay until the next report.
- `jobs/contract-config/lido-extension-reader.ts:76`: a reserve whose read failed counts
  as 0, and the state with it stays in the cache as long as its block; the buffer
  is then the larger total. `BufferIsDrainable` says exactly this.
- `common/shutdown/secrets-rotation.ts:49`: a file replaced after the startup command
  and before the first stat of `fs.watchFile` (:96) is not noticed until another
  rotation ("the app must detect rotation itself", :25).
- `common/spec/spec.service.ts:35`: the fork epoch is only ever replaced by another:
  a fork that is withdrawn stays known, and lookups from its epoch on ask for
  envelopes. `EventuallyKnown` speaks of announced forks.
- `jobs/validators/utils/get-churn-limit.ts:24`: the churn is divided by 32 ETH and
  truncated; `src/how-estimation-works.md:125` calls multiplying it back "a unit
  identity". `DaysFollowChurn` bounds what the cut costs.
- `http/request-time/request-time.service.ts:41`: days below one become the default of
  5, so a request that is nearer than a day is answered later than one of two.
- `common/sweep/sweep.service.ts:135` and `validator-state-utils.ts:34`: `+` and `>` on
  BigNumbers work on strings. Two kinds of validators may be counted wrong for it
  (`Doubtful`): those with a second pending withdrawal, and those with their effective
  balance at its maximum, not yet withdrawable, whose balance after the withdrawal is
  positive and has not as many digits as the maximum: 100 ETH or more against 32, or
  2048 ETH drawn down. `DelayIsExact` says that every other validator of the list is
  counted right, swept ones of balance 0 included, so the count is off by at most the
  doubtful ones.
- `common/genesis-time/genesis-time.service.ts:73`: the time left is rounded to seconds,
  and added (`waiting-time.service.ts:89`) to a `Date.now()` that is not. The date for a
  new request is up to half a second off its report, and of two polls of the same
  state the later may be answered with a date up to a second earlier, which is all
  that `PollNeverEarlier` allows. Dates of requests of the queue are exact.
- `http/nft/nft.utils.ts:7`: `Math.floor(0.0003 * 10000)` is 2; one amount in sixteen
  below 10 ETH is drawn a digit too low. Doubles are out of TLC's reach, so no model.

### Fairness

| specification | weak fairness on | because |
|---|---|---|
| `RequestTime!FairTSpec` | `Update` of the queue-info job | the cron fires again and again and every promise settles, with an answer or an error |
| `Validators!FairSpec` | `FullUpdate`, `LightUpdate` | both crons fire, streams end or fail after their retries |
| `BlockState!FairSpec` | `Tick`, each client's question | time passes, reads settle; that clients keep asking is what "answers" are about |
| `ContractConfig!FairSpec` | `CronTick`, `ValidatorsBoot`, each caller's execution | the cron fires when no execution runs; delivery of events is not fair: a handler may never come |
| `Rewards!FairRewardsSpec` | `Configure`, each update's steps | events are polled for, reads settle, and the contract-config job gets its configuration |
| `SecretsRotation!FairSpec` | `Register`, `Poll`, `Listen`, `Exit`, `Recreate` | timers fire, the container is restarted always, and the sidecar recreates a deleted file |
| `ConsensusStream!Spec` | `Repeat`, `Retry`, `End`, `Tick`, each `Push` and `Abort` | timers, the clock and the steps of the pipeline are the process's own; the node is not fair: it may never answer |
| `ForkEpoch!ForkSpec` | `Cron`, for each refresh its answer or failure, `Learn` | the job runs daily, and every call of the node ends |

Faults, chain steps, users and other changes are never fair, and faults are
bounded by `MaxFaults` (in `ConsensusStream` by its attempts): liveness is claimed
for what happens after the last one.

## 4. Proofs

Every invariant, every action property and both refinements of the passing runs
are proved; what is only model-checked is liveness (the prover has no fairness or
`ENABLED`).
All theorems hold for every value of the constants that satisfies the named
assumptions in the modules (naturals, non-zero divisors, a finite set of
validators). For `WaitingTime` they also say that the service starts after the
first report, that gap and margin fit into a frame, that genesis, epochs and margin
are whole seconds (`ClockConstants`), and what type each value of
a snapshot has (`EstimateConstants`, `SnapshotTypes`); for `Rewards`, what a block
of the chain holds; for `Sweep`, that no balance has more digits than are
looked at (`SweepConstants`). A module of proofs covers one component, or several
with arithmetic in common.

What is computed by recursion or by a choice is proved without an induction
rule. `LeastOfNats` (of the well-foundedness of the naturals) gives a least
counterexample, which the step below it refutes; a closed form is exhibited and
shown to satisfy the recursion, which has one solution. In this way sums over
finite sets, the walk over frames, folds over withdrawals and the cursor of the
sweep become available.

- `QueueInfo_proofs`: `TypeCorrect`, `PublishesWholeWindow`, `LookupNeverMisses`,
  `FinalizedIsSound`, `LastIdMonotone`. `PublishedWindow` is not inductive: it says
  nothing of an update under way. `IInv` adds that kept and fetched ids are a
  prefix of the window of the counters read and that what is left to fetch is the
  rest (`FetchCompletesWindow`), and that the counters read and stored are bounded
  by the contract (`ReadsBounded`, which carries the exception for torn reads).
  `Refinement` shows `QueueView` implemented: every step maps to a step or to none,
  and the step that publishes to `Show`, whose window is the one `WindowExists`
  gives. For `RequestTime` the same module proves `ResponsesTyped`,
  `ResponsesFollowQueue` and `SumsAreOfQueueBefore`. `RInv` adds to `IInv` that a
  tick without a placement between its reads is noted as such (`TicksAreNoted`),
  and keeps of a classified response what its window was (`ResponseInv`): chain and
  window go on, and what it says of them stays true. For a sum made anew it adds
  that the last id a job stores never falls while it runs, so that an asked id the
  window lacks has been finalized (`AskedAreIds`, `MissingIsFinalized`).
  `StatusesNeverGoBack` compares windows of two ticks. `PInv` carries what a client was
  told across them: the counters of a tick without a placement between its reads
  are those of one queue (`TicksAreExact`), and a status given on such a tick says of
  the chain, the storage and the tick under way what only grows (`Promised`,
  `FinalizedUpTo`), until a restart, which also ends what was told. So the status
  of the next exact tick is not behind it (`StatusIsNotBehind`).
- `WaitingTime_proofs`: `FramesAgree`, the frame through epochs is the frame
  through seconds, by uniqueness of quotients; `NextReportIsAhead`; `TypeCorrect`,
  `RequestsAreAhead`, `BufferIsClosest`; `EpochOfSecond`, that cutting a time to seconds
  leaves its epoch. Rounding to seconds keeps order, stays within half a second and
  leaves whole seconds alone (`RoundedInOrder`, `RoundedIsNear`, `RoundedWhole`), reports
  are due at whole seconds. The lemmas bound each case of the forecast;
  a frame not before the current one is ahead by `NextReportIsAhead`, and an
  answer keeps what held at its moment. `WalkIsFirstCovered`: the income of the
  walk is a sum over the frames passed (`WalkIsIncome`), and sums over finite sets
  add up (`SumsExist`, `SumsAgree`, `SumRemove`). `MoreToWaitFor` compares the cases
  one by one for two needs and two reserves (`NoLater`, `NoFaster`): a walk that
  covers the larger need covers the smaller, and less available ether earns it no
  sooner. `PollsNeverGoBack` needs that an answer is the forecast of its moment
  (`AmountIsForecast`), and that each case falls no sooner as time goes on; of the
  date, that it is within half a second of its report, or the default. For `Rewards` the module proves
  `RewardsTypesHold` and `PublishedIsTheMinimum`. `RewardsInv` says of each update
  which reports it has listed and that every log found is that of its own block
  while no range was lost (`UpdateInv`), of the chain that complete reports
  have their logs at their places (`LogsComplete`), and of what is stored that it
  is such a minimum (`Kept`), which stays true while the chain grows.
- `Validators_proofs`: `TypeCorrect`, `GateIsSufficient`, `LightNeverLacksTotals`,
  `LightIsExhaustive`. `IInv` orders the portions: a full update past a portion has
  stored it (`FullHasStored`), ids exist only with the counts (`IdsHaveTotals`), a
  light update not overtaken still covers the ids (`LightKeepsIds`).
  For `Sweep` the module proves `DaysFollowTheChurn`, by bounds on nested floors;
  `EstimateIsTheSweep`, in which the cursor of each slot is given its closed form and
  the first batch that holds the validator is the one that the distance gives; and
  `DelayIsOfNumbers`: two numbers of as many digits compare as their strings do, the
  fold over at most one withdrawal is its amount, and so every validator that is not
  doubtful is counted right (`CountedAsNumbers`), whatever the others are.
- `BlockState_proofs`: `TypeCorrect`, `CacheKeepsItsPromise`, `AnswersAreFresh`. The
  invariant follows a number from the head that was read (`ReadIsFresh`) through the
  cache (`NumberIsFresh`) to the client (`WaitedIsFresh`); heads are ordered in time
  (`WindowIsOrdered`). `Refinement`: the cache implements `FreshBlock`, by the same
  facts at the step that answers.
- `Balances_proofs`: `TypeCorrect`, `BufferOfItsBlock`, `VaultsNeverMix`. `IInv` says of
  every read what it is of, the block of its question or figures that were stored
  during it (`Pinned`), and of the cache that it is built from such reads
  (`Cached`).
- `ConsensusStream_proofs`: `TypeCorrect`, `WholeList`, `OwnTimer`, `AllAttemptsMade`,
  `BoundedCall`. The list of an attempt is the prefix of its state up to what is
  held in flight (`ListIsPrefix`), and only attempts made have streams
  (`StreamsOfAttempts`); both also of those given up. Every request and attempt
  begins within what the earlier ones may take (`RequestsInTime`), and no time
  passes while a timer is due.
  For `ForkEpoch` the module proves `ForkTypesHold` and `PayloadIsFound`. `ForkInv` ties
  the form of each block to the epoch of the fork when it was produced
  (`FormsFollowFork`), so that an envelope exists where one is asked for
  (`EnvelopeIsThere`).
- `SecretsRotation_proofs`: `TypeCorrect`, `EndsForNewerOnly`, `ClosedAtMostOnce`.
  `RestartsForNewSecrets` needs that a closing process has last read something newer
  than its own (`EndsForLast`), and the bound on due calls that each is for a change
  the watcher has seen (`CallsAreSeen`).
- `ContractConfig_proofs`: `ConfigTypesHold`, `ConfigMonotone`, `SupportStays`,
  `OneForgotten`, `ReportsFollowed`. `IInv` has the mutual exclusion of the executions
  (`Exclusive`), the order of what is stored, read and on chain (`ReadsAreNewer`),
  and that an execution begun with a reserve stored takes its answer from the
  latch (`SupportIsLatched`). For the jobs, `BootInv`: until the first update is
  over, none is out of reach. `CoverInv` adds that some running job has the times
  of the configuration stored; that those times follow every report is the
  arithmetic of times modulo a day, for any frame that divides it.

Only model-checked: `EventuallyExact` (twice), `EventuallyCurrent`,
`EventuallyConfigured`, `ReportIsCounted`, `EventuallySubscribed`, `EventuallyFresh`,
`EventuallySettles` and `EventuallyKnown`, all of them liveness.

## 5. Not modelled

- Wording, formatting, validation and caching headers of HTTP, nft images,
  metrics, logging, health and configuration: no property is about them. The
  gas estimate and the validators endpoint keep no state and forward what they
  read.
- Decoding of contract results, logs and JSON; a read answers or fails.
- The fallback over endpoints: a call answers or fails. That two calls may be
  answered by endpoints of different age is in `QueueInfo` (a counter that is
  behind the other), `ConsensusStream` and `ForkEpoch`.
- Loading of the genesis time at start; it is a constant. A failure there ends the
  process, which is `Restart` where it matters.
- The order in which the modules of the process initialize, beyond the boot of the
  validators jobs next to the contract-config job: until a storage is filled a
  question is answered "initializing", in whatever order they are.

## 6. Plan

Done, in this order, the most important behaviour first: the queue and the
classification of ids, the estimate, the validators storage, the block state, the
configuration and schedule, the rewards, the sweep, the secrets; then responses
while the queue changes, the figures of a block state, the abstract services with
their refinements, streamed reads, the fork epoch and the first version of the
estimate; then the proofs of section 4.

Left:

1. An abstract configuration that only goes forward, implemented by
   `ContractConfig`.
2. The first load of the genesis time and the start of the process as a whole.
3. An order between overlapping updates of the rewards, once a document or the
   code says which of them should win.
