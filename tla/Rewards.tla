------------------------------- MODULE Rewards -------------------------------
(***************************************************************************)
(* The rewards of a frame (RewardsService): the minimum over the oracle    *)
(* reports of the last week, found in the logs of the Lido contract, first *)
(* at start and then at every TokenRebased event.                          *)
(*                                                                         *)
(* An update reads the head, then the reports since a week before it, and  *)
(* then, for all of them in parallel, three kinds of logs one after        *)
(* another, each from the block of the report to the head of that moment.  *)
(* The logs are read by ranges of blocks; a range whose attempts are       *)
(* exhausted counts as empty.  Updates do not exclude each other.          *)
(*                                                                         *)
(* A block holds at most one report.  Logs of past blocks do not change.   *)
(***************************************************************************)
EXTENDS Integers, Sequences, FiniteSetsExt, SequencesExt

CONSTANTS Chains,     \* bound: the courses of the chain, sequences of blocks: report or
                      \*   not, frames passed, diff of the CL balance, el, wr
          Before,     \* blocks before the process starts first
          Week,       \* blocks of ONE_WEEK_HOURS
          Step,       \* EL_BLOCK_STEP
          Handlers,   \* bound: event handlers running at a time
          MaxFaults   \* bound: failed updates, restarts and exhausted ranges

ASSUME RewardsConstants ==
  /\ Chains \subseteq Seq([report : BOOLEAN, frames : Nat, diff : Int, el : Nat, wr : Nat])
  /\ Before \in Nat /\ \A c \in Chains : Before <= Len(c)
  /\ Week \in Nat \ {0} /\ Step \in Nat \ {0} /\ "first" \notin Handlers
  /\ MaxFaults \in Nat

Updates == {"first"} \cup Handlers   \* "first": the update of initialize()
Logs    == <<"diff", "el", "wr">>    \* ETHDistributed, ELRewardsReceived, WithdrawalsReceived

VARIABLES
  chain,       \* the blocks so far
  events,      \* TokenRebased events not handled yet
  sentry,      \* unhandled rejections are caught by Sentry
  configured,  \* the contract-config job has stored epochsPerFrame
  subscribed,  \* provider.on(tokenRebased)
  pc,          \* per update: idle, head, list, logs
  since,       \* per update: currentBlock of getHoursAgoBlock
  found,       \* per update: the values found for each of its reports
  stored,      \* RewardsStorageService
  storedSince, \* currentBlock of the update that stored last
  faults,
  lost         \* ranges of blocks whose attempts were exhausted

locals      == <<pc, since, found>>
rewardsVars == <<chain, events, sentry, configured, subscribed, locals, stored, storedSince, faults,
                 lost>>

Zero    == [cl |-> 0, el |-> 0, all |-> 0]
NoFound == <<>>

Boot ==
  /\ subscribed = FALSE /\ configured = FALSE
  /\ pc = [u \in Updates |-> IF u = "first" THEN "head" ELSE "idle"]
  /\ since = [u \in Updates |-> 0] /\ found = [u \in Updates |-> NoFound]
  /\ stored = Zero /\ storedSince = 0

RewardsInit ==
  /\ chain \in {SubSeq(c, 1, Before) : c \in Chains} /\ events = 0 /\ sentry \in BOOLEAN
  /\ Boot
  /\ faults = 0 /\ lost = 0

-----------------------------------------------------------------------------
(* The contract and its logs.                                              *)

\* The next block of a course.
Mine ==
  /\ \E c \in Chains : /\ IsStrictPrefix(chain, c)
                       /\ chain' = SubSeq(c, 1, Len(chain) + 1)
  /\ events' = events + (IF chain'[Len(chain')].report /\ subscribed THEN 1 ELSE 0)
  /\ UNCHANGED <<sentry, configured, subscribed, locals, stored, storedSince, faults, lost>>

\* Nothing is received and logged when there is nothing in the vault.
Emits(b, log) == chain[b].report /\ (log = "diff" \/ chain[b][log] > 0)

\* getLogsByBlockStepsWithRetry: the ranges of blocks.
Ranges(from, to) ==
  {s..Min({s + Step - 1, to}) : s \in {from + k * Step : k \in 0..(to - from) \div Step}}

Exhausted(failed) ==
  /\ lost' = lost + Cardinality(failed) /\ lost' + faults <= MaxFaults

\* Slip: the log is the last one, as its name in the code says.
LastFound(log, blocks) ==
  LET bs == {b \in blocks \cap DOMAIN chain : Emits(b, log)}
  IN  IF bs = {} THEN 0 ELSE chain[Max(bs)][log]

\* logs[0]: the first one in the blocks read, whichever report it belongs to.
Found(log, blocks) ==
  LET bs == {b \in blocks \cap DOMAIN chain : Emits(b, log)}
  IN  IF bs = {} THEN 0 ELSE chain[Min(bs)][log]

-----------------------------------------------------------------------------
(* An update.                                                              *)

WeekAgo(block) == Max({block - Week, 0})

\* BigNumber.div truncates.
Quotient(a, n) == IF a >= 0 THEN a \div n ELSE -((-a) \div n)

Rewards(kind, values) == [cl |-> Quotient(values[1] + values[3], kind.frames),
                          el |-> Quotient(values[2], kind.frames)]

\* getMinLastTotalRewardsPerFrame: the minimum of each, zeros over no reports.
Minimum(rewards) ==
  IF rewards = {} THEN Zero
  ELSE LET cl == Min({r.cl : r \in rewards})
           el == Min({r.el : r \in rewards})
       IN  [cl |-> cl, el |-> el, all |-> el + cl]

\* Slip: the values of the last update are kept.
EndUpdateKeepsFound(u) ==
  /\ pc' = [pc EXCEPT ![u] = "idle"]
  /\ since' = [since EXCEPT ![u] = 0]
  /\ UNCHANGED found

EndUpdate(u) ==
  /\ pc' = [pc EXCEPT ![u] = "idle"]
  /\ since' = [since EXCEPT ![u] = 0]
  /\ found' = [found EXCEPT ![u] = NoFound]

Configure ==
  /\ ~configured /\ configured' = TRUE
  /\ UNCHANGED <<chain, events, sentry, subscribed, locals, stored, storedSince, faults, lost>>

\* Slip: the handler is OneAtTime, as the jobs are.
HandleOneAtTime(u) ==
  /\ events > 0 /\ events' = events - 1
  /\ u \in Handlers /\ pc[u] = "idle"
  /\ pc' = IF \A v \in Updates : pc[v] = "idle" THEN [pc EXCEPT ![u] = "head"] ELSE pc
  /\ UNCHANGED <<chain, sentry, configured, subscribed, since, found, stored, storedSince, faults, lost>>

\* The handler of a TokenRebased event.
Handle(u) ==
  /\ events > 0 /\ events' = events - 1
  /\ u \in Handlers /\ pc[u] = "idle"
  /\ pc' = [pc EXCEPT ![u] = "head"]
  /\ UNCHANGED <<chain, sentry, configured, subscribed, since, found, stored, storedSince, faults, lost>>

ReadHead(u) ==
  /\ pc[u] = "head" /\ pc' = [pc EXCEPT ![u] = "list"]
  /\ since' = [since EXCEPT ![u] = Len(chain)]
  /\ UNCHANGED <<chain, events, sentry, configured, subscribed, found, stored, storedSince, faults, lost>>

\* getFramesFromLastReports, and the filter of reports over no full frame.
\* The frames cannot be computed before the configuration is there.
ReadReports(u) ==
  /\ pc[u] = "list"
  /\ LET ranges == Ranges(WeekAgo(since[u]), Len(chain))
     IN  \E failed \in SUBSET ranges :
           LET reports == {b \in DOMAIN chain \cap UNION (ranges \ failed) : chain[b].report}
           IN  /\ configured \/ reports = {}
               /\ Exhausted(failed)
               /\ found' = [found EXCEPT ![u] =
                    [b \in {r \in reports : chain[r].frames # 0} |-> <<>>]]
  /\ pc' = [pc EXCEPT ![u] = "logs"]
  /\ UNCHANGED <<chain, events, sentry, configured, subscribed, since, stored, storedSince, faults>>

\* getRewardsByBlockNumber: the next kind of log of one report.
ReadLog(u, b) ==
  /\ pc[u] = "logs" /\ Len(found[u][b]) < Len(Logs)
  /\ LET ranges == Ranges(b, Len(chain))
     IN  \E failed \in SUBSET ranges :
           /\ Exhausted(failed)
           /\ found' = [found EXCEPT ![u][b] =
                Append(@, Found(Logs[Len(@) + 1], UNION (ranges \ failed)))]
  /\ UNCHANGED <<chain, events, sentry, configured, subscribed, pc, since, stored, storedSince, faults>>

\* Slip: initialize() returns where updateRewards has found nothing.
PublishSubscribesWithRewards(u) ==
  /\ pc[u] = "logs" /\ \A b \in DOMAIN found[u] : Len(found[u][b]) = Len(Logs)
  /\ stored' = Minimum({Rewards(chain[b], found[u][b]) : b \in DOMAIN found[u]})
  /\ storedSince' = since[u]
  /\ subscribed' = (subscribed \/ (u = "first" /\ stored' # Zero))
  /\ EndUpdate(u)
  /\ UNCHANGED <<chain, events, sentry, configured, faults, lost>>

\* updateRewards: the setters.  initialize() subscribes after the first one.
Publish(u) ==
  /\ pc[u] = "logs" /\ \A b \in DOMAIN found[u] : Len(found[u][b]) = Len(Logs)
  /\ stored' = Minimum({Rewards(chain[b], found[u][b]) : b \in DOMAIN found[u]})
  /\ storedSince' = since[u]
  /\ subscribed' = (subscribed \/ u = "first")
  /\ EndUpdate(u)
  /\ UNCHANGED <<chain, events, sentry, configured, faults, lost>>

-----------------------------------------------------------------------------
(* Failures.                                                               *)

Reboot ==
  /\ subscribed' = FALSE /\ configured' = FALSE
  /\ pc' = [u \in Updates |-> IF u = "first" THEN "head" ELSE "idle"]
  /\ since' = [u \in Updates |-> 0] /\ found' = [u \in Updates |-> NoFound]
  /\ stored' = Zero /\ storedSince' = 0 /\ events' = 0
  /\ UNCHANGED <<chain, sentry>>

\* A rejection of a handler is logged.  That of the first update leaves
\* initialize() before the subscription and is handled nowhere: it ends the
\* process unless Sentry has a handler for it.
Reject(u) ==
  \/ /\ u \in Handlers \/ sentry
     /\ EndUpdate(u)
     /\ UNCHANGED <<chain, events, sentry, configured, subscribed, stored, storedSince>>
  \/ u = "first" /\ ~sentry /\ Reboot

\* A block number, or the block "latest", cannot be read.
Fail(u) ==
  /\ pc[u] # "idle"
  /\ pc[u] = "logs" => \E b \in DOMAIN found[u] : Len(found[u][b]) < Len(Logs)
  /\ faults + lost < MaxFaults /\ faults' = faults + 1
  /\ Reject(u)
  /\ UNCHANGED lost

\* There are reports and the length of a frame is not there yet.
FailUnconfigured(u) ==
  /\ pc[u] = "list" /\ ~configured
  /\ \E b \in DOMAIN chain \cap WeekAgo(since[u])..Len(chain) : chain[b].report
  /\ Reject(u)
  /\ UNCHANGED <<faults, lost>>

Restart ==
  /\ faults + lost < MaxFaults /\ faults' = faults + 1
  /\ Reboot
  /\ UNCHANGED lost

Proceed(u) == \/ Handle(u) \/ ReadHead(u) \/ ReadReports(u)
              \/ \E b \in DOMAIN found[u] : ReadLog(u, b)
              \/ Publish(u) \/ FailUnconfigured(u)
RewardsNext == \/ Mine \/ Configure \/ Restart
               \/ \E u \in Updates : Proceed(u) \/ Fail(u)

(* Calls settle, events are polled for and the configuration comes; the    *)
(* chain goes on and calls fail without obligation.                        *)
RewardsSpec == RewardsInit /\ [][RewardsNext]_rewardsVars
FairRewardsSpec == RewardsSpec /\ WF_rewardsVars(Configure) /\ \A u \in Updates : WF_rewardsVars(Proceed(u))

-----------------------------------------------------------------------------
(* Properties.                                                             *)

Reports(from, to) == {b \in from..to \cap DOMAIN chain : chain[b].report /\ chain[b].frames # 0}
Longest == Max({Len(c) : c \in Chains})
Own(b) == Rewards(chain[b], <<chain[b].diff, chain[b].el, chain[b].wr>>)

RewardsTypeOK ==
  /\ \E c \in Chains : IsPrefix(chain, c)
  /\ Len(chain) >= Before /\ events \in 0..Len(chain) - Before
  /\ sentry \in BOOLEAN /\ configured \in BOOLEAN /\ subscribed \in BOOLEAN
  /\ pc \in [Updates -> {"idle", "head", "list", "logs"}]
  /\ \A u \in Updates :
       /\ since[u] \in 0..Len(chain)
       /\ pc[u] \in {"idle", "head"} => since[u] = 0
       /\ DOMAIN found[u] \subseteq Reports(WeekAgo(since[u]), Len(chain))
       /\ found[u] # NoFound => pc[u] = "logs"
       /\ \A b \in DOMAIN found[u] : Len(found[u][b]) <= Len(Logs)
  /\ stored \in [cl : Int, el : Nat, all : Int] /\ stored.all = stored.cl + stored.el
  /\ storedSince \in 0..Len(chain)
  /\ faults \in Nat /\ lost \in Nat /\ faults + lost <= MaxFaults

\* When every report has all its logs and every range was read, the stored figures
\* are the minimum over exactly the reports from a week before the update to some
\* moment during it, however many reports came and updates overlapped meanwhile.
PublishedIsMinimum ==
  \/ stored = Zero \/ lost > 0
  \/ \E b \in DOMAIN chain, log \in {"el", "wr"} : chain[b].report /\ chain[b][log] = 0
  \/ \E to \in storedSince..Len(chain) :
       stored = Minimum({Own(b) : b \in Reports(WeekAgo(storedSince), to)})

\* A report whose event has arrived is accounted for by an update that began
\* after it, also when others were running, unless a call fails or there is no
\* configuration yet: the next update is that of the next report.
ReportIsCounted ==
  \A b \in Before + 1..Longest :
    (events > 0 /\ configured /\ Len(chain) >= b) ~> (storedSince >= b \/ faults > 0)

\* The process subscribes to the reports in spite of failures at start, if a
\* rejection ends the process and starts it anew.
EventuallySubscribed == sentry \/ <>[]subscribed
=============================================================================
