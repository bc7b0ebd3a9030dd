--------------------------- MODULE ContractConfig ---------------------------
(***************************************************************************)
(* The contract-config job (ContractConfigService): the configuration it   *)
(* reads from the contracts, what it stores of it, and the schedule of the *)
(* validators job that it hands on.                                        *)
(*                                                                         *)
(* The job runs at start, by cron and at every FrameConfigSet event of the *)
(* two HashConsensus contracts, OneAtTime: a call during an execution is   *)
(* dropped.  An execution reads the latest value of every field by calls   *)
(* of their own, and the deposits-reserve target at the block it read      *)
(* first, if an earlier execution has stored that Lido has the reserve.    *)
(*                                                                         *)
(* The value of a field is represented by the number of its changes.       *)
(***************************************************************************)
EXTENDS Schedule

CONSTANTS VeboFrames,   \* exit bus frame config after k changes, k from 0
          MaxChanges,   \* bound: changes of the contracts
          MaxFaults     \* bound: failed calls and restarts

Callers == {"cron", "accounting", "vebo"}   \* two of them event handlers
Fields  == {"frame", "vebo", "limits"}      \* a failed read ends the execution

ASSUME ConfigConstants ==
  /\ MaxChanges \in Nat /\ MaxFaults \in Nat
  /\ VeboFrames \in [0..MaxChanges -> [initialEpoch : Nat, epochsPerFrame : Nat \ {0}]]

Unread == -1

VARIABLES
  chain,       \* the contracts: changes of each field and of the target
  supported,   \* Lido has the deposits reserve
  events,      \* FrameConfigSet events not delivered yet, per handler
  latched,     \* supportedLatched of LidoExtensionReader
  lateProbes,  \* probes of failed executions still under way
  stored,      \* ContractConfigStorageService
  locked,      \* OneAtTime: an execution is running
  pc,          \* per caller: idle, block, reading
  wasKnown,    \* per caller: wasSrv3KnownLastTick
  pinned,      \* per caller: the target at the block it has read
  read,        \* per caller: results of Promise.all
  faults

contracts == <<chain, supported, events>>
reader    == <<latched, lateProbes>>
locals    == <<pc, wasKnown, pinned, read>>
vars      == <<contracts, reader, stored, locked, locals, schedule, faults>>

Nothing == [f \in Fields \cup {"probe", "target"} |-> Unread]
Unset   == [frame |-> Unread, vebo |-> Unread, limits |-> Unread,
            supports |-> FALSE, target |-> 0]

\* initialize() has subscribed to the events and made the first call.
Init ==
  /\ chain = [f \in Fields \cup {"target"} |-> 0]
  /\ supported \in BOOLEAN
  /\ events = [c \in Callers |-> 0]
  /\ latched = FALSE /\ lateProbes = 0 /\ stored = Unset
  /\ locked = TRUE
  /\ pc = [c \in Callers |-> IF c = "cron" THEN "block" ELSE "idle"]
  /\ wasKnown = [c \in Callers |-> FALSE]
  /\ pinned = [c \in Callers |-> 0]
  /\ read = [c \in Callers |-> Nothing]
  /\ ScheduleInit
  /\ faults = 0

-----------------------------------------------------------------------------
(* The contracts.                                                          *)

Changes == chain.frame + chain.vebo + chain.limits + chain.target

Change(f) ==
  /\ Changes < MaxChanges
  /\ f = "target" => supported
  /\ chain' = [chain EXCEPT ![f] = @ + 1]
  /\ events' = [c \in Callers |->
       events[c] + (IF <<f, c>> \in {<<"frame", "accounting">>, <<"vebo", "vebo">>} THEN 1 ELSE 0)]
  /\ UNCHANGED <<supported, reader, stored, locked, locals, schedule, faults>>

\* Lido is upgraded; there is no way back.
Upgrade ==
  /\ ~supported /\ supported' = TRUE
  /\ UNCHANGED <<chain, events, reader, stored, locked, locals, schedule, faults>>

-----------------------------------------------------------------------------
(* The calls of the job.                                                   *)

\* Slip: the calls do not exclude each other.
StartAnyway(c) ==
  /\ pc[c] = "idle"
  /\ locked' = TRUE
  /\ pc' = [pc EXCEPT ![c] = "block"]
  /\ wasKnown' = [wasKnown EXCEPT ![c] = stored.supports]

Start(c) ==
  /\ ~locked /\ locked' = TRUE
  /\ pc' = [pc EXCEPT ![c] = "block"]
  /\ wasKnown' = [wasKnown EXCEPT ![c] = stored.supports]

CronTick ==
  /\ Start("cron")
  /\ UNCHANGED <<contracts, reader, stored, pinned, read, schedule, faults>>

\* An event is handled, or dropped when an execution is running.
Deliver(c) ==
  /\ events[c] > 0 /\ events' = [events EXCEPT ![c] = @ - 1]
  /\ \/ Start(c)
     \/ locked /\ UNCHANGED <<locked, pc, wasKnown>>
  /\ UNCHANGED <<chain, supported, reader, stored, pinned, read, schedule, faults>>

End(c) ==
  /\ locked' = FALSE
  /\ pc' = [pc EXCEPT ![c] = "idle"]
  /\ wasKnown' = [wasKnown EXCEPT ![c] = FALSE]
  /\ pinned' = [pinned EXCEPT ![c] = 0]
  /\ read' = [read EXCEPT ![c] = Nothing]

-----------------------------------------------------------------------------
(* An execution.                                                           *)

\* The block number is here and Promise.all begins.  The probe of a latched
\* reader and the target of an unknown reserve need no call.
ReadBlock(c) ==
  /\ pc[c] = "block" /\ pc' = [pc EXCEPT ![c] = "reading"]
  /\ pinned' = [pinned EXCEPT ![c] = chain.target]
  /\ read' = [read EXCEPT ![c] = [Nothing EXCEPT
       !.probe  = IF latched THEN 1 ELSE Unread,
       !.target = IF wasKnown[c] THEN Unread ELSE 0]]
  /\ UNCHANGED <<contracts, reader, stored, locked, wasKnown, schedule, faults>>

Answer(c, f, value) ==
  /\ pc[c] = "reading" /\ read[c][f] = Unread
  /\ read' = [read EXCEPT ![c][f] = value]

ReadField(c, f) ==
  /\ Answer(c, f, chain[f])
  /\ UNCHANGED <<contracts, reader, stored, locked, pc, wasKnown, pinned, schedule, faults>>

\* getDepositsReserveTargetAt: a failure counts as no target.
ReadTarget(c) ==
  /\ \/ Answer(c, "target", pinned[c]) /\ UNCHANGED faults
     \/ Answer(c, "target", 0) /\ faults < MaxFaults /\ faults' = faults + 1
  /\ UNCHANGED <<contracts, reader, stored, locked, pc, wasKnown, pinned, schedule>>

\* Slip: what a probe observes is returned but not remembered.
ProbeOnce(c) ==
  /\ \/ supported /\ Answer(c, "probe", 1) /\ UNCHANGED faults
     \/ ~supported /\ Answer(c, "probe", 0) /\ UNCHANGED faults
     \/ supported /\ Answer(c, "probe", 0) /\ faults < MaxFaults /\ faults' = faults + 1
  /\ UNCHANGED <<contracts, reader, stored, locked, pc, wasKnown, pinned, schedule>>

\* probe(): the call succeeds, reverts, or fails in another way.
Probe(c) ==
  /\ \/ supported /\ Answer(c, "probe", 1) /\ latched' = TRUE /\ UNCHANGED faults
     \/ ~supported /\ Answer(c, "probe", 0) /\ UNCHANGED <<latched, faults>>
     \/ supported /\ Answer(c, "probe", 0) /\ UNCHANGED latched
          /\ faults < MaxFaults /\ faults' = faults + 1
  /\ UNCHANGED <<contracts, lateProbes, stored, locked, pc, wasKnown, pinned, schedule>>

\* Slip: the reserve is known only once its target has been read.
PublishWithTarget(c) ==
  /\ pc[c] = "reading" /\ \A f \in DOMAIN read[c] : read[c][f] # Unread
  /\ stored' = [frame |-> read[c].frame, vebo |-> read[c].vebo, limits |-> read[c].limits,
                supports |-> read[c].probe = 1 /\ wasKnown[c], target |-> read[c].target]
  /\ LET vebo == VeboFrames[read[c].vebo]
     IN  Reschedule(Cron(vebo.initialEpoch, vebo.epochsPerFrame))
  /\ End(c)
  /\ UNCHANGED <<contracts, reader, faults>>

\* Slip: the results for the reserve are not awaited.
PublishFields(c) ==
  /\ pc[c] = "reading" /\ \A f \in Fields : read[c][f] # Unread
  /\ stored' = [frame |-> read[c].frame, vebo |-> read[c].vebo, limits |-> read[c].limits,
                supports |-> read[c].probe = 1, target |-> read[c].target]
  /\ LET vebo == VeboFrames[read[c].vebo]
     IN  Reschedule(Cron(vebo.initialEpoch, vebo.epochsPerFrame))
  /\ End(c)
  /\ UNCHANGED <<contracts, reader, faults>>

\* All results are here: they are stored and the schedule is handed on.
Publish(c) ==
  /\ pc[c] = "reading" /\ \A f \in DOMAIN read[c] : read[c][f] # Unread
  /\ stored' = [frame |-> read[c].frame, vebo |-> read[c].vebo, limits |-> read[c].limits,
                supports |-> read[c].probe = 1, target |-> read[c].target]
  /\ LET vebo == VeboFrames[read[c].vebo]
     IN  Reschedule(Cron(vebo.initialEpoch, vebo.epochsPerFrame))
  /\ End(c)
  /\ UNCHANGED <<contracts, reader, faults>>

\* The block number or a field cannot be read.  The other calls go on without
\* the execution, a probe among them may still flip the latch.
Fail(c) ==
  /\ faults < MaxFaults /\ faults' = faults + 1
  /\ \/ pc[c] = "block" /\ UNCHANGED lateProbes
     \/ /\ pc[c] = "reading" /\ \E f \in Fields : read[c][f] = Unread
        /\ lateProbes' = lateProbes + (IF read[c].probe = Unread THEN 1 ELSE 0)
  /\ End(c)
  /\ UNCHANGED <<contracts, latched, stored, schedule>>

LateProbe ==
  /\ lateProbes > 0 /\ lateProbes' = lateProbes - 1
  /\ \/ supported /\ latched' = TRUE
     \/ UNCHANGED latched
  /\ UNCHANGED <<contracts, stored, locked, locals, schedule, faults>>

-----------------------------------------------------------------------------
(* The rest of the process.                                                *)

\* initialize() of the validators service goes on beside the job.
ValidatorsBoot ==
  /\ FirstUpdate \/ StartFirstJobs
  /\ UNCHANGED <<contracts, reader, stored, locked, locals, faults>>

\* Nothing is persisted, and events of the time in between are not replayed.
Restart ==
  /\ faults < MaxFaults /\ faults' = faults + 1
  /\ events' = [c \in Callers |-> 0]
  /\ latched' = FALSE /\ lateProbes' = 0 /\ stored' = Unset
  /\ locked' = TRUE
  /\ pc' = [c \in Callers |-> IF c = "cron" THEN "block" ELSE "idle"]
  /\ wasKnown' = [c \in Callers |-> FALSE]
  /\ pinned' = [c \in Callers |-> 0]
  /\ read' = [c \in Callers |-> Nothing]
  /\ boot' = "cache" /\ cronTimes' = {} /\ cronJobs' = NoJobs
  /\ running' = {} /\ made' = 0
  /\ UNCHANGED <<chain, supported>>

Execution(c) == \/ ReadBlock(c) \/ \E f \in Fields : ReadField(c, f)
                \/ ReadTarget(c) \/ Probe(c) \/ Publish(c)
Next == \/ \E f \in DOMAIN chain : Change(f)
        \/ Upgrade \/ CronTick \/ LateProbe \/ ValidatorsBoot \/ Restart
        \/ \E c \in Callers : Deliver(c) \/ Execution(c) \/ Fail(c)

(* The cron fires, calls settle and the boot goes on; contracts change and *)
(* calls fail without obligation.                                          *)
Spec == Init /\ [][Next]_vars
FairSpec == /\ Spec /\ WF_vars(CronTick) /\ WF_vars(ValidatorsBoot)
            /\ \A c \in Callers : WF_vars(Execution(c))

-----------------------------------------------------------------------------
(* Properties.                                                             *)

TypeOK ==
  /\ chain \in [Fields \cup {"target"} -> 0..MaxChanges] /\ supported \in BOOLEAN
  /\ events \in [Callers -> 0..MaxChanges]
  /\ latched \in BOOLEAN /\ lateProbes \in 0..MaxFaults
  /\ \A f \in Fields : stored[f] \in {Unread} \cup 0..MaxChanges
  /\ stored.supports \in BOOLEAN /\ stored.target \in 0..MaxChanges
  /\ locked \in BOOLEAN
  /\ pc \in [Callers -> {"idle", "block", "reading"}]
  /\ wasKnown \in [Callers -> BOOLEAN]
  /\ pinned \in [Callers -> 0..MaxChanges]
  /\ read \in [Callers -> [DOMAIN Nothing -> {Unread, 0, 1} \cup 0..MaxChanges]]
  /\ boot \in {"cache", "first", "started"}
  /\ made \in Nat
  /\ \A j \in running \cup {cronJobs} :
       j.number \in 0..made /\ j.times \in SUBSET SUBSET (0..DaySeconds - 1)
  /\ cronTimes \in SUBSET SUBSET (0..DaySeconds - 1)
  /\ faults \in 0..MaxFaults

\* While the process runs no stored field goes back to an older value, whichever
\* of the cron and the event handlers called and whatever calls were dropped.
ConfigNeverGoesBack ==
  [][\A f \in Fields : stored' # Unset => stored'[f] >= stored[f]]_vars

\* "A protocol cannot un-deploy SR-3": failures of a later probe never take the
\* deposits reserve out of the estimates again.
SupportNeverReverts ==
  [][stored.supports /\ stored' # Unset => stored'.supports]_vars

\* After boot, however the first update and the contract-config job overlapped,
\* a validators update is scheduled for every report of the stored exit bus
\* configuration, UpdateDelay after it, if a day is a number of frames.
ReportsAreFollowed ==
  LET vebo   == VeboFrames[stored.vebo]
      report(k) == EpochStart(vebo.initialEpoch + k * vebo.epochsPerFrame)
  IN  /\ boot = "started" /\ stored.vebo # Unread
      /\ DaySeconds % (vebo.epochsPerFrame * SecondsPerEpoch) = 0
      => \A k \in 0..DaySeconds : ToMinute((report(k) + UpdateDelay) % DaySeconds) \in TimesOf(running)

\* Jobs that the service can no longer stop do not pile up with the changes of
\* the configuration: there is at most one.
AtMostOneForgotten == Cardinality(running \ {cronJobs}) <= 1

\* Once the contracts rest and calls succeed, the whole configuration is stored
\* for good, the target of the reserve included, which takes two executions.
EventuallyConfigured ==
  <>[](/\ \A f \in Fields \cup {"target"} : stored[f] = chain[f]
       /\ stored.supports = supported)

\* "Skip validators cron reschedule because cron times did not change": the times
\* the service compares with are those at which its jobs run.  The code forgets
\* jobs that were made during the first update.
RememberedTimesRun == boot = "started" => \A j \in running : j.times = cronTimes
=============================================================================
