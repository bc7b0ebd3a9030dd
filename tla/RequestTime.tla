------------------------------ MODULE RequestTime ------------------------------
(***************************************************************************)
(* A response about a list of request ids (calculateRequestsTime of        *)
(* WaitingTimeService) while the queue-info job of QueueInfo goes on.      *)
(*                                                                         *)
(* The response awaits the block state once.  Then every id is classified  *)
(* and its first forecast begun without an await in between: one step.     *)
(* Each forecast ends in a step of its own (checkInPastCase) that reads    *)
(* the queue again; a tick may be published before it, because one batched *)
(* answer of the node settles promises of the job and of the response      *)
(* together.  Whether a forecast lies in the past depends on figures that  *)
(* are not modelled here: either may happen.                               *)
(*                                                                         *)
(* An amount is represented by the ids whose stETH was summed.             *)
(***************************************************************************)
EXTENDS QueueInfo

CONSTANT AskedLists   \* the lists of ids that clients ask about

ASSUME RequestTimeConstants == AskedLists \subseteq Seq(1..MaxRequest + 1)

VARIABLES
  others,        \* validators and contract-config storage have been filled
  stage,         \* the response: none, balances, forecasts
  asked,         \* its ids
  statuses,      \* per position: the status, once classified
  sums,          \* per position: the ids summed for the first forecast
  resummed,      \* the last forecast to end, if made anew: its id, the ids it was
                 \*   summed over again, and exact of the tick they are of
  open,          \* positions whose forecast is not done
  exact,         \* history: the tick classified on had no placement between its
                 \*   two reads, in either order
  emptied,       \* history: the queue was empty then and watched its last id
  watched,       \* history: an id that some client polls for
  told,          \* history: the last response about it, in this process
  placedDuring,  \* history: exact of the running tick, negated
  inexact        \* history: exact of the published tick, negated

response == <<stage, asked, statuses, sums, resummed, open, exact, emptied>>
ticks    == <<placedDuring, inexact>>
allVars  == <<vars, others, response, watched, told, ticks>>

NotResummed == [id |-> 0, ids |-> {}, exact |-> FALSE]
Untold == [status |-> "none", exact |-> TRUE, emptiedAt |-> FALSE]

NoResponse ==
  /\ stage' = "none" /\ asked' = <<>> /\ statuses' = <<>> /\ sums' = <<>>
  /\ resummed' = NotResummed
  /\ open' = {} /\ exact' = TRUE /\ emptied' = FALSE

TInit ==
  /\ Init /\ others = FALSE
  /\ stage = "none" /\ asked = <<>> /\ statuses = <<>> /\ sums = <<>>
  /\ resummed = NotResummed
  /\ open = {} /\ exact = TRUE /\ emptied = FALSE
  /\ watched \in UNION {{list[i] : i \in DOMAIN list} : list \in AskedLists} /\ told = Untold
  /\ placedDuring = FALSE /\ inexact = FALSE

-----------------------------------------------------------------------------
(* The queue and its job; what they change of the history.                 *)

PlaceRequest ==
  /\ Place
  /\ placedDuring' = (placedDuring \/ (unfinalizedRead = Unread) # (lastRead = Unread))
  /\ UNCHANGED <<others, response, watched, told, inexact>>

ReadCounters ==
  /\ Finalize \/ StartUpdate \/ ReadUnfinalized \/ ReadLast
  /\ UNCHANGED <<others, response, watched, told, ticks>>

Fetch ==
  /\ PlanFetch \/ FetchPage
  /\ placedDuring' = (placedDuring /\ pc' # "idle")
  /\ inexact' = IF pc' = "idle" THEN placedDuring ELSE inexact
  /\ UNCHANGED <<others, response, watched, told>>

LoseTick ==
  /\ RejectPage \/ FailUpdate
  /\ placedDuring' = FALSE
  /\ UNCHANGED <<others, response, watched, told, inexact>>

RestartAll ==
  /\ Restart /\ NoResponse
  /\ others' = FALSE /\ told' = Untold /\ UNCHANGED watched
  /\ placedDuring' = FALSE /\ inexact' = FALSE

\* The first validators and contract-config updates are done.
LoadOthers ==
  /\ ~others /\ others' = TRUE
  /\ UNCHANGED <<vars, response, watched, told, ticks>>

-----------------------------------------------------------------------------
(* The response.                                                           *)

AskFor ==
  /\ stage = "none" /\ stage' = "balances"
  /\ asked' \in AskedLists
  /\ UNCHANGED <<vars, others, statuses, sums, resummed, open, exact, emptied,
                 watched, told, ticks>>

\* Slip: the request itself is left out.
SumBefore(list, id) == {list[i] : i \in {j \in DOMAIN list : list[j] < id}}

\* calculateUnfinalizedEthToRequestId: amounts are added in the order of the list
\* up to the request, or all of them when the list no longer has it.
SumTo(list, id) ==
  LET isBefore(i) == \A j \in 1..i - 1 : list[j] # id
  IN  {list[i] : i \in {j \in DOMAIN list : isBefore(j)}}

\* Slip: an empty list of requests counts as not loaded.
ClassifiedWithRequests(id) ==
  IF others /\ requests # <<>> THEN StatusOf(id) ELSE "initializing"

\* checkIsInitializing comes before the three questions about the queue.
Classified(id) == IF others THEN StatusOf(id) ELSE "initializing"

Rank(status) ==
  CASE status = "none" -> 0 [] status = "initializing" -> 1 [] status = "calculating" -> 2
    [] status = "calculated" -> 3 [] status = "finalized" -> 4

\* Slip: the ids are classified one after the other, each after the forecast of
\* the one before.
ClassifyInTurn ==
  LET next == Len(statuses) + 1
  IN  /\ stage = "balances"
      /\ statuses' = Append(statuses, Classified(asked[next]))
      /\ sums' = Append(sums, SumTo(requests, asked[next]))
      /\ open' = IF Classified(asked[next]) = "calculated" THEN open \cup {next} ELSE open
      /\ stage' = IF next = Len(asked) THEN "forecasts" ELSE "balances"
      /\ exact' = (exact /\ ~inexact) /\ emptied' = (emptied \/ requests = <<>>)
      /\ UNCHANGED <<vars, others, asked, resummed, watched, told, ticks>>

\* The balances are here: getWaitingTimeInfoById of every id up to its await.
Classify ==
  /\ stage = "balances" /\ stage' = "forecasts"
  /\ statuses' = [i \in DOMAIN asked |-> Classified(asked[i])]
  /\ open' = {i \in DOMAIN asked : Classified(asked[i]) = "calculated"}
  /\ sums' = [i \in DOMAIN asked |-> SumTo(requests, asked[i])]
  /\ exact' = ~inexact /\ emptied' = (requests = <<>> /\ watched = lastRequestId)
  /\ UNCHANGED <<vars, others, asked, resummed, watched, told, ticks>>

\* checkInPastCase: the forecast stands, or it lies in the past and is made anew
\* for the queue of now.
Settle(i) ==
  /\ i \in open /\ open' = open \ {i}
  /\ \/ resummed' = NotResummed
     \/ resummed' = [id |-> asked[i], ids |-> SumTo(requests, asked[i]), exact |-> ~inexact]
  /\ UNCHANGED <<vars, others, stage, asked, statuses, sums, exact, emptied,
                 watched, told, ticks>>

Respond ==
  /\ stage = "forecasts" /\ open = {}
  /\ told' = IF \E i \in DOMAIN asked : asked[i] = watched
             THEN [status |-> statuses[CHOOSE i \in DOMAIN asked : asked[i] = watched],
                   exact |-> exact, emptiedAt |-> emptied]
             ELSE told
  /\ NoResponse
  /\ UNCHANGED <<vars, others, watched, ticks>>

\* The read of the block state fails and with it the response.
FailResponse ==
  /\ faults < MaxFaults /\ faults' = faults + 1
  /\ stage = "balances" /\ NoResponse
  /\ UNCHANGED <<chain, storage, pc, locals, others, watched, told, ticks>>

TNext ==
  \/ PlaceRequest \/ ReadCounters \/ Fetch \/ LoseTick \/ RestartAll \/ LoadOthers
  \/ AskFor \/ Classify \/ (\E i \in DOMAIN asked : Settle(i)) \/ Respond \/ FailResponse

TSpec == TInit /\ [][TNext]_allVars

\* Fairness is on the job's own steps: the cron fires, promises settle.  Users,
\* oracle reports, failures and restarts are under no obligation.
FairTSpec == TSpec /\ WF_allVars(Update /\ (ReadCounters \/ Fetch \/ LoseTick))

-----------------------------------------------------------------------------
(* Properties.                                                             *)

TTypeOK ==
  /\ TypeOK
  /\ others \in BOOLEAN /\ stage \in {"none", "balances", "forecasts"}
  /\ asked \in AskedLists \cup {<<>>}
  /\ stage = "forecasts" => DOMAIN statuses = DOMAIN asked /\ DOMAIN sums = DOMAIN asked
  /\ \A i \in DOMAIN statuses : Rank(statuses[i]) \in 1..4
  /\ open \subseteq DOMAIN asked

\* One response is of one moment of the queue: of two ids it lists, the earlier
\* request is never behind the later one, whatever is published meanwhile.
ResponseFollowsQueue ==
  \A i, j \in DOMAIN statuses :
    asked[i] < asked[j] => Rank(statuses[i]) >= Rank(statuses[j])

\* A client that asks again is never told that its request has gone back, although
\* every answer is of a cached window and windows come from torn ticks: only ticks
\* with a placement between their two reads take a status back, and the last
\* request of a queue that has been emptied (it is "calculating" then).
StatusNeverGoesBack ==
  [][ /\ told' # Untold
      /\ ~(told'.emptiedAt /\ told'.status = "calculating")
      /\ told.exact /\ told'.exact
      => Rank(told'.status) >= Rank(told.status) ]_allVars

\* The sum of a first forecast, from the window it was classified on.
FirstSumIsOfQueueBefore ==
  \A i \in open : exact =>
    /\ chainFinalized + 1 .. asked[i] \subseteq sums[i]
    /\ sums[i] \subseteq 1..asked[i]

\* The sum of a forecast made anew, from the window of that moment, in which the
\* request may be no longer: then the code sums to the end of the list.
NewSumIsOfQueueBefore ==
  resummed.exact =>
    /\ chainFinalized + 1 .. resummed.id \subseteq resummed.ids
    /\ resummed.ids \subseteq 1..resummed.id \/ resummed.id <= chainFinalized

\* "summed with all of the unfinalized requests placed before": a sum leaves out no
\* request that is before the asked one and still to be finalized, however old the
\* window is and whether or not it is replaced before the sum is made anew; it adds
\* none after it, unless the request has been finalized meanwhile.
SumIsOfQueueBefore == FirstSumIsOfQueueBefore /\ NewSumIsOfQueueBefore
=============================================================================
