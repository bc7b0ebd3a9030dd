------------------------------ MODULE QueueInfo ------------------------------
(***************************************************************************)
(* The queue-info job of the withdrawals API (QueueInfoService), the       *)
(* storage it publishes to (QueueInfoStorageService) and the classification*)
(* of a request id by the waiting-time API on top of that storage          *)
(* (WaitingTimeService.checkIs...).                                        *)
(*                                                                         *)
(* The withdrawal queue contract is the environment: ids 1..chainLast have *)
(* been placed, ids 1..chainFinalized are finalized.  The job reads the    *)
(* two counters with two independent eth_calls (no block tag), derives the *)
(* window of unfinalized ids, reuses the cached requests of the window,    *)
(* fetches the others page by page and publishes everything in one         *)
(* synchronous step.  Awaits are the points where other steps interleave.  *)
(*                                                                         *)
(* A request is represented by its id (amount and timestamp do not change  *)
(* after it is placed); the other values of the tick (stETH sums, limits,  *)
(* bunker flag) are stored together with the window and not looked at here.*)
(***************************************************************************)
EXTENDS Integers, Sequences, FiniteSets

CONSTANTS MaxRequest,  \* bound: how many requests users ever place
          PageSize,    \* WITHDRAWAL_STATUS_PAGE_SIZE, 50 in the code
          MaxFaults    \* bound: failed RPC calls and restarts of the service

ASSUME QueueConstants == /\ MaxRequest \in Nat
                         /\ PageSize \in Nat \ {0}
                         /\ MaxFaults \in Nat

Unread == -1   \* a read of the tick whose promise is still pending

VARIABLES
  chainLast, chainFinalized,     \* the contract's two counters
  loaded,                        \* storage: lastUpdate has been set
  requests,                      \* storage: ids of the published requests
  lastRequestId, requestsCount,  \* storage: counters of the same tick
  pc,                            \* the OneAtTime update: idle, reading, fetching
  unfinalizedRead, lastRead,     \* locals: results of the two eth_calls
  kept, todo,                    \* locals: reused requests, ids still to fetch
  placedBetween,                 \* history: a request was placed after the
                                 \*   unfinalized count was read and before the
                                 \*   last id was read
  torn,                          \* history: placedBetween of the published tick
  faults                         \* failures and restarts so far

chain   == <<chainLast, chainFinalized>>
storage == <<loaded, requests, lastRequestId, requestsCount, torn>>
locals  == <<unfinalizedRead, lastRead, kept, todo, placedBetween>>
vars    == <<chain, storage, pc, locals, faults>>

Ids == 1..MaxRequest

Init ==
  /\ chainLast \in 0..MaxRequest
  /\ chainFinalized \in 0..chainLast
  /\ loaded = FALSE /\ requests = <<>> /\ torn = FALSE
  /\ lastRequestId = 0 /\ requestsCount = 0
  /\ pc = "idle"
  /\ unfinalizedRead = Unread /\ lastRead = Unread
  /\ kept = <<>> /\ todo = <<>> /\ placedBetween = FALSE
  /\ faults = 0

-----------------------------------------------------------------------------
(* The withdrawal queue contract.                                          *)

\* A user places the next request.
Place ==
  /\ chainLast < MaxRequest
  /\ chainLast' = chainLast + 1
  /\ placedBetween' = (placedBetween \/ (unfinalizedRead # Unread /\ lastRead = Unread))
  /\ UNCHANGED <<chainFinalized, storage, pc, unfinalizedRead, lastRead, kept, todo, faults>>

\* An oracle report finalizes a prefix of the queue.
Finalize ==
  /\ \E id \in chainFinalized + 1 .. chainLast : chainFinalized' = id
  /\ UNCHANGED <<chainLast, storage, pc, locals, faults>>

-----------------------------------------------------------------------------
(* The update job.                                                         *)

\* Ids of the unfinalized window that the two counters span.
RequestIds(last, unfinalized) ==
  [i \in 1..unfinalized |-> last - unfinalized + i]

\* Order-preserving selection of the cached requests inside the window.
Active(cached, first, last) ==
  LET inWindow == {i \in DOMAIN cached : first <= cached[i] /\ cached[i] <= last}
      upTo(i)  == {k \in inWindow : k <= i}
  IN  [j \in 1..Cardinality(inWindow) |->
         cached[CHOOSE i \in inWindow : Cardinality(upTo(i)) = j]]

\* Slip: the check of the reused part is lost.
AnyIdsAreContiguous(ids, first) == TRUE

HasContiguousIds(ids, first) ==
  \A i \in DOMAIN ids : ids[i] = first + i - 1

\* What of the cache the tick reuses: nothing when the cached part of the
\* window does not start at its first id or has a gap (everything is refetched).
Reusable(cached, first, last) ==
  LET active == Active(cached, first, last)
  IN  IF HasContiguousIds(active, first) THEN active ELSE <<>>

Publish(newRequests) ==
  /\ loaded' = TRUE
  /\ requests' = newRequests
  /\ lastRequestId' = lastRead
  /\ requestsCount' = unfinalizedRead
  /\ torn' = placedBetween

\* Back to idle; the locals of the finished execution are dropped.
EndUpdate ==
  /\ pc' = "idle"
  /\ unfinalizedRead' = Unread /\ lastRead' = Unread
  /\ kept' = <<>> /\ todo' = <<>> /\ placedBetween' = FALSE

\* A cron tick or initialize() starts the update.  A call while an execution
\* is running is dropped by OneAtTime, that is, it changes nothing.
StartUpdate ==
  /\ pc = "idle"
  /\ pc' = "reading"
  /\ UNCHANGED <<chain, storage, locals, faults>>

\* The node answers one of the two unpinned calls of Promise.all.
ReadUnfinalized ==
  /\ pc = "reading" /\ unfinalizedRead = Unread
  /\ unfinalizedRead' = chainLast - chainFinalized
  /\ UNCHANGED <<chain, storage, pc, lastRead, kept, todo, placedBetween, faults>>

ReadLast ==
  /\ pc = "reading" /\ lastRead = Unread
  /\ lastRead' = chainLast
  /\ UNCHANGED <<chain, storage, pc, unfinalizedRead, kept, todo, placedBetween, faults>>

\* Both counters are here: getUpdatedRequests up to its first await, or, with
\* nothing to fetch, up to the end of the tick.
PlanFetch ==
  LET ids   == RequestIds(lastRead, unfinalizedRead)
      reuse == IF ids = <<>> THEN <<>> ELSE Reusable(requests, ids[1], lastRead)
      next  == IF reuse = <<>> THEN 0 ELSE reuse[Len(reuse)] + 1 - ids[1]
      new   == SubSeq(ids, next + 1, Len(ids))
  IN  /\ pc = "reading" /\ unfinalizedRead # Unread /\ lastRead # Unread
      /\ IF new = <<>>
         THEN Publish(reuse) /\ EndUpdate
         ELSE /\ pc' = "fetching"
              /\ kept' = reuse /\ todo' = new
              /\ UNCHANGED <<storage, unfinalizedRead, lastRead, placedBetween>>
      /\ UNCHANGED <<chain, faults>>

\* The contract serves statuses of placed ids only (id 0 and below revert).
Page == SubSeq(todo, 1, IF Len(todo) < PageSize THEN Len(todo) ELSE PageSize)
PageServed == \A i \in DOMAIN Page : Page[i] \in 1..chainLast

\* One getWithdrawalStatus call; the last page publishes the tick.
FetchPage ==
  LET rest == SubSeq(todo, Len(Page) + 1, Len(todo))
  IN  /\ pc = "fetching" /\ PageServed
      /\ IF rest = <<>>
         THEN Publish(kept \o Page) /\ EndUpdate
         ELSE /\ kept' = kept \o Page /\ todo' = rest
              /\ UNCHANGED <<storage, pc, unfinalizedRead, lastRead, placedBetween>>
      /\ UNCHANGED <<chain, faults>>

\* Slip: the error escapes and the OneAtTime lock is never released.
RejectPageKeepsLock ==
  /\ pc = "fetching" /\ ~PageServed
  /\ UNCHANGED vars

\* The call reverts: wrapJob swallows the error, nothing is published.
RejectPage ==
  /\ pc = "fetching" /\ ~PageServed
  /\ EndUpdate
  /\ UNCHANGED <<chain, storage, faults>>

\* Any awaited call of the tick fails: the same, the storage keeps the last tick.
FailUpdate ==
  /\ faults < MaxFaults
  /\ pc # "idle"
  /\ EndUpdate
  /\ faults' = faults + 1
  /\ UNCHANGED <<chain, storage>>

\* The process restarts; nothing of this component is persisted.
Restart ==
  /\ faults < MaxFaults
  /\ EndUpdate
  /\ loaded' = FALSE /\ requests' = <<>> /\ torn' = FALSE
  /\ lastRequestId' = 0 /\ requestsCount' = 0
  /\ faults' = faults + 1
  /\ UNCHANGED chain

Update == \/ StartUpdate \/ ReadUnfinalized \/ ReadLast
          \/ PlanFetch \/ FetchPage \/ RejectPage
Next == Place \/ Finalize \/ Update \/ FailUpdate \/ Restart

Spec == Init /\ [][Next]_vars

-----------------------------------------------------------------------------
(* The classification of a request id, in the order of                     *)
(* getWaitingTimeInfoById.                                                 *)

IsInQueue(id) == \E i \in DOMAIN requests : requests[i] = id
IsEmptyQueue(id) == requests = <<>> /\ id < lastRequestId
\* Slip: the first unfinalized request counts as finalized.
IsFinalizedInclusive(id) == requests # <<>> /\ id <= requests[1]

IsFinalized(id) == requests # <<>> /\ id < requests[1]
\* Slip: the last id is excluded here but not included in IsEmptyQueue.
IsBeyondQueue(id) == ~IsInQueue(id) /\ id > lastRequestId

IsNotInQueueYet(id) == ~IsInQueue(id) /\ id >= lastRequestId

StatusOf(id) ==
  CASE ~loaded -> "initializing"
    [] loaded /\ (IsEmptyQueue(id) \/ IsFinalized(id)) -> "finalized"
    [] loaded /\ ~IsEmptyQueue(id) /\ ~IsFinalized(id) /\ IsNotInQueueYet(id) -> "calculating"
    [] OTHER -> "calculated"

-----------------------------------------------------------------------------
(* Properties.                                                             *)

TypeOK ==
  /\ chainLast \in 0..MaxRequest /\ chainFinalized \in 0..chainLast
  /\ loaded \in BOOLEAN /\ torn \in BOOLEAN /\ placedBetween \in BOOLEAN
  /\ requests \in Seq(Int) /\ lastRequestId \in Nat /\ requestsCount \in Nat
  /\ pc \in {"idle", "reading", "fetching"}
  /\ unfinalizedRead \in Nat \cup {Unread} /\ lastRead \in Nat \cup {Unread}
  /\ kept \in Seq(Int) /\ todo \in Seq(Int)
  /\ faults \in 0..MaxFaults

\* Reusing cached requests and fetching the rest page by page always publishes
\* exactly the window of the tick's own counters: no id twice, none missing,
\* none of an earlier tick left over (getUpdatedRequests, updateQueueInfo).
PublishedWindow == loaded => requests = RequestIds(lastRequestId, requestsCount)

\* getWaitingTimeInfoById dereferences the request it looked up without a
\* check: an id that passes the three early returns is always in the storage.
CalculatedIsInQueue ==
  \A id \in 0..MaxRequest + 1 : StatusOf(id) = "calculated" => IsInQueue(id)

\* The API calls a request finalized only when it is, although both the window
\* and the counters may be stale - unless a request was placed between the two
\* reads of the published tick, in the order unfinalized count first.
FinalizedIsTrue ==
  \A id \in Ids : StatusOf(id) = "finalized" /\ ~torn => id <= chainFinalized

\* The published last id never goes back while the process runs, so an id the
\* API knew is never again reported as not placed yet.
LastIdNeverGoesBack == [][loaded /\ loaded' => lastRequestId' >= lastRequestId]_vars

\* Whatever a torn tick published and however many ticks failed, once the queue
\* stops changing the storage holds exactly its unfinalized requests, for good.
EventuallyExact ==
  <>[](/\ loaded
       /\ requests = [i \in 1..chainLast - chainFinalized |-> chainFinalized + i]
       /\ lastRequestId = chainLast)

\* Reads, pages, reuse and failures are invisible: to its readers the storage is a
\* view of the queue that ticks replace as a whole.
View == INSTANCE QueueView WITH
  view <- [shown |-> loaded, ids |-> {requests[i] : i \in DOMAIN requests},
           last |-> lastRequestId, exact |-> ~torn]
ImplementsQueueView == View!Spec
=============================================================================
