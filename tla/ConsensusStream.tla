---------------------------- MODULE ConsensusStream ----------------------------
(***************************************************************************)
(* One streamed read of a state of the consensus node: execute of          *)
(* ConsensusRetryService around fetchStream, the pipeline that collects    *)
(* the validators of the state (or the pairs of it that are kept), and the *)
(* abort timer that ConsensusFetchService gives to every request.          *)
(*                                                                         *)
(* There are two loops.  The fetch service repeats a request until it has  *)
(* the headers, as its retry policy says; execute repeats all of it when   *)
(* that or the body fails.  A node may refuse a request, break the body or *)
(* let it hang, and the head moves on meanwhile.  Every attempt has a list *)
(* and a pipeline of its own, every request a timer of its own; those that *)
(* failed stay around, as nothing clears a timer or takes back a batch in  *)
(* flight.                                                                 *)
(***************************************************************************)
EXTENDS Integers, Sequences

CONSTANTS MaxAttempts,  \* CL_STREAM_RETRY_ATTEMPTS
          Delay,        \* CL_STREAM_RETRY_DELAY_MS
          Tries,        \* requests of one fetch: CONSENSUS_RETRY_ATTEMPTS
          Pause,        \* CONSENSUS_RETRY_DELAY
          Limit,        \* CONSENSUS_REQUEST_TIMEOUT
          BatchSize,    \* BATCH_SIZE
          Sizes,        \* how many validators the states of the chain have
          Horizon       \* bound: the time that is looked at

ASSUME StreamConstants ==
  /\ MaxAttempts \in Nat \ {0} /\ Tries \in Nat \ {0} /\ BatchSize \in Nat \ {0}
  /\ Delay \in Nat /\ Pause \in Nat /\ Limit \in Nat \ {0} /\ Horizon \in Nat
  /\ Sizes \in Seq(Nat) /\ Sizes # <<>>

Attempts == 1..MaxAttempts
Requests == Attempts \X (1..Tries)

\* The validators of a state, each known by its state and its place.
Whole(state) == [i \in 1..Sizes[state] |-> <<state, i>>]
Slice(state, first, last) == [i \in 1..(last - first + 1) |-> <<state, first + i - 1>>]

VARIABLES
  now, head,  \* time since execute was called; the newest state of the chain
  attempt,    \* the attempt of execute
  try,        \* the request of its fetch
  phase,      \* opening (a request), pausing (before the next request), reading
              \*   (the body), waiting (before the next attempt), done, failed
  wakes,      \* when the pause or the delay ends
  opened,     \* per request: when it began
  armed,      \* the requests whose abort timer has not fired
  from,       \* per attempt: the state of its stream, 0 before it is open
  sent,       \* per attempt: validators that have come out of its batches
  held,       \* per attempt: validators of a batch in `await unblock()`
  closed,     \* per attempt: the body has ended
  data,       \* per attempt: the list
  result,     \* what execute resolved to
  aborts      \* history: requests ended by an abort, with their age

loop     == <<attempt, try, phase, wakes, opened, result>>
pipes    == <<from, sent, held, closed, data>>
vars     == <<now, head, loop, armed, pipes, aborts>>

Init ==
  /\ now = 0 /\ head = 1
  /\ attempt = 1 /\ try = 1 /\ phase = "opening" /\ wakes = 0 /\ result = <<>>
  /\ opened = [r \in Requests |-> 0] /\ armed = {<<1, 1>>}
  /\ from = [a \in Attempts |-> 0] /\ sent = from /\ held = from
  /\ closed = [a \in Attempts |-> FALSE] /\ data = [a \in Attempts |-> <<>>]
  /\ aborts = {}

Active == phase \in {"opening", "reading"}
Current == <<attempt, try>>

-----------------------------------------------------------------------------
(* The two loops.                                                          *)

\* The catch: rethrow after the last attempt, delay before another.
Rejected ==
  IF attempt >= MaxAttempts
  THEN phase' = "failed" /\ UNCHANGED wakes
  ELSE phase' = "waiting" /\ wakes' = now + Delay

\* A request fails: again before the headers are there, else the attempt fails.
RequestFails ==
  IF phase = "opening" /\ try < Tries
  THEN phase' = "pausing" /\ wakes' = now + Pause
  ELSE Rejected

\* A request with a timer of its own.
Begin(r) ==
  /\ attempt' = r[1] /\ try' = r[2] /\ phase' = "opening"
  /\ opened' = [opened EXCEPT ![r] = now] /\ armed' = armed \cup {r}
  /\ UNCHANGED <<now, head, wakes, result, from, sent, held, closed, aborts>>

Repeat ==
  /\ phase = "pausing" /\ now >= wakes
  /\ Begin(<<attempt, try + 1>>) /\ UNCHANGED data

\* Slip: the list is declared outside the function that is retried.
RetryOnSameList ==
  /\ phase = "waiting" /\ now >= wakes
  /\ Begin(<<attempt + 1, 1>>)
  /\ data' = [data EXCEPT ![attempt + 1] = data[attempt]]

Retry ==
  /\ phase = "waiting" /\ now >= wakes
  /\ Begin(<<attempt + 1, 1>>) /\ UNCHANGED data

-----------------------------------------------------------------------------
(* The stream of an attempt.                                               *)

\* A node answers with the state that is its head at that moment; the next request
\* may be another node's, which is behind.
Open ==
  /\ phase = "opening" /\ phase' = "reading"
  /\ \E s \in 1..head : from' = [from EXCEPT ![attempt] = s]
  /\ UNCHANGED <<now, head, attempt, try, wakes, opened, result, armed, sent, held, closed, data, aborts>>

Rest(a) == Sizes[from[a]] - sent[a]

\* A full batch reaches the last step of the pipeline, which first lets others run.
Batch ==
  /\ phase = "reading" /\ ~closed[attempt] /\ held[attempt] = 0
  /\ Rest(attempt) >= BatchSize
  /\ sent' = [sent EXCEPT ![attempt] = @ + BatchSize]
  /\ held' = [held EXCEPT ![attempt] = BatchSize]
  /\ UNCHANGED <<now, head, loop, armed, from, closed, data, aborts>>

\* The body ends; what is left makes a smaller batch.
Close ==
  /\ phase = "reading" /\ ~closed[attempt] /\ held[attempt] = 0
  /\ Rest(attempt) < BatchSize
  /\ sent' = [sent EXCEPT ![attempt] = Sizes[from[attempt]]]
  /\ held' = [held EXCEPT ![attempt] = Rest(attempt)]
  /\ closed' = [closed EXCEPT ![attempt] = TRUE]
  /\ UNCHANGED <<now, head, loop, armed, from, data, aborts>>

\* The batch is pushed, also when its attempt has been given up meanwhile.
Push(a) ==
  /\ held[a] > 0
  /\ data' = [data EXCEPT ![a] = @ \o Slice(from[a], sent[a] - held[a] + 1, sent[a])]
  /\ held' = [held EXCEPT ![a] = 0]
  /\ UNCHANGED <<now, head, loop, armed, from, sent, closed, aborts>>

\* The pipeline emits 'end': the list is returned, and execute resolves to it.
End ==
  /\ phase = "reading" /\ closed[attempt] /\ held[attempt] = 0
  /\ phase' = "done" /\ result' = data[attempt]
  /\ UNCHANGED <<now, head, attempt, try, wakes, opened, armed, pipes, aborts>>

\* The node refuses, breaks the body off or sends what is no JSON.
Break ==
  /\ Active /\ ~closed[attempt] /\ RequestFails
  /\ UNCHANGED <<now, head, attempt, try, opened, result, armed, pipes, aborts>>

-----------------------------------------------------------------------------
(* Timers.                                                                 *)

Ends(r) == RequestFails /\ aborts' = aborts \cup {<<r, now - opened[r]>>}

\* Slip: a signal that is passed on takes precedence over a new one, so that the
\* requests of a fetch share the first.
AbortInherited(r) ==
  /\ r \in armed /\ now >= opened[r] + Limit /\ armed' = armed \ {r}
  /\ IF r = <<attempt, 1>> /\ Active /\ ~closed[attempt]
     THEN Ends(Current) ELSE UNCHANGED <<phase, wakes, aborts>>
  /\ UNCHANGED <<now, head, attempt, try, opened, result, pipes>>

\* Slip: the timer covers the request until the headers are there.
AbortUntilHeaders(r) ==
  /\ r \in armed /\ now >= opened[r] + Limit /\ armed' = armed \ {r}
  /\ IF r = Current /\ phase = "opening"
     THEN Ends(r) ELSE UNCHANGED <<phase, wakes, aborts>>
  /\ UNCHANGED <<now, head, attempt, try, opened, result, pipes>>

\* The timer of a request fires: its signal ends the request or the body, if any.
Abort(r) ==
  /\ r \in armed /\ now >= opened[r] + Limit /\ armed' = armed \ {r}
  /\ IF r = Current /\ Active /\ ~closed[attempt]
     THEN Ends(r) ELSE UNCHANGED <<phase, wakes, aborts>>
  /\ UNCHANGED <<now, head, attempt, try, opened, result, pipes>>

\* What the process does at once: due timers, and the end of a body that is there.
Due ==
  \/ \E r \in armed : now >= opened[r] + Limit
  \/ phase \in {"pausing", "waiting"} /\ now >= wakes
  \/ phase = "reading" /\ closed[attempt]

Tick ==
  /\ phase \notin {"done", "failed"} /\ ~Due /\ now < Horizon /\ now' = now + 1
  /\ UNCHANGED <<head, loop, armed, pipes, aborts>>

Mine ==
  /\ head < Len(Sizes) /\ head' = head + 1
  /\ UNCHANGED <<now, loop, armed, pipes, aborts>>

-----------------------------------------------------------------------------
Next ==
  \/ Repeat \/ Retry \/ Open \/ Batch \/ Close \/ End \/ Break \/ Tick \/ Mine
  \/ \E a \in Attempts : Push(a)
  \/ \E r \in Requests : Abort(r)

\* The process and its clock go on; the node may do nothing at all.
Fairness ==
  /\ WF_vars(Repeat) /\ WF_vars(Retry) /\ WF_vars(End) /\ WF_vars(Tick)
  /\ \A a \in Attempts : WF_vars(Push(a))
  /\ \A r \in Requests : WF_vars(Abort(r))

Spec == Init /\ [][Next]_vars /\ Fairness

-----------------------------------------------------------------------------
(* Properties.                                                             *)

TypeOK ==
  /\ now \in Nat /\ head \in DOMAIN Sizes
  /\ Current \in Requests /\ wakes \in Nat
  /\ phase \in {"opening", "pausing", "reading", "waiting", "done", "failed"}
  /\ opened \in [Requests -> Nat] /\ armed \subseteq Requests
  /\ from \in [Attempts -> 0..head]
  /\ sent \in [Attempts -> Nat] /\ held \in [Attempts -> 0..BatchSize]
  /\ closed \in [Attempts -> BOOLEAN]
  /\ data \in [Attempts -> Seq((DOMAIN Sizes) \X Nat)]
  /\ result \in Seq((DOMAIN Sizes) \X Nat)
  /\ aborts \subseteq Requests \X Nat

\* What a read resolves to is the whole list of one state, every validator once and
\* in its place, however many attempts broke off in the middle of theirs or pushed a
\* batch after they had been given up: the counts of the update are taken from it.
ResultIsOneState == phase = "done" => \E s \in 1..head : result = Whole(s)

\* A request is only aborted by its own timer, when it has had the whole limit: the
\* timers of earlier requests, which are never cleared, do not shorten it.
NoneAbortedEarly == \A x \in aborts : x[2] >= Limit

\* A read rejects only after MaxAttempts attempts, of which the last had failed, too.
FailsAfterLastAttempt == phase = "failed" => attempt = MaxAttempts /\ ~closed[MaxAttempts]

\* A fetch that is given up at the last moment.
LongestFetch == Tries * Limit + (Tries - 1) * Pause

\* Whatever the nodes do, a read takes no longer than its attempts and the delays
\* between them: for that long it keeps the lock of the update, and no longer.
LongestCall == now <= MaxAttempts * LongestFetch + (MaxAttempts - 1) * Delay

\* A read comes to an end although the node may leave every body hanging, so that
\* the update that waits for it can be run again.
EventuallySettles == <>(phase \in {"done", "failed"})
=============================================================================
