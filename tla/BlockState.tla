----------------------------- MODULE BlockState -----------------------------
(***************************************************************************)
(* The block-state cache of the estimate (BlockStateCacheService): which   *)
(* block the balances of an answer are read at.                            *)
(*                                                                         *)
(* Clients' questions overlap.  Each first resolves a block number, with   *)
(* a number shared for TTL, and then the state of that block, with the     *)
(* last state shared.  While the accounting oracle's report of the current *)
(* frame is not submitted the number is that of the frame's reference      *)
(* slot, if the consensus layer has a block there, else the head's.        *)
(*                                                                         *)
(* All reads of a state are pinned to its block, so a state is represented *)
(* by the number of its block.  Time is kept as ages, cut off at TTL.      *)
(***************************************************************************)
EXTENDS Integers, Sequences

CONSTANTS Clients,
          TTL,         \* BLOCK_NUMBER_TTL_MS in ticks
          MaxBlock,    \* bound: blocks of the chain
          MaxFaults    \* bound: failed reads

ASSUME BlockStateConstants == /\ TTL \in Nat \ {0}
                              /\ MaxBlock \in Nat \ {0}
                              /\ MaxFaults \in Nat

Submitted == 0    \* processing state: the report of the frame is in
Missed    == -1   \* not in, and no block at the reference slot
None      == 0    \* no block: blocks are numbered from 1

VARIABLES
  ref,         \* chain: processing state at each block, Submitted, Missed or
               \*   the block of the reference slot
  window,      \* history: window[k] was the head k ticks ago
  number, age, \* cachedBlockNumber and the time since blockNumberCachedAt
  state,       \* stateCache: its block
  pc,          \* per client: idle, number, processing, slot, state
  since,       \* per client: time since the Date.now() of getOrFetchBlockNumber
  headRead, resolved,  \* per client: locals blockNumber
  served,      \* per client: block of the last answer, None without one
  floor,       \* history: the head TTL - 1 ticks before the client asked
  faults

chain == <<ref, window>>
cache == <<number, age, state>>
vars  == <<chain, cache, pc, since, headRead, resolved, served, floor, faults>>

Latest == Len(ref)
Blocks == 1..MaxBlock

Init ==
  /\ ref \in {<<Submitted>>, <<Missed>>}
  /\ window = [k \in 0..TTL - 1 |-> 1]
  /\ number = None /\ age = TTL /\ state = None
  /\ pc = [c \in Clients |-> "idle"]
  /\ since = [c \in Clients |-> 0]
  /\ headRead = [c \in Clients |-> None] /\ resolved = [c \in Clients |-> None]
  /\ served = [c \in Clients |-> None] /\ floor = [c \in Clients |-> 1]
  /\ faults = 0

-----------------------------------------------------------------------------
(* The chain and the clock.                                                *)

\* The next block: the report is submitted, or a frame has begun since the last
\* one, whose reference slot is its predecessor's or was missed, or neither.
NewBlock ==
  /\ Latest < MaxBlock
  /\ \E r \in {Submitted, Missed, Latest, ref[Latest]} : ref' = Append(ref, r)
  /\ UNCHANGED <<window, cache, pc, since, headRead, resolved, served, floor, faults>>

Older(a) == IF a < TTL THEN a + 1 ELSE TTL

Tick ==
  /\ window' = [k \in 0..TTL - 1 |-> IF k = 0 THEN Latest ELSE window[k - 1]]
  /\ age' = Older(age)
  /\ since' = [c \in Clients |->
                 IF pc[c] \in {"number", "processing", "slot"} THEN Older(since[c]) ELSE 0]
  /\ UNCHANGED <<ref, number, state, pc, headRead, resolved, served, floor, faults>>

-----------------------------------------------------------------------------
(* getBlockState.                                                          *)

Step(c, to) == pc' = [pc EXCEPT ![c] = to]

\* Slip: the last state is returned whatever its block.
UseAnyState(c, n) ==
  /\ resolved' = [resolved EXCEPT ![c] = IF state = None THEN n ELSE None]
  /\ IF state # None
     THEN Step(c, "idle") /\ served' = [served EXCEPT ![c] = state]
     ELSE Step(c, "state") /\ served' = [served EXCEPT ![c] = None]

\* The number is known: the cached state is of this block, or it has to be read.
Use(c, n) ==
  /\ resolved' = [resolved EXCEPT ![c] = IF state = n THEN None ELSE n]
  /\ IF state = n
     THEN Step(c, "idle") /\ served' = [served EXCEPT ![c] = n]
     ELSE Step(c, "state") /\ served' = [served EXCEPT ![c] = None]

\* Slip: every use of the cached number prolongs its life.
AskAndProlong(c) ==
  /\ pc[c] = "idle"
  /\ floor' = [floor EXCEPT ![c] = window[TTL - 1]]
  /\ IF number # None /\ age < TTL
     THEN Use(c, number) /\ age' = 0
     ELSE /\ Step(c, "number") /\ served' = [served EXCEPT ![c] = None]
          /\ UNCHANGED <<resolved, age>>
  /\ UNCHANGED <<chain, number, state, since, headRead, faults>>

Ask(c) ==
  /\ pc[c] = "idle"
  /\ floor' = [floor EXCEPT ![c] = window[TTL - 1]]
  /\ IF number # None /\ age < TTL
     THEN Use(c, number)
     ELSE /\ Step(c, "number") /\ served' = [served EXCEPT ![c] = None]
          /\ UNCHANGED resolved
  /\ UNCHANGED <<chain, cache, since, headRead, faults>>

ReadHead(c) ==
  /\ pc[c] = "number" /\ Step(c, "processing")
  /\ headRead' = [headRead EXCEPT ![c] = Latest]
  /\ UNCHANGED <<chain, cache, since, resolved, served, floor, faults>>

\* The number is stored with the time at which its resolution began, over what
\* a resolution that overlapped with it may have stored since.
Resolve(c, n) ==
  /\ number' = n /\ age' = since[c]
  /\ since' = [since EXCEPT ![c] = 0]
  /\ headRead' = [headRead EXCEPT ![c] = None]
  /\ Use(c, n)

\* getProcessingState at the block that was read.
ReadProcessing(c) ==
  /\ pc[c] = "processing"
  /\ IF ref[headRead[c]] = Submitted
     THEN Resolve(c, headRead[c])
     ELSE /\ Step(c, "slot")
          /\ UNCHANGED <<number, age, since, headRead, resolved, served>>
  /\ UNCHANGED <<chain, state, floor, faults>>

ReadSlot(c) ==
  /\ pc[c] = "slot" /\ ref[headRead[c]] # Missed
  /\ Resolve(c, ref[headRead[c]])
  /\ UNCHANGED <<chain, state, floor, faults>>

\* The reference slot has no block or the request for it failed.
FallBack(c) ==
  /\ pc[c] = "slot"
  /\ \/ ref[headRead[c]] = Missed /\ UNCHANGED faults
     \/ faults < MaxFaults /\ faults' = faults + 1
  /\ Resolve(c, headRead[c])
  /\ UNCHANGED <<chain, state, floor>>

ReadState(c) ==
  /\ pc[c] = "state" /\ Step(c, "idle")
  /\ state' = resolved[c]
  /\ served' = [served EXCEPT ![c] = resolved[c]]
  /\ resolved' = [resolved EXCEPT ![c] = None]
  /\ UNCHANGED <<chain, number, age, since, headRead, floor, faults>>

\* Another read fails and with it the question; the caches stay.
Fail(c) ==
  /\ faults < MaxFaults /\ faults' = faults + 1
  /\ pc[c] # "idle" /\ Step(c, "idle")
  /\ since' = [since EXCEPT ![c] = 0]
  /\ headRead' = [headRead EXCEPT ![c] = None]
  /\ resolved' = [resolved EXCEPT ![c] = None]
  /\ UNCHANGED <<chain, cache, served, floor>>

-----------------------------------------------------------------------------
Question(c) == \/ Ask(c) \/ ReadHead(c) \/ ReadProcessing(c) \/ ReadSlot(c)
               \/ FallBack(c) \/ ReadState(c)
Next == NewBlock \/ Tick \/ \E c \in Clients : Question(c) \/ Fail(c)

(* Time passes, awaited reads settle and clients keep asking; blocks and   *)
(* failures are under no obligation.                                       *)
Spec == Init /\ [][Next]_vars
FairSpec == Spec /\ WF_vars(Tick) /\ \A c \in Clients : WF_vars(Question(c))

-----------------------------------------------------------------------------
(* Properties.                                                             *)

TypeOK ==
  /\ ref \in Seq({Submitted, Missed} \cup Blocks) /\ Latest \in Blocks
  /\ window \in [0..TTL - 1 -> Blocks]
  /\ number \in {None} \cup Blocks /\ age \in 0..TTL /\ state \in {None} \cup Blocks
  /\ pc \in [Clients -> {"idle", "number", "processing", "slot", "state"}]
  /\ since \in [Clients -> 0..TTL]
  /\ headRead \in [Clients -> {None} \cup Blocks]
  /\ resolved \in [Clients -> {None} \cup Blocks]
  /\ served \in [Clients -> {None} \cup Blocks]
  /\ floor \in [Clients -> Blocks]
  /\ faults \in 0..MaxFaults
  /\ \A c \in Clients : (pc[c] = "state") = (resolved[c] # None)

\* The blocks a resolution that read this head can come to.
Resolutions(h) == {h} \cup ({ref[h]} \ {Submitted, Missed})

\* However resolutions overlap and overwrite each other, a cached number is
\* never older than its time of caching says: it was resolved from a head read
\* at or after that time.
CachedIsAsFreshAsItsAge ==
  number # None /\ age < TTL => \E h \in window[age]..Latest : number \in Resolutions(h)

\* An answer is based on a block resolved from a head that was current less than
\* TTL before the question, on every way through the two caches.
ServedIsFresh ==
  \A c \in Clients : served[c] # None =>
    \E h \in floor[c]..Latest : served[c] \in Resolutions(h)

\* Once no more blocks come and reads succeed, all clients are answered, and from
\* some moment on every answer is of the reference block of a report that is not
\* in, or of the head.
EventuallyCurrent ==
  LET current == IF ref[Latest] \in {Submitted, Missed} THEN Latest ELSE ref[Latest]
  IN  \A c \in Clients : <>[](served[c] \in {None, current}) /\ []<>(served[c] = current)

\* The caches are invisible: whatever is shared, overwritten or lost, clients see
\* a service that answers each question at most once and with a fresh block.
Service == INSTANCE FreshBlock WITH asking <- [c \in Clients |-> pc[c] # "idle"]
ImplementsFreshBlock == Service!Spec
=============================================================================
