-------------------------- MODULE BlockState_proofs --------------------------
(***************************************************************************)
(* The block-state cache for every number of clients, time to live and     *)
(* length of the chain.                                                    *)
(***************************************************************************)
EXTENDS BlockState, TLAPS

(***************************************************************************)
(* The inductive invariant.                                                *)
(***************************************************************************)
Fresh(b, from) == \E h \in from..Latest : b \in Resolutions(h)

\* Heads never go back.
WindowIsOrdered == \A j, k \in 0..TTL - 1 : j <= k => window[k] <= window[j] /\ window[j] <= Latest

\* A resolution under way has read a head that is at least as recent as its own
\* start and as what the client may expect.
ReadIsFresh == \A c \in Clients :
  /\ floor[c] <= Latest
  /\ pc[c] \in {"processing", "slot"} =>
       /\ floor[c] <= headRead[c] /\ headRead[c] <= Latest /\ headRead[c] # None
       /\ since[c] < TTL => window[since[c]] <= headRead[c]
  /\ pc[c] = "slot" => ref[headRead[c]] # Submitted

\* The state a client waits for, or was served, is of a fresh block.
WaitedIsFresh == \A c \in Clients : resolved[c] # None => Fresh(resolved[c], floor[c])
AnsweredIsFresh == \A c \in Clients : served[c] # None => Fresh(served[c], floor[c])

NumberIsFresh == number # None /\ age < TTL => Fresh(number, window[age])

IInv == /\ TypeOK /\ WindowIsOrdered /\ ReadIsFresh
        /\ WaitedIsFresh /\ AnsweredIsFresh /\ NumberIsFresh

LEMMA FreshIsProperty ==
  ASSUME IInv PROVE ServedIsFresh /\ CachedIsAsFreshAsItsAge
  BY DEF IInv, AnsweredIsFresh, NumberIsFresh, Fresh, ServedIsFresh, CachedIsAsFreshAsItsAge

LEMMA InitIInv == Init => IInv
<1> SUFFICES ASSUME Init PROVE IInv
  OBVIOUS
<1>1. ref \in Seq({Submitted, Missed} \cup Blocks) /\ Latest = 1 /\ Latest \in Blocks
  BY BlockStateConstants DEF Init, Latest, Blocks, Submitted, Missed
<1>2. window \in [0..TTL - 1 -> Blocks] /\ floor \in [Clients -> Blocks]
  BY BlockStateConstants DEF Init, Blocks
<1>3. age \in 0..TTL /\ since \in [Clients -> 0..TTL] /\ faults \in 0..MaxFaults
  BY BlockStateConstants DEF Init
<1>4. TypeOK
  BY <1>1, <1>2, <1>3 DEF Init, TypeOK
<1>5. WindowIsOrdered
  BY <1>1 DEF Init, WindowIsOrdered
<1>6. ReadIsFresh /\ WaitedIsFresh /\ AnsweredIsFresh /\ NumberIsFresh
  BY <1>1 DEF Init, ReadIsFresh, WaitedIsFresh, AnsweredIsFresh, NumberIsFresh
<1> QED
  BY <1>4, <1>5, <1>6 DEF IInv

(***************************************************************************)
(* The chain and the clock.                                                *)
(***************************************************************************)
LEMMA Typed ==
  ASSUME IInv
  PROVE  /\ ref \in Seq({Submitted, Missed} \cup Blocks)
         /\ Latest \in Nat \ {0} /\ Blocks \subseteq Nat \ {0}
         /\ \A k \in 0..TTL - 1 : window[k] \in Nat \ {0}
         /\ \A c \in Clients : floor[c] \in Nat \ {0} /\ since[c] \in 0..TTL
         /\ age \in 0..TTL /\ TTL \in Nat \ {0}
  BY BlockStateConstants DEF IInv, TypeOK, Blocks, Latest

\* What was fresh stays so on a longer chain.
LEMMA FreshOnLongerChain ==
  ASSUME IInv, NewBlock
  PROVE  /\ Latest' = Latest + 1
         /\ \A h \in 1..Latest : ref'[h] = ref[h]
         /\ \A b : \A from \in Nat \ {0} : Fresh(b, from) => Fresh(b, from)'
<1>1. PICK r \in {Submitted, Missed, Latest, ref[Latest]} : ref' = Append(ref, r)
  BY DEF NewBlock
<1>2. Latest' = Latest + 1 /\ \A h \in 1..Latest : ref'[h] = ref[h]
  BY <1>1, Typed DEF Latest
<1>3. ASSUME NEW b, NEW from \in Nat \ {0}, Fresh(b, from) PROVE Fresh(b, from)'
  <2>1. PICK h \in from..Latest : b \in Resolutions(h)
    BY <1>3 DEF Fresh
  <2>2. h \in 1..Latest /\ h \in from..Latest'
    BY <2>1, <1>2, Typed
  <2>3. b \in Resolutions(h)'
    BY <2>1, <2>2, <1>2 DEF Resolutions
  <2> QED
    BY <2>2, <2>3 DEF Fresh
<1> QED
  BY <1>2, <1>3

LEMMA NewBlockIInv == ASSUME IInv, NewBlock PROVE IInv'
<1>1. PICK r \in {Submitted, Missed, Latest, ref[Latest]} : ref' = Append(ref, r)
  BY DEF NewBlock
<1>2. /\ UNCHANGED <<window, number, age, state, pc, since, headRead, resolved, served, floor, faults>>
      /\ Latest < MaxBlock
  BY DEF NewBlock, cache
<1>3. /\ Latest' = Latest + 1
      /\ \A h \in 1..Latest : ref'[h] = ref[h]
      /\ \A b : \A from \in Nat \ {0} : Fresh(b, from) => Fresh(b, from)'
  BY FreshOnLongerChain
<1>4. TypeOK'
  <2>1. r \in {Submitted, Missed} \cup Blocks
    BY Typed, <1>2, BlockStateConstants DEF IInv, TypeOK, Latest, Blocks
  <2>2. ref' \in Seq({Submitted, Missed} \cup Blocks)
    BY <1>1, <2>1, Typed
  <2>3. Latest' \in Blocks
    BY <1>2, <1>3, BlockStateConstants, Typed DEF Blocks
  <2> QED
    BY <1>2, <2>2, <2>3 DEF IInv, TypeOK
<1>5. WindowIsOrdered'
  BY <1>2, <1>3, Typed DEF IInv, WindowIsOrdered
<1>6. ReadIsFresh'
  <2> SUFFICES ASSUME NEW c \in Clients
               PROVE  /\ floor[c] <= Latest'
                      /\ pc[c] \in {"processing", "slot"} =>
                           /\ floor[c] <= headRead[c] /\ headRead[c] <= Latest' /\ headRead[c] # None
                           /\ since[c] < TTL => window[since[c]] <= headRead[c]
                      /\ pc[c] = "slot" => ref'[headRead[c]] # Submitted
    BY <1>2 DEF ReadIsFresh
  <2>1. headRead[c] \in Nat /\ floor[c] \in Nat
    BY Typed DEF IInv, TypeOK, None
  <2>2. pc[c] = "slot" => headRead[c] \in 1..Latest
    BY <2>1, Typed DEF IInv, ReadIsFresh, None
  <2> QED
    BY <1>3, <2>1, <2>2, Typed DEF IInv, ReadIsFresh
<1>7. WaitedIsFresh' /\ AnsweredIsFresh'
  BY <1>2, <1>3, Typed DEF IInv, WaitedIsFresh, AnsweredIsFresh
<1>8. NumberIsFresh'
  <2>1. age < TTL => window[age] \in Nat \ {0}
    BY Typed
  <2> QED
    BY <1>2, <1>3, <2>1 DEF IInv, NumberIsFresh
<1> QED
  BY <1>4, <1>5, <1>6, <1>7, <1>8 DEF IInv

LEMMA TickIInv == ASSUME IInv, Tick PROVE IInv'
<1>1. /\ window' = [k \in 0..TTL - 1 |-> IF k = 0 THEN Latest ELSE window[k - 1]]
      /\ age' = Older(age)
      /\ since' = [c \in Clients |->
                     IF pc[c] \in {"number", "processing", "slot"} THEN Older(since[c]) ELSE 0]
      /\ UNCHANGED <<ref, number, state, pc, headRead, resolved, served, floor, faults>>
  BY DEF Tick
<1>2. Latest' = Latest /\ Blocks' = Blocks /\ \A h : Resolutions(h)' = Resolutions(h)
  BY <1>1 DEF Latest, Resolutions, Blocks
<1>3. \A b, from : Fresh(b, from)' = Fresh(b, from)
  BY <1>2 DEF Fresh
<1>4. \A a \in 0..TTL : /\ Older(a) \in 0..TTL
                        /\ Older(a) < TTL => a < TTL /\ window'[Older(a)] = window[a]
  BY <1>1, Typed DEF Older
<1>5. TypeOK'
  <2>1. window' \in [0..TTL - 1 -> Blocks]
    BY <1>1, Typed DEF IInv, TypeOK
  <2>2. age' \in 0..TTL /\ since' \in [Clients -> 0..TTL]
    <3>1. age' \in 0..TTL
      BY <1>1, <1>4, Typed
    <3>2. 0 \in 0..TTL /\ \A c \in Clients : Older(since[c]) \in 0..TTL
      BY <1>4, Typed
    <3> QED
      BY <1>1, <3>1, <3>2
  <2> QED
    BY <1>1, <1>2, <2>1, <2>2 DEF IInv, TypeOK
<1>6. WindowIsOrdered'
  <2> SUFFICES ASSUME NEW j \in 0..TTL - 1, NEW k \in 0..TTL - 1, j <= k
               PROVE  window'[k] <= window'[j] /\ window'[j] <= Latest
    BY <1>2 DEF WindowIsOrdered
  <2>1. CASE j = 0
    <3>1. window'[j] = Latest
      BY <1>1, <2>1, Typed
    <3>2. k # 0 => window'[k] = window[k - 1] /\ k - 1 \in 0..TTL - 1
      BY <1>1, Typed
    <3>3. k # 0 => window[k - 1] <= Latest
      BY <3>2, Typed DEF IInv, WindowIsOrdered
    <3> QED
      BY <1>1, <3>1, <3>2, <3>3, Typed
  <2>2. CASE j # 0
    <3>1. window'[k] = window[k - 1] /\ window'[j] = window[j - 1]
      BY <1>1, <2>2, Typed
    <3>2. j - 1 \in 0..TTL - 1 /\ k - 1 \in 0..TTL - 1 /\ j - 1 <= k - 1
      BY <2>2, Typed
    <3> QED
      BY <3>1, <3>2 DEF IInv, WindowIsOrdered
  <2> QED
    BY <2>1, <2>2
<1>7. ReadIsFresh'
  <2> SUFFICES ASSUME NEW c \in Clients
               PROVE  /\ floor[c] <= Latest
                      /\ pc[c] \in {"processing", "slot"} =>
                           /\ floor[c] <= headRead[c] /\ headRead[c] <= Latest /\ headRead[c] # None
                           /\ since'[c] < TTL => window'[since'[c]] <= headRead[c]
                      /\ pc[c] = "slot" => ref[headRead[c]] # Submitted
    BY <1>1, <1>2 DEF ReadIsFresh
  <2>1. pc[c] \in {"processing", "slot"} => since'[c] = Older(since[c])
    BY <1>1
  <2>2. /\ floor[c] <= Latest
        /\ pc[c] \in {"processing", "slot"} =>
             /\ floor[c] <= headRead[c] /\ headRead[c] <= Latest /\ headRead[c] # None
             /\ since[c] < TTL => window[since[c]] <= headRead[c]
        /\ pc[c] = "slot" => ref[headRead[c]] # Submitted
    BY DEF IInv, ReadIsFresh
  <2>3. since[c] \in 0..TTL
    BY Typed
  <2> QED
    BY <1>4, <2>1, <2>2, <2>3
<1>8. WaitedIsFresh' /\ AnsweredIsFresh'
  BY <1>1, <1>3 DEF IInv, WaitedIsFresh, AnsweredIsFresh
<1>9. NumberIsFresh'
  BY <1>1, <1>3, <1>4, Typed DEF IInv, NumberIsFresh
<1> QED
  BY <1>5, <1>6, <1>7, <1>8, <1>9 DEF IInv

(***************************************************************************)
(* The steps of a question.                                                *)
(***************************************************************************)
\* What a step of getBlockState must establish when the chain does not move.
LEMMA QuestionStep ==
  ASSUME IInv, NEW c \in Clients, UNCHANGED chain, TypeOK',
         \A d \in Clients \ {c} :
           /\ pc'[d] = pc[d] /\ since'[d] = since[d] /\ headRead'[d] = headRead[d]
           /\ resolved'[d] = resolved[d] /\ served'[d] = served[d] /\ floor'[d] = floor[d],
         floor'[c] <= Latest,
         pc'[c] \in {"processing", "slot"} =>
           /\ floor'[c] <= headRead'[c] /\ headRead'[c] <= Latest /\ headRead'[c] # None
           /\ since'[c] < TTL => window[since'[c]] <= headRead'[c],
         pc'[c] = "slot" => ref[headRead'[c]] # Submitted,
         resolved'[c] # None => Fresh(resolved'[c], floor'[c]),
         served'[c] # None => Fresh(served'[c], floor'[c]),
         number' # None /\ age' < TTL => Fresh(number', window[age'])
  PROVE  IInv'
<1>1. ref' = ref /\ window' = window
  BY DEF chain
<1>2. Latest' = Latest /\ \A h : Resolutions(h)' = Resolutions(h)
  BY <1>1 DEF Latest, Resolutions
<1>3. \A b, from : Fresh(b, from)' = Fresh(b, from)
  BY <1>2 DEF Fresh
<1>4. WindowIsOrdered'
  BY <1>1, <1>2 DEF IInv, WindowIsOrdered
<1>5. ReadIsFresh'
  BY <1>1, <1>2 DEF IInv, ReadIsFresh
<1>6. WaitedIsFresh'
  BY <1>3 DEF IInv, WaitedIsFresh
<1>7. AnsweredIsFresh'
  BY <1>3 DEF IInv, AnsweredIsFresh
<1>8. NumberIsFresh'
  BY <1>1, <1>3 DEF NumberIsFresh
<1> QED
  BY <1>4, <1>5, <1>6, <1>7, <1>8 DEF IInv

\* The number n is known, by whatever way: the rest of the step.
LEMMA UseStep ==
  ASSUME IInv, NEW c \in Clients, NEW n \in Blocks, Use(c, n), UNCHANGED chain,
         UNCHANGED <<state, floor>> \/ (floor' \in [Clients -> Blocks] /\ UNCHANGED state),
         \A d \in Clients \ {c} : floor'[d] = floor[d],
         floor'[c] <= Latest, Fresh(n, floor'[c]),
         since' = since \/ since' = [since EXCEPT ![c] = 0],
         headRead' = headRead \/ headRead' = [headRead EXCEPT ![c] = None],
         number' \in {None} \cup Blocks, age' \in 0..TTL, faults' \in 0..MaxFaults,
         number' # None /\ age' < TTL => Fresh(number', window[age'])
  PROVE  IInv'
<1>1. /\ pc' = [pc EXCEPT ![c] = IF state = n THEN "idle" ELSE "state"]
      /\ resolved' = [resolved EXCEPT ![c] = IF state = n THEN None ELSE n]
      /\ served' = [served EXCEPT ![c] = IF state = n THEN n ELSE None]
  BY DEF Use, Step
<1>2. ref' = ref /\ window' = window /\ Latest' = Latest /\ Blocks' = Blocks
  BY DEF chain, Latest, Blocks
<1>3. /\ pc' \in [Clients -> {"idle", "number", "processing", "slot", "state"}]
      /\ resolved' \in [Clients -> {None} \cup Blocks]
      /\ served' \in [Clients -> {None} \cup Blocks]
  BY <1>1 DEF IInv, TypeOK
<1>4. since' \in [Clients -> 0..TTL] /\ headRead' \in [Clients -> {None} \cup Blocks]
  <2>1. 0 \in 0..TTL /\ since \in [Clients -> 0..TTL] /\ headRead \in [Clients -> {None} \cup Blocks]
    BY BlockStateConstants DEF IInv, TypeOK
  <2>2. since' \in [Clients -> 0..TTL]
    BY <2>1
  <2>3. headRead' \in [Clients -> {None} \cup Blocks]
    BY <2>1
  <2> QED
    BY <2>2, <2>3
<1>5. floor' \in [Clients -> Blocks]
  BY DEF IInv, TypeOK
<1>6. n # None
  BY DEF Blocks, None
<1>7. \A d \in Clients : (pc'[d] = "state") = (resolved'[d] # None)
  BY <1>1, <1>6 DEF IInv, TypeOK
<1>8. TypeOK'
  BY <1>2, <1>3, <1>4, <1>5, <1>7 DEF IInv, TypeOK
<1>9. \A d \in Clients \ {c} :
        /\ pc'[d] = pc[d] /\ since'[d] = since[d] /\ headRead'[d] = headRead[d]
        /\ resolved'[d] = resolved[d] /\ served'[d] = served[d]
  BY <1>1 DEF IInv, TypeOK
<1>10. pc'[c] \in {"idle", "state"} /\ resolved'[c] \in {None, n} /\ served'[c] \in {None, n}
  BY <1>1 DEF IInv, TypeOK
<1> QED
  BY <1>8, <1>9, <1>10, QuestionStep

\* A resolution ends with n: it is stored with the time of its beginning.
LEMMA ResolveStep ==
  ASSUME IInv, NEW c \in Clients, NEW n \in Blocks, pc[c] \in {"processing", "slot"},
         n \in Resolutions(headRead[c]), Resolve(c, n),
         UNCHANGED <<chain, state, floor>>, faults' \in 0..MaxFaults
  PROVE  IInv'
<1>1. /\ number' = n /\ age' = since[c] /\ Use(c, n)
      /\ since' = [since EXCEPT ![c] = 0] /\ headRead' = [headRead EXCEPT ![c] = None]
  BY DEF Resolve
<1>2. headRead[c] \in Nat
  BY DEF IInv, TypeOK, None, Blocks
<1>3. floor[c] <= Latest /\ Fresh(n, floor[c])
  BY <1>2, Typed DEF IInv, ReadIsFresh, Fresh
<1>4. since[c] < TTL => Fresh(n, window[since[c]])
  BY <1>2, Typed DEF IInv, ReadIsFresh, Fresh
<1>5. age' \in 0..TTL /\ number' \in {None} \cup Blocks
  BY <1>1, Typed
<1> QED
  BY <1>1, <1>3, <1>4, <1>5, UseStep

LEMMA AskIInv == ASSUME IInv, NEW c \in Clients, Ask(c) PROVE IInv'
<1>1. /\ pc[c] = "idle" /\ floor' = [floor EXCEPT ![c] = window[TTL - 1]]
      /\ UNCHANGED <<chain, number, age, state, since, headRead, faults>>
  BY DEF Ask, cache
<1>2. TTL - 1 \in 0..TTL - 1 /\ window[TTL - 1] \in Blocks
  BY Typed DEF IInv, TypeOK
<1>3. /\ floor' \in [Clients -> Blocks] /\ floor'[c] = window[TTL - 1]
      /\ \A d \in Clients \ {c} : floor'[d] = floor[d]
  BY <1>1, <1>2 DEF IInv, TypeOK
<1>4. floor'[c] <= Latest
  BY <1>2, <1>3, Typed DEF IInv, WindowIsOrdered
<1>5. number' # None /\ age' < TTL => Fresh(number', window[age'])
  BY <1>1 DEF IInv, NumberIsFresh
<1>6. number' \in {None} \cup Blocks /\ age' \in 0..TTL /\ faults' \in 0..MaxFaults
  BY <1>1 DEF IInv, TypeOK
<1>7. CASE number # None /\ age < TTL
  <2>1. Use(c, number) /\ number \in Blocks
    BY <1>7 DEF Ask, IInv, TypeOK
  <2>2. PICK h \in window[age]..Latest : number \in Resolutions(h)
    BY <1>7 DEF IInv, NumberIsFresh, Fresh
  <2>3. age \in 0..TTL - 1 /\ window[TTL - 1] <= window[age]
    BY <1>7, <1>2, Typed DEF IInv, WindowIsOrdered
  <2>4. h \in window[TTL - 1]..Latest
    BY <2>2, <2>3, <1>2, Typed
  <2>5. Fresh(number, floor'[c])
    BY <1>3, <2>2, <2>4 DEF Fresh
  <2> QED
    BY <1>1, <1>3, <1>4, <1>5, <1>6, <2>1, <2>5, UseStep
<1>8. CASE ~(number # None /\ age < TTL)
  <2>1. /\ pc' = [pc EXCEPT ![c] = "number"] /\ served' = [served EXCEPT ![c] = None]
        /\ resolved' = resolved
    BY <1>8 DEF Ask, Step
  <2>2. resolved[c] = None
    BY <1>1 DEF IInv, TypeOK
  <2>3. TypeOK'
    BY <1>1, <1>3, <2>1, <2>2 DEF IInv, TypeOK, chain, Latest, Blocks
  <2>4. pc'[c] = "number" /\ served'[c] = None
    BY <2>1 DEF IInv, TypeOK
  <2>5. \A d \in Clients \ {c} : pc'[d] = pc[d] /\ served'[d] = served[d]
    BY <2>1 DEF IInv, TypeOK
  <2> QED
    BY <1>1, <1>3, <1>4, <1>5, <2>1, <2>2, <2>3, <2>4, <2>5, QuestionStep
<1> QED
  BY <1>7, <1>8

LEMMA ReadHeadIInv == ASSUME IInv, NEW c \in Clients, ReadHead(c) PROVE IInv'
<1>1. /\ pc[c] = "number" /\ pc' = [pc EXCEPT ![c] = "processing"]
      /\ headRead' = [headRead EXCEPT ![c] = Latest]
      /\ UNCHANGED <<chain, number, age, state, since, resolved, served, floor, faults>>
  BY DEF ReadHead, Step, cache
<1>2. TypeOK'
  BY <1>1 DEF IInv, TypeOK, chain, Latest, Blocks
<1>3. pc'[c] = "processing" /\ headRead'[c] = Latest
  BY <1>1 DEF IInv, TypeOK
<1>4. \A d \in Clients \ {c} : pc'[d] = pc[d] /\ headRead'[d] = headRead[d]
  BY <1>1 DEF IInv, TypeOK
<1>5. since[c] < TTL => window[since[c]] <= Latest
  BY Typed DEF IInv, WindowIsOrdered
<1>6. /\ floor[c] <= Latest /\ Latest # None /\ Latest \in Nat
      /\ resolved[c] # None => Fresh(resolved[c], floor[c])
      /\ served[c] # None => Fresh(served[c], floor[c])
      /\ number # None /\ age < TTL => Fresh(number, window[age])
  BY Typed DEF IInv, ReadIsFresh, WaitedIsFresh, AnsweredIsFresh, NumberIsFresh, None
<1> QED
  BY <1>1, <1>2, <1>3, <1>4, <1>5, <1>6, QuestionStep

LEMMA ReadProcessingIInv == ASSUME IInv, NEW c \in Clients, ReadProcessing(c) PROVE IInv'
<1>1. pc[c] = "processing" /\ UNCHANGED <<chain, state, floor, faults>>
  BY DEF ReadProcessing
<1>2. headRead[c] \in Blocks /\ headRead[c] \in Resolutions(headRead[c])
  BY <1>1 DEF IInv, TypeOK, ReadIsFresh, Resolutions
<1>3. CASE ref[headRead[c]] = Submitted
  <2>1. Resolve(c, headRead[c]) /\ faults' \in 0..MaxFaults
    BY <1>1, <1>3 DEF ReadProcessing, IInv, TypeOK
  <2> QED
    BY <1>1, <1>2, <2>1, ResolveStep
<1>4. CASE ref[headRead[c]] # Submitted
  <2>1. /\ pc' = [pc EXCEPT ![c] = "slot"]
        /\ UNCHANGED <<number, age, since, headRead, resolved, served>>
    BY <1>4 DEF ReadProcessing, Step
  <2>2. TypeOK'
    BY <1>1, <2>1 DEF IInv, TypeOK, chain, Latest, Blocks
  <2>3. pc'[c] = "slot" /\ \A d \in Clients \ {c} : pc'[d] = pc[d]
    BY <2>1 DEF IInv, TypeOK
  <2>4. /\ floor[c] <= headRead[c] /\ headRead[c] <= Latest /\ headRead[c] # None
        /\ since[c] < TTL => window[since[c]] <= headRead[c]
        /\ floor[c] <= Latest
        /\ resolved[c] # None => Fresh(resolved[c], floor[c])
        /\ served[c] # None => Fresh(served[c], floor[c])
        /\ number # None /\ age < TTL => Fresh(number, window[age])
    BY <1>1 DEF IInv, ReadIsFresh, WaitedIsFresh, AnsweredIsFresh, NumberIsFresh
  <2> QED
    BY <1>1, <1>4, <2>1, <2>2, <2>3, <2>4, QuestionStep
<1> QED
  BY <1>3, <1>4

LEMMA SlotIInv == ASSUME IInv, NEW c \in Clients, ReadSlot(c) \/ FallBack(c) PROVE IInv'
<1>1. pc[c] = "slot" /\ UNCHANGED <<chain, state, floor>>
  BY DEF ReadSlot, FallBack
<1>2. headRead[c] \in Blocks /\ headRead[c] \in 1..Latest /\ ref[headRead[c]] # Submitted
  BY <1>1, Typed DEF IInv, TypeOK, ReadIsFresh, None, Blocks
<1>3. CASE ReadSlot(c)
  <2>1. /\ ref[headRead[c]] # Missed /\ Resolve(c, ref[headRead[c]]) /\ faults' \in 0..MaxFaults
    BY <1>3 DEF ReadSlot, IInv, TypeOK
  <2>2. ref[headRead[c]] \in {Submitted, Missed} \cup Blocks
    BY <1>2, Typed DEF Latest
  <2>3. ref[headRead[c]] \in Blocks /\ ref[headRead[c]] \in Resolutions(headRead[c])
    BY <1>2, <2>1, <2>2 DEF Resolutions
  <2> QED
    BY <1>1, <2>1, <2>3, ResolveStep
<1>4. CASE FallBack(c)
  <2>1. Resolve(c, headRead[c]) /\ headRead[c] \in Resolutions(headRead[c])
    BY <1>4 DEF FallBack, Resolutions
  <2>2. faults' \in 0..MaxFaults
    BY <1>4, BlockStateConstants DEF FallBack, IInv, TypeOK
  <2> QED
    BY <1>1, <1>2, <2>1, <2>2, ResolveStep
<1> QED
  BY <1>3, <1>4

LEMMA ReadStateIInv == ASSUME IInv, NEW c \in Clients, ReadState(c) PROVE IInv'
<1>1. /\ pc[c] = "state" /\ pc' = [pc EXCEPT ![c] = "idle"] /\ state' = resolved[c]
      /\ served' = [served EXCEPT ![c] = resolved[c]]
      /\ resolved' = [resolved EXCEPT ![c] = None]
      /\ UNCHANGED <<chain, number, age, since, headRead, floor, faults>>
  BY DEF ReadState, Step
<1>2. TypeOK'
  BY <1>1 DEF IInv, TypeOK, chain, Latest, Blocks
<1>3. pc'[c] = "idle" /\ served'[c] = resolved[c] /\ resolved'[c] = None
  BY <1>1 DEF IInv, TypeOK
<1>4. \A d \in Clients \ {c} :
        pc'[d] = pc[d] /\ resolved'[d] = resolved[d] /\ served'[d] = served[d]
  BY <1>1 DEF IInv, TypeOK
<1>5. /\ floor[c] <= Latest
      /\ resolved[c] # None => Fresh(resolved[c], floor[c])
      /\ number # None /\ age < TTL => Fresh(number, window[age])
  BY DEF IInv, ReadIsFresh, WaitedIsFresh, NumberIsFresh
<1> QED
  BY <1>1, <1>2, <1>3, <1>4, <1>5, QuestionStep

LEMMA FailIInv == ASSUME IInv, NEW c \in Clients, Fail(c) PROVE IInv'
<1>1. /\ pc' = [pc EXCEPT ![c] = "idle"] /\ since' = [since EXCEPT ![c] = 0]
      /\ headRead' = [headRead EXCEPT ![c] = None]
      /\ resolved' = [resolved EXCEPT ![c] = None]
      /\ faults < MaxFaults /\ faults' = faults + 1
      /\ UNCHANGED <<chain, number, age, state, served, floor>>
  BY DEF Fail, Step, cache
<1>2. faults' \in 0..MaxFaults /\ 0 \in 0..TTL
  BY <1>1, BlockStateConstants DEF IInv, TypeOK
<1>3. TypeOK'
  BY <1>1, <1>2 DEF IInv, TypeOK, chain, Latest, Blocks
<1>4. pc'[c] = "idle" /\ resolved'[c] = None
  BY <1>1 DEF IInv, TypeOK
<1>5. \A d \in Clients \ {c} :
        /\ pc'[d] = pc[d] /\ resolved'[d] = resolved[d]
        /\ since'[d] = since[d] /\ headRead'[d] = headRead[d]
  BY <1>1 DEF IInv, TypeOK
<1>6. /\ floor[c] <= Latest
      /\ served[c] # None => Fresh(served[c], floor[c])
      /\ number # None /\ age < TTL => Fresh(number, window[age])
  BY DEF IInv, ReadIsFresh, AnsweredIsFresh, NumberIsFresh
<1> QED
  BY <1>1, <1>3, <1>4, <1>5, <1>6, QuestionStep

LEMMA StepIInv == IInv /\ [Next]_vars => IInv'
<1> SUFFICES ASSUME IInv, [Next]_vars PROVE IInv'
  OBVIOUS
<1>1. CASE UNCHANGED vars
  BY <1>1 DEF vars, chain, cache, IInv, TypeOK, WindowIsOrdered, ReadIsFresh, WaitedIsFresh,
     AnsweredIsFresh, NumberIsFresh, Fresh, Resolutions, Latest, Blocks
<1>2. ASSUME NEW c \in Clients, Question(c) \/ Fail(c) PROVE IInv'
  BY <1>2, AskIInv, ReadHeadIInv, ReadProcessingIInv, SlotIInv, ReadStateIInv, FailIInv
     DEF Question
<1> QED
  BY <1>1, <1>2, NewBlockIInv, TickIInv DEF Next

LEMMA Invariance == Spec => []IInv
  BY InitIInv, StepIInv, PTL DEF Spec

(***************************************************************************)
(* The theorems.                                                           *)
(***************************************************************************)
\* Caches and locals keep their types; a client waits for a state exactly when it
\* has resolved a number.
THEOREM TypeCorrect == Spec => []TypeOK
<1>1. IInv => TypeOK
  BY DEF IInv
<1> QED
  BY <1>1, Invariance, PTL

\* A resolution that ends late and overwrites a newer number brings its own, older
\* time with it (getOrFetchBlockNumber captures Date.now() before its first await).
THEOREM CacheKeepsItsPromise == Spec => []CachedIsAsFreshAsItsAge
<1>1. IInv => CachedIsAsFreshAsItsAge
  BY FreshIsProperty
<1> QED
  BY <1>1, Invariance, PTL

\* getBlockState never answers with a block that was outdated by BLOCK_NUMBER_TTL_MS
\* when the question came, for any number of overlapping questions.
THEOREM AnswersAreFresh == Spec => []ServedIsFresh
<1>1. IInv => ServedIsFresh
  BY FreshIsProperty
<1> QED
  BY <1>1, Invariance, PTL

(***************************************************************************)
(* BlockState implements FreshBlock: every step of the cache is a step of  *)
(* the service or changes nothing of it.                                   *)
(***************************************************************************)
Asking == [c \in Clients |-> pc[c] # "idle"]

LEMMA FreshIsService ==
  ASSUME IInv, NEW from \in Nat \ {0}, NEW b, Fresh(b, from)
  PROVE  b \in Service!FreshBlocks(from)
<1>1. PICK h \in from..Latest : b \in Resolutions(h)
  BY DEF Fresh
<1> QED
  BY <1>1 DEF Resolutions, Service!FreshBlocks, Latest, Submitted, Missed,
     Service!Submitted, Service!Missed

\* A step that moves one client between open stages is invisible.
LEMMA StageIsStutter ==
  ASSUME NEW c \in Clients, UNCHANGED <<chain, served, floor>>,
         pc \in [Clients -> {"idle", "number", "processing", "slot", "state"}],
         pc[c] # "idle",
         NEW to \in {"number", "processing", "slot", "state"}, Step(c, to)
  PROVE  UNCHANGED Service!vars
<1>1. Asking' = Asking
  BY DEF Step, Asking
<1> QED
  BY <1>1 DEF Service!vars, chain, Asking

\* A resolution ends the question or goes on to read the state of its block.
LEMMA UseImplements ==
  ASSUME IInv, NEW c \in Clients, pc[c] # "idle", UNCHANGED <<chain, floor>>,
         NEW n \in Blocks, Fresh(n, floor[c]), Use(c, n), served[c] = None
  PROVE  Service!Answer(c) \/ UNCHANGED Service!vars
<1>1. CASE state = n
  <2>1. Asking' = [Asking EXCEPT ![c] = FALSE] /\ Asking[c]
    BY <1>1 DEF Use, Step, Asking, IInv, TypeOK
  <2>2. n \in Service!FreshBlocks(floor[c])
    BY FreshIsService, Typed
  <2>3. served' = [served EXCEPT ![c] = n]
    BY <1>1 DEF Use
  <2> QED
    BY <2>1, <2>2, <2>3 DEF Service!Answer, chain, Asking
<1>2. CASE state # n
  <2>1. served' = served
    BY <1>2 DEF Use, IInv, TypeOK
  <2>2. Step(c, "state")
    BY <1>2 DEF Use
  <2> QED
    BY <2>1, <2>2, StageIsStutter DEF IInv, TypeOK
<1> QED
  BY <1>1, <1>2

\* While a question is open its client has no answer yet.
OpenIsUnserved == \A c \in Clients : pc[c] # "idle" => served[c] = None

LEMMA OpenIsUnservedStep ==
  ASSUME IInv, OpenIsUnserved, [Next]_vars PROVE OpenIsUnserved'
<1> USE DEF OpenIsUnserved
<1>1. CASE UNCHANGED vars
  BY <1>1 DEF vars
<1>2. CASE NewBlock \/ Tick
  BY <1>2 DEF NewBlock, Tick
<1>3. ASSUME NEW c \in Clients, Ask(c) PROVE OpenIsUnserved'
  BY <1>3 DEF Ask, Use, Step, IInv, TypeOK
<1>4. ASSUME NEW c \in Clients, ReadHead(c) \/ ReadState(c) \/ Fail(c)
      PROVE  OpenIsUnserved'
  BY <1>4 DEF ReadHead, ReadState, Fail, Step, IInv, TypeOK
<1>5. ASSUME NEW c \in Clients, ReadProcessing(c) \/ ReadSlot(c) \/ FallBack(c)
      PROVE  OpenIsUnserved'
  BY <1>5 DEF ReadProcessing, ReadSlot, FallBack, Resolve, Use, Step, IInv, TypeOK
<1> QED
  BY <1>1, <1>2, <1>3, <1>4, <1>5 DEF Next, Question

LEMMA InitImplements == Init => OpenIsUnserved /\ Service!Init
BY DEF Init, OpenIsUnserved, Service!Init, Submitted, Missed, None,
   Service!Submitted, Service!Missed, Service!None

LEMMA ResolveImplements ==
  ASSUME IInv, OpenIsUnserved, NEW c \in Clients,
         ReadProcessing(c) \/ ReadSlot(c) \/ FallBack(c)
  PROVE  Service!Answer(c) \/ UNCHANGED Service!vars
<1>1. pc[c] \in {"processing", "slot"} /\ UNCHANGED <<chain, floor>> /\ served[c] = None
  BY DEF ReadProcessing, ReadSlot, FallBack, OpenIsUnserved
<1>2. /\ headRead[c] \in 1..Latest /\ floor[c] \in 1..headRead[c]
      /\ pc[c] = "slot" => ref[headRead[c]] # Submitted
  BY <1>1, Typed DEF IInv, TypeOK, ReadIsFresh, None
<1>3. \A n \in Resolutions(headRead[c]) : n \in Blocks /\ Fresh(n, floor[c])
  <2>1. headRead[c] \in Blocks /\ headRead[c] \in floor[c]..Latest
    <3>1. headRead[c] \in {None} \cup Blocks /\ headRead[c] # None
      BY <1>2, Typed DEF IInv, TypeOK, None
    <3> QED
      BY <1>2, <3>1, Typed
  <2>2. ref[headRead[c]] \in {Submitted, Missed} \cup Blocks
    BY <1>2, Typed DEF Latest
  <2> QED
    BY <2>1, <2>2 DEF Resolutions, Fresh
<1>4. ASSUME NEW n \in Resolutions(headRead[c]), Resolve(c, n)
      PROVE  Service!Answer(c) \/ UNCHANGED Service!vars
  BY <1>1, <1>3, <1>4, UseImplements DEF Resolve
<1>5. CASE ReadProcessing(c) /\ ref[headRead[c]] # Submitted
  <2>1. Step(c, "slot") /\ served' = served
    BY <1>5 DEF ReadProcessing
  <2> QED
    BY <1>1, <2>1, StageIsStutter DEF IInv, TypeOK
<1>6. CASE ~(ReadProcessing(c) /\ ref[headRead[c]] # Submitted)
  <2>1. PICK n \in Resolutions(headRead[c]) : Resolve(c, n)
    BY <1>2, <1>6 DEF ReadProcessing, ReadSlot, FallBack, Resolutions
  <2> QED
    BY <1>4, <2>1
<1> QED
  BY <1>5, <1>6

LEMMA AskImplements ==
  ASSUME IInv, NEW c \in Clients, Ask(c) PROVE Service!Ask(c)
<1>1. /\ pc[c] = "idle" /\ floor' = [floor EXCEPT ![c] = window[TTL - 1]]
      /\ UNCHANGED <<ref, window>> /\ ~Asking[c]
  BY DEF Ask, chain, Asking
<1>2. window[TTL - 1] \in Nat \ {0} /\ TTL - 1 \in 0..TTL - 1
  BY Typed
<1>3. CASE number # None /\ age < TTL
  <2>1. Use(c, number)
    BY <1>3 DEF Ask
  <2>2. PICK h \in window[age]..Latest : number \in Resolutions(h)
    BY <1>3 DEF IInv, NumberIsFresh, Fresh
  <2>3. age \in 0..TTL - 1 /\ window[TTL - 1] <= window[age]
    BY <1>3, <1>2, Typed DEF IInv, WindowIsOrdered
  <2>4. h \in window[TTL - 1]..Latest
    BY <2>2, <2>3, <1>2, Typed
  <2>5. number \in Service!FreshBlocks(window[TTL - 1])
    BY <1>2, <2>2, <2>4, FreshIsService DEF Fresh
  <2>6. CASE state = number
    <3>1. Asking' = Asking /\ served' = [served EXCEPT ![c] = number]
      BY <1>1, <2>1, <2>6 DEF Use, Step, Asking, IInv, TypeOK
    <3> QED
      BY <1>1, <2>5, <3>1 DEF Service!Ask, Asking
  <2>7. CASE state # number
    <3>1. /\ Asking' = [Asking EXCEPT ![c] = TRUE]
          /\ served' = [served EXCEPT ![c] = None]
      BY <1>1, <2>1, <2>7 DEF Use, Step, Asking, IInv, TypeOK
    <3> QED
      BY <1>1, <3>1 DEF Service!Ask, Service!None, None, Asking
  <2> QED
    BY <2>6, <2>7
<1>4. CASE ~(number # None /\ age < TTL)
  <2>1. /\ Asking' = [Asking EXCEPT ![c] = TRUE]
        /\ served' = [served EXCEPT ![c] = None]
    BY <1>1, <1>4 DEF Ask, Step, Asking, IInv, TypeOK
  <2> QED
    BY <1>1, <2>1 DEF Service!Ask, Service!None, None, Asking
<1> QED
  BY <1>3, <1>4

LEMMA ReadStateImplements ==
  ASSUME IInv, NEW c \in Clients, ReadState(c) PROVE Service!Answer(c)
<1>1. /\ pc[c] = "state" /\ served' = [served EXCEPT ![c] = resolved[c]]
      /\ UNCHANGED <<ref, window, floor>> /\ Step(c, "idle")
  BY DEF ReadState, chain
<1>2. resolved[c] \in Service!FreshBlocks(floor[c])
  BY <1>1, FreshIsService, Typed DEF IInv, TypeOK, WaitedIsFresh
<1>3. Asking[c] /\ Asking' = [Asking EXCEPT ![c] = FALSE]
  BY <1>1 DEF Step, Asking, IInv, TypeOK
<1> QED
  BY <1>1, <1>2, <1>3 DEF Service!Answer, Asking

LEMMA StepImplements ==
  ASSUME IInv, OpenIsUnserved, [Next]_vars PROVE [Service!Next]_(Service!vars)
<1>1. CASE UNCHANGED vars
  BY <1>1 DEF vars, chain, Service!vars
<1>2. CASE NewBlock
  <2>1. UNCHANGED <<window, pc, served, floor>>
    BY <1>2 DEF NewBlock
  <2> QED
    BY <1>2, <2>1 DEF NewBlock, Latest, Service!Next, Service!NewBlock, Submitted, Missed,
       Service!Submitted, Service!Missed
<1>3. CASE Tick
  BY <1>3 DEF Tick, Latest, Service!Next, Service!Tick
<1>4. ASSUME NEW c \in Clients, Ask(c) PROVE Service!Next
  BY <1>4, AskImplements DEF Service!Next
<1>5. ASSUME NEW c \in Clients, ReadHead(c) PROVE UNCHANGED Service!vars
  <2>1. pc[c] = "number" /\ Step(c, "processing") /\ UNCHANGED <<chain, served, floor>>
    BY <1>5 DEF ReadHead
  <2> QED
    BY <2>1, StageIsStutter DEF IInv, TypeOK
<1>6. ASSUME NEW c \in Clients, ReadProcessing(c) \/ ReadSlot(c) \/ FallBack(c)
      PROVE  [Service!Next]_(Service!vars)
  BY <1>6, ResolveImplements DEF Service!Next
<1>7. ASSUME NEW c \in Clients, ReadState(c) PROVE Service!Next
  BY <1>7, ReadStateImplements DEF Service!Next
<1>8. ASSUME NEW c \in Clients, Fail(c) PROVE Service!Next
  <2>1. /\ pc[c] # "idle" /\ Step(c, "idle") /\ UNCHANGED <<ref, window, served, floor>>
    BY <1>8 DEF Fail, chain
  <2>2. Asking[c] /\ Asking' = [Asking EXCEPT ![c] = FALSE]
    BY <2>1 DEF Step, Asking, IInv, TypeOK
  <2> QED
    BY <2>1, <2>2 DEF Service!Next, Service!Reject, Asking
<1> QED
  BY <1>1, <1>2, <1>3, <1>4, <1>5, <1>6, <1>7, <1>8 DEF Next, Question

\* The two caches, their overlapping writers and the fallbacks are one service that
\* answers a question at most once and with a fresh block (getBlockState).
THEOREM Refinement == Spec => ImplementsFreshBlock
<1>1. Init => IInv /\ OpenIsUnserved /\ Service!Init
  BY InitIInv, InitImplements
<1>2. IInv /\ OpenIsUnserved /\ [Next]_vars =>
        IInv' /\ OpenIsUnserved' /\ [Service!Next]_(Service!vars)
  BY StepIInv, OpenIsUnservedStep, StepImplements
<1> QED
  BY <1>1, <1>2, PTL DEF Spec, ImplementsFreshBlock, Service!Spec
=============================================================================
