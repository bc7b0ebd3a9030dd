--------------------------- MODULE QueueInfo_proofs ---------------------------
(***************************************************************************)
(* Proofs, for every queue length, page size and number of faults, of the  *)
(* safety properties of module QueueInfo, of its refinement, and, for any  *)
(* lists of ids asked about, of RequestTime, which composes it with the    *)
(* responses.                                                              *)
(***************************************************************************)
EXTENDS RequestTime, FiniteSetTheorems, SequenceTheorems, TLAPS

\* What the counters held by a running tick, and by the storage, say of the chain.
ReadsBounded ==
  /\ lastRead # Unread => lastRead <= chainLast /\ lastRequestId <= lastRead
  /\ lastRequestId <= chainLast
  /\ unfinalizedRead # Unread /\ lastRead = Unread /\ ~placedBetween =>
       chainLast - unfinalizedRead <= chainFinalized
  /\ unfinalizedRead # Unread /\ lastRead # Unread /\ ~placedBetween =>
       lastRead - unfinalizedRead <= chainFinalized
  /\ ~torn => lastRequestId - requestsCount <= chainFinalized

\* While pages are fetched, the reused and the missing ids make up the window.
FetchCompletesWindow ==
  pc = "fetching" =>
    /\ unfinalizedRead # Unread /\ lastRead # Unread
    /\ kept \o todo = RequestIds(lastRead, unfinalizedRead)

\* Also before the first tick: the window of two zero counters is empty.
StoredWindow == requests = RequestIds(lastRequestId, requestsCount)

IInv == TypeOK /\ StoredWindow /\ FetchCompletesWindow /\ ReadsBounded

-----------------------------------------------------------------------------
(* What the operators of the update return.                                *)

\* A window is a sequence of ids, one per unfinalized request.
LEMMA WindowIsSeq ==
  ASSUME NEW last \in Int, NEW unfinalized \in Nat
  PROVE  /\ RequestIds(last, unfinalized) \in Seq(Int)
         /\ Len(RequestIds(last, unfinalized)) = unfinalized
         /\ \A i \in 1..unfinalized :
              RequestIds(last, unfinalized)[i] = last - unfinalized + i
<1>1. RequestIds(last, unfinalized) \in [1..unfinalized -> Int]
  BY DEF RequestIds
<1>2. QED
  BY <1>1, IsASeq DEF RequestIds

\* The cached requests selected from a stored window lie in the new window.
LEMMA ActiveInWindow ==
  ASSUME NEW l \in Nat, NEW c \in Nat, NEW first \in Int, NEW last \in Int
  PROVE  /\ Active(RequestIds(l, c), first, last) \in Seq(Int)
         /\ \A i \in DOMAIN Active(RequestIds(l, c), first, last) :
              /\ Active(RequestIds(l, c), first, last)[i] <= last
              /\ Active(RequestIds(l, c), first, last)[i] > l - c
<1> DEFINE cached == RequestIds(l, c)
           W == {i \in DOMAIN cached : first <= cached[i] /\ cached[i] <= last}
           upTo(i) == {k \in W : k <= i}
           lo == IF first - (l - c) > 1 THEN first - (l - c) ELSE 1
           hi == IF last - (l - c) < c THEN last - (l - c) ELSE c
           pick(j) == CHOOSE i \in W : Cardinality(upTo(i)) = j
           A == [j \in 1..Cardinality(W) |-> cached[pick(j)]]
<1>1. cached = [i \in 1..c |-> l - c + i] /\ DOMAIN cached = 1..c
  BY DEF RequestIds
<1>2. lo \in Int /\ hi \in Int /\ W = lo..hi
  BY <1>1
<1>3. Cardinality(W) \in Nat /\ Cardinality(W) = (IF lo > hi THEN 0 ELSE hi - lo + 1)
  <2> HIDE DEF lo, hi, W
  <2> QED
    BY <1>2, FS_Interval
<1>4. ASSUME NEW j \in 1..Cardinality(W)
      PROVE  pick(j) \in W
  <2> DEFINE i == lo + j - 1
  <2> HIDE DEF lo, hi, W
  <2>1. i \in W /\ i \in Int
    BY <1>2, <1>3
  <2>2. upTo(i) = lo..i
    BY <1>2, <2>1
  <2>3. Cardinality(upTo(i)) = j
    <3>1. Cardinality(lo..i) = IF lo > i THEN 0 ELSE i - lo + 1
      BY <1>2, <2>1, FS_Interval
    <3>2. i \in Int /\ lo <= i /\ i - lo + 1 = j
      BY <1>2, <1>3
    <3> HIDE DEF upTo, i
    <3> QED
      BY <3>1, <3>2, <2>2, <1>2
  <2> QED
    BY <2>1, <2>3
<1>5. ASSUME NEW j \in 1..Cardinality(W)
      PROVE  A[j] \in Int /\ A[j] <= last /\ A[j] > l - c
  <2>1. /\ pick(j) \in 1..c /\ cached[pick(j)] \in Int
        /\ cached[pick(j)] <= last /\ cached[pick(j)] > l - c
    <3>1. pick(j) \in W
      BY <1>4
    <3> HIDE DEF pick
    <3>2. \A i \in W : /\ i \in 1..c /\ cached[i] \in Int
                       /\ cached[i] <= last /\ cached[i] > l - c
      BY <1>1
    <3> HIDE DEF W
    <3> QED
      BY <3>1, <3>2
  <2> QED
    BY <2>1
<1>6. A \in Seq(Int) /\ DOMAIN A = 1..Cardinality(W)
  <2>1. \A j \in 1..Cardinality(W) : cached[pick(j)] \in Int
    BY <1>5
  <2> HIDE DEF pick, W
  <2> QED
    BY <1>3, <2>1, IsASeq
<1>7. A = Active(cached, first, last)
  BY DEF Active
<1>8. QED
  BY <1>5, <1>6, <1>7

\* Contiguous reused requests and the ids after them make up the window.
LEMMA ReuseCompletesWindow ==
  ASSUME NEW last \in Nat, NEW unfinalized \in Nat \ {0},
         NEW reuse \in Seq(Int),
         \A i \in DOMAIN reuse : reuse[i] <= last,
         HasContiguousIds(reuse, RequestIds(last, unfinalized)[1])
  PROVE  LET ids  == RequestIds(last, unfinalized)
             next == IF reuse = <<>> THEN 0 ELSE reuse[Len(reuse)] + 1 - ids[1]
             new  == SubSeq(ids, next + 1, Len(ids))
         IN  new \in Seq(Int) /\ reuse \o new = ids
<1> DEFINE ids  == RequestIds(last, unfinalized)
           first == last - unfinalized + 1
           next == IF reuse = <<>> THEN 0 ELSE reuse[Len(reuse)] + 1 - ids[1]
           new  == SubSeq(ids, next + 1, Len(ids))
<1>1. /\ ids \in Seq(Int) /\ Len(ids) = unfinalized /\ ids[1] = first
      /\ \A i \in 1..unfinalized : ids[i] = last - unfinalized + i
  BY WindowIsSeq
<1>2. DOMAIN reuse = 1..Len(reuse) /\ Len(reuse) \in Nat
  BY LenProperties
<1>3. \A i \in 1..Len(reuse) : reuse[i] = first + i - 1
  BY <1>1, <1>2 DEF HasContiguousIds
<1>4. next = Len(reuse) /\ next \in 0..unfinalized
  <2>1. CASE reuse = <<>>
    BY <2>1
  <2>2. CASE reuse # <<>>
    <3>1. Len(reuse) \in 1..Len(reuse)
      BY <2>2, <1>2, EmptySeq
    <3>2. reuse[Len(reuse)] = first + Len(reuse) - 1 /\ reuse[Len(reuse)] <= last
      BY <3>1, <1>2, <1>3
    <3> QED
      BY <2>2, <3>1, <3>2, <1>1, <1>2
  <2> QED
    BY <2>1, <2>2
<1>5. /\ new \in Seq(Int) /\ Len(new) = unfinalized - next
      /\ \A i \in 1..unfinalized - next : new[i] = ids[next + i]
  <2> HIDE DEF next
  <2>1. next + 1 \in Int /\ Len(ids) \in Int /\ \A i \in next + 1 .. Len(ids) : ids[i] \in Int
    BY <1>1, <1>4
  <2>2. /\ new \in Seq(Int)
        /\ Len(new) = IF next + 1 <= Len(ids) THEN Len(ids) - (next + 1) + 1 ELSE 0
        /\ \A i \in 1 .. Len(ids) - (next + 1) + 1 : new[i] = ids[(next + 1) + i - 1]
    BY <2>1, SubSeqProperties
  <2> QED
    BY <2>2, <1>1, <1>4
<1>6. reuse \o new = ids
  <2> HIDE DEF next, new
  <2>1. /\ reuse \o new \in Seq(Int)
        /\ Len(reuse \o new) = Len(reuse) + Len(new)
        /\ \A i \in 1 .. Len(reuse) + Len(new) : (reuse \o new)[i] =
              IF i <= Len(reuse) THEN reuse[i] ELSE new[i - Len(reuse)]
    BY <1>5, ConcatProperties
  <2>2. Len(reuse \o new) = Len(ids)
    BY <2>1, <1>1, <1>2, <1>4, <1>5
  <2>3. ASSUME NEW i \in 1..Len(ids) PROVE (reuse \o new)[i] = ids[i]
    <3>1. CASE i <= Len(reuse)
      BY <3>1, <2>1, <2>2, <1>1, <1>2, <1>3
    <3>2. CASE i > Len(reuse)
      <4>1. i - Len(reuse) \in 1..unfinalized - next /\ next + (i - Len(reuse)) = i
        BY <3>2, <1>1, <1>2, <1>4
      <4> QED
        BY <4>1, <3>2, <2>1, <2>2, <1>2, <1>5
    <3> QED
      <4>1. i \in Int /\ Len(reuse) \in Int
        BY <1>1, <1>2
      <4>2. i <= Len(reuse) \/ i > Len(reuse)
        BY <4>1
      <4> QED
        BY <3>1, <3>2, <4>2
  <2> QED
    BY <2>1, <2>2, <2>3, <1>1, SeqEqual
<1> QED
  BY <1>5, <1>6

-----------------------------------------------------------------------------
(* The invariant.                                                          *)

\* The reused part of the storage and the ids to fetch make up the tick's window.
LEMMA PlanFetchSplitsWindow ==
  ASSUME IInv, PlanFetch
  PROVE  \E reuse, new \in Seq(Int) :
           /\ reuse \o new = RequestIds(lastRead, unfinalizedRead)
           /\ reuse # <<>> => lastRequestId - requestsCount <= lastRead - unfinalizedRead
           /\ \/ new = <<>> /\ Publish(reuse) /\ EndUpdate
              \/ /\ new # <<>> /\ pc' = "fetching" /\ kept' = reuse /\ todo' = new
                 /\ UNCHANGED <<storage, unfinalizedRead, lastRead, placedBetween>>
<1> DEFINE ids   == RequestIds(lastRead, unfinalizedRead)
           reuse == IF ids = <<>> THEN <<>> ELSE Reusable(requests, ids[1], lastRead)
           next  == IF reuse = <<>> THEN 0 ELSE reuse[Len(reuse)] + 1 - ids[1]
           new   == SubSeq(ids, next + 1, Len(ids))
<1>1. lastRead \in Nat /\ unfinalizedRead \in Nat /\ lastRequestId \in Nat /\ requestsCount \in Nat
  BY DEF IInv, TypeOK, PlanFetch
<1>2. /\ ids \in Seq(Int) /\ Len(ids) = unfinalizedRead
      /\ unfinalizedRead # 0 => ids[1] = lastRead - unfinalizedRead + 1 /\ ids # <<>>
      /\ unfinalizedRead = 0 => ids = <<>>
  <2>1. /\ ids \in Seq(Int) /\ Len(ids) = unfinalizedRead
        /\ \A i \in 1..unfinalizedRead : ids[i] = lastRead - unfinalizedRead + i
    BY <1>1, WindowIsSeq
  <2> HIDE DEF ids
  <2> QED
    BY <1>1, <2>1, EmptySeq
<1>3. /\ reuse \in Seq(Int) /\ new \in Seq(Int) /\ reuse \o new = ids
      /\ reuse # <<>> => lastRequestId - requestsCount <= lastRead - unfinalizedRead
  <2>1. CASE unfinalizedRead = 0
    <3>1. ids = <<>> /\ reuse = <<>> /\ next = 0
      BY <1>2, <2>1
    <3>2. new = <<>>
      BY <3>1, <1>2, <2>1, SubSeqEmpty
    <3> QED
      BY <3>1, <3>2, EmptySeq, ConcatEmptySeq
  <2>2. CASE unfinalizedRead # 0
    <3> DEFINE active == Active(requests, ids[1], lastRead)
    <3>1. requests = RequestIds(lastRequestId, requestsCount)
      BY DEF IInv, StoredWindow
    <3>2. ids[1] \in Int /\ lastRead \in Int
      BY <1>1, <1>2, <2>2
    <3>3. /\ active \in Seq(Int)
          /\ \A i \in DOMAIN active :
               active[i] <= lastRead /\ active[i] > lastRequestId - requestsCount
      <4> HIDE DEF ids
      <4> QED
        BY <1>1, <3>1, <3>2, ActiveInWindow
    <3>4. reuse = IF HasContiguousIds(active, ids[1]) THEN active ELSE <<>>
      BY <1>2, <2>2 DEF Reusable
    <3>5. /\ reuse \in Seq(Int) /\ HasContiguousIds(reuse, ids[1])
          /\ \A i \in DOMAIN reuse :
               reuse[i] <= lastRead /\ reuse[i] > lastRequestId - requestsCount
      <4>1. CASE HasContiguousIds(active, ids[1])
        <5>1. reuse = active
          BY <3>4, <4>1
        <5> HIDE DEF reuse, active, ids
        <5> QED
          BY <5>1, <3>3, <4>1
      <4>2. CASE ~HasContiguousIds(active, ids[1])
        <5>1. reuse = <<>>
          BY <3>4, <4>2
        <5> HIDE DEF reuse, active, ids
        <5> QED
          BY <5>1, EmptySeq DEF HasContiguousIds
      <4> QED
        BY <4>1, <4>2
    <3>6. unfinalizedRead \in Nat \ {0}
      BY <1>1, <2>2
    <3>7. \A r \in Seq(Int) :
            (\A i \in DOMAIN r : r[i] <= lastRead) /\ HasContiguousIds(r, ids[1]) =>
              LET n == IF r = <<>> THEN 0 ELSE r[Len(r)] + 1 - ids[1]
                  w == SubSeq(ids, n + 1, Len(ids))
              IN  w \in Seq(Int) /\ r \o w = ids
      BY <1>1, <3>6, ReuseCompletesWindow
    <3>8. reuse # <<>> => lastRequestId - requestsCount <= lastRead - unfinalizedRead
      <4> SUFFICES ASSUME reuse # <<>>
                   PROVE  lastRequestId - requestsCount <= lastRead - unfinalizedRead
        OBVIOUS
      <4> HIDE DEF ids, reuse
      <4>1. 1 \in DOMAIN reuse
        BY <3>5, EmptySeq, LenProperties
      <4>2. reuse[1] = ids[1]
        BY <3>2, <3>5, <4>1 DEF HasContiguousIds
      <4> QED
        BY <1>1, <1>2, <2>2, <3>5, <4>1, <4>2
    <3> HIDE DEF ids, reuse
    <3> QED
      BY <3>5, <3>7, <3>8
  <2> QED
    BY <2>1, <2>2
<1>4. \/ new = <<>> /\ Publish(reuse) /\ EndUpdate
      \/ /\ new # <<>> /\ pc' = "fetching" /\ kept' = reuse /\ todo' = new
         /\ UNCHANGED <<storage, unfinalizedRead, lastRead, placedBetween>>
  BY DEF PlanFetch
<1> HIDE DEF reuse, new, ids
<1> QED
  BY <1>3, <1>4 DEF ids

\* The fetched page and the rest are what was to be fetched.
LEMMA FetchPageSplitsTodo ==
  ASSUME IInv, FetchPage
  PROVE  \E rest \in Seq(Int) :
           /\ Page \in Seq(Int) /\ kept \o Page \in Seq(Int)
           /\ (kept \o Page) \o rest = RequestIds(lastRead, unfinalizedRead)
           /\ kept = <<>> => unfinalizedRead <= lastRead
           /\ \/ rest = <<>> /\ Publish(kept \o Page) /\ EndUpdate
              \/ /\ rest # <<>> /\ kept' = kept \o Page /\ todo' = rest
                 /\ UNCHANGED <<storage, pc, unfinalizedRead, lastRead, placedBetween>>
<1> DEFINE n == IF Len(todo) < PageSize THEN Len(todo) ELSE PageSize
           rest == SubSeq(todo, Len(Page) + 1, Len(todo))
<1>1. /\ kept \in Seq(Int) /\ todo \in Seq(Int) /\ Len(todo) \in Nat
      /\ kept \o todo = RequestIds(lastRead, unfinalizedRead)
  BY LenProperties DEF IInv, TypeOK, FetchCompletesWindow, FetchPage
<1>2. n \in 0..Len(todo)
  BY <1>1, QueueConstants
<1>3. /\ Page = SubSeq(todo, 1, n) /\ Page \in Seq(Int) /\ Len(Page) = n
  <2>1. Page = SubSeq(todo, 1, n)
    BY DEF Page
  <2>2. \A i \in 1..n : todo[i] \in Int
    BY <1>1, <1>2, ElementOfSeq
  <2> HIDE DEF n
  <2>3. SubSeq(todo, 1, n) \in Seq(Int) /\ Len(SubSeq(todo, 1, n)) = IF 1 <= n THEN n - 1 + 1 ELSE 0
    BY <1>2, <2>2, SubSeqProperties
  <2> QED
    BY <1>2, <2>1, <2>3
<1>4. rest \in Seq(Int)
  <2> HIDE DEF n
  <2>1. \A i \in n + 1 .. Len(todo) : todo[i] \in Int
    BY <1>1, <1>2, ElementOfSeq
  <2> QED
    BY <1>1, <1>2, <1>3, <2>1, SubSeqProperties
<1>5. Page \o rest = todo
  <2> HIDE DEF n
  <2>1. SubSeq(todo, 1, n) \o SubSeq(todo, n + 1, Len(todo)) = SubSeq(todo, 1, Len(todo))
    <3>1. 1 \in 1..Len(todo) + 1 /\ n \in 1 - 1 .. Len(todo) /\ Len(todo) \in n..Len(todo)
      BY <1>1, <1>2
    <3> QED
      BY <1>1, <3>1, ConcatAdjacentSubSeq
  <2> QED
    BY <2>1, <1>1, <1>3, SubSeqFull
<1>6. kept \o Page \in Seq(Int) /\ (kept \o Page) \o rest = RequestIds(lastRead, unfinalizedRead)
  <2> HIDE DEF rest
  <2>1. kept \o Page \in Seq(Int)
    BY <1>1, <1>3, ConcatProperties
  <2>2. (kept \o Page) \o rest = kept \o (Page \o rest)
    <3>1. \A s, t, u \in Seq(Int) : (s \o t) \o u = s \o (t \o u)
      BY ConcatAssociative
    <3> QED
      BY <1>1, <1>3, <1>4, <3>1
  <2> QED
    BY <2>1, <2>2, <1>1, <1>5
<1>7. \/ rest = <<>> /\ Publish(kept \o Page) /\ EndUpdate
      \/ /\ rest # <<>> /\ kept' = kept \o Page /\ todo' = rest
         /\ UNCHANGED <<storage, pc, unfinalizedRead, lastRead, placedBetween>>
  BY DEF FetchPage
<1>8. kept = <<>> => unfinalizedRead <= lastRead
  <2> SUFFICES ASSUME kept = <<>> PROVE unfinalizedRead <= lastRead
    OBVIOUS
  <2>1. /\ todo = RequestIds(lastRead, unfinalizedRead)
        /\ lastRead \in Nat /\ unfinalizedRead \in Nat
    BY <1>1, ConcatEmptySeq DEF IInv, TypeOK, FetchCompletesWindow, FetchPage
  <2>2. CASE unfinalizedRead = 0
    BY <2>1, <2>2
  <2>3. CASE unfinalizedRead # 0
    <3>1. Len(todo) = unfinalizedRead /\ todo[1] = lastRead - unfinalizedRead + 1
      <4>1. /\ RequestIds(lastRead, unfinalizedRead) \in Seq(Int)
            /\ Len(RequestIds(lastRead, unfinalizedRead)) = unfinalizedRead
            /\ \A i \in 1..unfinalizedRead :
                 RequestIds(lastRead, unfinalizedRead)[i] = lastRead - unfinalizedRead + i
        <5>1. lastRead \in Int /\ unfinalizedRead \in Nat
          BY <2>1
        <5> HIDE DEF rest, n
        <5> QED
          BY ONLY <5>1, WindowIsSeq
      <4>2. 1 \in 1..unfinalizedRead
        BY <2>1, <2>3
      <4> QED
        BY <2>1, <4>1, <4>2
    <3>2. 1 \in 1..n
      BY <1>2, <2>1, <2>3, <3>1, QueueConstants
    <3>3. 1 \in DOMAIN Page /\ Page[1] = todo[1]
      <4> HIDE DEF n
      <4> QED
        BY <1>1, <1>2, <1>3, <3>2, LenProperties, SubSeqProperties
    <3>4. Page[1] \in 1..chainLast
      BY <3>3 DEF FetchPage, PageServed
    <3> QED
      BY <2>1, <3>1, <3>3, <3>4 DEF IInv, TypeOK
  <2> QED
    BY <2>2, <2>3
<1> HIDE DEF rest
<1> QED
  BY <1>3, <1>4, <1>6, <1>7, <1>8

\* Both ways to publish store the tick's window and end the execution.
LEMMA PublishPreserves ==
  ASSUME IInv, NEW window \in Seq(Int),
         window = RequestIds(lastRead, unfinalizedRead),
         pc # "idle", unfinalizedRead # Unread, lastRead # Unread,
         Publish(window), EndUpdate, UNCHANGED <<chain, faults>>
  PROVE  IInv'
<1> USE DEF Unread
<1>1. TypeOK'
  BY EmptySeq DEF IInv, TypeOK, Publish, EndUpdate, chain
<1>2. StoredWindow'
  BY DEF StoredWindow, Publish
<1>3. FetchCompletesWindow'
  BY DEF FetchCompletesWindow, EndUpdate
<1>4. ReadsBounded'
  BY DEF IInv, TypeOK, ReadsBounded, Publish, EndUpdate, chain
<1> QED
  BY <1>1, <1>2, <1>3, <1>4 DEF IInv

LEMMA InitIInv == Init => IInv
<1> SUFFICES ASSUME Init PROVE IInv
  OBVIOUS
<1>1. TypeOK
  <2>1. <<>> \in Seq(Int)
    BY EmptySeq
  <2>2. chainLast \in 0..MaxRequest /\ chainFinalized \in 0..chainLast /\ faults \in 0..MaxFaults
    BY QueueConstants DEF Init
  <2> QED
    BY <2>1, <2>2 DEF Init, TypeOK, Unread
<1>2. StoredWindow
  <2>1. RequestIds(0, 0) = <<>>
    BY WindowIsSeq, EmptySeq
  <2> QED
    BY <2>1 DEF Init, StoredWindow
<1>3. FetchCompletesWindow /\ ReadsBounded
  BY DEF Init, FetchCompletesWindow, ReadsBounded, Unread
<1> QED
  BY <1>1, <1>2, <1>3 DEF IInv

LEMMA StepIInv == IInv /\ [Next]_vars => IInv'
<1> SUFFICES ASSUME IInv, [Next]_vars PROVE IInv'
  OBVIOUS
<1> USE DEF Unread
<1>1. CASE Place
  <2>1. TypeOK'
    BY <1>1, QueueConstants DEF IInv, TypeOK, Place, storage
  <2>2. StoredWindow' /\ FetchCompletesWindow'
    BY <1>1 DEF IInv, StoredWindow, FetchCompletesWindow, Place, storage
  <2>3. ReadsBounded'
    <3>1. /\ chainLast' = chainLast + 1 /\ chainLast \in Int
          /\ UNCHANGED <<chainFinalized, lastRequestId, requestsCount, torn>>
          /\ UNCHANGED <<unfinalizedRead, lastRead>>
      BY <1>1 DEF IInv, TypeOK, Place, storage
    <3>2. ~placedBetween' => ~placedBetween /\ ~(unfinalizedRead # Unread /\ lastRead = Unread)
      BY <1>1 DEF Place
    <3> QED
      BY <3>1, <3>2 DEF IInv, TypeOK, ReadsBounded
  <2> QED
    BY <2>1, <2>2, <2>3 DEF IInv
<1>2. CASE Finalize
  <2>1. TypeOK'
    BY <1>2 DEF IInv, TypeOK, Finalize, storage, locals
  <2>2. StoredWindow' /\ FetchCompletesWindow'
    BY <1>2 DEF IInv, StoredWindow, FetchCompletesWindow, Finalize, storage, locals
  <2>3. ReadsBounded'
    BY <1>2 DEF IInv, TypeOK, ReadsBounded, Finalize, storage, locals
  <2> QED
    BY <2>1, <2>2, <2>3 DEF IInv
<1>3. CASE StartUpdate
  BY <1>3 DEF IInv, TypeOK, StoredWindow, FetchCompletesWindow, ReadsBounded,
              StartUpdate, chain, storage, locals
<1>4. CASE ReadUnfinalized
  <2>1. TypeOK'
    BY <1>4 DEF IInv, TypeOK, ReadUnfinalized, chain, storage
  <2>2. StoredWindow' /\ FetchCompletesWindow'
    BY <1>4 DEF IInv, StoredWindow, FetchCompletesWindow, ReadUnfinalized, storage
  <2>3. ReadsBounded'
    BY <1>4 DEF IInv, TypeOK, ReadsBounded, ReadUnfinalized, chain, storage
  <2> QED
    BY <2>1, <2>2, <2>3 DEF IInv
<1>5. CASE ReadLast
  <2>1. TypeOK'
    BY <1>5 DEF IInv, TypeOK, ReadLast, chain, storage
  <2>2. StoredWindow' /\ FetchCompletesWindow'
    BY <1>5 DEF IInv, StoredWindow, FetchCompletesWindow, ReadLast, storage
  <2>3. ReadsBounded'
    BY <1>5 DEF IInv, TypeOK, ReadsBounded, ReadLast, chain, storage
  <2> QED
    BY <2>1, <2>2, <2>3 DEF IInv
<1>6. CASE PlanFetch
  <2>1. PICK reuse, new \in Seq(Int) :
           /\ reuse \o new = RequestIds(lastRead, unfinalizedRead)
           /\ \/ new = <<>> /\ Publish(reuse) /\ EndUpdate
              \/ /\ new # <<>> /\ pc' = "fetching" /\ kept' = reuse /\ todo' = new
                 /\ UNCHANGED <<storage, unfinalizedRead, lastRead, placedBetween>>
    BY <1>6, PlanFetchSplitsWindow
  <2>2. /\ pc = "reading" /\ unfinalizedRead # Unread /\ lastRead # Unread
        /\ UNCHANGED <<chain, faults>>
    BY <1>6 DEF PlanFetch
  <2>3. CASE new = <<>> /\ Publish(reuse) /\ EndUpdate
    <3>1. reuse = RequestIds(lastRead, unfinalizedRead)
      BY <2>1, <2>3, ConcatEmptySeq
    <3> QED
      BY <3>1, <2>2, <2>3, PublishPreserves
  <2>4. CASE /\ new # <<>> /\ pc' = "fetching" /\ kept' = reuse /\ todo' = new
             /\ UNCHANGED <<storage, unfinalizedRead, lastRead, placedBetween>>
    <3>1. TypeOK'
      BY <2>2, <2>4 DEF IInv, TypeOK, chain, storage
    <3>2. StoredWindow' /\ ReadsBounded'
      BY <2>2, <2>4 DEF IInv, StoredWindow, ReadsBounded, chain, storage
    <3>3. FetchCompletesWindow'
      BY <2>1, <2>2, <2>4 DEF FetchCompletesWindow
    <3> QED
      BY <3>1, <3>2, <3>3 DEF IInv
  <2> QED
    BY <2>1, <2>3, <2>4
<1>7. CASE FetchPage
  <2>1. PICK rest \in Seq(Int) :
           /\ Page \in Seq(Int) /\ kept \o Page \in Seq(Int)
           /\ (kept \o Page) \o rest = RequestIds(lastRead, unfinalizedRead)
           /\ \/ rest = <<>> /\ Publish(kept \o Page) /\ EndUpdate
              \/ /\ rest # <<>> /\ kept' = kept \o Page /\ todo' = rest
                 /\ UNCHANGED <<storage, pc, unfinalizedRead, lastRead, placedBetween>>
    BY <1>7, FetchPageSplitsTodo
  <2>2. /\ pc = "fetching" /\ unfinalizedRead # Unread /\ lastRead # Unread
        /\ UNCHANGED <<chain, faults>>
    BY <1>7 DEF FetchPage, IInv, FetchCompletesWindow
  <2>3. CASE rest = <<>> /\ Publish(kept \o Page) /\ EndUpdate
    <3>1. kept \o Page = RequestIds(lastRead, unfinalizedRead)
      BY <2>1, <2>3, ConcatEmptySeq
    <3> QED
      BY <3>1, <2>1, <2>2, <2>3, PublishPreserves
  <2>4. CASE /\ rest # <<>> /\ kept' = kept \o Page /\ todo' = rest
             /\ UNCHANGED <<storage, pc, unfinalizedRead, lastRead, placedBetween>>
    <3>1. TypeOK'
      BY <2>1, <2>2, <2>4 DEF IInv, TypeOK, chain, storage
    <3>2. StoredWindow' /\ ReadsBounded'
      BY <2>2, <2>4 DEF IInv, StoredWindow, ReadsBounded, chain, storage
    <3>3. FetchCompletesWindow'
      BY <2>1, <2>2, <2>4 DEF FetchCompletesWindow
    <3> QED
      BY <3>1, <3>2, <3>3 DEF IInv
  <2> QED
    BY <2>1, <2>3, <2>4
<1>8. CASE RejectPage \/ FailUpdate
  <2>1. EndUpdate /\ UNCHANGED <<chain, storage>> /\ faults' \in 0..MaxFaults
    BY <1>8, QueueConstants DEF RejectPage, FailUpdate, IInv, TypeOK
  <2>2. TypeOK'
    <3>1. <<>> \in Seq(Int)
      BY EmptySeq
    <3> QED
      BY <2>1, <3>1 DEF IInv, TypeOK, EndUpdate, chain, storage
  <2>3. StoredWindow' /\ FetchCompletesWindow'
    BY <2>1 DEF IInv, StoredWindow, FetchCompletesWindow, EndUpdate, storage
  <2>4. ReadsBounded'
    BY <2>1 DEF IInv, ReadsBounded, EndUpdate, chain, storage
  <2> QED
    BY <2>2, <2>3, <2>4 DEF IInv
<1>9. CASE Restart
  <2>1. TypeOK'
    <3>1. <<>> \in Seq(Int)
      BY EmptySeq
    <3> QED
      <4>1. /\ requests' = <<>> /\ kept' = <<>> /\ todo' = <<>>
            /\ loaded' = FALSE /\ torn' = FALSE /\ placedBetween' = FALSE
            /\ lastRequestId' = 0 /\ requestsCount' = 0
            /\ pc' = "idle" /\ unfinalizedRead' = -1 /\ lastRead' = -1
        BY <1>9 DEF Restart, EndUpdate
      <4>2. /\ faults' \in 0..MaxFaults
            /\ chainLast' \in 0..MaxRequest /\ chainFinalized' \in 0..chainLast'
        BY <1>9, QueueConstants DEF IInv, TypeOK, Restart, chain
      <4> QED
        BY <4>1, <4>2, <3>1 DEF TypeOK
  <2>2. RequestIds(0, 0) = <<>>
    BY WindowIsSeq, EmptySeq
  <2>3. StoredWindow' /\ FetchCompletesWindow'
    BY <1>9, <2>2 DEF StoredWindow, FetchCompletesWindow, Restart, EndUpdate
  <2>4. ReadsBounded'
    BY <1>9 DEF IInv, TypeOK, ReadsBounded, Restart, EndUpdate, chain
  <2> QED
    BY <2>1, <2>3, <2>4 DEF IInv
<1>10. CASE UNCHANGED vars
  BY <1>10 DEF IInv, TypeOK, StoredWindow, FetchCompletesWindow, ReadsBounded,
               vars, chain, storage, locals
<1> QED
  BY <1>1, <1>2, <1>3, <1>4, <1>5, <1>6, <1>7, <1>8, <1>9, <1>10 DEF Next, Update

LEMMA Invariance == Spec => []IInv
<1>1. QED
  BY InitIInv, StepIInv, PTL DEF Spec

\* The stored requests seen as a sequence.
LEMMA StoredShape ==
  ASSUME IInv
  PROVE  /\ requests \in Seq(Int) /\ Len(requests) = requestsCount /\ requestsCount \in Nat
         /\ \A i \in 1..requestsCount : requests[i] = lastRequestId - requestsCount + i
<1>1. lastRequestId \in Int /\ requestsCount \in Nat
  BY DEF IInv, TypeOK
<1>2. requests = RequestIds(lastRequestId, requestsCount)
  BY DEF IInv, StoredWindow
<1> QED
  BY <1>1, <1>2, WindowIsSeq

-----------------------------------------------------------------------------
(* The theorems.                                                           *)

\* Types of the job's locals, of the storage and of the chain's counters.
THEOREM TypeCorrect == Spec => []TypeOK
<1>1. IInv => TypeOK
  BY DEF IInv
<1>2. QED
  BY <1>1, Invariance, PTL

\* Every publication is exactly the window of its own two counters, whatever
\* was cached, however the pages were cut and wherever ticks failed.
THEOREM PublishesWholeWindow == Spec => []PublishedWindow
<1>1. IInv => PublishedWindow
  BY DEF IInv, StoredWindow, PublishedWindow
<1>2. QED
  BY <1>1, Invariance, PTL

LEMMA CalculatedIsFound == IInv => CalculatedIsInQueue
<1> SUFFICES ASSUME IInv, NEW id \in 0..MaxRequest + 1, StatusOf(id) = "calculated"
             PROVE  IsInQueue(id)
  BY DEF CalculatedIsInQueue
<1>1. loaded /\ ~IsEmptyQueue(id) /\ ~IsFinalized(id) /\ ~IsNotInQueueYet(id)
  BY DEF StatusOf, IInv, TypeOK
<1>2. CASE IsInQueue(id)
  BY <1>2
<1>3. CASE id < lastRequestId
  <2>1. requests # <<>> /\ id >= requests[1]
    BY <1>1, <1>3, QueueConstants DEF IsEmptyQueue, IsFinalized, IInv, TypeOK, StoredWindow, RequestIds
  <2>2. /\ requests \in Seq(Int) /\ Len(requests) = requestsCount /\ requestsCount \in Nat
        /\ \A i \in 1..requestsCount : requests[i] = lastRequestId - requestsCount + i
    BY StoredShape
  <2>3. requestsCount >= 1
    BY <2>1, <2>2, EmptySeq
  <2>4. id - (lastRequestId - requestsCount) \in 1..requestsCount
    BY <1>3, <2>1, <2>2, <2>3, QueueConstants DEF IInv, TypeOK
  <2> QED
    <3> DEFINE k == id - (lastRequestId - requestsCount)
    <3>1. lastRequestId - requestsCount + k = id
      BY <2>2, QueueConstants DEF IInv, TypeOK
    <3>2. k \in DOMAIN requests /\ requests[k] = id
      BY <2>2, <2>4, <3>1
    <3> QED
      BY <3>2 DEF IsInQueue
<1> QED
  BY <1>1, <1>2, <1>3, QueueConstants DEF IsNotInQueueYet, IInv, TypeOK

\* The request getWaitingTimeInfoById goes on to dereference always exists.
THEOREM LookupNeverMisses == Spec => []CalculatedIsInQueue
<1>1. QED
  BY CalculatedIsFound, Invariance, PTL

\* "finalized" is never said of an unfinalized request, unless a request was
\* placed between the two reads of the published tick.
THEOREM FinalizedIsSound == Spec => []FinalizedIsTrue
<1>1. IInv => FinalizedIsTrue
  <2> SUFFICES ASSUME IInv, NEW id \in Ids, StatusOf(id) = "finalized", ~torn
               PROVE  id <= chainFinalized
    BY DEF FinalizedIsTrue
  <2>1. IsEmptyQueue(id) \/ IsFinalized(id)
    BY DEF StatusOf, IInv, TypeOK
  <2>2. /\ requests \in Seq(Int) /\ Len(requests) = requestsCount /\ requestsCount \in Nat
        /\ \A i \in 1..requestsCount : requests[i] = lastRequestId - requestsCount + i
    BY StoredShape
  <2>3. id \in Nat /\ lastRequestId \in Nat /\ chainFinalized \in Int
    BY QueueConstants DEF IInv, TypeOK, Ids
  <2>4. id <= lastRequestId - requestsCount
    <3>1. CASE IsEmptyQueue(id)
      BY <2>2, <2>3, <3>1, EmptySeq DEF IsEmptyQueue
    <3>2. CASE IsFinalized(id)
      <4>1. requestsCount >= 1
        BY <2>2, <3>2, EmptySeq DEF IsFinalized
      <4> QED
        BY <2>2, <2>3, <3>2, <4>1 DEF IsFinalized
    <3> QED
      BY <2>1, <3>1, <3>2
  <2> QED
    BY <2>2, <2>3, <2>4 DEF IInv, ReadsBounded
<1>2. QED
  BY <1>1, Invariance, PTL

\* No tick takes the last id back.
LEMMA LastIdGrows ==
  ASSUME IInv, PlanFetch \/ FetchPage \/ UNCHANGED lastRequestId
  PROVE  lastRequestId' >= lastRequestId /\ lastRequestId' \in Nat /\ lastRequestId \in Nat
<1>1. lastRequestId \in Nat
  BY DEF IInv, TypeOK
<1>2. CASE \E w : Publish(w) /\ lastRead # Unread
  BY <1>1, <1>2 DEF Publish, IInv, ReadsBounded, TypeOK, Unread
<1>3. CASE UNCHANGED lastRequestId
  BY <1>1, <1>3
<1>4. PlanFetch \/ FetchPage => UNCHANGED lastRequestId \/ \E w : Publish(w) /\ lastRead # Unread
  BY DEF PlanFetch, FetchPage, storage, IInv, FetchCompletesWindow
<1> QED
  BY <1>2, <1>3, <1>4

\* Within one life of the process the published last id only grows.
THEOREM LastIdMonotone == Spec => LastIdNeverGoesBack
<1>1. IInv /\ [Next]_vars => [loaded /\ loaded' => lastRequestId' >= lastRequestId]_vars
  <2> SUFFICES ASSUME IInv, Next, loaded, loaded' PROVE lastRequestId' >= lastRequestId
    OBVIOUS
  <2>1. PlanFetch \/ FetchPage \/ UNCHANGED lastRequestId
    BY DEF Next, Update, Place, Finalize, StartUpdate, ReadUnfinalized, ReadLast,
       RejectPage, FailUpdate, Restart, storage
  <2> QED
    BY <2>1, LastIdGrows
<1>2. QED
  BY <1>1, Invariance, PTL DEF Spec, LastIdNeverGoesBack

-----------------------------------------------------------------------------
(* QueueInfo implements QueueView: every step of the job is a step of the  *)
(* view or changes nothing of it.                                          *)

\* Only requests that exist are shown, and reused while pages are fetched: a torn
\* tick may span ids below 1, but then no page of it is served.
WindowExists ==
  /\ requestsCount <= lastRequestId
  /\ pc = "fetching" /\ kept # <<>> => unfinalizedRead <= lastRead

LEMMA EmptyWindow ==
  ASSUME NEW last \in Nat, NEW unfinalized \in Nat, RequestIds(last, unfinalized) = <<>>
  PROVE  unfinalized = 0
<1>1. /\ RequestIds(last, unfinalized) \in Seq(Int)
      /\ Len(RequestIds(last, unfinalized)) = unfinalized
  BY WindowIsSeq
<1> QED
  BY <1>1, EmptySeq

LEMMA WindowExistsStep ==
  ASSUME IInv, WindowExists, [Next]_vars PROVE WindowExists'
<1> USE DEF WindowExists
<1>1. CASE Place \/ Finalize \/ StartUpdate \/ ReadUnfinalized \/ ReadLast \/ UNCHANGED vars
  BY <1>1 DEF Place, Finalize, StartUpdate, ReadUnfinalized, ReadLast, vars, storage, locals
<1>2. CASE RejectPage \/ FailUpdate \/ Restart
  BY <1>2 DEF RejectPage, FailUpdate, Restart, EndUpdate, storage
<1>3. CASE PlanFetch
  <2>1. PICK reuse, new \in Seq(Int) :
           /\ reuse \o new = RequestIds(lastRead, unfinalizedRead)
           /\ reuse # <<>> => lastRequestId - requestsCount <= lastRead - unfinalizedRead
           /\ \/ new = <<>> /\ Publish(reuse) /\ EndUpdate
              \/ /\ new # <<>> /\ pc' = "fetching" /\ kept' = reuse /\ todo' = new
                 /\ UNCHANGED <<storage, unfinalizedRead, lastRead, placedBetween>>
    BY <1>3, PlanFetchSplitsWindow
  <2>2. /\ lastRead \in Nat /\ unfinalizedRead \in Nat
        /\ lastRequestId \in Nat /\ requestsCount \in Nat
    BY <1>3 DEF IInv, TypeOK, PlanFetch
  <2>3. reuse # <<>> => unfinalizedRead <= lastRead
    BY <2>1, <2>2
  <2>4. CASE new = <<>> /\ Publish(reuse) /\ EndUpdate
    <3>1. reuse = RequestIds(lastRead, unfinalizedRead)
      BY <2>1, <2>4, ConcatEmptySeq
    <3>2. reuse = <<>> => unfinalizedRead = 0
      BY <2>2, <3>1, EmptyWindow
    <3> QED
      BY <2>2, <2>3, <2>4, <3>2 DEF Publish, EndUpdate
  <2> QED
    BY <2>1, <2>3, <2>4 DEF storage
<1>4. CASE FetchPage
  <2>1. PICK rest \in Seq(Int) :
           /\ kept = <<>> => unfinalizedRead <= lastRead
           /\ \/ rest = <<>> /\ Publish(kept \o Page) /\ EndUpdate
              \/ /\ rest # <<>> /\ kept' = kept \o Page /\ todo' = rest
                 /\ UNCHANGED <<storage, pc, unfinalizedRead, lastRead, placedBetween>>
    BY <1>4, FetchPageSplitsTodo
  <2>2. unfinalizedRead <= lastRead
    BY <1>4, <2>1 DEF FetchPage
  <2> QED
    BY <2>1, <2>2 DEF Publish, EndUpdate, storage
<1> QED
  BY <1>1, <1>2, <1>3, <1>4 DEF Next, Update

ShownIds == {requests[i] : i \in DOMAIN requests}
ShownView == [shown |-> loaded, ids |-> ShownIds, last |-> lastRequestId, exact |-> ~torn]

\* The ids of a window are an interval.
LEMMA WindowIsInterval ==
  ASSUME NEW last \in Nat, NEW unfinalized \in 0..last
  PROVE  {RequestIds(last, unfinalized)[i] : i \in DOMAIN RequestIds(last, unfinalized)}
           = last - unfinalized + 1 .. last
<1> DEFINE ids == RequestIds(last, unfinalized)
<1>1. /\ DOMAIN ids = 1..unfinalized
      /\ \A i \in 1..unfinalized : ids[i] = last - unfinalized + i
  BY DEF RequestIds
<1>2. ASSUME NEW id \in last - unfinalized + 1 .. last
      PROVE  \E i \in 1..unfinalized : ids[i] = id
  <2>1. id - (last - unfinalized) \in 1..unfinalized
    OBVIOUS
  <2>2. last - unfinalized + (id - (last - unfinalized)) = id
    OBVIOUS
  <2> HIDE DEF ids
  <2> QED
    BY <1>1, <2>1, <2>2
<1> HIDE DEF ids
<1>3. \A i \in 1..unfinalized : ids[i] \in last - unfinalized + 1 .. last
  BY <1>1
<1> QED
  BY <1>1, <1>2, <1>3 DEF ids

LEMMA PublishShows ==
  ASSUME IInv, NEW window, window = RequestIds(lastRead, unfinalizedRead),
         lastRead # Unread, unfinalizedRead # Unread, unfinalizedRead <= lastRead,
         Publish(window), UNCHANGED chain
  PROVE  View!Show
<1> DEFINE first == lastRead - unfinalizedRead + 1
<1>1. /\ lastRead \in Nat /\ unfinalizedRead \in Nat /\ lastRequestId \in Nat
      /\ chainLast \in Nat /\ chainFinalized \in Nat
  BY DEF IInv, TypeOK
<1>2. lastRead \in lastRequestId..chainLast /\ (~placedBetween => first <= chainFinalized + 1)
  BY <1>1 DEF IInv, ReadsBounded
<1>3. first \in 1..chainLast + 1 /\ first <= lastRead + 1
  BY <1>1, <1>2
<1>4. ShownIds' = first..lastRead
  <2>1. unfinalizedRead \in 0..lastRead
    BY <1>1
  <2>2. requests' = RequestIds(lastRead, unfinalizedRead)
    BY DEF Publish
  <2> QED
    BY <1>1, <2>1, <2>2, WindowIsInterval DEF ShownIds
<1>5. ShownView' = [shown |-> TRUE, ids |-> first..lastRead, last |-> lastRead,
                    exact |-> ~placedBetween]
  BY <1>4 DEF Publish, ShownView
<1>6. ShownView.last = lastRequestId
  BY DEF ShownView
<1>7. (~placedBetween) \in BOOLEAN
  OBVIOUS
<1> HIDE DEF first
<1> QED
  BY <1>2, <1>3, <1>5, <1>6, <1>7 DEF View!Show, ShownView, ShownIds, chain

LEMMA HiddenIsStutter ==
  ASSUME UNCHANGED <<chain, storage>> PROVE UNCHANGED View!vars
<1>1. ShownView' = ShownView
  BY DEF storage, ShownView, ShownIds
<1> QED
  BY <1>1 DEF View!vars, ShownView, ShownIds, chain

LEMMA StepImplements ==
  ASSUME IInv, WindowExists, [Next]_vars PROVE [View!Next]_(View!vars)
<1>1. CASE Place
  <2>1. ShownView' = ShownView
    BY <1>1 DEF Place, storage, ShownView, ShownIds
  <2> QED
    BY <1>1, <2>1 DEF Place, View!Next, View!Place, ShownView, ShownIds
<1>2. CASE Finalize
  <2>1. ShownView' = ShownView
    BY <1>2 DEF Finalize, storage, ShownView, ShownIds
  <2> QED
    BY <1>2, <2>1 DEF Finalize, View!Next, View!Finalize, ShownView, ShownIds
<1>3. CASE \/ StartUpdate \/ ReadUnfinalized \/ ReadLast
           \/ RejectPage \/ FailUpdate \/ UNCHANGED vars
  <2>1. UNCHANGED <<chain, storage>>
    BY <1>3 DEF StartUpdate, ReadUnfinalized, ReadLast, RejectPage, FailUpdate, vars
  <2> QED
    BY <2>1, HiddenIsStutter
<1>4. CASE PlanFetch
  <2>1. PICK reuse, new \in Seq(Int) :
           /\ reuse \o new = RequestIds(lastRead, unfinalizedRead)
           /\ reuse # <<>> => lastRequestId - requestsCount <= lastRead - unfinalizedRead
           /\ \/ new = <<>> /\ Publish(reuse) /\ EndUpdate
              \/ /\ new # <<>> /\ pc' = "fetching" /\ kept' = reuse /\ todo' = new
                 /\ UNCHANGED <<storage, unfinalizedRead, lastRead, placedBetween>>
    BY <1>4, PlanFetchSplitsWindow
  <2>2. lastRead # Unread /\ unfinalizedRead # Unread /\ UNCHANGED chain
    BY <1>4 DEF PlanFetch
  <2>3. CASE new = <<>> /\ Publish(reuse) /\ EndUpdate
    <3>1. reuse = RequestIds(lastRead, unfinalizedRead)
      BY <2>1, <2>3, ConcatEmptySeq
    <3>2. /\ lastRead \in Nat /\ unfinalizedRead \in Nat
          /\ lastRequestId \in Nat /\ requestsCount \in Nat
      BY <2>2 DEF IInv, TypeOK
    <3>3. reuse = <<>> => unfinalizedRead = 0
      BY <3>1, <3>2, EmptyWindow
    <3>4. unfinalizedRead <= lastRead
      BY <2>1, <3>2, <3>3 DEF WindowExists
    <3> QED
      BY <2>2, <2>3, <3>1, <3>4, PublishShows DEF View!Next
  <2>4. CASE UNCHANGED storage
    BY <2>2, <2>4, HiddenIsStutter
  <2> QED
    BY <2>1, <2>3, <2>4
<1>5. CASE FetchPage
  <2>1. PICK rest \in Seq(Int) :
           /\ kept \o Page \in Seq(Int)
           /\ (kept \o Page) \o rest = RequestIds(lastRead, unfinalizedRead)
           /\ kept = <<>> => unfinalizedRead <= lastRead
           /\ \/ rest = <<>> /\ Publish(kept \o Page) /\ EndUpdate
              \/ /\ rest # <<>> /\ kept' = kept \o Page /\ todo' = rest
                 /\ UNCHANGED <<storage, pc, unfinalizedRead, lastRead, placedBetween>>
    BY <1>5, FetchPageSplitsTodo
  <2>2. /\ lastRead # Unread /\ unfinalizedRead # Unread /\ UNCHANGED chain
        /\ unfinalizedRead <= lastRead
    BY <1>5, <2>1 DEF FetchPage, IInv, FetchCompletesWindow, WindowExists
  <2>3. CASE rest = <<>> /\ Publish(kept \o Page) /\ EndUpdate
    <3>1. kept \o Page = RequestIds(lastRead, unfinalizedRead)
      BY <2>1, <2>3, ConcatEmptySeq
    <3> QED
      BY <2>2, <2>3, <3>1, PublishShows DEF View!Next
  <2>4. CASE UNCHANGED storage
    BY <2>2, <2>4, HiddenIsStutter
  <2> QED
    BY <2>1, <2>3, <2>4
<1>6. CASE Restart
  <2>1. /\ requests' = <<>> /\ loaded' = FALSE /\ torn' = FALSE /\ lastRequestId' = 0
        /\ UNCHANGED chain
    BY <1>6 DEF Restart
  <2>2. ShownIds' = {}
    BY <2>1 DEF ShownIds
  <2>3. ShownView' = View!NoView
    BY <2>1, <2>2 DEF ShownView, View!NoView
  <2> QED
    BY <2>1, <2>3 DEF View!Next, View!Forget, ShownView, ShownIds, chain
<1> QED
  BY <1>1, <1>2, <1>3, <1>4, <1>5, <1>6 DEF Next, Update

LEMMA InitImplements == Init => WindowExists /\ View!Init
<1> SUFFICES ASSUME Init PROVE WindowExists /\ View!Init
  OBVIOUS
<1>1. WindowExists
  BY DEF Init, WindowExists
<1>2. ShownIds = {}
  BY DEF Init, ShownIds
<1>3. ShownView = View!NoView
  BY <1>2 DEF Init, ShownView, View!NoView
<1> QED
  BY <1>1, <1>3 DEF Init, View!Init, ShownView, ShownIds

\* For every queue, page size and number of faults the storage is a view of the
\* queue that ticks replace as a whole (updateQueueInfo, getUpdatedRequests).
THEOREM Refinement == Spec => ImplementsQueueView
<1>1. Init => IInv /\ WindowExists /\ View!Init
  BY InitIInv, InitImplements
<1>2. IInv /\ WindowExists /\ [Next]_vars =>
        IInv' /\ WindowExists' /\ [View!Next]_(View!vars)
  BY StepIInv, WindowExistsStep, StepImplements
<1> QED
  BY <1>1, <1>2, PTL DEF Spec, ImplementsQueueView, View!Spec

(***************************************************************************)
(* Responses while the job goes on: RequestTime.                           *)
(***************************************************************************)

\* A tick that is exact for a response is so for QueueInfo.
TicksAreNoted == (placedBetween => placedDuring) /\ (torn => inexact)

ResponseTypes ==
  /\ others \in BOOLEAN /\ stage \in {"none", "balances", "forecasts"}
  /\ asked \in AskedLists \cup {<<>>}
  /\ \A i \in DOMAIN statuses : Rank(statuses[i]) \in 1..4
  /\ open \subseteq DOMAIN asked
  /\ resummed.id \in 0..MaxRequest + 1

\* Before it is classified, a response has neither statuses nor forecasts.
ResponseStages ==
  IF stage = "forecasts" THEN DOMAIN statuses = DOMAIN asked /\ DOMAIN sums = DOMAIN asked
  ELSE statuses = <<>> /\ sums = <<>> /\ open = {}

ResponseInv ==
  ResponseTypes /\ ResponseStages /\ ResponseFollowsQueue /\ SumIsOfQueueBefore

\* What a forecast is open for had been placed at the published tick.
OpenAreKnown == \A i \in open : asked[i] <= lastRequestId

RInv == IInv /\ WindowExists /\ TicksAreNoted /\ ResponseInv /\ OpenAreKnown

\* The four answers of getWaitingTimeInfoById before its await.
LEMMA StatusCases ==
  ASSUME IInv, NEW id
  PROVE  \/ ~loaded /\ StatusOf(id) = "initializing"
         \/ /\ loaded /\ (IsEmptyQueue(id) \/ IsFinalized(id))
            /\ StatusOf(id) = "finalized"
         \/ /\ loaded /\ ~IsEmptyQueue(id) /\ ~IsFinalized(id) /\ IsNotInQueueYet(id)
            /\ StatusOf(id) = "calculating"
         \/ /\ loaded /\ ~IsEmptyQueue(id) /\ ~IsFinalized(id) /\ ~IsNotInQueueYet(id)
            /\ StatusOf(id) = "calculated"
<1>1. CASE ~loaded
  BY <1>1, Zenon DEF StatusOf
<1>2. CASE loaded /\ (IsEmptyQueue(id) \/ IsFinalized(id))
  BY <1>2 DEF StatusOf
<1>3. CASE loaded /\ ~IsEmptyQueue(id) /\ ~IsFinalized(id) /\ IsNotInQueueYet(id)
  BY <1>3 DEF StatusOf
<1>4. CASE loaded /\ ~IsEmptyQueue(id) /\ ~IsFinalized(id) /\ ~IsNotInQueueYet(id)
  BY <1>4 DEF StatusOf
<1> QED
  BY <1>1, <1>2, <1>3, <1>4

LEMMA Ranks ==
  /\ Rank("initializing") = 1 /\ Rank("calculating") = 2
  /\ Rank("calculated") = 3 /\ Rank("finalized") = 4
  BY DEF Rank

\* An earlier request is never behind a later one: the three questions about the
\* queue are monotone in the id.
LEMMA StatusIsMonotone ==
  ASSUME IInv, NEW a \in Int, NEW b \in Int, a < b
  PROVE  Rank(StatusOf(a)) >= Rank(StatusOf(b))
<1>1. /\ requests \in Seq(Int) /\ Len(requests) = requestsCount /\ requestsCount \in Nat
      /\ \A i \in 1..requestsCount : requests[i] = lastRequestId - requestsCount + i
      /\ lastRequestId \in Nat
  BY StoredShape DEF IInv, TypeOK
<1>2. IsEmptyQueue(b) => IsEmptyQueue(a)
  BY <1>1 DEF IsEmptyQueue
<1>3. IsFinalized(b) => IsFinalized(a)
  <2>1. requests # <<>> => requests[1] \in Int
    BY <1>1, EmptySeq
  <2> QED
    BY <2>1 DEF IsFinalized
<1>4. IsInQueue(b) => b <= lastRequestId
  <2>1. \A i \in DOMAIN requests : requests[i] <= lastRequestId
    BY <1>1, LenProperties
  <2> QED
    BY <2>1 DEF IsInQueue
<1>5. IsNotInQueueYet(a) => IsNotInQueueYet(b)
  BY <1>1, <1>4 DEF IsNotInQueueYet
<1>6. ~loaded => StatusOf(a) = "initializing" /\ StatusOf(b) = "initializing"
  BY StatusCases
<1>7. Rank(StatusOf(a)) \in 1..4 /\ Rank(StatusOf(b)) \in 1..4
  BY StatusCases, Ranks
<1>8. CASE loaded /\ (IsEmptyQueue(a) \/ IsFinalized(a))
  BY <1>7, <1>8, StatusCases, Ranks
<1>9. CASE loaded /\ ~IsEmptyQueue(a) /\ ~IsFinalized(a)
  BY <1>2, <1>3, <1>5, <1>9, StatusCases, Ranks
<1> QED
  BY <1>6, <1>8, <1>9, Ranks

\* The sum up to a request of the window is of all ids of the window up to it.
LEMMA SumToIsPrefix ==
  ASSUME IInv, NEW id \in Int, IsInQueue(id)
  PROVE  SumTo(requests, id) = lastRequestId - requestsCount + 1 .. id
<1> DEFINE before == lastRequestId - requestsCount
           k == id - before
           isBefore(i) == \A j \in 1..i - 1 : requests[j] # id
<1>1. /\ requests \in Seq(Int) /\ Len(requests) = requestsCount /\ requestsCount \in Nat
      /\ \A i \in 1..requestsCount : requests[i] = before + i
      /\ before \in Int
  BY StoredShape DEF IInv, TypeOK
<1>2. DOMAIN requests = 1..requestsCount
  BY <1>1, LenProperties
<1> HIDE DEF before
<1>3. k \in 1..requestsCount
  BY <1>1, <1>2 DEF IsInQueue
<1>4. ASSUME NEW i \in 1..requestsCount PROVE isBefore(i) <=> i <= k
  <2>1. \A j \in 1..i - 1 : (requests[j] = id) <=> (j = k)
    BY <1>1, <1>3
  <2> QED
    BY <1>3, <2>1
<1>5. SumTo(requests, id) = {requests[i] : i \in {j \in 1..requestsCount : isBefore(j)}}
  BY <1>2 DEF SumTo
<1> HIDE DEF isBefore
<1>6. SumTo(requests, id) = {requests[i] : i \in 1..k}
  <2>1. {j \in 1..requestsCount : isBefore(j)} = 1..k
    BY <1>1, <1>3, <1>4
  <2> QED
    BY <1>5, <2>1
<1>7. \A i \in 1..k : requests[i] = before + i
  BY <1>1, <1>3
<1>8. ASSUME NEW m \in before + 1 .. id PROVE \E i \in 1..k : requests[i] = m
  <2>1. m - before \in 1..k /\ before + (m - before) = m
    BY <1>1
  <2> QED
    BY <1>7, <2>1
<1>9. \A i \in 1..k : requests[i] \in before + 1 .. id
  BY <1>1, <1>7
<1> QED
  BY <1>6, <1>8, <1>9 DEF before

\* What the sum of a first forecast promises, from the window it is of.
LEMMA SumIsExact ==
  ASSUME IInv, WindowExists, ~torn, NEW id \in 1..MaxRequest + 1, StatusOf(id) = "calculated"
  PROVE  /\ chainFinalized + 1 .. id \subseteq SumTo(requests, id)
         /\ SumTo(requests, id) \subseteq 1..id
<1>1. IsInQueue(id)
  BY CalculatedIsFound, QueueConstants DEF CalculatedIsInQueue
<1>2. SumTo(requests, id) = lastRequestId - requestsCount + 1 .. id
  BY <1>1, SumToIsPrefix, QueueConstants
<1>3. /\ lastRequestId \in Nat /\ requestsCount \in Nat /\ chainFinalized \in Nat
      /\ requestsCount <= lastRequestId
      /\ lastRequestId - requestsCount <= chainFinalized
  BY DEF IInv, TypeOK, ReadsBounded, WindowExists
<1> QED
  BY <1>2, <1>3, QueueConstants

\* What is not in the window of a tick but not beyond it has been finalized, and the
\* sum is then the whole window.
LEMMA MissingIsFinalized ==
  ASSUME IInv, WindowExists, ~torn, NEW id \in Nat, id <= lastRequestId, ~IsInQueue(id)
  PROVE  id <= chainFinalized
<1>1. /\ requests \in Seq(Int) /\ Len(requests) = requestsCount /\ requestsCount \in Nat
      /\ \A i \in 1..requestsCount : requests[i] = lastRequestId - requestsCount + i
      /\ lastRequestId \in Nat /\ chainFinalized \in Nat
      /\ lastRequestId - requestsCount <= chainFinalized
  BY StoredShape, QueueConstants DEF IInv, TypeOK, ReadsBounded
<1>2. CASE id <= lastRequestId - requestsCount
  BY <1>1, <1>2
<1>3. CASE id > lastRequestId - requestsCount
  <2> DEFINE k == id - (lastRequestId - requestsCount)
  <2>1. k \in 1..requestsCount /\ lastRequestId - requestsCount + k = id
    BY <1>1, <1>3
  <2>2. k \in DOMAIN requests /\ requests[k] = id
    BY <1>1, <2>1
  <2> QED
    BY <2>2 DEF IsInQueue
<1> QED
  BY <1>1, <1>2, <1>3

\* What the sum of a forecast made anew promises, from the window of that moment.
LEMMA NewSumIsExact ==
  ASSUME IInv, WindowExists, ~torn, NEW id \in 1..MaxRequest + 1, id <= lastRequestId
  PROVE  /\ chainFinalized + 1 .. id \subseteq SumTo(requests, id)
         /\ SumTo(requests, id) \subseteq 1..id \/ id <= chainFinalized
<1>1. /\ lastRequestId \in Nat /\ requestsCount \in Nat /\ chainFinalized \in Nat
      /\ requestsCount <= lastRequestId /\ id \in Nat
      /\ lastRequestId - requestsCount <= chainFinalized
  BY QueueConstants DEF IInv, TypeOK, ReadsBounded, WindowExists
<1>2. CASE IsInQueue(id)
  <2>1. SumTo(requests, id) = lastRequestId - requestsCount + 1 .. id
    BY <1>1, <1>2, SumToIsPrefix
  <2> QED
    BY <1>1, <2>1
<1>3. CASE ~IsInQueue(id)
  <2>1. id <= chainFinalized
    BY <1>1, <1>3, MissingIsFinalized
  <2> QED
    BY <1>1, <2>1
<1> QED
  BY <1>2, <1>3

LEMMA FinalizedGrows ==
  ASSUME IInv, [Next]_vars
  PROVE  chainFinalized \in Nat /\ chainFinalized' \in Nat /\ chainFinalized' >= chainFinalized
<1>1. chainLast \in Nat /\ chainFinalized \in 0..chainLast
  BY QueueConstants DEF IInv, TypeOK
<1>2. CASE Finalize
  BY <1>1, <1>2 DEF Finalize
<1>3. CASE ~Finalize
  BY <1>1, <1>3 DEF Next, Update, Place, StartUpdate, ReadUnfinalized, ReadLast, PlanFetch,
     FetchPage, RejectPage, FailUpdate, Restart, chain, vars
<1> QED
  BY <1>2, <1>3

LEMMA AskedAreIds ==
  ASSUME ResponseTypes PROVE \A i \in DOMAIN asked : asked[i] \in 1..MaxRequest + 1
<1>1. asked \in Seq(1..MaxRequest + 1)
  BY RequestTimeConstants, EmptySeq DEF ResponseTypes
<1> QED
  BY <1>1, ElementOfSeq, LenProperties

\* While the job and the chain go on, a response keeps what it has.
LEMMA ResponseStays ==
  ASSUME ResponseInv, UNCHANGED response, others' \in BOOLEAN,
         chainFinalized \in Nat, chainFinalized' \in Nat, chainFinalized' >= chainFinalized
  PROVE  ResponseInv'
<1>1. ResponseTypes' /\ ResponseStages' /\ ResponseFollowsQueue'
  BY DEF ResponseInv, ResponseTypes, ResponseStages, ResponseFollowsQueue, response
<1>2. FirstSumIsOfQueueBefore'
  BY DEF ResponseInv, SumIsOfQueueBefore, FirstSumIsOfQueueBefore, response
<1>3. NewSumIsOfQueueBefore'
  <2>1. resummed.id \in Nat
    BY QueueConstants DEF ResponseInv, ResponseTypes
  <2> QED
    BY <2>1 DEF ResponseInv, SumIsOfQueueBefore, NewSumIsOfQueueBefore, response
<1> QED
  BY <1>1, <1>2, <1>3 DEF ResponseInv, SumIsOfQueueBefore

LEMMA NothingResummed == NotResummed.id = 0 /\ NotResummed.exact = FALSE
  BY DEF NotResummed

LEMMA NoResponseHolds == NoResponse /\ others' \in BOOLEAN => ResponseInv' /\ OpenAreKnown'
  BY QueueConstants DEF NoResponse, ResponseInv, ResponseTypes, ResponseStages,
     ResponseFollowsQueue, SumIsOfQueueBefore, FirstSumIsOfQueueBefore,
     NewSumIsOfQueueBefore, NotResummed, OpenAreKnown

LEMMA InitRInv == TInit => RInv
<1> SUFFICES ASSUME TInit PROVE RInv
  OBVIOUS
<1>1. IInv /\ WindowExists /\ TicksAreNoted
  BY InitIInv, InitImplements DEF TInit, Init, TicksAreNoted
<1>2. /\ others = FALSE /\ stage = "none" /\ asked = <<>> /\ statuses = <<>> /\ sums = <<>>
      /\ open = {} /\ DOMAIN statuses = {} /\ resummed = NotResummed
  BY DEF TInit
<1>3. ResponseTypes /\ ResponseStages
  <2>1. resummed.id \in 0..MaxRequest + 1
    BY <1>2, NothingResummed, QueueConstants
  <2>2. asked \in AskedLists \cup {<<>>} /\ open \subseteq DOMAIN asked
    BY <1>2
  <2> QED
    BY <1>2, <2>1, <2>2, Zenon DEF ResponseTypes, ResponseStages
<1>4. ResponseFollowsQueue /\ FirstSumIsOfQueueBefore /\ OpenAreKnown
  BY <1>2 DEF ResponseFollowsQueue, FirstSumIsOfQueueBefore, OpenAreKnown
<1>5. NewSumIsOfQueueBefore
  BY <1>2 DEF NewSumIsOfQueueBefore, NotResummed
<1> QED
  BY <1>1, <1>3, <1>4, <1>5 DEF RInv, ResponseInv, SumIsOfQueueBefore

LEMMA ClassifyRInv == RInv /\ Classify => RInv'
<1> SUFFICES ASSUME RInv, Classify PROVE RInv'
  OBVIOUS
<1>1. /\ stage = "balances" /\ stage' = "forecasts" /\ asked' = asked
      /\ statuses' = [i \in DOMAIN asked |-> Classified(asked[i])]
      /\ open' = {i \in DOMAIN asked : Classified(asked[i]) = "calculated"}
      /\ sums' = [i \in DOMAIN asked |-> SumTo(requests, asked[i])]
      /\ exact' = ~inexact
      /\ UNCHANGED vars /\ UNCHANGED <<others, resummed, ticks>>
  BY DEF Classify
<1>2. IInv' /\ WindowExists' /\ TicksAreNoted'
  BY <1>1, StepIInv, WindowExistsStep DEF RInv, TicksAreNoted, vars, locals, storage, ticks
<1>3. \A i \in DOMAIN asked : asked[i] \in 1..MaxRequest + 1
  BY AskedAreIds DEF RInv, ResponseInv
<1>4. \A id : Rank(Classified(id)) \in 1..4
  BY StatusCases, Ranks DEF Classified, RInv
<1>5. ResponseTypes' /\ ResponseStages'
  BY <1>1, <1>4 DEF RInv, ResponseInv, ResponseTypes, ResponseStages
<1>6. ASSUME NEW i \in DOMAIN asked, NEW j \in DOMAIN asked, asked[i] < asked[j]
      PROVE  Rank(Classified(asked[i])) >= Rank(Classified(asked[j]))
  <2>1. asked[i] \in Int /\ asked[j] \in Int
    BY <1>3, QueueConstants
  <2>2. CASE others
    BY <1>6, <2>1, <2>2, StatusIsMonotone DEF Classified, RInv
  <2>3. CASE ~others
    BY <2>3, Ranks DEF Classified
  <2> QED
    BY <2>2, <2>3
<1>7. ResponseFollowsQueue'
  BY <1>1, <1>6 DEF ResponseFollowsQueue
<1>8. ASSUME NEW i \in DOMAIN asked, Classified(asked[i]) = "calculated", ~inexact
      PROVE  /\ chainFinalized + 1 .. asked[i] \subseteq SumTo(requests, asked[i])
             /\ SumTo(requests, asked[i]) \subseteq 1..asked[i]
  <2>1. StatusOf(asked[i]) = "calculated"
    BY <1>8 DEF Classified
  <2>2. ~torn
    BY <1>8 DEF RInv, TicksAreNoted
  <2> QED
    BY <1>3, <2>1, <2>2, SumIsExact DEF RInv
<1>9. SumIsOfQueueBefore'
  <2>1. FirstSumIsOfQueueBefore'
    BY <1>1, <1>8 DEF FirstSumIsOfQueueBefore, vars, chain
  <2>2. NewSumIsOfQueueBefore'
    BY <1>1 DEF RInv, ResponseInv, SumIsOfQueueBefore, NewSumIsOfQueueBefore, vars, chain
  <2> QED
    BY <2>1, <2>2 DEF SumIsOfQueueBefore
<1>10. ASSUME NEW i \in DOMAIN asked, Classified(asked[i]) = "calculated"
       PROVE  asked[i] <= lastRequestId
  <2>1. StatusOf(asked[i]) = "calculated" /\ asked[i] \in 0..MaxRequest + 1
    BY <1>3, <1>10, QueueConstants DEF Classified
  <2>2. IsInQueue(asked[i])
    BY <2>1, CalculatedIsFound DEF CalculatedIsInQueue, RInv
  <2>3. \A j \in DOMAIN requests : requests[j] <= lastRequestId
    BY StoredShape, LenProperties DEF RInv, IInv, TypeOK
  <2> QED
    BY <2>2, <2>3 DEF IsInQueue
<1>11. OpenAreKnown'
  BY <1>1, <1>10 DEF OpenAreKnown, vars, storage
<1> QED
  BY <1>2, <1>5, <1>7, <1>9, <1>11 DEF RInv, ResponseInv

LEMMA SettleRInv == ASSUME RInv, NEW i \in DOMAIN asked, Settle(i) PROVE RInv'
<1>1. /\ i \in open /\ open' = open \ {i}
      /\ \/ resummed' = NotResummed
         \/ resummed' = [id |-> asked[i], ids |-> SumTo(requests, asked[i]), exact |-> ~inexact]
      /\ UNCHANGED <<vars, others, stage, asked, statuses, sums, exact, ticks>>
  BY DEF Settle
<1>2. IInv' /\ WindowExists' /\ TicksAreNoted'
  BY <1>1, StepIInv, WindowExistsStep DEF RInv, TicksAreNoted, vars, locals, storage, ticks
<1>3. asked[i] \in 1..MaxRequest + 1
  BY AskedAreIds DEF RInv, ResponseInv
<1>4. ResponseTypes' /\ ResponseFollowsQueue'
  BY <1>1, <1>3, QueueConstants DEF RInv, ResponseInv, ResponseTypes, ResponseFollowsQueue,
     NotResummed
<1>5. ResponseStages' /\ OpenAreKnown'
  BY <1>1 DEF RInv, ResponseInv, ResponseStages, OpenAreKnown, vars, storage
<1>6. FirstSumIsOfQueueBefore'
  BY <1>1 DEF RInv, ResponseInv, SumIsOfQueueBefore, FirstSumIsOfQueueBefore, vars, chain
<1>7. NewSumIsOfQueueBefore'
  <2>1. CASE ~resummed'.exact
    BY <2>1 DEF NewSumIsOfQueueBefore
  <2>2. CASE resummed'.exact
    <3>0. ~inexact /\ resummed'.id = asked[i] /\ resummed'.ids = SumTo(requests, asked[i])
      <4>1. resummed' # NotResummed
        BY <2>2, NothingResummed, Zenon
      <4>2. resummed' = [id |-> asked[i], ids |-> SumTo(requests, asked[i]), exact |-> ~inexact]
        BY <1>1, <4>1
      <4>3. resummed'.id = asked[i] /\ resummed'.ids = SumTo(requests, asked[i])
        BY <4>2
      <4>4. resummed'.exact = (~inexact)
        BY <4>2, Zenon
      <4> QED
        BY <2>2, <4>3, <4>4, Zenon
    <3>1. ~torn /\ asked[i] <= lastRequestId
      BY <1>1, <3>0 DEF RInv, TicksAreNoted, OpenAreKnown
    <3>2. /\ chainFinalized + 1 .. asked[i] \subseteq SumTo(requests, asked[i])
          /\ SumTo(requests, asked[i]) \subseteq 1..asked[i] \/ asked[i] <= chainFinalized
      BY <1>3, <3>1, NewSumIsExact DEF RInv
    <3>3. chainFinalized' = chainFinalized
      BY <1>1 DEF vars, chain
    <3> QED
      BY <3>0, <3>2, <3>3 DEF NewSumIsOfQueueBefore
  <2> QED
    BY <2>1, <2>2
<1> QED
  BY <1>2, <1>4, <1>5, <1>6, <1>7 DEF RInv, ResponseInv, SumIsOfQueueBefore

\* What the history says of the running tick, in every step of the queue and its job.
LEMMA NotesStep ==
  ASSUME RInv, PlaceRequest \/ ReadCounters \/ Fetch \/ LoseTick \/ RestartAll
  PROVE  TicksAreNoted'
<1>1. (placedBetween => placedDuring) /\ (torn => inexact)
  BY DEF RInv, TicksAreNoted
<1>2. CASE PlaceRequest
  <2>1. /\ placedBetween' = (placedBetween \/ (unfinalizedRead # Unread /\ lastRead = Unread))
        /\ placedDuring' = (placedDuring \/ (unfinalizedRead = Unread) # (lastRead = Unread))
        /\ torn' = torn /\ inexact' = inexact
    BY <1>2 DEF PlaceRequest, Place, storage
  <2>2. unfinalizedRead # Unread /\ lastRead = Unread =>
          (unfinalizedRead = Unread) # (lastRead = Unread)
    OBVIOUS
  <2> QED
    BY <1>1, <2>1, <2>2 DEF TicksAreNoted
<1>3. CASE ReadCounters
  BY <1>1, <1>3 DEF ReadCounters, Finalize, StartUpdate, ReadUnfinalized, ReadLast,
     TicksAreNoted, storage, locals, ticks
<1>4. CASE Fetch
  <2>1. /\ placedDuring' = (placedDuring /\ pc' # "idle")
        /\ inexact' = IF pc' = "idle" THEN placedDuring ELSE inexact
    BY <1>4 DEF Fetch
  <2>2. \/ pc' = "idle" /\ placedBetween' = FALSE /\ torn' = placedBetween
        \/ pc' = "fetching" /\ placedBetween' = placedBetween /\ torn' = torn
    <3>1. CASE PlanFetch
      BY <3>1 DEF PlanFetch, Publish, EndUpdate, storage
    <3>2. CASE FetchPage
      BY <3>2 DEF FetchPage, Publish, EndUpdate, storage
    <3> QED
      BY <1>4, <3>1, <3>2 DEF Fetch
  <2>3. CASE pc' = "idle" /\ placedBetween' = FALSE /\ torn' = placedBetween
    <3>1. inexact' = placedDuring
      BY <2>1, <2>3
    <3> QED
      BY <1>1, <2>3, <3>1, Zenon DEF TicksAreNoted
  <2>4. CASE pc' = "fetching" /\ placedBetween' = placedBetween /\ torn' = torn
    <3>1. pc' # "idle"
      BY <2>4
    <3>2. inexact' = inexact /\ (placedDuring => placedDuring')
      BY <2>1, <3>1, Zenon
    <3> QED
      BY <1>1, <2>4, <3>2, Zenon DEF TicksAreNoted
  <2> QED
    BY <2>2, <2>3, <2>4
<1>5. CASE LoseTick
  BY <1>1, <1>5 DEF LoseTick, RejectPage, FailUpdate, EndUpdate, TicksAreNoted, storage
<1>6. CASE RestartAll
  BY <1>6 DEF RestartAll, Restart, EndUpdate, TicksAreNoted
<1> QED
  BY <1>2, <1>3, <1>4, <1>5, <1>6

LEMMA StepRInv == RInv /\ [TNext]_allVars => RInv'
<1> SUFFICES ASSUME RInv, [TNext]_allVars PROVE RInv'
  OBVIOUS
<1>1. CASE PlaceRequest \/ ReadCounters \/ Fetch \/ LoseTick
  <2>1. Next /\ UNCHANGED response /\ others' \in BOOLEAN
    BY <1>1 DEF PlaceRequest, ReadCounters, Fetch, LoseTick, Next, Update, RInv,
       ResponseInv, ResponseTypes
  <2>2. IInv' /\ WindowExists'
    BY <2>1, StepIInv, WindowExistsStep DEF RInv
  <2>3. ResponseInv'
    BY <2>1, FinalizedGrows, ResponseStays DEF RInv
  <2>4. PlanFetch \/ FetchPage \/ UNCHANGED lastRequestId
    BY <1>1 DEF PlaceRequest, Place, ReadCounters, Finalize, StartUpdate, ReadUnfinalized,
       ReadLast, Fetch, LoseTick, RejectPage, FailUpdate, storage
  <2>5. OpenAreKnown'
    BY <2>1, <2>4, LastIdGrows, AskedAreIds DEF RInv, ResponseInv, ResponseTypes,
       OpenAreKnown, response
  <2> QED
    BY <1>1, <2>2, <2>3, <2>5, NotesStep DEF RInv
<1>2. CASE RestartAll
  <2>1. Next /\ NoResponse /\ others' \in BOOLEAN
    BY <1>2 DEF RestartAll, Next
  <2> QED
    BY <1>2, <2>1, StepIInv, WindowExistsStep, NoResponseHolds, NotesStep DEF RInv
<1>3. CASE LoadOthers \/ UNCHANGED allVars
  <2>1. UNCHANGED <<vars, response, ticks>> /\ others' \in BOOLEAN
    BY <1>3 DEF LoadOthers, allVars, RInv, ResponseInv, ResponseTypes
  <2>4. OpenAreKnown'
    BY <2>1 DEF RInv, OpenAreKnown, response, vars, storage
  <2>2. IInv' /\ WindowExists' /\ TicksAreNoted'
    BY <2>1, StepIInv, WindowExistsStep DEF RInv, TicksAreNoted, vars, locals, storage, ticks
  <2>3. ResponseInv'
    BY <2>1, FinalizedGrows, ResponseStays DEF RInv
  <2> QED
    BY <2>2, <2>3, <2>4 DEF RInv
<1>4. CASE AskFor
  <2>1. /\ stage = "none" /\ stage' = "balances" /\ asked' \in AskedLists
        /\ UNCHANGED <<vars, others, statuses, sums, resummed, open, ticks>>
    BY <1>4 DEF AskFor
  <2>2. IInv' /\ WindowExists' /\ TicksAreNoted'
    BY <2>1, StepIInv, WindowExistsStep DEF RInv, TicksAreNoted, vars, locals, storage, ticks
  <2>3. statuses' = <<>> /\ sums' = <<>> /\ open' = {} /\ DOMAIN statuses' = {}
    BY <2>1 DEF RInv, ResponseInv, ResponseStages
  <2>4. ResponseInv' /\ OpenAreKnown'
    BY <2>1, <2>3 DEF RInv, ResponseInv, ResponseTypes, ResponseStages,
       ResponseFollowsQueue, SumIsOfQueueBefore, FirstSumIsOfQueueBefore,
       NewSumIsOfQueueBefore, OpenAreKnown, vars, chain
  <2> QED
    BY <2>2, <2>4 DEF RInv
<1>5. CASE Classify
  BY <1>5, ClassifyRInv
<1>6. CASE \E i \in DOMAIN asked : Settle(i)
  BY <1>6, SettleRInv
<1>7. CASE Respond
  <2>1. NoResponse /\ UNCHANGED <<vars, others, ticks>> /\ others' \in BOOLEAN
    BY <1>7 DEF Respond, RInv, ResponseInv, ResponseTypes
  <2>2. IInv' /\ WindowExists' /\ TicksAreNoted'
    BY <2>1, StepIInv, WindowExistsStep DEF RInv, TicksAreNoted, vars, locals, storage, ticks
  <2> QED
    BY <2>1, <2>2, NoResponseHolds DEF RInv
<1>8. CASE FailResponse
  <2>1. /\ NoResponse /\ UNCHANGED <<chain, storage, pc, locals, ticks>> /\ others' \in BOOLEAN
        /\ faults < MaxFaults /\ faults' = faults + 1
    BY <1>8 DEF FailResponse, RInv, ResponseInv, ResponseTypes
  <2>2. faults' \in 0..MaxFaults
    BY <2>1, QueueConstants DEF RInv, IInv, TypeOK
  <2>3. TypeOK'
    BY <2>1, <2>2 DEF RInv, IInv, TypeOK, chain, storage, locals
  <2>4. StoredWindow' /\ FetchCompletesWindow' /\ ReadsBounded' /\ WindowExists'
    BY <2>1 DEF RInv, IInv, StoredWindow, FetchCompletesWindow, ReadsBounded, WindowExists,
       chain, storage, locals
  <2>5. TicksAreNoted'
    BY <2>1 DEF RInv, TicksAreNoted, storage, locals, ticks
  <2> QED
    BY <2>1, <2>3, <2>4, <2>5, NoResponseHolds DEF RInv, IInv
<1> QED
  BY <1>1, <1>2, <1>3, <1>4, <1>5, <1>6, <1>7, <1>8 DEF TNext

LEMMA ResponseInvariance == TSpec => []RInv
<1>1. QED
  BY InitRInv, StepRInv, PTL DEF TSpec

\* Types of the response next to those of the job.
THEOREM ResponsesTyped == TSpec => []TTypeOK
<1>1. RInv => TTypeOK
  BY DEF RInv, IInv, ResponseInv, ResponseTypes, ResponseStages, TTypeOK
<1>2. QED
  BY <1>1, ResponseInvariance, PTL

\* Whatever is published before, in and after a response about several ids, it tells of
\* no request that it is behind a later one (calculateRequestsTime).
THEOREM ResponsesFollowQueue == TSpec => []ResponseFollowsQueue
<1>1. RInv => ResponseFollowsQueue
  BY DEF RInv, ResponseInv
<1>2. QED
  BY <1>1, ResponseInvariance, PTL

\* However old the window, the first sum leaves out nothing that is before the request
\* and still to be finalized (calculateUnfinalizedEthToRequestId).
THEOREM SumsAreOfQueueBefore == TSpec => []SumIsOfQueueBefore
<1>1. RInv => SumIsOfQueueBefore
  BY DEF RInv, ResponseInv
<1>2. QED
  BY <1>1, ResponseInvariance, PTL

(***************************************************************************)
(* What a client that polls is told: StatusNeverGoesBack.                  *)
(***************************************************************************)
Statuses == {"initializing", "calculating", "calculated", "finalized"}

\* The first n requests had been finalized when the last exact tick was read, and
\* nothing that is published or will be says otherwise.
FinalizedUpTo(n) ==
  /\ n <= chainFinalized
  /\ loaded /\ ~inexact => n <= lastRequestId - requestsCount
  /\ ~placedDuring /\ unfinalizedRead # Unread =>
       n <= (IF lastRead = Unread THEN chainLast ELSE lastRead) - unfinalizedRead

\* A tick without a placement between its reads is of one queue, not older than that
\* of the tick before.
TicksAreExact ==
  /\ ~placedDuring /\ lastRead # Unread /\ unfinalizedRead = Unread => lastRead = chainLast
  /\ loaded /\ ~inexact => FinalizedUpTo(lastRequestId - requestsCount)

\* What a status says of the watched id stays true while the process runs.
Promised(status) ==
  /\ status \in {"calculating", "calculated", "finalized"} => loaded /\ others
  /\ status \in {"calculated", "finalized"} => watched <= lastRequestId
  /\ status = "finalized" => FinalizedUpTo(watched)

\* A status is not behind the one told last, but for the last id of an emptied queue.
NotBehind(status, gone) ==
  told.exact => (gone /\ status = "calculating") \/ Rank(status) >= Rank(told.status)

WatchTypes ==
  /\ watched \in Nat /\ told.status \in Statuses \cup {"none"}
  /\ \A i \in DOMAIN statuses : statuses[i] \in Statuses

ToldHolds == told.exact => Promised(told.status)

\* The same of the response under way.
AnswerHolds ==
  stage = "forecasts" /\ exact =>
    \A i \in DOMAIN asked :
      asked[i] = watched => Promised(statuses[i]) /\ NotBehind(statuses[i], emptied)

PInv == RInv /\ WatchTypes /\ TicksAreExact /\ ToldHolds /\ AnswerHolds

LEMMA TickTypes ==
  ASSUME IInv
  PROVE  /\ chainLast \in Nat /\ chainFinalized \in Nat /\ chainFinalized <= chainLast
         /\ lastRequestId \in Nat /\ requestsCount \in Nat
         /\ unfinalizedRead = Unread \/ unfinalizedRead \in Nat
         /\ lastRead = Unread \/ lastRead \in Nat
         /\ Unread \notin Nat
  BY QueueConstants DEF IInv, TypeOK, Unread

\* A published tick was read, and its successor has read nothing yet.
LEMMA PublishedIsRead ==
  ASSUME IInv, PlanFetch \/ FetchPage
  PROVE  /\ unfinalizedRead # Unread /\ lastRead # Unread
         /\ UNCHANGED chain
         /\ \/ /\ pc' = "idle" /\ loaded' = TRUE /\ lastRequestId' = lastRead
               /\ requestsCount' = unfinalizedRead
               /\ unfinalizedRead' = Unread /\ lastRead' = Unread
            \/ /\ pc' # "idle"
               /\ UNCHANGED <<storage, unfinalizedRead, lastRead>>
<1>1. CASE PlanFetch
  BY <1>1 DEF PlanFetch, Publish, EndUpdate
<1>2. CASE FetchPage
  BY <1>2 DEF FetchPage, Publish, EndUpdate, IInv, FetchCompletesWindow
<1> QED
  BY <1>1, <1>2

\* What has been finalized stays so, for the chain, the storage and the running tick.
LEMMA FinalizedStays ==
  ASSUME RInv, TicksAreExact, NEW n \in Int, FinalizedUpTo(n),
         PlaceRequest \/ ReadCounters \/ Fetch \/ LoseTick
  PROVE  FinalizedUpTo(n)'
<1> USE TickTypes DEF FinalizedUpTo, RInv
<1>1. CASE PlaceRequest
  <2>1. /\ chainLast' = chainLast + 1
        /\ UNCHANGED <<chainFinalized, storage, unfinalizedRead, lastRead, inexact>>
        /\ placedDuring' = (placedDuring \/ (unfinalizedRead = Unread) # (lastRead = Unread))
    BY <1>1 DEF PlaceRequest, Place
  <2>2. ~placedDuring' => ~placedDuring /\ (unfinalizedRead # Unread => lastRead # Unread)
    BY <2>1
  <2> QED
    BY <2>1, <2>2 DEF storage
<1>2. CASE ReadCounters
  <2>1. UNCHANGED <<storage, inexact, placedDuring>>
    BY <1>2 DEF ReadCounters, Finalize, StartUpdate, ReadUnfinalized, ReadLast, ticks
  <2>2. CASE Finalize
    BY <2>1, <2>2 DEF Finalize, storage, locals
  <2>3. CASE StartUpdate
    BY <2>1, <2>3 DEF StartUpdate, storage, locals, chain
  <2>4. CASE ReadUnfinalized
    BY <2>1, <2>4 DEF ReadUnfinalized, storage, chain, TicksAreExact
  <2>5. CASE ReadLast
    BY <2>1, <2>5 DEF ReadLast, storage, chain
  <2> QED
    BY <1>2, <2>2, <2>3, <2>4, <2>5 DEF ReadCounters
<1>3. CASE Fetch
  <2>1. /\ PlanFetch \/ FetchPage
        /\ placedDuring' = (placedDuring /\ pc' # "idle")
        /\ inexact' = IF pc' = "idle" THEN placedDuring ELSE inexact
    BY <1>3 DEF Fetch
  <2>2. CASE pc' = "idle"
    <3>1. inexact' = placedDuring
      BY <2>1, <2>2, Zenon
    <3>2. /\ unfinalizedRead # Unread /\ lastRead # Unread /\ chainFinalized' = chainFinalized
          /\ lastRequestId' = lastRead /\ requestsCount' = unfinalizedRead
          /\ unfinalizedRead' = Unread
      BY <2>1, <2>2, PublishedIsRead DEF chain
    <3>3. ~inexact' => n <= lastRead - unfinalizedRead
      BY <3>1, <3>2
    <3> QED
      BY <3>2, <3>3
  <2>3. CASE pc' # "idle"
    <3>1. inexact' = inexact /\ (placedDuring' => placedDuring)
      BY <2>1, <2>3, Zenon
    <3>2. ~placedDuring' => ~placedDuring
      BY <2>1, <2>3, Zenon
    <3>3. UNCHANGED <<chainLast, chainFinalized, loaded, lastRequestId, requestsCount,
                      unfinalizedRead, lastRead>>
      BY <2>1, <2>3, PublishedIsRead DEF chain, storage
    <3> QED
      BY <3>1, <3>2, <3>3
  <2> QED
    BY <2>2, <2>3
<1>4. CASE LoseTick
  BY <1>4 DEF LoseTick, RejectPage, FailUpdate, EndUpdate, storage, chain
<1> QED
  BY <1>1, <1>2, <1>3, <1>4

LEMMA ExactStep ==
  ASSUME RInv, TicksAreExact, PlaceRequest \/ ReadCounters \/ Fetch \/ LoseTick
  PROVE  TicksAreExact'
<1> DEFINE current == ~placedDuring /\ lastRead # Unread /\ unfinalizedRead = Unread =>
                        lastRead = chainLast
<1> USE TickTypes DEF RInv
<1>1. current'
  <2>1. CASE PlaceRequest
    BY <2>1 DEF PlaceRequest, Place, TicksAreExact
  <2>2. CASE ReadCounters
    BY <2>2 DEF ReadCounters, Finalize, StartUpdate, ReadUnfinalized, ReadLast, ticks,
       TicksAreExact, locals, chain
  <2>3. CASE Fetch
    BY <2>3, PublishedIsRead DEF Fetch, TicksAreExact, chain
  <2>4. CASE LoseTick
    BY <2>4 DEF LoseTick, RejectPage, FailUpdate, EndUpdate
  <2> QED
    BY <2>1, <2>2, <2>3, <2>4
<1>2. ASSUME (loaded /\ ~inexact)'
      PROVE  FinalizedUpTo(lastRequestId - requestsCount)'
  <2>1. CASE UNCHANGED <<loaded, inexact, lastRequestId, requestsCount>>
    <3>1. FinalizedUpTo(lastRequestId - requestsCount)
      BY <1>2, <2>1 DEF TicksAreExact
    <3>2. lastRequestId - requestsCount \in Int
      OBVIOUS
    <3> QED
      BY <2>1, <3>1, <3>2, FinalizedStays DEF FinalizedUpTo
  <2>2. CASE ~UNCHANGED <<loaded, inexact, lastRequestId, requestsCount>>
    <3>1. Fetch
      BY <2>2 DEF PlaceRequest, Place, ReadCounters, Finalize, StartUpdate, ReadUnfinalized,
         ReadLast, LoseTick, RejectPage, FailUpdate, storage, ticks
    <3>2. PlanFetch \/ FetchPage
      BY <3>1 DEF Fetch
    <3>3. pc' = "idle" /\ inexact' = placedDuring
      BY <2>2, <3>1, <3>2, PublishedIsRead DEF Fetch, storage
    <3>4. /\ lastRequestId' = lastRead /\ requestsCount' = unfinalizedRead
          /\ unfinalizedRead # Unread /\ lastRead # Unread
          /\ unfinalizedRead' = Unread /\ chainFinalized' = chainFinalized
      BY <3>2, <3>3, PublishedIsRead DEF chain
    <3>5. ~placedDuring /\ ~placedBetween
      BY <1>2, <3>3 DEF TicksAreNoted
    <3>6. lastRead - unfinalizedRead <= chainFinalized
      BY <3>4, <3>5 DEF IInv, ReadsBounded
    <3> QED
      BY <3>4, <3>6 DEF FinalizedUpTo
  <2> QED
    BY <2>1, <2>2
<1> QED
  BY <1>1, <1>2 DEF TicksAreExact

\* The three questions about the queue by its two counters.
LEMMA QuestionsByCounters ==
  ASSUME IInv, NEW id \in Nat
  PROVE  /\ IsEmptyQueue(id) <=> requestsCount = 0 /\ id < lastRequestId
         /\ IsFinalized(id) <=> requestsCount > 0 /\ id <= lastRequestId - requestsCount
         /\ IsNotInQueueYet(id) <=>
              id > lastRequestId \/ (requestsCount = 0 /\ id = lastRequestId)
<1>1. /\ requests \in Seq(Int) /\ Len(requests) = requestsCount /\ requestsCount \in Nat
      /\ \A i \in 1..requestsCount : requests[i] = lastRequestId - requestsCount + i
      /\ lastRequestId \in Nat
  BY StoredShape DEF IInv, TypeOK
<1>2. DOMAIN requests = 1..requestsCount /\ (requests = <<>> <=> requestsCount = 0)
  BY <1>1, EmptySeq, LenProperties
<1>3. IsEmptyQueue(id) <=> requestsCount = 0 /\ id < lastRequestId
  BY <1>2 DEF IsEmptyQueue
<1>4. IsFinalized(id) <=> requestsCount > 0 /\ id <= lastRequestId - requestsCount
  <2>1. requestsCount > 0 => requests[1] = lastRequestId - requestsCount + 1
    BY <1>1
  <2> QED
    BY <1>1, <1>2, <2>1 DEF IsFinalized
<1>5. IsInQueue(id) <=> lastRequestId - requestsCount < id /\ id <= lastRequestId
  <2>1. IsInQueue(id) <=> \E i \in 1..requestsCount : lastRequestId - requestsCount + i = id
    BY <1>1, <1>2 DEF IsInQueue
  <2>2. ASSUME lastRequestId - requestsCount < id, id <= lastRequestId
        PROVE  \E i \in 1..requestsCount : lastRequestId - requestsCount + i = id
    <3> DEFINE k == id - (lastRequestId - requestsCount)
    <3>1. k \in 1..requestsCount /\ lastRequestId - requestsCount + k = id
      BY <1>1, <2>2
    <3> QED
      BY <3>1
  <2> QED
    BY <1>1, <2>1, <2>2
<1>6. IsNotInQueueYet(id) <=>
        id > lastRequestId \/ (requestsCount = 0 /\ id = lastRequestId)
  BY <1>1, <1>5 DEF IsNotInQueueYet
<1> QED
  BY <1>3, <1>4, <1>6

\* The status of the watched id, by the counters of the published tick.
LEMMA WatchedStatus ==
  ASSUME RInv, WatchTypes
  PROVE  LET first == lastRequestId - requestsCount
             status == Classified(watched)
         IN  \/ status = "initializing" /\ ~(loaded /\ others)
             \/ /\ loaded /\ others /\ status = "finalized" /\ watched <= first
             \/ /\ loaded /\ others /\ status = "calculating"
                /\ watched > lastRequestId \/ (requests = <<>> /\ watched = lastRequestId)
             \/ /\ loaded /\ others /\ status = "calculated"
                /\ first < watched /\ watched <= lastRequestId
<1> DEFINE first == lastRequestId - requestsCount
<1>1. /\ lastRequestId \in Nat /\ requestsCount \in Nat /\ watched \in Nat
      /\ requestsCount = 0 => requests = <<>>
  BY StoredShape, EmptySeq DEF RInv, IInv, TypeOK, WatchTypes
<1>2. CASE ~others
  BY <1>2 DEF Classified
<1>3. CASE others
  <2>1. Classified(watched) = StatusOf(watched)
    BY <1>3 DEF Classified
  <2>2. /\ IsEmptyQueue(watched) <=> requestsCount = 0 /\ watched < lastRequestId
        /\ IsFinalized(watched) <=> requestsCount > 0 /\ watched <= first
        /\ IsNotInQueueYet(watched) <=>
             watched > lastRequestId \/ (requestsCount = 0 /\ watched = lastRequestId)
    BY <1>1, QuestionsByCounters DEF RInv
  <2>3. CASE ~loaded
    BY <2>1, <2>3, StatusCases DEF RInv
  <2>4. CASE loaded /\ (IsEmptyQueue(watched) \/ IsFinalized(watched))
    <3>1. Classified(watched) = "finalized"
      BY <2>1, <2>4, StatusCases DEF RInv
    <3>2. watched <= first
      BY <1>1, <2>2, <2>4
    <3> QED
      BY <1>3, <2>4, <3>1, <3>2
  <2>5. CASE loaded /\ ~IsEmptyQueue(watched) /\ ~IsFinalized(watched) /\ IsNotInQueueYet(watched)
    <3>1. Classified(watched) = "calculating"
      BY <2>1, <2>5, StatusCases DEF RInv
    <3>2. watched > lastRequestId \/ (requests = <<>> /\ watched = lastRequestId)
      BY <1>1, <2>2, <2>5
    <3> QED
      BY <1>3, <2>5, <3>1, <3>2
  <2>6. CASE loaded /\ ~IsEmptyQueue(watched) /\ ~IsFinalized(watched) /\ ~IsNotInQueueYet(watched)
    <3>1. Classified(watched) = "calculated"
      BY <2>1, <2>6, StatusCases DEF RInv
    <3>2. first < watched /\ watched <= lastRequestId
      BY <1>1, <2>2, <2>6
    <3> QED
      BY <1>3, <2>6, <3>1, <3>2
  <2> QED
    BY <2>3, <2>4, <2>5, <2>6
<1> QED
  BY <1>2, <1>3

\* What is found on an exact tick is promised.
LEMMA StatusIsPromised ==
  ASSUME RInv, WatchTypes, TicksAreExact, ~inexact
  PROVE  Promised(Classified(watched))
<1>1. lastRequestId \in Nat /\ requestsCount \in Nat /\ watched \in Nat
      /\ requestsCount <= lastRequestId
  BY TickTypes DEF RInv, WatchTypes, WindowExists
<1>2. CASE ~(loaded /\ others)
  BY <1>2, WatchedStatus DEF Promised
<1>3. CASE loaded /\ others
  <2>1. Classified(watched) \in {"calculated", "finalized"} => watched <= lastRequestId
    BY <1>1, WatchedStatus
  <2>2. ASSUME Classified(watched) = "finalized" PROVE FinalizedUpTo(watched)
    <3>1. watched <= lastRequestId - requestsCount
      BY <2>2, <1>3, WatchedStatus
    <3>2. FinalizedUpTo(lastRequestId - requestsCount)
      BY <1>3 DEF TicksAreExact
    <3> QED
      BY <1>1, <3>1, <3>2, TickTypes DEF FinalizedUpTo, RInv
  <2> QED
    BY <1>3, <2>1, <2>2 DEF Promised
<1> QED
  BY <1>2, <1>3

\* What is found on an exact tick is not behind what was promised before.
LEMMA StatusIsNotBehind ==
  ASSUME RInv, WatchTypes, TicksAreExact, ~inexact, ToldHolds
  PROVE  NotBehind(Classified(watched), requests = <<>> /\ watched = lastRequestId)
<1> DEFINE first == lastRequestId - requestsCount
           status == Classified(watched)
           gone == requests = <<>> /\ watched = lastRequestId
<1> SUFFICES ASSUME told.exact
             PROVE  (gone /\ status = "calculating") \/ Rank(status) >= Rank(told.status)
  BY Zenon DEF NotBehind
<1>1. lastRequestId \in Nat /\ requestsCount \in Nat /\ watched \in Nat
  BY TickTypes DEF RInv, WatchTypes
<1>2. Promised(told.status)
  BY DEF ToldHolds
<1>3. Rank("none") = 0
  BY DEF Rank
<1>4. told.status \in Statuses \cup {"none"}
  BY DEF WatchTypes
<1>5. Rank(status) \in 1..4
  <2>1. status \in Statuses
    BY WatchedStatus DEF Statuses
  <2> HIDE DEF status
  <2> QED
    BY <2>1, Ranks DEF Statuses
<1>6. CASE told.status \in {"none", "initializing"}
  BY <1>3, <1>5, <1>6, Ranks
<1>7. CASE told.status = "calculating"
  <2>1. loaded /\ others
    BY <1>2, <1>7 DEF Promised
  <2> QED
    BY <1>7, <2>1, WatchedStatus, Ranks
<1>8. CASE told.status = "calculated"
  <2>1. loaded /\ others /\ watched <= lastRequestId
    BY <1>2, <1>8 DEF Promised
  <2>2. status = "calculating" => gone
    BY <1>1, <2>1, WatchedStatus
  <2> QED
    BY <1>8, <2>1, <2>2, WatchedStatus, Ranks
<1>9. CASE told.status = "finalized"
  <2>1. loaded /\ others /\ watched <= lastRequestId /\ FinalizedUpTo(watched)
    BY <1>2, <1>9 DEF Promised
  <2>2. watched <= first
    BY <2>1 DEF FinalizedUpTo
  <2>3. status = "calculating" => gone
    BY <1>1, <2>1, WatchedStatus
  <2>4. status # "calculated"
    BY <1>1, <2>2, WatchedStatus
  <2> QED
    BY <1>9, <2>1, <2>3, <2>4, WatchedStatus, Ranks
<1> QED
  BY <1>4, <1>6, <1>7, <1>8, <1>9 DEF Statuses

\* A promise is kept while the queue and its job go on.
LEMMA PromiseStays ==
  ASSUME RInv, TicksAreExact, WatchTypes, NEW status, Promised(status),
         PlaceRequest \/ ReadCounters \/ Fetch \/ LoseTick
  PROVE  Promised(status)'
<1>1. others' = others /\ watched' = watched /\ watched \in Nat
  BY DEF PlaceRequest, ReadCounters, Fetch, LoseTick, WatchTypes
<1>2. loaded => loaded'
  BY PublishedIsRead DEF PlaceRequest, Place, ReadCounters, Finalize, StartUpdate,
     ReadUnfinalized, ReadLast, Fetch, LoseTick, RejectPage, FailUpdate, storage, RInv
<1>3. lastRequestId' >= lastRequestId /\ lastRequestId' \in Nat /\ lastRequestId \in Nat
  <2>1. PlanFetch \/ FetchPage \/ UNCHANGED lastRequestId
    BY DEF PlaceRequest, Place, ReadCounters, Finalize, StartUpdate, ReadUnfinalized,
       ReadLast, Fetch, LoseTick, RejectPage, FailUpdate, storage
  <2> QED
    BY <2>1, LastIdGrows DEF RInv
<1>4. FinalizedUpTo(watched) => FinalizedUpTo(watched)'
  <2>1. ASSUME FinalizedUpTo(watched) PROVE FinalizedUpTo(watched)'
    <3> DEFINE n == watched
    <3>1. n \in Int /\ FinalizedUpTo(n) /\ n' = n
      BY <1>1, <2>1
    <3> QED
      BY <1>1, <3>1, FinalizedStays DEF FinalizedUpTo
  <2> QED
    BY <2>1
<1>5. (status \in {"calculated", "finalized"} => watched <= lastRequestId)'
  BY <1>1, <1>3 DEF Promised
<1> QED
  BY <1>1, <1>2, <1>4, <1>5 DEF Promised

\* Steps of a response change neither what is promised nor the ticks.
LEMMA QuietStep ==
  ASSUME UNCHANGED <<chain, storage, locals, ticks, watched>>, others => others', TicksAreExact
  PROVE  TicksAreExact' /\ \A status : Promised(status) => Promised(status)'
<1>1. \A n : FinalizedUpTo(n) => FinalizedUpTo(n)'
  BY DEF FinalizedUpTo, chain, storage, locals, ticks
<1>2. TicksAreExact'
  BY DEF TicksAreExact, FinalizedUpTo, chain, storage, locals, ticks
<1>3. \A status : Promised(status) => Promised(status)'
  BY DEF Promised, FinalizedUpTo, chain, storage, locals, ticks
<1> QED
  BY <1>2, <1>3

LEMMA InitPInv == TInit => PInv
<1> SUFFICES ASSUME TInit PROVE PInv
  OBVIOUS
<1>1. RInv
  BY InitRInv
<1>2. /\ told = Untold /\ statuses = <<>> /\ stage = "none"
      /\ loaded = FALSE /\ unfinalizedRead = Unread /\ lastRead = Unread
      /\ watched \in UNION {{list[i] : i \in DOMAIN list} : list \in AskedLists}
  BY DEF TInit, Init
<1>3. watched \in Nat
  <2>1. PICK list \in AskedLists : watched \in {list[i] : i \in DOMAIN list}
    BY <1>2
  <2>2. list \in Seq(1..MaxRequest + 1)
    BY RequestTimeConstants
  <2>3. \A i \in DOMAIN list : list[i] \in 1..MaxRequest + 1
    BY <2>2, ElementOfSeq, LenProperties
  <2> QED
    BY <2>1, <2>3, QueueConstants
<1>4. told.status = "none"
  BY <1>2 DEF Untold
<1>5. WatchTypes
  BY <1>2, <1>3, <1>4 DEF WatchTypes
<1>6. TicksAreExact
  BY <1>2 DEF TicksAreExact
<1>7. ToldHolds /\ AnswerHolds
  BY <1>2, <1>4 DEF ToldHolds, AnswerHolds, Promised
<1> QED
  BY <1>1, <1>5, <1>6, <1>7 DEF PInv


LEMMA ClassifyPInv ==
  ASSUME PInv, Classify
  PROVE  WatchTypes' /\ TicksAreExact' /\ ToldHolds' /\ AnswerHolds'
<1> DEFINE gone == requests = <<>> /\ watched = lastRequestId
<1>1. /\ asked' = asked /\ statuses' = [i \in DOMAIN asked |-> Classified(asked[i])]
      /\ exact' = ~inexact /\ emptied' = gone /\ told' = told
      /\ UNCHANGED <<chain, storage, locals, ticks, watched>> /\ others' = others
  BY Zenon DEF Classify, vars
<1>2. TicksAreExact' /\ \A status : Promised(status) => Promised(status)'
  BY <1>1, QuietStep DEF PInv
<1>3. ToldHolds'
  BY <1>1, <1>2 DEF PInv, ToldHolds, Promised
<1>4. \A id : Classified(id) \in Statuses
  BY StatusCases DEF Classified, Statuses, PInv, RInv
<1>5. WatchTypes'
  BY <1>1, <1>4 DEF PInv, WatchTypes
<1>6. ASSUME exact', NEW i \in DOMAIN asked, asked[i] = watched
      PROVE  Promised(statuses[i])' /\ NotBehind(statuses[i], emptied)'
  <2>1. ~inexact /\ statuses'[i] = Classified(watched)
    BY <1>1, <1>6
  <2>2. Promised(Classified(watched)) /\ NotBehind(Classified(watched), gone)
    BY <2>1, StatusIsPromised, StatusIsNotBehind DEF PInv
  <2> DEFINE status == Classified(watched)
  <2>3. Promised(statuses[i])'
    <3>1. Promised(status) /\ statuses'[i] = status
      BY <2>1, <2>2
    <3> HIDE DEF status
    <3> QED
      BY <1>1, <3>1 DEF Promised, FinalizedUpTo, chain, storage, locals, ticks
  <2>4. NotBehind(statuses[i], emptied)'
    BY <1>1, <2>1, <2>2, Zenon DEF NotBehind
  <2> QED
    BY <2>3, <2>4
<1>7. AnswerHolds'
  BY <1>1, <1>6, Zenon DEF AnswerHolds
<1> QED
  BY <1>2, <1>3, <1>5, <1>7

\* The response is told to the client.
LEMMA RespondPInv ==
  ASSUME PInv, Respond
  PROVE  WatchTypes' /\ TicksAreExact' /\ ToldHolds' /\ AnswerHolds'
<1>1. /\ stage = "forecasts" /\ stage' = "none" /\ statuses' = <<>>
      /\ told' = IF \E i \in DOMAIN asked : asked[i] = watched
                 THEN [status |-> statuses[CHOOSE i \in DOMAIN asked : asked[i] = watched],
                       exact |-> exact, emptiedAt |-> emptied]
                 ELSE told
      /\ UNCHANGED <<chain, storage, locals, ticks, watched>> /\ others' = others
  BY Zenon DEF Respond, NoResponse, vars
<1>2. TicksAreExact' /\ \A status : Promised(status) => Promised(status)'
  BY <1>1, QuietStep DEF PInv
<1>3. AnswerHolds'
  BY <1>1 DEF AnswerHolds
<1>4. CASE ~\E i \in DOMAIN asked : asked[i] = watched
  <2>1. told' = told
    BY <1>1, <1>4
  <2> QED
    BY <1>1, <1>2, <1>3, <2>1 DEF PInv, WatchTypes, ToldHolds, Promised
<1>5. CASE \E i \in DOMAIN asked : asked[i] = watched
  <2>1. PICK i \in DOMAIN asked :
          /\ asked[i] = watched
          /\ told' = [status |-> statuses[i], exact |-> exact, emptiedAt |-> emptied]
    BY <1>1, <1>5
  <2>2. told'.status = statuses[i] /\ told'.exact = exact
    BY <2>1, Zenon
  <2>3. i \in DOMAIN statuses
    BY <1>1, <2>1 DEF PInv, RInv, ResponseInv, ResponseStages
  <2>4. WatchTypes'
    BY <1>1, <2>2, <2>3 DEF PInv, WatchTypes
  <2>5. ASSUME exact PROVE Promised(told.status)'
    <3>1. Promised(statuses[i])
      BY <1>1, <2>1, <2>5 DEF PInv, AnswerHolds
    <3> QED
      BY <1>1, <2>2, <3>1 DEF Promised, FinalizedUpTo, chain, storage, locals, ticks
  <2>6. ToldHolds'
    BY <2>2, <2>5, Zenon DEF ToldHolds
  <2> QED
    BY <1>2, <1>3, <2>4, <2>6
<1> QED
  BY <1>4, <1>5

LEMMA StepPInv == PInv /\ [TNext]_allVars => PInv'
<1> SUFFICES ASSUME PInv, [TNext]_allVars PROVE PInv'
  OBVIOUS
<1>0. RInv'
  BY StepRInv DEF PInv
<1>1. CASE PlaceRequest \/ ReadCounters \/ Fetch \/ LoseTick
  <2>1. UNCHANGED <<response, watched, told>>
    BY <1>1 DEF PlaceRequest, ReadCounters, Fetch, LoseTick
  <2>2. WatchTypes'
    BY <2>1 DEF PInv, WatchTypes, response
  <2>3. TicksAreExact'
    BY <1>1, ExactStep DEF PInv
  <2>4. ToldHolds'
    <3>1. ASSUME told.exact PROVE Promised(told.status)'
      <4> DEFINE status == told.status
      <4>1. Promised(status) /\ status' = status
        BY <2>1, <3>1 DEF PInv, ToldHolds
      <4> QED
        BY <1>1, <2>1, <4>1, PromiseStays DEF PInv, Promised
    <3> QED
      BY <2>1, <3>1 DEF ToldHolds
  <2>5. ASSUME stage = "forecasts", exact, NEW i \in DOMAIN asked, asked[i] = watched
        PROVE  Promised(statuses[i])' /\ NotBehind(statuses[i], emptied)'
    <3>1. Promised(statuses[i]) /\ NotBehind(statuses[i], emptied)
      BY <2>5 DEF PInv, AnswerHolds
    <3>2. Promised(statuses[i])'
      BY <1>1, <2>1, <3>1, PromiseStays DEF PInv, Promised, response
    <3> QED
      BY <2>1, <3>1, <3>2 DEF NotBehind, response
  <2>6. AnswerHolds'
    BY <2>1, <2>5 DEF AnswerHolds, response
  <2> QED
    BY <1>0, <2>2, <2>3, <2>4, <2>6 DEF PInv
<1>2. CASE RestartAll
  <2>1. /\ loaded' = FALSE /\ unfinalizedRead' = Unread /\ lastRead' = Unread
        /\ told' = Untold /\ watched' = watched /\ statuses' = <<>> /\ stage' = "none"
    BY <1>2 DEF RestartAll, Restart, EndUpdate, NoResponse
  <2>2. told'.status = "none"
    BY <2>1 DEF Untold
  <2>3. WatchTypes' /\ TicksAreExact'
    BY <2>1, <2>2 DEF PInv, WatchTypes, TicksAreExact
  <2>4. ToldHolds' /\ AnswerHolds'
    BY <2>1, <2>2 DEF ToldHolds, AnswerHolds, Promised
  <2> QED
    BY <1>0, <2>3, <2>4 DEF PInv
<1>3. CASE \/ LoadOthers \/ AskFor \/ (\E i \in DOMAIN asked : Settle(i)) \/ FailResponse
           \/ UNCHANGED allVars
  <2>1. /\ UNCHANGED <<chain, storage, locals, ticks, watched>> /\ (others => others')
        /\ told' = told
    BY <1>3 DEF LoadOthers, AskFor, Settle, FailResponse, allVars, vars
  <2>2. TicksAreExact' /\ \A status : Promised(status) => Promised(status)'
    BY <2>1, QuietStep DEF PInv
  <2>3. ToldHolds'
    BY <2>1, <2>2 DEF PInv, ToldHolds, Promised
  <2>4. CASE UNCHANGED <<stage, asked, statuses, exact, emptied>>
    <3>1. WatchTypes'
      BY <2>1, <2>4 DEF PInv, WatchTypes
    <3>2. ASSUME stage = "forecasts", exact, NEW i \in DOMAIN asked, asked[i] = watched
          PROVE  Promised(statuses[i])' /\ NotBehind(statuses[i], emptied)'
      <4>1. Promised(statuses[i]) /\ NotBehind(statuses[i], emptied)
        BY <3>2 DEF PInv, AnswerHolds
      <4> QED
        BY <2>1, <2>2, <2>4, <4>1 DEF NotBehind, Promised
    <3>3. AnswerHolds'
      BY <2>1, <2>4, <3>2 DEF AnswerHolds
    <3> QED
      BY <1>0, <2>2, <2>3, <3>1, <3>3 DEF PInv
  <2>5. CASE stage' # "forecasts" /\ (statuses' = statuses \/ statuses' = <<>>)
    BY <1>0, <2>1, <2>2, <2>3, <2>5 DEF PInv, WatchTypes, AnswerHolds
  <2>6. \/ UNCHANGED <<stage, asked, statuses, exact, emptied>>
        \/ stage' # "forecasts" /\ (statuses' = statuses \/ statuses' = <<>>)
    BY <1>3 DEF LoadOthers, AskFor, Settle, FailResponse, NoResponse, allVars, response
  <2> QED
    BY <2>4, <2>5, <2>6
<1>4. CASE Classify
  BY <1>0, <1>4, ClassifyPInv DEF PInv
<1>5. CASE Respond
  BY <1>0, <1>5, RespondPInv DEF PInv
<1> QED
  BY <1>1, <1>2, <1>3, <1>4, <1>5 DEF TNext

\* A client that polls is never told that its request has gone back, whatever is
\* published, restarted or lost between two of its answers, for any number of
\* requests and any size of a page.
THEOREM StatusesNeverGoBack == TSpec => StatusNeverGoesBack
<1>1. ASSUME PInv, [TNext]_allVars
      PROVE  [ /\ told' # Untold
               /\ ~(told'.emptiedAt /\ told'.status = "calculating")
               /\ told.exact /\ told'.exact
               => Rank(told'.status) >= Rank(told.status) ]_allVars
  <2> SUFFICES ASSUME TNext, told' # Untold, told.exact, told'.exact,
                      ~(told'.emptiedAt /\ told'.status = "calculating")
               PROVE  Rank(told'.status) >= Rank(told.status)
    BY <1>1
  <2>1. CASE told' = told
    <3>1. Rank("none") = 0
      BY DEF Rank
    <3>2. \A status \in Statuses \cup {"none"} : Rank(status) \in Int
      BY <3>1, Ranks DEF Statuses
    <3>3. Rank(told.status) \in Int
      BY <1>1, <3>2 DEF PInv, WatchTypes
    <3> QED
      BY <2>1, <3>3
  <2>2. CASE told' # told
    <3>1. Respond
      BY <2>2 DEF TNext, PlaceRequest, ReadCounters, Fetch, LoseTick, RestartAll, LoadOthers,
         AskFor, Classify, Settle, FailResponse
    <3>2. PICK i \in DOMAIN asked :
            /\ asked[i] = watched
            /\ told' = [status |-> statuses[i], exact |-> exact, emptiedAt |-> emptied]
      BY <2>2, <3>1 DEF Respond
    <3>3. told'.status = statuses[i] /\ told'.exact = exact /\ told'.emptiedAt = emptied
      BY <3>2, Zenon
    <3>4. NotBehind(statuses[i], emptied)
      <4>1. stage = "forecasts" /\ exact
        BY <1>1, <3>1, <3>3, Zenon DEF Respond
      <4> QED
        BY <1>1, <3>2, <4>1, Zenon DEF PInv, AnswerHolds
    <3> QED
      BY <3>3, <3>4 DEF NotBehind
  <2> QED
    BY <2>1, <2>2
<1> QED
  BY <1>1, InitPInv, StepPInv, PTL DEF TSpec, StatusNeverGoesBack
=============================================================================
