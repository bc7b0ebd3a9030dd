------------------------- MODULE ConsensusStream_proofs -------------------------
(***************************************************************************)
(* The streamed read for every number of attempts, limit, delay, size of a *)
(* batch and states of the chain, and the payload of a slot for every fork *)
(* that is announced, moved and withdrawn.                                 *)
(***************************************************************************)
EXTENDS ConsensusStream, ForkEpoch, SequenceTheorems, TLAPS

Item == (DOMAIN Sizes) \X Nat

(***************************************************************************)
(* Slices of the list of a state.                                          *)
(***************************************************************************)
LEMMA FunctionIsSeq ==
  ASSUME NEW S, NEW n \in Nat, NEW f \in [1..n -> S]
  PROVE  f \in Seq(S) /\ Len(f) = n
  OBVIOUS

LEMMA SliceIsSeq ==
  ASSUME NEW s \in DOMAIN Sizes, NEW m \in Nat \ {0}, NEW n \in Nat, n >= m - 1
  PROVE  /\ Slice(s, m, n) \in Seq(Item)
         /\ Len(Slice(s, m, n)) = n - m + 1
         /\ \A i \in 1..(n - m + 1) : Slice(s, m, n)[i] = <<s, m + i - 1>>
<1>1. n - m + 1 \in Nat /\ \A i \in 1..(n - m + 1) : m + i - 1 \in Nat
  OBVIOUS
<1>2. Slice(s, m, n) = [i \in 1..(n - m + 1) |-> <<s, m + i - 1>>]
  BY DEF Slice
<1>3. \A i \in 1..(n - m + 1) : <<s, m + i - 1>> \in Item
  BY <1>1 DEF Item
<1>4. Slice(s, m, n) \in [1..(n - m + 1) -> Item]
  BY <1>2, <1>3
<1>5. Slice(s, m, n) \in Seq(Item) /\ Len(Slice(s, m, n)) = n - m + 1
  BY <1>1, <1>4, FunctionIsSeq
<1> QED
  BY <1>2, <1>5

\* The first validators of a state.
LEMMA PrefixIsSeq ==
  ASSUME NEW s \in DOMAIN Sizes, NEW n \in Nat
  PROVE  /\ Slice(s, 1, n) \in Seq(Item) /\ Len(Slice(s, 1, n)) = n
         /\ \A i \in 1..n : Slice(s, 1, n)[i] = <<s, i>>
<1>1. 1 \in Nat \ {0} /\ n >= 1 - 1 /\ n - 1 + 1 = n
  OBVIOUS
<1>2. \A i \in 1..n : 1 + i - 1 = i
  OBVIOUS
<1>3. /\ Slice(s, 1, n) \in Seq(Item) /\ Len(Slice(s, 1, n)) = n - 1 + 1
      /\ \A i \in 1..(n - 1 + 1) : Slice(s, 1, n)[i] = <<s, 1 + i - 1>>
  BY <1>1, SliceIsSeq
<1> QED
  BY <1>1, <1>2, <1>3

\* A slice that follows another makes a longer one with it.
LEMMA AdjacentSlices ==
  ASSUME NEW s \in DOMAIN Sizes, NEW m \in Nat, NEW n \in Nat, n >= m
  PROVE  Slice(s, 1, m) \o Slice(s, m + 1, n) = Slice(s, 1, n)
<1> DEFINE P == Slice(s, 1, m)  Q == Slice(s, m + 1, n)  R == Slice(s, 1, n)
<1>1. P \in Seq(Item) /\ Len(P) = m /\ \A i \in 1..m : P[i] = <<s, i>>
  BY PrefixIsSeq
<1>2. Q \in Seq(Item) /\ Len(Q) = n - m /\ \A i \in 1..(n - m) : Q[i] = <<s, m + i>>
  <2>1. m + 1 \in Nat \ {0} /\ n >= (m + 1) - 1 /\ n - (m + 1) + 1 = n - m
    OBVIOUS
  <2>2. \A i \in 1..(n - m) : (m + 1) + i - 1 = m + i
    OBVIOUS
  <2>3. /\ Q \in Seq(Item) /\ Len(Q) = n - (m + 1) + 1
        /\ \A i \in 1..(n - (m + 1) + 1) : Q[i] = <<s, (m + 1) + i - 1>>
    BY <2>1, SliceIsSeq
  <2> HIDE DEF Q
  <2> QED
    BY <2>1, <2>2, <2>3
<1>3. R \in Seq(Item) /\ Len(R) = n /\ \A i \in 1..n : R[i] = <<s, i>>
  BY PrefixIsSeq
<1> HIDE DEF P, Q, R
<1> DEFINE C == P \o Q
<1>4. /\ C \in Seq(Item) /\ Len(C) = n
      /\ \A i \in 1..n : C[i] = IF i <= m THEN P[i] ELSE Q[i - m]
  <2>1. Len(P) + Len(Q) = n
    BY <1>1, <1>2
  <2> QED
    BY <1>1, <1>2, <2>1, ConcatProperties
<1> HIDE DEF C
<1>5. ASSUME NEW i \in 1..n PROVE C[i] = R[i]
  <2>1. CASE i <= m
    <3>1. i \in 1..m
      BY <2>1
    <3>2. P[i] = <<s, i>> /\ R[i] = <<s, i>>
      BY <1>1, <1>3, <3>1
    <3>3. C[i] = P[i]
      BY <1>4, <2>1
    <3> QED
      BY <3>2, <3>3
  <2>2. CASE ~(i <= m)
    <3>1. i - m \in 1..(n - m) /\ m + (i - m) = i
      BY <2>2
    <3>2. Q[i - m] = <<s, m + (i - m)>> /\ R[i] = <<s, i>>
      BY <1>2, <1>3, <3>1
    <3>3. C[i] = Q[i - m]
      BY <1>4, <2>2
    <3> QED
      BY <3>1, <3>2, <3>3
  <2> QED
    BY <2>1, <2>2
<1>6. C = R
  BY <1>3, <1>4, <1>5, SeqEqual
<1> QED
  BY <1>6 DEF C, P, Q, R

LEMMA WholeIsSlice ==
  ASSUME NEW s \in DOMAIN Sizes
  PROVE  Whole(s) = Slice(s, 1, Sizes[s])
<1>1. Sizes[s] \in Nat
  BY StreamConstants
<1>2. Sizes[s] - 1 + 1 = Sizes[s] /\ \A i \in 1..Sizes[s] : 1 + i - 1 = i
  BY <1>1
<1> QED
  BY <1>2 DEF Whole, Slice

LEMMA EmptySlice ==
  ASSUME NEW s \in DOMAIN Sizes
  PROVE  Slice(s, 1, 0) = <<>>
<1>1. Slice(s, 1, 0) \in Seq(Item) /\ Len(Slice(s, 1, 0)) = 0
  BY PrefixIsSeq
<1> QED
  BY <1>1, EmptySeq

(***************************************************************************)
(* The inductive invariant.                                                *)
(***************************************************************************)
\* The list of an attempt is the part of its state that its batches have brought so
\* far without the one in flight, whether the attempt goes on or was given up.
ListIsPrefix == \A a \in Attempts :
  /\ held[a] <= sent[a]
  /\ from[a] = 0 => sent[a] = 0 /\ ~closed[a] /\ data[a] = <<>>
  /\ from[a] # 0 => /\ sent[a] <= Sizes[from[a]]
                    /\ data[a] = Slice(from[a], 1, sent[a] - held[a])
                    /\ closed[a] => sent[a] = Sizes[from[a]]

\* Which attempts have a stream.
StreamsOfAttempts ==
  /\ \A a \in Attempts : a > attempt => from[a] = 0
  /\ phase = "opening" => from[attempt] = 0
  /\ phase = "reading" => from[attempt] # 0
  /\ phase = "pausing" => from[attempt] = 0 /\ try < Tries
  /\ phase = "waiting" => attempt < MaxAttempts

\* The latest moment at which the request k of the attempt a begins.
Latest(a, k) == (a - 1) * (LongestFetch + Delay) + (k - 1) * (Limit + Pause)

\* How late a request may begin and how long it may last.
RequestsInTime ==
  /\ opened[Current] <= Latest(attempt, try)
  /\ opened[Current] <= now
  /\ Active => Current \in armed \/ closed[attempt]
  /\ phase \notin {"pausing", "waiting"} => now <= opened[Current] + Limit
  /\ phase = "pausing" => now <= wakes /\ wakes <= opened[Current] + Limit + Pause
  /\ phase = "waiting" => now <= wakes /\ wakes <= opened[Current] + Limit + Delay

IInv == /\ TypeOK /\ ListIsPrefix /\ StreamsOfAttempts /\ RequestsInTime
        /\ ResultIsOneState /\ NoneAbortedEarly /\ FailsAfterLastAttempt

LEMMA Consts ==
  /\ MaxAttempts \in Nat \ {0} /\ Tries \in Nat \ {0} /\ BatchSize \in Nat \ {0}
  /\ Delay \in Nat /\ Pause \in Nat /\ Limit \in Nat \ {0}
  /\ \A s \in DOMAIN Sizes : Sizes[s] \in Nat
  /\ DOMAIN Sizes = 1..Len(Sizes) /\ Len(Sizes) \in Nat \ {0}
  BY StreamConstants, EmptySeq

(***************************************************************************)
(* The time of the requests.                                               *)
(***************************************************************************)
LEMMA Times ==
  ASSUME NEW c \in Nat, NEW m \in Nat, NEW n \in Nat, m <= n
  PROVE  m * c \in Nat /\ n * c \in Nat /\ m * c <= n * c /\ (m + 1) * c = m * c + c
<1>1. n * c = m * c + (n - m) * c /\ m * c \in Nat /\ n * c \in Nat /\ (n - m) * c \in Nat
  OBVIOUS
<1>2. (m + 1) * c = m * c + c
  OBVIOUS
<1> QED
  BY <1>1, <1>2

\* The last request of a fetch ends within the time of the fetch.
LEMMA FetchTime ==
  ASSUME NEW k \in 1..Tries
  PROVE  /\ LongestFetch \in Nat /\ (k - 1) * (Limit + Pause) \in Nat
         /\ (k - 1) * (Limit + Pause) + Limit <= LongestFetch
         /\ ((k + 1) - 1) * (Limit + Pause) = (k - 1) * (Limit + Pause) + Limit + Pause
<1> DEFINE c == Limit + Pause  m == k - 1  n == Tries - 1
<1>1. c \in Nat /\ m \in Nat /\ n \in Nat /\ m <= n /\ Limit \in Nat /\ Pause \in Nat
  BY Consts
<1>2. LongestFetch = n * c + Limit
  BY Consts DEF LongestFetch
<1>3. m * c \in Nat /\ n * c \in Nat /\ m * c <= n * c /\ (m + 1) * c = m * c + c
  <2> HIDE DEF c, m, n
  <2> QED
    BY <1>1, Times
<1>4. (k + 1) - 1 = m + 1
  BY Consts
<1>5. LongestFetch \in Nat /\ m * c + Limit <= LongestFetch
  <2> DEFINE mc == m * c  nc == n * c
  <2>1. LongestFetch = nc + Limit /\ mc \in Nat /\ nc \in Nat /\ mc <= nc
    BY <1>2, <1>3
  <2> HIDE DEF mc, nc
  <2>2. LongestFetch \in Nat /\ mc + Limit <= LongestFetch
    BY <1>1, <2>1
  <2> QED
    BY <2>2 DEF mc
<1>6. ((k + 1) - 1) * c = m * c + Limit + Pause
  <2>1. ((k + 1) - 1) * c = m * c + c
    BY <1>3, <1>4
  <2> DEFINE mc == m * c
  <2>2. mc + c = mc + Limit + Pause
    <3>1. mc \in Nat
      BY <1>3
    <3> HIDE DEF mc
    <3> QED
      BY <1>1, <3>1
  <2> QED
    BY <2>1, <2>2 DEF mc
<1> QED
  BY <1>3, <1>5, <1>6

\* What the latest moments of successive requests and attempts have to do with one
\* another, and with the end of the call.
LEMMA LatestMoments ==
  ASSUME NEW a \in Attempts, NEW k \in 1..Tries
  PROVE  /\ Latest(a, k) \in Nat
         /\ Latest(a, k) + Limit + Pause = Latest(a, k + 1)
         /\ Latest(a, k) + Limit + Delay <= Latest(a + 1, 1)
         /\ Latest(a, k) + Limit <= MaxAttempts * LongestFetch + (MaxAttempts - 1) * Delay
<1> DEFINE f == LongestFetch  c == LongestFetch + Delay  m == a - 1  n == MaxAttempts - 1
           q == (k - 1) * (Limit + Pause)
<1>1. /\ f \in Nat /\ q \in Nat /\ q + Limit <= f
      /\ ((k + 1) - 1) * (Limit + Pause) = q + Limit + Pause
  BY FetchTime
<1>2. /\ c \in Nat /\ m \in Nat /\ n \in Nat /\ m <= n /\ a \in Nat
      /\ Limit \in Nat /\ Pause \in Nat /\ Delay \in Nat
  BY <1>1, Consts DEF Attempts
<1>3. m * c \in Nat /\ n * c \in Nat /\ m * c <= n * c /\ (m + 1) * c = m * c + c
  <2> HIDE DEF c, m, n
  <2> QED
    BY <1>2, Times
<1>4. Latest(a, k) = m * c + q /\ Latest(a, k + 1) = m * c + (q + Limit + Pause)
  BY <1>1 DEF Latest
<1>5. Latest(a + 1, 1) = (m + 1) * c
  <2>1. (a + 1) - 1 = m + 1 /\ (1 - 1) * (Limit + Pause) = 0
    BY <1>2
  <2>2. Latest(a + 1, 1) = (m + 1) * c + 0
    BY <2>1 DEF Latest
  <2>3. (m + 1) * c \in Nat
    <3> DEFINE mc == m * c
    <3>1. mc \in Nat /\ (m + 1) * c = mc + c
      BY <1>3
    <3> HIDE DEF mc
    <3>2. mc + c \in Nat
      BY <1>2, <3>1
    <3> QED
      BY <3>1, <3>2
  <2> DEFINE e == (m + 1) * c
  <2> HIDE DEF e
  <2>4. e \in Nat => e + 0 = e
    OBVIOUS
  <2> QED
    BY <2>2, <2>3, <2>4 DEF e
<1>6. MaxAttempts * LongestFetch + (MaxAttempts - 1) * Delay = n * c + f
  BY <1>1, <1>2, Consts
<1> DEFINE mc == m * c  nc == n * c
<1>7. /\ mc \in Nat /\ nc \in Nat /\ mc <= nc
      /\ Latest(a, k) = mc + q /\ Latest(a, k + 1) = mc + (q + Limit + Pause)
      /\ Latest(a + 1, 1) = mc + c
      /\ MaxAttempts * LongestFetch + (MaxAttempts - 1) * Delay = nc + f
  BY <1>3, <1>4, <1>5, <1>6
<1>8. c = f + Delay
  OBVIOUS
<1> HIDE DEF f, c, m, n, q, mc, nc
<1> QED
  BY <1>1, <1>2, <1>7, <1>8

LEMMA InitIInv == Init => IInv
<1> SUFFICES ASSUME Init PROVE IInv
  OBVIOUS
<1>1. 1 \in DOMAIN Sizes /\ 1 \in Attempts /\ Attempts \subseteq Nat
  BY Consts DEF Attempts
<1>2. <<>> \in Seq(Item)
  BY EmptySeq
<1>3. TypeOK
  BY <1>1, <1>2, Consts DEF Init, TypeOK, Item, Current, Requests
<1>4. ListIsPrefix /\ StreamsOfAttempts /\ ResultIsOneState /\ NoneAbortedEarly
  BY <1>1 DEF Init, ListIsPrefix, StreamsOfAttempts, ResultIsOneState, NoneAbortedEarly
<1>5. RequestsInTime /\ FailsAfterLastAttempt
  <2>1. Latest(1, 1) \in Nat
    BY <1>1, Consts, LatestMoments
  <2> QED
    BY <1>1, <2>1, Consts DEF Init, RequestsInTime, FailsAfterLastAttempt, Active, Current, Requests
<1> QED
  BY <1>3, <1>4, <1>5 DEF IInv

LEMMA Typed ==
  ASSUME IInv
  PROVE  /\ now \in Nat /\ attempt \in Nat /\ attempt \in Attempts /\ wakes \in Nat
         /\ try \in 1..Tries /\ Current \in Requests
         /\ opened[Current] \in Nat /\ Latest(attempt, try) \in Nat
         /\ head \in DOMAIN Sizes
         /\ \A a \in Attempts : /\ a \in Nat /\ sent[a] \in Nat
                                /\ held[a] \in Nat /\ from[a] \in 0..head
                                /\ closed[a] \in BOOLEAN /\ data[a] \in Seq(Item)
                                /\ from[a] # 0 => from[a] \in DOMAIN Sizes /\ Sizes[from[a]] \in Nat
<1>1. /\ head \in 1..Len(Sizes) /\ attempt \in Attempts /\ Attempts \subseteq Nat
      /\ now \in Nat /\ wakes \in Nat /\ DOMAIN Sizes = 1..Len(Sizes)
      /\ try \in 1..Tries /\ Current \in Requests /\ opened[Current] \in Nat
  BY Consts DEF IInv, TypeOK, Attempts, Current, Requests
<1>2. \A a \in Attempts : /\ sent[a] \in Nat /\ held[a] \in 0..BatchSize
                          /\ from[a] \in 0..head /\ closed[a] \in BOOLEAN /\ data[a] \in Seq(Item)
  BY DEF IInv, TypeOK, Item
<1>3. \A i \in 0..head : i # 0 => i \in DOMAIN Sizes /\ Sizes[i] \in Nat
  BY <1>1, Consts
<1>4. Latest(attempt, try) \in Nat
  BY <1>1, LatestMoments
<1> QED
  BY <1>1, <1>2, <1>3, <1>4, Consts

(***************************************************************************)
(* The streams.                                                            *)
(***************************************************************************)
LEMMA OpenIInv ==
  ASSUME IInv, Open PROVE IInv'
<1>0. PICK s \in 1..head : from' = [from EXCEPT ![attempt] = s]
  BY DEF Open
<1>1. /\ attempt \in Attempts /\ s \in DOMAIN Sizes /\ s \in Nat \ {0} /\ from[attempt] = 0
      /\ s \in 0..head
  BY Typed, Consts DEF IInv, Open, StreamsOfAttempts
<1>2. TypeOK'
  <2>1. from' \in [Attempts -> 0..head]
    BY <1>0, <1>1 DEF IInv, TypeOK
  <2> QED
    BY <2>1 DEF IInv, TypeOK, Open, Current
<1>3. ListIsPrefix'
  <2> SUFFICES ASSUME NEW a \in Attempts
               PROVE  /\ held'[a] <= sent'[a]
                      /\ from'[a] = 0 => sent'[a] = 0 /\ ~closed'[a] /\ data'[a] = <<>>
                      /\ from'[a] # 0 => /\ sent'[a] <= Sizes[from'[a]]
                                         /\ data'[a] = Slice(from'[a], 1, sent'[a] - held'[a])
                                         /\ closed'[a] => sent'[a] = Sizes[from'[a]]
    BY DEF ListIsPrefix
  <2>1. CASE a # attempt
    <3>1. from'[a] = from[a]
      BY <1>0, <2>1 DEF IInv, TypeOK
    <3> QED
      BY <3>1 DEF IInv, ListIsPrefix, Open
  <2>2. CASE a = attempt
    <3>1. from'[a] = s
      BY <1>0, <1>1, <2>2 DEF IInv, TypeOK
    <3>2. sent[a] = 0 /\ held[a] = 0 /\ ~closed[a] /\ data[a] = <<>>
      BY <1>1, <2>2, Typed DEF IInv, ListIsPrefix
    <3>3. data'[a] = Slice(s, 1, sent'[a] - held'[a])
      <4>1. sent'[a] - held'[a] = 0 /\ data'[a] = <<>>
        BY <3>2 DEF Open
      <4> QED
        BY <1>1, <4>1, EmptySlice
    <3> QED
      BY <1>1, <3>1, <3>2, <3>3, Consts DEF Open
  <2> QED
    BY <2>1, <2>2
<1>4. StreamsOfAttempts'
  <2>1. from'[attempt] # 0
    BY <1>0, <1>1 DEF IInv, TypeOK
  <2>2. \A a \in Attempts : a > attempt => from'[a] = 0
    BY <1>0, <1>1, Typed DEF IInv, TypeOK, StreamsOfAttempts
  <2> QED
    BY <2>1, <2>2 DEF StreamsOfAttempts, Open
<1>5. RequestsInTime'
  BY DEF IInv, RequestsInTime, Open, Active, Current
<1>6. ResultIsOneState' /\ NoneAbortedEarly' /\ FailsAfterLastAttempt'
  BY DEF IInv, ResultIsOneState, NoneAbortedEarly, FailsAfterLastAttempt, Open
<1> QED
  BY <1>2, <1>3, <1>4, <1>5, <1>6 DEF IInv

\* A batch, or what is left when the body ends, moves into flight.
LEMMA SendIInv ==
  ASSUME IInv, phase = "reading", ~closed[attempt], held[attempt] = 0,
         NEW k \in 0..BatchSize, NEW b \in BOOLEAN, k <= Rest(attempt), b => k = Rest(attempt),
         sent' = [sent EXCEPT ![attempt] = @ + k], held' = [held EXCEPT ![attempt] = k],
         closed' = [closed EXCEPT ![attempt] = b],
         UNCHANGED <<now, head, loop, armed, from, data, aborts>>
  PROVE  IInv'
<1>1. /\ attempt \in Attempts /\ from[attempt] \in DOMAIN Sizes /\ Sizes[from[attempt]] \in Nat
      /\ from[attempt] # 0 /\ k \in Nat
  BY Typed, Consts DEF IInv, StreamsOfAttempts
<1>2. /\ sent'[attempt] = sent[attempt] + k /\ held'[attempt] = k /\ closed'[attempt] = b
      /\ \A a \in Attempts : a # attempt => sent'[a] = sent[a] /\ held'[a] = held[a] /\ closed'[a] = closed[a]
  BY <1>1 DEF IInv, TypeOK
<1>3. TypeOK'
  <2>1. sent' \in [Attempts -> Nat] /\ held' \in [Attempts -> 0..BatchSize] /\ closed' \in [Attempts -> BOOLEAN]
    BY <1>1 DEF IInv, TypeOK
  <2> QED
    BY <2>1 DEF IInv, TypeOK, loop, Current
<1>4. ListIsPrefix'
  <2> SUFFICES ASSUME NEW a \in Attempts
               PROVE  /\ held'[a] <= sent'[a]
                      /\ from[a] = 0 => sent'[a] = 0 /\ ~closed'[a] /\ data[a] = <<>>
                      /\ from[a] # 0 => /\ sent'[a] <= Sizes[from[a]]
                                        /\ data[a] = Slice(from[a], 1, sent'[a] - held'[a])
                                        /\ closed'[a] => sent'[a] = Sizes[from[a]]
    BY DEF ListIsPrefix
  <2>1. CASE a # attempt
    BY <1>2, <2>1 DEF IInv, ListIsPrefix
  <2>2. CASE a = attempt
    <3>1. sent[a] \in Nat /\ sent[a] <= Sizes[from[a]] /\ data[a] = Slice(from[a], 1, sent[a] - held[a])
      BY <1>1, <2>2, Typed DEF IInv, ListIsPrefix
    <3>2. sent'[a] - held'[a] = sent[a] - held[a]
      BY <1>1, <1>2, <2>2, <3>1
    <3>3. k <= Sizes[from[a]] - sent[a] /\ (b => k = Sizes[from[a]] - sent[a])
      BY <2>2 DEF Rest
    <3>4. sent'[a] <= Sizes[from[a]] /\ (b => sent'[a] = Sizes[from[a]]) /\ held'[a] <= sent'[a]
      BY <1>1, <1>2, <2>2, <3>1, <3>3
    <3> QED
      BY <1>1, <1>2, <2>2, <3>1, <3>2, <3>4
  <2> QED
    BY <2>1, <2>2
<1>5. StreamsOfAttempts'
  BY DEF IInv, StreamsOfAttempts, loop
<1>6. RequestsInTime'
  BY <1>2 DEF IInv, RequestsInTime, Active, Current, loop
<1>7. ResultIsOneState' /\ NoneAbortedEarly' /\ FailsAfterLastAttempt'
  BY DEF IInv, ResultIsOneState, NoneAbortedEarly, FailsAfterLastAttempt, loop
<1> QED
  BY <1>3, <1>4, <1>5, <1>6, <1>7 DEF IInv

LEMMA BatchIInv ==
  ASSUME IInv, Batch PROVE IInv'
<1>1. BatchSize \in 0..BatchSize /\ BatchSize <= Rest(attempt) /\ phase = "reading" /\ ~closed[attempt]
  BY Consts DEF Batch
<1>2. closed' = [closed EXCEPT ![attempt] = FALSE]
  BY Typed DEF Batch, IInv, TypeOK
<1> QED
  BY <1>1, <1>2, SendIInv DEF Batch

LEMMA CloseIInv ==
  ASSUME IInv, Close PROVE IInv'
<1>1. /\ attempt \in Attempts /\ from[attempt] # 0 /\ Sizes[from[attempt]] \in Nat
      /\ sent[attempt] \in Nat /\ sent[attempt] <= Sizes[from[attempt]]
  BY Typed DEF Close, IInv, StreamsOfAttempts, ListIsPrefix
<1>2. Rest(attempt) \in 0..BatchSize /\ Sizes[from[attempt]] = sent[attempt] + Rest(attempt)
  BY <1>1, Consts DEF Close, Rest
<1>3. sent' = [sent EXCEPT ![attempt] = @ + Rest(attempt)]
  BY <1>2 DEF Close
<1>4. /\ phase = "reading" /\ ~closed[attempt] /\ held[attempt] = 0
      /\ held' = [held EXCEPT ![attempt] = Rest(attempt)]
      /\ closed' = [closed EXCEPT ![attempt] = TRUE]
      /\ UNCHANGED <<now, head, loop, armed, from, data, aborts>>
  BY DEF Close
<1>5. Rest(attempt) <= Rest(attempt) /\ TRUE \in BOOLEAN
  BY <1>2
<1> QED
  BY <1>2, <1>3, <1>4, <1>5, SendIInv

LEMMA PushIInv ==
  ASSUME IInv, NEW a \in Attempts, Push(a) PROVE IInv'
<1>1. /\ held[a] \in Nat /\ sent[a] \in Nat /\ held[a] <= sent[a] /\ held[a] > 0
      /\ from[a] # 0 /\ from[a] \in DOMAIN Sizes /\ data[a] = Slice(from[a], 1, sent[a] - held[a])
  BY Typed DEF IInv, ListIsPrefix, Push
<1>2. sent[a] - held[a] \in Nat /\ sent[a] >= sent[a] - held[a]
  BY <1>1
<1>3. data'[a] = Slice(from[a], 1, sent[a])
  <2>1. data'[a] = data[a] \o Slice(from[a], sent[a] - held[a] + 1, sent[a])
    BY DEF Push, IInv, TypeOK
  <2> DEFINE m == sent[a] - held[a]
  <2> HIDE DEF m
  <2>2. data[a] = Slice(from[a], 1, m) /\ m \in Nat /\ sent[a] >= m
    BY <1>1, <1>2 DEF m
  <2>3. data'[a] = Slice(from[a], 1, m) \o Slice(from[a], m + 1, sent[a])
    BY <2>1, <2>2 DEF m
  <2> QED
    BY <1>1, <2>2, <2>3, AdjacentSlices
<1>4. held'[a] = 0 /\ \A c \in Attempts : c # a => held'[c] = held[c] /\ data'[c] = data[c]
  BY DEF Push, IInv, TypeOK
<1>5. data'[a] \in Seq(Item)
  BY <1>1, <1>3, PrefixIsSeq
<1>6. TypeOK'
  <2>1. held' \in [Attempts -> 0..BatchSize]
    BY Consts DEF Push, IInv, TypeOK
  <2>2. data' \in [Attempts -> Seq(Item)]
    <3>1. data \in [Attempts -> Seq(Item)]
      BY DEF IInv, TypeOK, Item
    <3>2. data' = [data EXCEPT ![a] = data'[a]]
      BY <3>1 DEF Push
    <3> QED
      BY <1>5, <3>1, <3>2
  <2> QED
    BY <2>1, <2>2 DEF IInv, TypeOK, Push, loop, Item, Current
<1>7. ListIsPrefix'
  <2> SUFFICES ASSUME NEW c \in Attempts
               PROVE  /\ held'[c] <= sent[c]
                      /\ from[c] = 0 => sent[c] = 0 /\ ~closed[c] /\ data'[c] = <<>>
                      /\ from[c] # 0 => /\ sent[c] <= Sizes[from[c]]
                                        /\ data'[c] = Slice(from[c], 1, sent[c] - held'[c])
                                        /\ closed[c] => sent[c] = Sizes[from[c]]
    BY DEF ListIsPrefix, Push, loop
  <2>1. CASE c # a
    BY <1>4, <2>1 DEF IInv, ListIsPrefix
  <2>2. CASE c = a
    <3>1. sent[a] - held'[a] = sent[a] /\ held'[a] <= sent[a]
      BY <1>1, <1>4
    <3>2. sent[a] <= Sizes[from[a]] /\ (closed[a] => sent[a] = Sizes[from[a]])
      BY <1>1 DEF IInv, ListIsPrefix
    <3> QED
      BY <1>1, <1>3, <2>2, <3>1, <3>2
  <2> QED
    BY <2>1, <2>2
<1>8. StreamsOfAttempts' /\ RequestsInTime'
  BY DEF IInv, StreamsOfAttempts, RequestsInTime, Active, Current, Push, loop
<1>9. ResultIsOneState' /\ NoneAbortedEarly' /\ FailsAfterLastAttempt'
  BY DEF IInv, ResultIsOneState, NoneAbortedEarly, FailsAfterLastAttempt, Push, loop
<1> QED
  BY <1>6, <1>7, <1>8, <1>9 DEF IInv

LEMMA EndIInv ==
  ASSUME IInv, End PROVE IInv'
<1>1. /\ attempt \in Attempts /\ from[attempt] \in DOMAIN Sizes /\ from[attempt] # 0
      /\ from[attempt] \in 1..head
  BY Typed, Consts DEF IInv, StreamsOfAttempts, End
<1>2. data[attempt] = Whole(from[attempt])
  <2>1. /\ data[attempt] = Slice(from[attempt], 1, sent[attempt] - held[attempt])
        /\ sent[attempt] = Sizes[from[attempt]] /\ held[attempt] = 0 /\ sent[attempt] \in Nat
    BY <1>1, Typed DEF IInv, ListIsPrefix, End
  <2>2. sent[attempt] - held[attempt] = Sizes[from[attempt]]
    BY <2>1
  <2> QED
    BY <1>1, <2>1, <2>2, WholeIsSlice
<1>3. TypeOK' /\ ListIsPrefix'
  BY Typed DEF IInv, TypeOK, ListIsPrefix, End, pipes, Item, Current
<1>4. StreamsOfAttempts' /\ RequestsInTime'
  BY DEF IInv, StreamsOfAttempts, RequestsInTime, Active, Current, End, pipes
<1>5. ResultIsOneState'
  BY <1>1, <1>2 DEF ResultIsOneState, End
<1>6. NoneAbortedEarly' /\ FailsAfterLastAttempt'
  BY DEF IInv, NoneAbortedEarly, FailsAfterLastAttempt, End
<1> QED
  BY <1>3, <1>4, <1>5, <1>6 DEF IInv

(***************************************************************************)
(* The loop and the timers.                                                *)
(***************************************************************************)
\* What both ends of a request have in common: the node's and the timer's.
LEMMA RequestFailsIInv ==
  ASSUME IInv, Active, ~closed[attempt], RequestFails,
         NEW t \in SUBSET armed, armed' = t,
         aborts' = aborts \/ (/\ aborts' = aborts \cup {<<Current, now - opened[Current]>>}
                              /\ now >= opened[Current] + Limit),
         UNCHANGED <<now, head, attempt, try, opened, result, pipes>>
  PROVE  IInv'
<1>1. /\ attempt \in Attempts /\ attempt <= MaxAttempts /\ attempt \in Nat /\ now \in Nat
      /\ Current \in Requests /\ Current' = Current /\ try \in 1..Tries
      /\ opened[Current] \in Nat /\ opened[Current] <= now /\ now <= opened[Current] + Limit
  BY Typed, Consts DEF IInv, RequestsInTime, Active, Attempts, Current
<1>2. \/ phase = "opening" /\ try < Tries /\ phase' = "pausing" /\ wakes' = now + Pause
      \/ attempt < MaxAttempts /\ phase' = "waiting" /\ wakes' = now + Delay
      \/ attempt = MaxAttempts /\ phase' = "failed" /\ wakes' = wakes
  BY <1>1, Consts DEF RequestFails, Rejected
<1>3. TypeOK'
  <2>1. wakes' \in Nat /\ phase' \in {"pausing", "waiting", "failed"}
    BY <1>1, <1>2, Typed, Consts
  <2>2. aborts' \subseteq Requests \X Nat
    <3>1. now - opened[Current] \in Nat
      BY <1>1
    <3> QED
      BY <1>1, <3>1 DEF IInv, TypeOK
  <2>3. /\ now' \in Nat /\ head' \in DOMAIN Sizes /\ Current' \in Requests
        /\ opened' \in [Requests -> Nat] /\ armed' \subseteq Requests
        /\ result' \in Seq((DOMAIN Sizes) \X Nat)
    BY <1>1 DEF IInv, TypeOK
  <2>4. /\ from' \in [Attempts -> 0..head'] /\ sent' \in [Attempts -> Nat]
        /\ held' \in [Attempts -> 0..BatchSize] /\ closed' \in [Attempts -> BOOLEAN]
        /\ data' \in [Attempts -> Seq((DOMAIN Sizes) \X Nat)]
    BY DEF IInv, TypeOK, pipes
  <2> QED
    BY <2>1, <2>2, <2>3, <2>4 DEF TypeOK
<1>4. ListIsPrefix'
  BY DEF IInv, ListIsPrefix, pipes
<1>5. StreamsOfAttempts'
  BY <1>2 DEF IInv, StreamsOfAttempts, pipes
<1>6. RequestsInTime'
  <2>1. phase' # "opening" /\ phase' # "reading"
    BY <1>2
  <2>2. phase' = "waiting" => now <= wakes' /\ wakes' <= opened[Current] + Limit + Delay
    BY <1>1, <1>2, Consts
  <2>3. phase' = "pausing" => now <= wakes' /\ wakes' <= opened[Current] + Limit + Pause
    BY <1>1, <1>2, Consts
  <2>4. opened[Current] <= Latest(attempt, try)
    BY DEF IInv, RequestsInTime
  <2>5. /\ opened'[Current'] = opened[Current] /\ now' = now
        /\ Latest(attempt', try') = Latest(attempt, try)
    BY <1>1
  <2> QED
    BY <1>1, <2>1, <2>2, <2>3, <2>4, <2>5 DEF RequestsInTime, Active
<1>7. ResultIsOneState' /\ FailsAfterLastAttempt'
  BY <1>1, <1>2 DEF ResultIsOneState, FailsAfterLastAttempt, pipes
<1>8. NoneAbortedEarly'
  <2> SUFFICES ASSUME NEW x \in aborts' PROVE x[2] >= Limit
    BY DEF NoneAbortedEarly
  <2>1. CASE x \in aborts
    BY <2>1 DEF IInv, NoneAbortedEarly
  <2>2. CASE x \notin aborts
    <3>1. x = <<Current, now - opened[Current]>> /\ now >= opened[Current] + Limit
      BY <2>2
    <3>2. x[2] = now - opened[Current]
      BY <3>1
    <3> QED
      BY <1>1, <3>1, <3>2, Consts
  <2> QED
    BY <2>1, <2>2
<1> QED
  BY <1>3, <1>4, <1>5, <1>6, <1>7, <1>8 DEF IInv

LEMMA BreakIInv ==
  ASSUME IInv, Break PROVE IInv'
<1>1. armed \in SUBSET armed /\ armed' = armed /\ aborts' = aborts
  BY DEF Break
<1> QED
  BY <1>1, RequestFailsIInv DEF Break

LEMMA AbortIInv ==
  ASSUME IInv, NEW r \in Requests, Abort(r) PROVE IInv'
<1>1. /\ armed \ {r} \in SUBSET armed /\ armed' = armed \ {r}
      /\ UNCHANGED <<now, head, attempt, try, opened, result, pipes>>
  BY DEF Abort
<1>2. CASE r = Current /\ Active /\ ~closed[attempt]
  <2>1. /\ RequestFails /\ now >= opened[Current] + Limit
        /\ aborts' = aborts \cup {<<Current, now - opened[Current]>>}
    BY <1>2 DEF Abort, Ends
  <2> QED
    BY <1>1, <1>2, <2>1, RequestFailsIInv
<1>3. CASE ~(r = Current /\ Active /\ ~closed[attempt])
  <2>1. UNCHANGED <<phase, wakes, aborts>> /\ Current' = Current
    BY <1>1, <1>3 DEF Abort, Current
  <2>2. Active => Current \in armed' \/ closed[attempt]
    BY <1>1, <1>3 DEF IInv, RequestsInTime
  <2>3. TypeOK' /\ ListIsPrefix' /\ StreamsOfAttempts'
    BY <1>1, <2>1 DEF IInv, TypeOK, ListIsPrefix, StreamsOfAttempts, pipes
  <2>4. RequestsInTime'
    BY <1>1, <2>1, <2>2 DEF IInv, RequestsInTime, Active, pipes
  <2>5. ResultIsOneState' /\ NoneAbortedEarly' /\ FailsAfterLastAttempt'
    BY <1>1, <2>1 DEF IInv, ResultIsOneState, NoneAbortedEarly, FailsAfterLastAttempt, pipes
  <2> QED
    BY <2>3, <2>4, <2>5 DEF IInv
<1> QED
  BY <1>2, <1>3

\* A new request, the next of its fetch or the first of the next attempt.
LEMMA BeginIInv ==
  ASSUME IInv, NEW a \in Attempts, NEW k \in 1..Tries, Begin(<<a, k>>), UNCHANGED data,
         a >= attempt, from[a] = 0, now <= Latest(a, k)
  PROVE  IInv'
<1>1. <<a, k>> \in Requests /\ attempt' = a /\ try' = k /\ Current' = <<a, k>> /\ now \in Nat
  BY Typed DEF Begin, Requests, Current
<1>2. opened'[<<a, k>>] = now /\ phase' = "opening" /\ <<a, k>> \in armed'
  BY <1>1 DEF Begin, IInv, TypeOK
<1>3. TypeOK'
  <2>1. opened' \in [Requests -> Nat] /\ armed' \subseteq Requests
    BY <1>1 DEF Begin, IInv, TypeOK
  <2> QED
    BY <1>1, <1>2, <2>1 DEF Begin, IInv, TypeOK
<1>4. ListIsPrefix'
  BY DEF Begin, IInv, ListIsPrefix
<1>5. StreamsOfAttempts'
  <2>1. \A c \in Attempts : c > a => from[c] = 0
    <3>1. a \in Nat /\ attempt \in Nat /\ \A c \in Attempts : c \in Nat
      BY Typed
    <3> QED
      BY <3>1 DEF IInv, StreamsOfAttempts
  <2> QED
    BY <1>1, <1>2, <2>1 DEF StreamsOfAttempts, Begin
<1>6. RequestsInTime'
  <2>1. now <= now + Limit /\ now <= now
    BY <1>1, Consts
  <2>2. now' = now
    BY DEF Begin
  <2> QED
    BY <1>1, <1>2, <2>1, <2>2 DEF RequestsInTime, Active
<1>7. ResultIsOneState' /\ NoneAbortedEarly' /\ FailsAfterLastAttempt'
  BY DEF Begin, IInv, ResultIsOneState, NoneAbortedEarly, FailsAfterLastAttempt
<1> QED
  BY <1>3, <1>4, <1>5, <1>6, <1>7 DEF IInv

LEMMA RepeatIInv ==
  ASSUME IInv, Repeat PROVE IInv'
<1>1. /\ attempt \in Attempts /\ attempt \in Nat /\ try \in 1..Tries /\ try + 1 \in 1..Tries
      /\ from[attempt] = 0 /\ attempt >= attempt
  BY Typed, Consts DEF IInv, StreamsOfAttempts, Repeat
<1>2. now <= Latest(attempt, try + 1)
  <2>1. /\ opened[Current] <= Latest(attempt, try) /\ now <= wakes
        /\ wakes <= opened[Current] + Limit + Pause
    BY DEF IInv, RequestsInTime, Repeat
  <2>2. Latest(attempt, try) + Limit + Pause = Latest(attempt, try + 1)
    BY <1>1, LatestMoments
  <2> QED
    BY <2>1, <2>2, Typed, Consts
<1> QED
  BY <1>1, <1>2, BeginIInv DEF Repeat

LEMMA RetryIInv ==
  ASSUME IInv, Retry PROVE IInv'
<1>1. /\ attempt \in Attempts /\ attempt + 1 \in Attempts /\ attempt + 1 >= attempt
      /\ 1 \in 1..Tries /\ try \in 1..Tries /\ from[attempt + 1] = 0
  BY Typed, Consts DEF IInv, StreamsOfAttempts, Retry, Attempts
<1>2. now <= Latest(attempt + 1, 1)
  <2>1. /\ opened[Current] <= Latest(attempt, try) /\ now <= wakes
        /\ wakes <= opened[Current] + Limit + Delay
    BY DEF IInv, RequestsInTime, Retry
  <2>2. /\ Latest(attempt, try) + Limit + Delay <= Latest(attempt + 1, 1)
        /\ Latest(attempt + 1, 1) \in Nat
    BY <1>1, LatestMoments
  <2>3. /\ opened[Current] \in Nat /\ Latest(attempt, try) \in Nat
        /\ now \in Nat /\ wakes \in Nat /\ Limit \in Nat /\ Delay \in Nat
    BY Typed, Consts
  <2> QED
    BY <2>1, <2>2, <2>3
<1> QED
  BY <1>1, <1>2, BeginIInv DEF Retry

LEMMA TickIInv ==
  ASSUME IInv, Tick PROVE IInv'
<1>1. /\ now \in Nat /\ now' = now + 1 /\ attempt \in Attempts /\ opened[Current] \in Nat
      /\ wakes \in Nat /\ Limit \in Nat /\ Delay \in Nat /\ Pause \in Nat
      /\ UNCHANGED <<head, attempt, try, phase, wakes, opened, result, armed>>
      /\ UNCHANGED <<from, sent, held, closed, data, aborts>> /\ Current' = Current
  BY Typed, Consts DEF Tick, loop, pipes, Current
<1>2. /\ phase \notin {"done", "failed"}
      /\ phase \in {"opening", "pausing", "reading", "waiting", "done", "failed"}
  BY DEF IInv, TypeOK, Tick
<1>3. RequestsInTime'
  <2>0. opened[Current] <= Latest(attempt, try) /\ opened[Current] <= now + 1
    BY <1>1 DEF IInv, RequestsInTime
  <2>1. CASE phase \in {"pausing", "waiting"}
    <3>1. now < wakes
      BY <1>1, <2>1 DEF Tick, Due
    <3>2. now + 1 <= wakes
      BY <1>1, <3>1
    <3> QED
      BY <1>1, <2>0, <2>1, <3>2 DEF IInv, RequestsInTime, Active
  <2>2. CASE phase \notin {"pausing", "waiting"}
    <3>1. phase = "opening" \/ phase = "reading"
      BY <1>2, <2>2
    <3>2. ~closed[attempt]
      <4>1. CASE phase = "reading"
        BY <4>1 DEF Tick, Due
      <4>2. CASE phase = "opening"
        BY <1>1, <4>2 DEF IInv, StreamsOfAttempts, ListIsPrefix
      <4> QED
        BY <3>1, <4>1, <4>2
    <3>3. Current \in armed
      BY <3>1, <3>2 DEF IInv, RequestsInTime, Active
    <3>4. ~(now >= opened[Current] + Limit)
      BY <3>3 DEF Tick, Due
    <3>5. now + 1 <= opened[Current] + Limit
      BY <1>1, <3>4
    <3> QED
      BY <1>1, <2>0, <2>2, <3>3, <3>5 DEF IInv, RequestsInTime, Active
  <2> QED
    BY <2>1, <2>2
<1>4. TypeOK' /\ ListIsPrefix' /\ StreamsOfAttempts'
  <2>1. TypeOK'
    <3>1. now' \in Nat
      BY <1>1
    <3> QED
      BY <1>1, <3>1 DEF IInv, TypeOK
  <2>2. ListIsPrefix' /\ StreamsOfAttempts'
    BY <1>1 DEF IInv, ListIsPrefix, StreamsOfAttempts
  <2> QED
    BY <2>1, <2>2
<1>5. ResultIsOneState' /\ NoneAbortedEarly' /\ FailsAfterLastAttempt'
  BY <1>1 DEF IInv, ResultIsOneState, NoneAbortedEarly, FailsAfterLastAttempt
<1> QED
  BY <1>3, <1>4, <1>5 DEF IInv

LEMMA MineIInv ==
  ASSUME IInv, Mine PROVE IInv'
<1>1. head' \in DOMAIN Sizes /\ 0..head \subseteq 0..head' /\ 1..head \subseteq 1..head'
  BY Typed, Consts DEF Mine
<1>2. TypeOK'
  BY <1>1 DEF IInv, TypeOK, Mine, loop, pipes, Current
<1>3. ListIsPrefix' /\ StreamsOfAttempts' /\ RequestsInTime'
  BY DEF IInv, ListIsPrefix, StreamsOfAttempts, RequestsInTime, Active, Current, Mine, loop, pipes
<1>4. ResultIsOneState' /\ NoneAbortedEarly' /\ FailsAfterLastAttempt'
  BY <1>1 DEF IInv, ResultIsOneState, NoneAbortedEarly, FailsAfterLastAttempt, Mine, loop, pipes
<1> QED
  BY <1>2, <1>3, <1>4 DEF IInv

LEMMA StutterIInv ==
  ASSUME IInv, UNCHANGED vars PROVE IInv'
<1>1. TypeOK' /\ ListIsPrefix' /\ StreamsOfAttempts'
  BY DEF IInv, TypeOK, Current, ListIsPrefix, StreamsOfAttempts, vars, loop, pipes
<1>2. RequestsInTime' /\ ResultIsOneState' /\ NoneAbortedEarly' /\ FailsAfterLastAttempt'
  BY DEF IInv, RequestsInTime, Active, Current, ResultIsOneState, NoneAbortedEarly, FailsAfterLastAttempt,
         vars, loop, pipes
<1> QED
  BY <1>1, <1>2 DEF IInv

LEMMA Inductive == Spec => []IInv
<1>1. IInv /\ [Next]_vars => IInv'
  BY RepeatIInv, RetryIInv, OpenIInv, BatchIInv, CloseIInv, EndIInv, BreakIInv, TickIInv, MineIInv,
     PushIInv, AbortIInv, StutterIInv DEF Next
<1> QED
  BY InitIInv, <1>1, PTL DEF Spec

(***************************************************************************)
(* The properties.                                                         *)
(***************************************************************************)
\* Even the latest moment of the last request leaves it its time.
LEMMA InTime ==
  ASSUME IInv PROVE LongestCall
<1> DEFINE bound == MaxAttempts * LongestFetch + (MaxAttempts - 1) * Delay
<1>1. /\ attempt \in Attempts /\ try \in 1..Tries /\ Latest(attempt, try) \in Nat
      /\ Latest(attempt, try) + Limit <= bound
      /\ Latest(attempt, try) + Limit + Pause = Latest(attempt, try + 1)
      /\ Latest(attempt, try) + Limit + Delay <= Latest(attempt + 1, 1)
  BY Typed, LatestMoments
<1>2. try < Tries => try + 1 \in 1..Tries
  BY <1>1, Consts
<1>3. attempt < MaxAttempts => attempt + 1 \in Attempts /\ 1 \in 1..Tries
  BY <1>1, Consts DEF Attempts
<1>4. try < Tries => Latest(attempt, try + 1) \in Nat /\ Latest(attempt, try + 1) + Limit <= bound
  BY <1>1, <1>2, LatestMoments
<1>5. attempt < MaxAttempts =>
        Latest(attempt + 1, 1) \in Nat /\ Latest(attempt + 1, 1) + Limit <= bound
  BY <1>3, LatestMoments
<1>6. bound \in Int
  <2>1. LongestFetch \in Nat
    BY <1>1, FetchTime
  <2> QED
    BY <2>1, Consts
<1> HIDE DEF bound
<1> DEFINE begin == opened[Current]
           this == Latest(attempt, try)  next == Latest(attempt, try + 1)
           after == Latest(attempt + 1, 1)
<1>7. /\ begin \in Nat /\ wakes \in Nat /\ now \in Nat /\ bound \in Int /\ begin <= this
      /\ this \in Nat /\ this + Limit <= bound /\ Limit \in Nat /\ Pause \in Nat /\ Delay \in Nat
      /\ this + Limit + Pause = next /\ this + Limit + Delay <= after
      /\ try < Tries => next \in Nat /\ next + Limit <= bound
      /\ attempt < MaxAttempts => after \in Nat /\ after + Limit <= bound
  BY <1>1, <1>4, <1>5, <1>6, Typed, Consts DEF IInv, RequestsInTime
<1>8. now <= bound
  <2>1. CASE phase \notin {"pausing", "waiting"}
    <3>1. now <= begin + Limit
      BY <2>1 DEF IInv, RequestsInTime
    <3> HIDE DEF begin, this, next, after
    <3> QED
      BY <1>7, <3>1
  <2>2. CASE phase = "pausing"
    <3>1. now <= wakes /\ wakes <= begin + Limit + Pause /\ try < Tries
      BY <2>2 DEF IInv, RequestsInTime, StreamsOfAttempts
    <3> HIDE DEF begin, this, next, after
    <3> QED
      BY <1>7, <3>1
  <2>3. CASE phase = "waiting"
    <3>1. now <= wakes /\ wakes <= begin + Limit + Delay /\ attempt < MaxAttempts
      BY <2>3 DEF IInv, RequestsInTime, StreamsOfAttempts
    <3> HIDE DEF begin, this, next, after
    <3> QED
      BY <1>7, <3>1
  <2> QED
    BY <2>1, <2>2, <2>3
<1> QED
  BY <1>8 DEF LongestCall, bound

\* Every state of the read is well typed.
THEOREM TypeCorrect == Spec => []TypeOK
<1>1. IInv => TypeOK
  BY DEF IInv
<1> QED
  BY Inductive, <1>1, PTL

\* A read resolves to the whole list of one state, for any number of attempts.
THEOREM WholeList == Spec => []ResultIsOneState
<1>1. IInv => ResultIsOneState
  BY DEF IInv
<1> QED
  BY Inductive, <1>1, PTL

\* Only its own timer aborts a request, after the whole limit.
THEOREM OwnTimer == Spec => []NoneAbortedEarly
<1>1. IInv => NoneAbortedEarly
  BY DEF IInv
<1> QED
  BY Inductive, <1>1, PTL

\* Only the last attempt makes a read reject.
THEOREM AllAttemptsMade == Spec => []FailsAfterLastAttempt
<1>1. IInv => FailsAfterLastAttempt
  BY DEF IInv
<1> QED
  BY Inductive, <1>1, PTL

\* The time a read may take, whatever the node does.
THEOREM BoundedCall == Spec => []LongestCall
<1> QED
  BY Inductive, InTime, PTL

(***************************************************************************)
(* The fork: blocks are of the kind that the announced epoch gives them.   *)
(***************************************************************************)
Kinds == {"missed", "body", "envelope", "withheld"}

\* A fork that the chain has reached is not moved: a block has its payload in an
\* envelope from the announced epoch on, and in its body before.
FormsFollowFork ==
  \A s \in 1..Len(blocks) :
    /\ blocks[s] \in {"envelope", "withheld"} => announced # None /\ EpochOf(s) >= announced
    /\ blocks[s] = "body" => announced = None \/ EpochOf(s) < announced

\* A lookup goes on to the envelope of a block that has one, if the service was
\* up to date when it decided.
EnvelopeIsThere ==
  /\ stage = "envelope" => slot # 0
  /\ stage = "envelope" /\ knew => blocks[slot] \in {"envelope", "withheld"}

ForkInv == ForkTypeOK /\ FormsFollowFork /\ EnvelopeIsThere /\ PayloadIsFoundWhenKnown

\* The epochs of a slot before and from the first slot of an epoch on.
LEMMA EpochStartsAt ==
  ASSUME NEW s \in Nat, NEW e \in Nat
  PROVE  EpochOf(s) \in Nat /\ (EpochOf(s) >= e <=> s >= e * SlotsPerEpoch)
<1> DEFINE q == s \div SlotsPerEpoch
<1>1. SlotsPerEpoch \in Nat \ {0}
  BY ForkConstants
<1>2. q \in Nat /\ SlotsPerEpoch * q <= s /\ s < SlotsPerEpoch * q + SlotsPerEpoch
  BY <1>1, Z3
<1> HIDE DEF q
<1>3. q >= e => SlotsPerEpoch * q >= SlotsPerEpoch * e
  BY <1>1, <1>2, Z3
<1>4. q < e => SlotsPerEpoch * (q + 1) <= SlotsPerEpoch * e
  BY <1>1, <1>2, Z3
<1>5. SlotsPerEpoch * (q + 1) = SlotsPerEpoch * q + SlotsPerEpoch /\ SlotsPerEpoch * e = e * SlotsPerEpoch
  BY <1>1, <1>2, Z3
<1>6. SlotsPerEpoch * q \in Int /\ e * SlotsPerEpoch \in Int
  BY <1>1, <1>2
<1> QED
  BY <1>1, <1>2, <1>3, <1>4, <1>5, <1>6 DEF EpochOf, q

LEMMA BoundsOfFork ==
  SlotsPerEpoch \in Nat \ {0} /\ MaxSlot \in Nat /\ MaxChanges \in Nat /\ MaxFaults \in Nat
  BY ForkConstants

LEMMA ForkTypes ==
  ASSUME ForkInv
  PROVE  /\ blocks \in Seq(Kinds) /\ Len(blocks) \in Nat /\ Len(blocks) <= MaxSlot
         /\ Epochs \subseteq Nat
         /\ announced \in {None} \cup Epochs /\ known \in {None} \cup Epochs
         /\ slot \in Nat /\ slot <= Len(blocks)
         /\ faults \in 0..MaxFaults /\ changes \in 0..MaxChanges
<1>1. blocks \in Seq(Kinds)
  BY DEF ForkInv, ForkTypeOK, Kinds
<1>2. Len(blocks) \in Nat
  BY <1>1
<1>3. Len(blocks) <= MaxSlot
  BY DEF ForkInv, ForkTypeOK
<1>4. Epochs \subseteq Nat
  BY DEF Epochs
<1>5. announced \in {None} \cup Epochs /\ known \in {None} \cup Epochs
  BY DEF ForkInv, ForkTypeOK
<1>6. slot \in 0..Len(blocks)
  BY DEF ForkInv, ForkTypeOK
<1>7. faults \in 0..MaxFaults
  BY DEF ForkInv, ForkTypeOK
<1>8. changes \in 0..MaxChanges
  BY DEF ForkInv, ForkTypeOK
<1> QED
  BY <1>1, <1>2, <1>3, <1>4, <1>5, <1>6, <1>7, <1>8

LEMMA InitForkInv == ForkInit => ForkInv
<1> SUFFICES ASSUME ForkInit PROVE ForkInv
  OBVIOUS
<1> USE BoundsOfFork DEF ForkInit
<1>1. Len(blocks) = 0 /\ blocks \in Seq(Kinds)
  BY DEF Kinds
<1>2. refresh \in [Refreshers -> {Idle, Asked, None} \cup Epochs]
  BY DEF Refreshers
<1>3. ForkTypeOK
  BY <1>1, <1>2 DEF ForkTypeOK, Kinds
<1>4. FormsFollowFork /\ EnvelopeIsThere /\ PayloadIsFoundWhenKnown
  BY <1>1 DEF FormsFollowFork, EnvelopeIsThere, PayloadIsFoundWhenKnown
<1> QED
  BY <1>3, <1>4 DEF ForkInv

\* A new block has a form of the epoch it is in; the old ones stay.
LEMMA ProduceKeepsFork ==
  ASSUME ForkInv, Produce PROVE ForkInv'
<1> USE BoundsOfFork
<1> DEFINE n == Len(blocks)
<1>1. PICK form \in Forms(n + 1) : blocks' = Append(blocks, form)
  BY DEF Produce
<1>2. /\ n < MaxSlot
      /\ UNCHANGED <<announced, changes, known, refresh, slot, stage, knew, last, faults>>
  BY DEF Produce, lookup
<1>3. /\ blocks \in Seq(Kinds) /\ n \in Nat /\ announced \in {None} \cup Epochs
      /\ slot \in Nat /\ slot <= n /\ Epochs \subseteq Nat
  BY ForkTypes
<1>4. form \in Kinds
  BY <1>1 DEF Forms, Kinds
<1>5. /\ blocks' \in Seq(Kinds) /\ Len(blocks') = n + 1 /\ blocks'[n + 1] = form
      /\ \A s \in 1..n : blocks'[s] = blocks[s]
  BY <1>1, <1>3, <1>4
<1> HIDE DEF n
<1>6. ForkTypeOK'
  <2>1. Len(blocks') <= MaxSlot /\ slot' \in 0..Len(blocks')
    BY <1>2, <1>3, <1>5
  <2>2. blocks' \in Seq({"missed", "body", "envelope", "withheld"})
    BY <1>5 DEF Kinds
  <2>3. Epochs' = Epochs
    BY DEF Epochs, EpochOf
  <2> QED
    BY <1>2, <2>1, <2>2, <2>3 DEF ForkInv, ForkTypeOK
<1>7. FormsFollowFork'
  <2>1. ASSUME NEW s \in 1..n + 1
        PROVE  /\ blocks'[s] \in {"envelope", "withheld"} => announced # None /\ EpochOf(s) >= announced
               /\ blocks'[s] = "body" => announced = None \/ EpochOf(s) < announced
    <3>1. CASE s \in 1..n
      BY <1>5, <3>1 DEF ForkInv, FormsFollowFork, n
    <3>2. CASE s = n + 1
      <4>1. EpochOf(s) \in Nat
        BY <1>3, <3>2, EpochStartsAt
      <4>2. announced = None \/ announced \in Int
        BY <1>3 DEF Epochs
      <4> QED
        BY <1>1, <1>5, <3>2, <4>1, <4>2 DEF Forms
    <3> QED
      BY <1>3, <3>1, <3>2
  <2>2. \A s : EpochOf(s)' = EpochOf(s)
    BY DEF EpochOf
  <2> QED
    BY <1>2, <1>5, <2>1, <2>2 DEF FormsFollowFork
<1>8. slot # 0 => blocks'[slot] = blocks[slot]
  BY <1>3, <1>5
<1>9. EnvelopeIsThere' /\ PayloadIsFoundWhenKnown'
  BY <1>2, <1>8 DEF ForkInv, EnvelopeIsThere, PayloadIsFoundWhenKnown
<1> QED
  BY <1>6, <1>7, <1>9 DEF ForkInv

\* The old epoch has not been reached, and neither has the new one.
LEMMA AnnounceKeepsFork ==
  ASSUME ForkInv, Announce PROVE ForkInv'
<1> USE BoundsOfFork
<1>1. /\ UNCHANGED <<blocks, known, refresh, slot, stage, knew, last, faults>>
      /\ changes < MaxChanges /\ changes' = changes + 1
      /\ IsAhead(announced) /\ IsAhead(announced')
      /\ announced' \in {None} \cup Epochs
  BY DEF Announce, lookup, Epochs
<1>2. Len(blocks) \in Nat /\ announced \in {None} \cup Epochs /\ Epochs \subseteq Nat
  BY ForkTypes
<1>3. ForkTypeOK'
  <2>1. changes' \in 0..MaxChanges
    BY <1>1, ForkTypes
  <2>2. Epochs' = Epochs
    BY DEF Epochs, EpochOf
  <2> QED
    BY <1>1, <2>1, <2>2 DEF ForkInv, ForkTypeOK
<1>4. ASSUME NEW s \in 1..Len(blocks), NEW e \in {None} \cup Epochs, IsAhead(e), e # None
      PROVE  EpochOf(s) < e
  <2>1. s \in Nat /\ e \in Nat /\ Len(blocks) \in Nat
    BY <1>2, <1>4 DEF None
  <2>2. s < e * SlotsPerEpoch /\ e * SlotsPerEpoch \in Int
    BY <1>4, <2>1 DEF IsAhead
  <2>3. EpochOf(s) \in Nat /\ ~(EpochOf(s) >= e)
    BY <2>1, <2>2, EpochStartsAt
  <2> QED
    BY <2>1, <2>3
<1>5. \A s : EpochOf(s)' = EpochOf(s)
  BY DEF EpochOf
<1>6. FormsFollowFork'
  <2> SUFFICES ASSUME NEW s \in 1..Len(blocks)
               PROVE  /\ blocks[s] \notin {"envelope", "withheld"}
                      /\ announced' = None \/ EpochOf(s) < announced'
    BY <1>1, <1>5 DEF FormsFollowFork
  <2>1. EpochOf(s) \in Nat
    BY <1>2, EpochStartsAt
  <2>2. announced = None \/ EpochOf(s) < announced
    BY <1>1, <1>2, <1>4
  <2>3. announced = None \/ ~(EpochOf(s) >= announced)
    <3>1. announced = None \/ announced \in Nat
      BY <1>2
    <3> QED
      BY <2>1, <2>2, <3>1
  <2>4. announced' = None \/ EpochOf(s) < announced'
    BY <1>1, <1>4
  <2> QED
    BY <2>3, <2>4 DEF ForkInv, FormsFollowFork
<1>7. EnvelopeIsThere' /\ PayloadIsFoundWhenKnown'
  BY <1>1 DEF ForkInv, EnvelopeIsThere, PayloadIsFoundWhenKnown
<1> QED
  BY <1>3, <1>6, <1>7 DEF ForkInv

\* Refreshes hear and store what has been announced at some time.
LEMMA RefreshKeepsFork ==
  ASSUME ForkInv, Cron \/ \E r \in Refreshers : Hear(r) \/ Learn(r) \/ FailRefresh(r)
  PROVE  ForkInv'
<1> USE BoundsOfFork
<1>1. UNCHANGED <<blocks, announced, changes, slot, stage, knew, last>>
  BY DEF Cron, Hear, Learn, FailRefresh, lookup
<1>2. refresh \in [Refreshers -> {Idle, Asked, None} \cup Epochs] /\ announced \in {None} \cup Epochs
      /\ known \in {None} \cup Epochs /\ faults \in 0..MaxFaults
  BY DEF ForkInv, ForkTypeOK
<1>3. refresh' \in [Refreshers -> {Idle, Asked, None} \cup Epochs]
  BY <1>2 DEF Cron, Hear, Learn, FailRefresh, Refreshers
<1>4. known' \in {None} \cup Epochs
  <2>1. \A r \in Refreshers : refresh[r] >= None /\ refresh[r] # None => refresh[r] \in Epochs
    BY <1>2 DEF None, Idle, Asked
  <2> QED
    BY <1>2, <2>1 DEF Cron, Hear, Learn, FailRefresh
<1>5. faults' \in 0..MaxFaults
  BY <1>2 DEF Cron, Hear, Learn, FailRefresh
<1>6. Epochs' = Epochs /\ \A s : EpochOf(s)' = EpochOf(s)
  BY DEF Epochs, EpochOf
<1>7. ForkTypeOK'
  BY <1>1, <1>3, <1>4, <1>5, <1>6 DEF ForkInv, ForkTypeOK
<1>8. FormsFollowFork' /\ EnvelopeIsThere' /\ PayloadIsFoundWhenKnown'
  BY <1>1, <1>6 DEF ForkInv, FormsFollowFork, EnvelopeIsThere, PayloadIsFoundWhenKnown
<1> QED
  BY <1>7, <1>8 DEF ForkInv

\* A lookup decides rightly when the service is up to date.
LEMMA KnownIsReleased ==
  ASSUME ForkInv, known = announced, NEW s \in 1..Len(blocks)
  PROVE  /\ blocks[s] \in {"envelope", "withheld"} => Released(s)
         /\ blocks[s] = "body" => ~Released(s)
<1>1. announced \in {None} \cup Epochs /\ Epochs \subseteq Nat /\ Len(blocks) \in Nat
  BY ForkTypes
<1>2. s \in Nat
  BY <1>1
<1>3. EpochOf(s) \in Nat
  BY <1>2, EpochStartsAt
<1> QED
  BY <1>1, <1>3 DEF ForkInv, FormsFollowFork, Released, None

LEMMA LookupKeepsFork ==
  ASSUME ForkInv, Ask \/ GetBlock \/ GetEnvelope \/ FailLookup
  PROVE  ForkInv'
<1> USE BoundsOfFork
<1> DEFINE Results == {"none", "payload", "missed", "withheld", "no payload", "fault"}
<1>1. UNCHANGED <<blocks, announced, changes, known, refresh>>
  BY DEF Ask, GetBlock, GetEnvelope, FailLookup
<1>2. faults' \in 0..MaxFaults
  <2>1. faults' = faults \/ (faults < MaxFaults /\ faults' = faults + 1)
    BY DEF Ask, GetBlock, GetEnvelope, FailLookup
  <2> QED
    BY <2>1, ForkTypes
<1>3. Epochs' = Epochs /\ \A s : EpochOf(s)' = EpochOf(s)
  BY DEF Epochs, EpochOf
<1>4. /\ knew \in BOOLEAN /\ stage \in {"block", "envelope"} /\ last.result \in Results
      /\ last.result = "no payload" => ~last.knew
  BY DEF ForkInv, ForkTypeOK, PayloadIsFoundWhenKnown
<1>5. /\ slot \in 0..Len(blocks) /\ 0 \in 0..Len(blocks) /\ 1..Len(blocks) \subseteq 0..Len(blocks) \ {0}
      /\ slot # 0 => slot \in 1..Len(blocks) /\ blocks[slot] \in Kinds
  BY ForkTypes
<1>6. FormsFollowFork'
  BY <1>1, <1>3 DEF ForkInv, FormsFollowFork
<1>7. ASSUME slot' \in 0..Len(blocks), stage' \in {"block", "envelope"}, knew' \in BOOLEAN,
             last'.result \in Results
      PROVE  ForkTypeOK'
  BY <1>1, <1>2, <1>3, <1>7 DEF ForkInv, ForkTypeOK
<1>8. ASSUME NEW outcome \in Results, NEW upToDate, Settle(outcome, upToDate),
             outcome = "no payload" => ~upToDate
      PROVE  ForkInv'
  <2>1. ForkTypeOK'
    <3>1. /\ slot' \in 0..Len(blocks) /\ stage' \in {"block", "envelope"} /\ knew' \in BOOLEAN
          /\ last'.result \in Results
      BY <1>5, <1>8 DEF Settle
    <3> QED
      BY <1>7, <3>1
  <2>2. EnvelopeIsThere' /\ PayloadIsFoundWhenKnown'
    BY <1>8 DEF Settle, EnvelopeIsThere, PayloadIsFoundWhenKnown
  <2> QED
    BY <1>6, <2>1, <2>2 DEF ForkInv
<1>9. CASE Ask
  <2>1. slot' \in 0..Len(blocks) /\ stage' = "block" /\ UNCHANGED <<knew, last>>
    BY <1>5, <1>9 DEF Ask
  <2>2. ForkTypeOK'
    BY <1>4, <1>7, <2>1
  <2>3. EnvelopeIsThere' /\ PayloadIsFoundWhenKnown'
    BY <1>4, <2>1 DEF EnvelopeIsThere, PayloadIsFoundWhenKnown
  <2> QED
    BY <1>6, <2>2, <2>3 DEF ForkInv
<1>10. CASE GetBlock
  <2>1. CASE blocks[slot] = "missed"
    <3>1. Settle("missed", known = announced)
      BY <1>10, <2>1 DEF GetBlock
    <3> QED
      BY <1>8, <3>1
  <2>2. CASE blocks[slot] # "missed" /\ Released(slot)
    <3>1. stage' = "envelope" /\ knew' = (known = announced) /\ UNCHANGED <<slot, last>> /\ slot # 0
      BY <1>10, <2>2 DEF GetBlock
    <3>2. ForkTypeOK'
      BY <1>4, <1>5, <1>7, <3>1
    <3>3. known = announced => blocks[slot] \in {"envelope", "withheld"}
      BY <1>5, <2>2, <3>1, KnownIsReleased DEF Kinds
    <3>4. EnvelopeIsThere' /\ PayloadIsFoundWhenKnown'
      BY <1>1, <1>4, <3>1, <3>3 DEF EnvelopeIsThere, PayloadIsFoundWhenKnown
    <3> QED
      BY <1>6, <3>2, <3>4 DEF ForkInv
  <2>3. CASE blocks[slot] # "missed" /\ ~Released(slot)
    <3>1. slot # 0 /\ Settle(IF blocks[slot] = "body" THEN "payload" ELSE "no payload", known = announced)
      BY <1>10, <2>3 DEF GetBlock
    <3>2. known = announced => blocks[slot] = "body"
      BY <1>5, <2>3, <3>1, KnownIsReleased DEF Kinds
    <3> QED
      BY <1>8, <3>1, <3>2
  <2> QED
    BY <2>1, <2>2, <2>3
<1>11. CASE GetEnvelope
  <2> DEFINE outcome == CASE blocks[slot] = "envelope" -> "payload"
                          [] blocks[slot] = "withheld" -> "withheld"
                          [] OTHER -> "no payload"
  <2>1. stage = "envelope" /\ Settle(outcome, knew)
    BY <1>11 DEF GetEnvelope
  <2>2. knew => blocks[slot] \in {"envelope", "withheld"}
    BY <2>1 DEF ForkInv, EnvelopeIsThere
  <2>3. outcome \in Results /\ (outcome = "no payload" => ~knew)
    BY <2>2
  <2> QED
    BY <1>8, <2>1, <2>3
<1>12. CASE FailLookup
  BY <1>8, <1>12 DEF FailLookup
<1> QED
  BY <1>9, <1>10, <1>11, <1>12

LEMMA NextForkInv == ForkInv /\ [ForkNext]_forkVars => ForkInv'
<1> SUFFICES ASSUME ForkInv, [ForkNext]_forkVars PROVE ForkInv'
  OBVIOUS
<1>1. CASE UNCHANGED forkVars
  BY <1>1 DEF forkVars, lookup, ForkInv, ForkTypeOK, FormsFollowFork, EnvelopeIsThere,
     PayloadIsFoundWhenKnown, Epochs, EpochOf
<1> QED
  BY <1>1, ProduceKeepsFork, AnnounceKeepsFork, RefreshKeepsFork, LookupKeepsFork DEF ForkNext

\* In every behaviour the variables of the fork keep their types, for every number
\* of slots, announcements and failures.
THEOREM ForkTypesHold == ForkSpec => []ForkTypeOK
  BY InitForkInv, NextForkInv, PTL DEF ForkSpec, ForkInv

\* In every behaviour a lookup that finds no payload where there is one was made by
\* a node that failed or by a service that had not heard of the last announcement,
\* whatever forks were announced, moved and withdrawn and whatever refreshes overlap.
THEOREM PayloadIsFound == ForkSpec => []PayloadIsFoundWhenKnown
  BY InitForkInv, NextForkInv, PTL DEF ForkSpec, ForkInv
=================================================================================
