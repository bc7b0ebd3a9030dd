--------------------------- MODULE Balances_proofs ---------------------------
(***************************************************************************)
(* What holds of the figures of a block state for any number of clients,   *)
(* any course of the chain, any upgrade and any rewards.                   *)
(***************************************************************************)
EXTENDS Balances, SequenceTheorems, TLAPS

Rewards == Figures \cup {[cl |-> 0, el |-> 0]}

Shape ==
  /\ head \in 1..Len(Course) /\ supported \in BOOLEAN
  /\ stored \in Rewards /\ stores \in 0..MaxStores /\ faults \in 0..MaxFaults
  /\ block \in [Clients -> 0..head] /\ reserve \in [Clients -> Int]
  /\ balances \in [Clients -> [wv : Int, el : Int]] /\ vaults \in [Clients -> Int]
  /\ base \in [Clients -> Int] /\ blind \in [Clients -> BOOLEAN]
  /\ during \in [Clients -> SUBSET Rewards]

\* A client without a question has nothing read.
IsIdle(c) ==
  base[c] = Pending /\ balances[c] = NoBalances /\ vaults[c] = Pending /\ reserve[c] = Pending

\* What a question has read is of its block, and of one stored update.
BaseIsPinned(c)     == base[c] \in {Pending, block[c]}
BalancesArePinned(c) ==
  /\ balances[c].wv \in {Pending, Course[block[c]].wv}
  /\ balances[c].el \in {Pending, Course[block[c]].el}
ReserveIsPinned(c) ==
  IF reserve[c] = Pending THEN ~blind[c]
  ELSE reserve[c] = IF blind[c] THEN 0 ELSE Course[block[c]].reserve
VaultsArePinned(c) ==
  /\ stored \in during[c]
  /\ vaults[c] = Pending \/ \E f \in during[c] : vaults[c] = Vaults(block[c], f)

IsPinned(c) ==
  /\ BaseIsPinned(c) /\ BalancesArePinned(c) /\ ReserveIsPinned(c) /\ VaultsArePinned(c)

Pinned == \A c \in Clients : IF block[c] = 0 THEN IsIdle(c) ELSE IsPinned(c)

Cached == cache.block \in 0..head /\ BufferIsDrainable /\ VaultsOfOneUpdate

IInv == Shape /\ Pinned /\ Cached

-----------------------------------------------------------------------------
LEMMA BlockShape ==
  ASSUME NEW b \in 1..Len(Course)
  PROVE  /\ Course[b].unfinalized \in Nat /\ Course[b].total \in Nat
         /\ Course[b].reserve \in Nat /\ Course[b].wv \in Nat /\ Course[b].el \in Nat
         /\ b < Upgrade => Course[b].reserve = 0
<1> DEFINE Blocks == [unfinalized : Nat, total : Nat, reserve : Nat, wv : Nat, el : Nat]
<1>1. /\ Course \in Seq(Blocks)
      /\ \A i \in DOMAIN Course : i < Upgrade => Course[i].reserve = 0
  BY BalancesConstants
<1> HIDE DEF Blocks
<1>2. Course[b] \in Blocks
  BY <1>1, ElementOfSeq
<1>3. b \in DOMAIN Course
  BY <1>1, LenProperties
<1> QED
  BY <1>1, <1>2, <1>3 DEF Blocks

LEMMA RewardsShape == \A f \in Rewards : f \in [cl : Int, el : Int]
  BY BalancesConstants DEF Rewards

LEMMA SurplusIsNat ==
  ASSUME NEW a \in Int, NEW b \in Int
  PROVE  Surplus(a, b) \in Nat
  BY DEF Surplus

LEMMA VaultsAreNat ==
  ASSUME NEW b \in 1..Len(Course), NEW f \in Rewards
  PROVE  Vaults(b, f) \in Nat
<1>1. f.cl \in Int /\ f.el \in Int
  BY RewardsShape
<1>2. Course[b].wv \in Int /\ Course[b].el \in Int
  BY BlockShape
<1>3. Surplus(Course[b].wv, f.cl) \in Nat /\ Surplus(Course[b].el, f.el) \in Nat
  BY <1>1, <1>2, SurplusIsNat
<1> QED
  BY <1>3 DEF Vaults

LEMMA CourseHasBlocks == Len(Course) \in Nat \ {0}
<1>1. Course \in Seq([unfinalized : Nat, total : Nat, reserve : Nat, wv : Nat, el : Nat])
      /\ Course # <<>>
  BY BalancesConstants
<1> QED
  BY <1>1

LEMMA InitIInv == Init => IInv
<1> SUFFICES ASSUME Init PROVE IInv
  OBVIOUS
<1>1. Shape
  <2>1. head \in 1..Len(Course) /\ stores \in 0..MaxStores /\ faults \in 0..MaxFaults
    BY CourseHasBlocks, BalancesConstants DEF Init
  <2>2. supported \in BOOLEAN /\ stored \in Rewards
    BY DEF Init, Rewards
  <2>3. NoBalances \in [wv : Int, el : Int] /\ Pending \in Int
    BY DEF NoBalances, Pending
  <2>4. balances \in [Clients -> [wv : Int, el : Int]]
    BY <2>3 DEF Init
  <2>5. /\ block \in [Clients -> 0..head] /\ reserve \in [Clients -> Int]
        /\ vaults \in [Clients -> Int] /\ base \in [Clients -> Int]
        /\ blind \in [Clients -> BOOLEAN] /\ during \in [Clients -> SUBSET Rewards]
    BY <2>3 DEF Init
  <2> QED
    BY <2>1, <2>2, <2>4, <2>5 DEF Shape
<1>2. Pinned
  BY DEF Init, Pinned, IsIdle
<1>3. Cached
  BY CourseHasBlocks DEF Init, Cached, BufferIsDrainable, VaultsOfOneUpdate, None
<1> QED
  BY <1>1, <1>2, <1>3 DEF IInv

\* What is pinned stays so while the client waits and the rewards stay.
LEMMA PinnedStays ==
  ASSUME NEW c \in Clients, IF block[c] = 0 THEN IsIdle(c) ELSE IsPinned(c),
         block'[c] = block[c], reserve'[c] = reserve[c], balances'[c] = balances[c],
         vaults'[c] = vaults[c], base'[c] = base[c], blind'[c] = blind[c],
         during'[c] = during[c], stored' = stored
  PROVE  (IF block[c] = 0 THEN IsIdle(c) ELSE IsPinned(c))'
  BY DEF IsIdle, IsPinned, BaseIsPinned, BalancesArePinned, ReserveIsPinned,
         VaultsArePinned, Vaults

LEMMA CacheStays ==
  ASSUME Shape, Cached, cache' = cache, head' \in {head, head + 1}
  PROVE  Cached'
  BY DEF Shape, Cached, BufferIsDrainable, VaultsOfOneUpdate, Vaults, Drainable

\* What a client that is asked does to it, when the others keep theirs.
LEMMA OneClientMoves ==
  ASSUME IInv, NEW c \in Clients, Shape',
         (IF block[c] = 0 THEN IsIdle(c) ELSE IsPinned(c))', stored' = stored,
         \A d \in Clients \ {c} :
           /\ block'[d] = block[d] /\ reserve'[d] = reserve[d] /\ balances'[d] = balances[d]
           /\ vaults'[d] = vaults[d] /\ base'[d] = base[d] /\ blind'[d] = blind[d]
           /\ during'[d] = during[d],
         Cached'
  PROVE  IInv'
<1>1. ASSUME NEW d \in Clients PROVE (IF block[d] = 0 THEN IsIdle(d) ELSE IsPinned(d))'
  <2>1. CASE d = c
    BY <2>1
  <2>2. CASE d # c
    BY <2>2, PinnedStays DEF IInv, Pinned
  <2> QED
    BY <2>1, <2>2
<1>2. Pinned'
  BY <1>1 DEF Pinned
<1> QED
  BY <1>2 DEF IInv
-----------------------------------------------------------------------------
(* One lemma per step that changes what a client or the cache has.         *)

LEMMA StoreIInv == IInv /\ Store => IInv'
<1> SUFFICES ASSUME IInv, Store PROVE IInv'
  OBVIOUS
<1>1. stored' \in Rewards /\ stores' \in 0..MaxStores
  BY BalancesConstants DEF IInv, Shape, Store, Rewards
<1>2. during' \in [Clients -> SUBSET Rewards]
  BY <1>1 DEF IInv, Shape, Store
<1>3. Shape'
  BY <1>1, <1>2 DEF IInv, Shape, Store
<1>4. ASSUME NEW c \in Clients PROVE (IF block[c] = 0 THEN IsIdle(c) ELSE IsPinned(c))'
  <2>1. CASE block[c] = 0
    BY <2>1 DEF IInv, Pinned, IsIdle, Store
  <2>2. CASE block[c] # 0
    <3>1. IsPinned(c)
      BY <2>2 DEF IInv, Pinned
    <3>2. during'[c] = during[c] \cup {stored'}
      BY <2>2 DEF Store
    <3>3. BaseIsPinned(c)' /\ BalancesArePinned(c)' /\ ReserveIsPinned(c)'
      BY <3>1 DEF Store, IsPinned, BaseIsPinned, BalancesArePinned, ReserveIsPinned
    <3>4. VaultsArePinned(c)'
      BY <3>1, <3>2 DEF Store, IsPinned, VaultsArePinned, Vaults
    <3> QED
      BY <2>2, <3>3, <3>4 DEF IsPinned, Store
  <2> QED
    BY <2>1, <2>2
<1>5. Cached'
  BY CacheStays DEF IInv, Store
<1> QED
  BY <1>3, <1>4, <1>5 DEF IInv, Pinned

LEMMA AskIInv == ASSUME IInv, NEW c \in Clients, Ask(c) PROVE IInv'
<1>1. PICK b \in 1..head : block' = [block EXCEPT ![c] = b]
  BY DEF Ask
<1>2. head \in Nat /\ b \in 0..head
  BY CourseHasBlocks DEF IInv, Shape
<1>3. Shape'
  <2>1. block' \in [Clients -> 0..head] /\ reserve' \in [Clients -> Int]
    BY <1>1, <1>2 DEF Ask, IInv, Shape, Pending
  <2>2. blind' \in [Clients -> BOOLEAN] /\ during' \in [Clients -> SUBSET Rewards]
    BY DEF Ask, IInv, Shape
  <2> QED
    BY <2>1, <2>2 DEF Ask, IInv, Shape, rest
<1>4. /\ block'[c] = b /\ b # 0 /\ blind'[c] = ~supported /\ during'[c] = {stored}
      /\ reserve'[c] = IF supported THEN Pending ELSE 0
  BY <1>1, <1>2 DEF Ask, IInv, Shape
<1>5. IsIdle(c)
  BY DEF Ask, IInv, Pinned
<1>6. IsPinned(c)'
  <2>1. BaseIsPinned(c)' /\ BalancesArePinned(c)'
    BY <1>4, <1>5 DEF Ask, IsIdle, NoBalances, BaseIsPinned, BalancesArePinned
  <2>2. ReserveIsPinned(c)'
    <3>1. CASE supported
      BY <1>4, <3>1, Zenon DEF ReserveIsPinned
    <3>2. CASE ~supported
      <4>1. 0 # Pending
        BY DEF Pending
      <4> QED
        BY <1>4, <3>2, <4>1, Zenon DEF ReserveIsPinned
    <3> QED
      BY <3>1, <3>2
  <2>3. VaultsArePinned(c)'
    BY <1>4, <1>5 DEF Ask, IsIdle, VaultsArePinned, rest
  <2> QED
    BY <2>1, <2>2, <2>3 DEF IsPinned
<1>7. Cached'
  BY CacheStays DEF IInv, Ask, rest
<1>8. \A d \in Clients \ {c} :
        /\ block'[d] = block[d] /\ reserve'[d] = reserve[d] /\ balances'[d] = balances[d]
        /\ vaults'[d] = vaults[d] /\ base'[d] = base[d] /\ blind'[d] = blind[d]
        /\ during'[d] = during[d]
  BY <1>1 DEF Ask, IInv, Shape
<1> QED
  BY <1>3, <1>4, <1>6, <1>7, <1>8, OneClientMoves DEF Ask, rest

LEMMA ReadBaseIInv == ASSUME IInv, NEW c \in Clients, ReadBase(c) PROVE IInv'
<1>1. block[c] # 0 /\ block[c] \in 1..Len(Course) /\ IsPinned(c)
  BY CourseHasBlocks DEF ReadBase, IInv, Shape, Pinned
<1>2. Shape'
  BY <1>1 DEF ReadBase, IInv, Shape, rest
<1>3. base'[c] = block[c]
  BY DEF ReadBase, IInv, Shape
<1>4. IsPinned(c)'
  <2>1. BaseIsPinned(c)'
    BY <1>3 DEF ReadBase, BaseIsPinned
  <2>2. BalancesArePinned(c)' /\ ReserveIsPinned(c)'
    BY <1>1 DEF ReadBase, IsPinned, BalancesArePinned, ReserveIsPinned
  <2>3. VaultsArePinned(c)'
    BY <1>1 DEF ReadBase, IsPinned, VaultsArePinned, Vaults, rest
  <2> QED
    BY <2>1, <2>2, <2>3 DEF IsPinned
<1>5. Cached'
  BY CacheStays DEF IInv, ReadBase, rest
<1>6. \A d \in Clients \ {c} :
        /\ block'[d] = block[d] /\ reserve'[d] = reserve[d] /\ balances'[d] = balances[d]
        /\ vaults'[d] = vaults[d] /\ base'[d] = base[d] /\ blind'[d] = blind[d]
        /\ during'[d] = during[d]
  BY DEF ReadBase, IInv, Shape
<1> QED
  BY <1>1, <1>2, <1>4, <1>5, <1>6, OneClientMoves DEF ReadBase, rest

\* The reserve of a block before the upgrade is 0 by assumption.
LEMMA ReserveIInv ==
  ASSUME IInv, NEW c \in Clients, ReadReserve(c) \/ MissReserve(c) PROVE IInv'
<1>1. block[c] # 0 /\ block[c] \in 1..Len(Course) /\ IsPinned(c) /\ reserve[c] = Pending
  BY CourseHasBlocks DEF ReadReserve, MissReserve, IInv, Shape, Pinned
<1>2. /\ ~blind[c] /\ Course[block[c]].reserve \in Nat
      /\ block[c] < Upgrade => Course[block[c]].reserve = 0
  BY <1>1, BlockShape DEF IsPinned, ReserveIsPinned
<1>3. /\ block' = block /\ balances' = balances /\ vaults' = vaults /\ base' = base
      /\ during' = during /\ stored' = stored /\ cache' = cache /\ head' = head
      /\ supported' = supported /\ stores' = stores
  BY DEF ReadReserve, MissReserve, rest
<1>4. \/ /\ reserve' = [reserve EXCEPT ![c] = Course[block[c]].reserve]
         /\ blind' = blind /\ faults' = faults
      \/ /\ reserve' = [reserve EXCEPT ![c] = 0] /\ blind' = [blind EXCEPT ![c] = TRUE]
         /\ faults < MaxFaults /\ faults' = faults + 1
  BY <1>1, <1>2 DEF ReadReserve, MissReserve, rest
<1>5. Shape'
  <2>1. reserve' \in [Clients -> Int]
    BY <1>2, <1>4 DEF IInv, Shape
  <2>2. blind' \in [Clients -> BOOLEAN]
    BY <1>4, Zenon DEF IInv, Shape
  <2>3. faults' = faults \/ (faults < MaxFaults /\ faults' = faults + 1)
    BY <1>4, Zenon
  <2>a. faults \in 0..MaxFaults /\ MaxFaults \in Nat
    BY BalancesConstants DEF IInv, Shape
  <2>4. faults' \in 0..MaxFaults
    BY <2>3, <2>a
  <2> QED
    BY <1>3, <2>1, <2>2, <2>4 DEF IInv, Shape
<1>6. ReserveIsPinned(c)'
  BY <1>2, <1>3, <1>4 DEF IInv, Shape, ReserveIsPinned, Pending
<1>7. IsPinned(c)'
  BY <1>1, <1>3, <1>6
  DEF IsPinned, BaseIsPinned, BalancesArePinned, VaultsArePinned, Vaults
<1>8. Cached'
  BY <1>3, CacheStays DEF IInv
<1>9. \A d \in Clients \ {c} : reserve'[d] = reserve[d] /\ blind'[d] = blind[d]
  BY <1>4 DEF IInv, Shape
<1> QED
  BY <1>1, <1>3, <1>5, <1>7, <1>8, <1>9, OneClientMoves

\* One balance has come in; after the second the rewards of now are subtracted, and
\* those stored now are among those stored during the question.
LEMMA ReadVaultIInv ==
  ASSUME IInv, NEW c \in Clients, NEW v \in {"wv", "el"}, ReadVault(c, v) PROVE IInv'
<1> DEFINE b == block[c]
           read == [balances[c] EXCEPT ![v] = Course[b][v]]
<1>1. b # 0 /\ b \in 1..Len(Course) /\ IsPinned(c)
  BY CourseHasBlocks DEF ReadVault, IInv, Shape, Pinned
<1>2. Course[b].wv \in Nat /\ Course[b].el \in Nat
  BY <1>1, BlockShape
<1>3. read \in [wv : Int, el : Int]
  <2>1. balances[c] \in [wv : Int, el : Int]
    BY DEF IInv, Shape
  <2>2. CASE v = "wv"
    BY <1>2, <2>1, <2>2
  <2>3. CASE v = "el"
    BY <1>2, <2>1, <2>3
  <2> QED
    BY <2>2, <2>3
<1>4. /\ read.wv \in {Pending, Course[b].wv}
      /\ read.el \in {Pending, Course[b].el}
  <2>1. /\ balances[c] \in [wv : Int, el : Int]
        /\ balances[c].wv \in {Pending, Course[b].wv}
        /\ balances[c].el \in {Pending, Course[b].el}
    BY <1>1 DEF IInv, Shape, IsPinned, BalancesArePinned
  <2>2. CASE v = "wv"
    BY <2>1, <2>2
  <2>3. CASE v = "el"
    BY <2>1, <2>3
  <2> QED
    BY <2>2, <2>3
<1>5. /\ balances' = [balances EXCEPT ![c] = read]
      /\ vaults' = [vaults EXCEPT ![c] =
                      IF Pending \in {read.wv, read.el} THEN Pending
                      ELSE Surplus(read.wv, stored.cl) + Surplus(read.el, stored.el)]
      /\ block' = block /\ reserve' = reserve /\ base' = base /\ blind' = blind
      /\ during' = during /\ UNCHANGED rest
  BY DEF ReadVault
<1> HIDE DEF read
<1>6. stored \in Rewards /\ Vaults(b, stored) \in Int
  BY <1>1, VaultsAreNat DEF IInv, Shape
<1>7. vaults'[c] = Pending \/ vaults'[c] = Vaults(b, stored)
  BY <1>4, <1>5 DEF Vaults, IInv, Shape
<1>8. Shape'
  <2>1. balances' \in [Clients -> [wv : Int, el : Int]]
    BY <1>3, <1>5 DEF IInv, Shape
  <2>2. vaults'[c] \in Int
    BY <1>6, <1>7 DEF Pending
  <2>3. vaults' \in [Clients -> Int]
    BY <1>5, <2>2 DEF IInv, Shape
  <2> QED
    BY <1>5, <2>1, <2>3 DEF IInv, Shape, rest
<1>9. IsPinned(c)'
  <2>1. BaseIsPinned(c)' /\ ReserveIsPinned(c)'
    BY <1>1, <1>5 DEF IsPinned, BaseIsPinned, ReserveIsPinned
  <2>2. BalancesArePinned(c)'
    BY <1>4, <1>5 DEF BalancesArePinned, IInv, Shape
  <2>3. stored' = stored /\ stored \in during'[c]
    BY <1>1, <1>5 DEF IsPinned, VaultsArePinned, rest
  <2>4. VaultsArePinned(c)'
    BY <1>5, <1>7, <2>3 DEF VaultsArePinned, Vaults
  <2> QED
    BY <2>1, <2>2, <2>4 DEF IsPinned
<1>10. Cached'
  BY <1>5, CacheStays DEF IInv, rest
<1>11. \A d \in Clients \ {c} : balances'[d] = balances[d] /\ vaults'[d] = vaults[d]
  BY <1>5 DEF IInv, Shape
<1> QED
  BY <1>1, <1>5, <1>8, <1>9, <1>10, <1>11, OneClientMoves DEF rest

\* A question that ends leaves nothing behind.
LEMMA EndIInv ==
  ASSUME IInv, NEW c \in Clients, End(c), Cached', faults' \in 0..MaxFaults,
         UNCHANGED <<head, supported, stored, stores>>
  PROVE  IInv'
<1>1. NoBalances \in [wv : Int, el : Int] /\ Pending \in Int
  BY DEF NoBalances, Pending
<1>2. Shape'
  <2>1. head \in Nat
    BY CourseHasBlocks DEF IInv, Shape
  <2>2. balances' \in [Clients -> [wv : Int, el : Int]]
    BY <1>1 DEF End, IInv, Shape
  <2>3. /\ block' \in [Clients -> 0..head] /\ reserve' \in [Clients -> Int]
        /\ vaults' \in [Clients -> Int] /\ base' \in [Clients -> Int]
    BY <1>1, <2>1 DEF End, IInv, Shape
  <2>4. blind' \in [Clients -> BOOLEAN] /\ during' \in [Clients -> SUBSET Rewards]
    BY DEF End, IInv, Shape
  <2> QED
    BY <2>2, <2>3, <2>4 DEF IInv, Shape
<1>3. block'[c] = 0 /\ IsIdle(c)'
  BY DEF End, IsIdle, IInv, Shape, NoBalances
<1>4. \A d \in Clients \ {c} :
        /\ block'[d] = block[d] /\ reserve'[d] = reserve[d] /\ balances'[d] = balances[d]
        /\ vaults'[d] = vaults[d] /\ base'[d] = base[d] /\ blind'[d] = blind[d]
        /\ during'[d] = during[d]
  BY DEF End, IInv, Shape
<1> QED
  BY <1>2, <1>3, <1>4, OneClientMoves

\* All that the state is built from is pinned.
LEMMA FinishIInv == ASSUME IInv, NEW c \in Clients, Finish(c) PROVE IInv'
<1> DEFINE b == block[c]
<1>1. /\ b # 0 /\ b \in 1..Len(Course) /\ b \in 0..head /\ IsPinned(c)
      /\ Pending \notin {base[c], vaults[c], reserve[c]}
  BY CourseHasBlocks DEF Finish, IInv, Shape, Pinned
<1>2. /\ base[c] = b
      /\ reserve[c] = IF blind[c] THEN 0 ELSE Course[b].reserve
      /\ \E f \in during[c] : vaults[c] = Vaults(b, f)
  BY <1>1 DEF IsPinned, BaseIsPinned, ReserveIsPinned, VaultsArePinned
<1>3. /\ cache'.block = b /\ cache'.unfinalized = Course[b].unfinalized
      /\ cache'.buffer = Drainable(b, reserve[c]) /\ cache'.vaults = vaults[c]
      /\ cache'.blind = blind[c] /\ cache'.during = during[c]
  BY <1>2 DEF Finish
<1>4. head' = head
  BY DEF Finish
<1>5. Cached'
  <2>1. BufferIsDrainable'
    BY <1>2, <1>3, Zenon DEF BufferIsDrainable, Drainable
  <2>2. VaultsOfOneUpdate'
    BY <1>2, <1>3, Zenon DEF VaultsOfOneUpdate, Vaults
  <2> QED
    BY <1>1, <1>3, <1>4, <2>1, <2>2 DEF Cached
<1>6. End(c) /\ faults' \in 0..MaxFaults /\ UNCHANGED <<head, supported, stored, stores>>
  BY DEF Finish, IInv, Shape
<1> QED
  BY <1>5, <1>6, EndIInv

LEMMA FailIInv == ASSUME IInv, NEW c \in Clients, Fail(c) PROVE IInv'
<1>1. faults' \in 0..MaxFaults
  <2>1. faults < MaxFaults /\ faults' = faults + 1
    BY DEF Fail
  <2>2. faults \in 0..MaxFaults /\ MaxFaults \in Nat
    BY BalancesConstants DEF IInv, Shape
  <2> QED
    BY <2>1, <2>2
<1>2. Cached'
  BY CacheStays DEF Fail, IInv
<1> QED
  BY <1>1, <1>2, EndIInv DEF Fail

LEMMA StepIInv == IInv /\ [Next]_vars => IInv'
<1> SUFFICES ASSUME IInv, [Next]_vars PROVE IInv'
  OBVIOUS
<1>1. CASE Mine \/ Support \/ UNCHANGED vars
  <2>1. UNCHANGED <<locals, stored, stores, cache, faults>> /\ head' \in {head, head + 1}
    BY <1>1 DEF Mine, Support, vars, rest
  <2>2. Shape'
    <3>1. head' \in 1..Len(Course) /\ supported' \in BOOLEAN
      <4>1. head' = head \/ (head < Len(Course) /\ head' = head + 1)
        BY <1>1 DEF Mine, Support, vars, rest
      <4>2. head \in 1..Len(Course) /\ Len(Course) \in Nat
        BY CourseHasBlocks DEF IInv, Shape
      <4>3. head' \in 1..Len(Course)
        BY <4>1, <4>2
      <4>4. supported' = supported \/ supported' = TRUE
        BY <1>1 DEF Mine, Support, vars, rest
      <4>5. supported' \in BOOLEAN
        BY <4>4, Zenon DEF IInv, Shape
      <4> QED
        BY <4>3, <4>5
    <3>2. head \in Nat /\ 0..head \subseteq 0..head'
      BY <2>1, CourseHasBlocks DEF IInv, Shape
    <3>3. block' \in [Clients -> 0..head']
      BY <2>1, <3>2 DEF IInv, Shape, locals
    <3> QED
      BY <2>1, <3>1, <3>3 DEF IInv, Shape, locals
  <2>3. Pinned'
    BY <2>1, PinnedStays DEF IInv, Pinned, locals
  <2>4. Cached'
    BY <2>1, CacheStays DEF IInv
  <2> QED
    BY <2>2, <2>3, <2>4 DEF IInv
<1>2. CASE Store
  BY <1>2, StoreIInv
<1>3. ASSUME NEW c \in Clients, Question(c) PROVE IInv'
  BY <1>3, AskIInv, ReadBaseIInv, ReserveIInv, ReadVaultIInv, FinishIInv, FailIInv
  DEF Question
<1> QED
  BY <1>1, <1>2, <1>3 DEF Next

LEMMA Invariance == Spec => []IInv
<1>1. QED
  BY InitIInv, StepIInv, PTL DEF Spec

-----------------------------------------------------------------------------
\* The figures of a question and of the cache are balances or Pending.
THEOREM TypeCorrect == Spec => []TypeOK
<1>1. IInv => TypeOK
  <2> SUFFICES ASSUME IInv PROVE TypeOK
    OBVIOUS
  <2>1. ASSUME NEW c \in Clients
        PROVE  /\ block[c] \in 0..head
               /\ reserve[c] >= Pending /\ vaults[c] >= Pending
               /\ base[c] \in {Pending, block[c]}
               /\ balances[c].wv >= Pending /\ balances[c].el >= Pending
               /\ block[c] = 0 =>
                    base[c] = Pending /\ vaults[c] = Pending /\ reserve[c] = Pending
    <3>1. CASE block[c] = 0
      BY <3>1 DEF IInv, Shape, Pinned, IsIdle, NoBalances, Pending
    <3>2. CASE block[c] # 0
      <4>1. block[c] \in 1..Len(Course) /\ IsPinned(c)
        BY <3>2, CourseHasBlocks DEF IInv, Shape, Pinned
      <4>2. reserve[c] >= Pending
        <5>1. CASE reserve[c] = Pending
          BY <5>1 DEF Pending
        <5>2. CASE reserve[c] # Pending
          <6>1. reserve[c] \in {0, Course[block[c]].reserve}
            BY <4>1, <5>2 DEF IsPinned, ReserveIsPinned
          <6> QED
            BY <4>1, <6>1, BlockShape DEF Pending
        <5> QED
          BY <5>1, <5>2
      <4>3. vaults[c] >= Pending
        <5>1. during[c] \subseteq Rewards
          BY DEF IInv, Shape
        <5> QED
          BY <4>1, <5>1, VaultsAreNat DEF IsPinned, VaultsArePinned, Pending
      <4>4. balances[c].wv >= Pending /\ balances[c].el >= Pending
        BY <4>1, BlockShape DEF IsPinned, BalancesArePinned, Pending
      <4> QED
        BY <3>2, <4>1, <4>2, <4>3, <4>4 DEF IInv, Shape, IsPinned, BaseIsPinned
    <3> QED
      BY <3>1, <3>2
  <2> QED
    BY <2>1 DEF IInv, Shape, Cached, TypeOK, Rewards
<1>2. QED
  BY <1>1, Invariance, PTL

\* However reads, upgrades and blocks interleave, the cached buffer is what is
\* drainable at the block of the state (getBlockState, getDepositsReserveAt).
THEOREM BufferOfItsBlock == Spec => []BufferIsDrainable
<1>1. IInv => BufferIsDrainable
  BY DEF IInv, Cached
<1>2. QED
  BY <1>1, Invariance, PTL

\* However updates of the rewards interleave with the reads, the part of the vaults
\* is computed with the figures of one of them (getVaultsBalance).
THEOREM VaultsNeverMix == Spec => []VaultsOfOneUpdate
<1>1. IInv => VaultsOfOneUpdate
  BY DEF IInv, Cached
<1>2. QED
  BY <1>1, Invariance, PTL
=============================================================================
