------------------------------- MODULE Balances -------------------------------
(***************************************************************************)
(* The figures of one block state: what getBlockState of                   *)
(* BlockStateCacheService reads once it has a block number, with           *)
(* getDepositsReserveAt of LidoExtensionReader and getVaultsBalance of     *)
(* RewardsService.                                                         *)
(*                                                                         *)
(* The reads are pinned to the block, run in parallel and may be answered  *)
(* in any order while blocks are added, the rewards jobs store new figures *)
(* and the configuration job learns of the deposits reserve.  Which block  *)
(* is asked for is BlockState's matter: here it is any block so far, the   *)
(* head or a reference block that stays for hours.                         *)
(***************************************************************************)
EXTENDS Integers, Sequences

CONSTANTS Clients,
          Course,      \* the blocks: unfinalized, total, reserve, wv, el, where wv
                       \*   and el are the balances of the two vaults
          Upgrade,     \* the first block whose Lido contract has a reserve
          Figures,     \* rewards of a frame, cl and el, that may be stored together
          MaxStores,   \* bound: how often rewards are stored
          MaxFaults    \* bound: failed reads

ASSUME BalancesConstants ==
  /\ Course \in Seq([unfinalized : Nat, total : Nat, reserve : Nat, wv : Nat, el : Nat])
  /\ Course # <<>> /\ Upgrade \in Nat
  /\ \A b \in DOMAIN Course : b < Upgrade => Course[b].reserve = 0
  /\ Figures \subseteq [cl : Int, el : Int]
  /\ MaxStores \in Nat /\ MaxFaults \in Nat

None    == [block |-> 0]    \* no state yet
Pending == -1               \* a read without an answer

VARIABLES
  head,          \* the chain so far
  supported,     \* ContractConfigStorageService: lidoSupportsDepositsReserve
  stored, stores,   \* RewardsStorageService, and how often it was set
  block,         \* per client: the block of its question, 0 without one
  reserve,       \* per client: result of depositsReservePromise
  balances,      \* per client: wv and el, read or Pending
  vaults,        \* per client: result of getVaultsBalance
  base,          \* per client: unfinalized and total, read or Pending
  blind,         \* history, per client: the reserve was not looked for, or its
                 \*   read failed
  during,        \* history, per client: the figures stored during its question
  cache,         \* stateCache
  faults

locals == <<block, reserve, balances, vaults, base, blind, during>>
rest   == <<head, supported, stored, stores, cache, faults>>
vars   == <<locals, rest>>

NoBalances == [wv |-> Pending, el |-> Pending]

Init ==
  /\ head = 1 /\ supported = FALSE /\ stored = [cl |-> 0, el |-> 0] /\ stores = 0
  /\ block = [c \in Clients |-> 0] /\ reserve = [c \in Clients |-> Pending]
  /\ balances = [c \in Clients |-> NoBalances] /\ vaults = [c \in Clients |-> Pending]
  /\ base = [c \in Clients |-> Pending]
  /\ blind = [c \in Clients |-> FALSE] /\ during = [c \in Clients |-> {}]
  /\ cache = None /\ faults = 0

-----------------------------------------------------------------------------
(* What happens meanwhile.                                                 *)

Mine == head < Len(Course) /\ head' = head + 1
        /\ UNCHANGED <<locals, supported, stored, stores, cache, faults>>

\* The contract-config job has seen the reserve on the contract.
Support == ~supported /\ head >= Upgrade /\ supported' = TRUE
           /\ UNCHANGED <<locals, head, stored, stores, cache, faults>>

\* updateRewards: the setters, one after another.
Store ==
  /\ stores < MaxStores /\ stores' = stores + 1
  /\ stored' \in Figures \ {stored}
  /\ during' = [c \in Clients |-> IF block[c] = 0 THEN {} ELSE during[c] \cup {stored'}]
  /\ UNCHANGED <<head, supported, block, reserve, balances, vaults, base, blind, cache, faults>>

-----------------------------------------------------------------------------
(* A question that has its block number.                                   *)

\* The cached state is of another block: the four reads begin.
Ask(c) ==
  /\ block[c] = 0
  /\ \E b \in 1..head : b # cache.block /\ block' = [block EXCEPT ![c] = b]
  /\ reserve' = [reserve EXCEPT ![c] = IF supported THEN Pending ELSE 0]
  /\ blind' = [blind EXCEPT ![c] = ~supported]
  /\ during' = [during EXCEPT ![c] = {stored}]
  /\ UNCHANGED <<balances, vaults, base, rest>>

ReadBase(c) ==
  /\ block[c] # 0 /\ base[c] = Pending
  /\ base' = [base EXCEPT ![c] = block[c]]
  /\ UNCHANGED <<block, reserve, balances, vaults, blind, during, rest>>

\* Slip: the reserve is read without a block tag.
ReadReserveNow(c) ==
  /\ block[c] # 0 /\ reserve[c] = Pending
  /\ reserve' = [reserve EXCEPT ![c] = Course[head].reserve]
  /\ UNCHANGED <<block, balances, vaults, base, blind, during, rest>>

\* getDepositsReserveAt: a block before the upgrade reverts, which counts as 0.
ReadReserve(c) ==
  /\ block[c] # 0 /\ reserve[c] = Pending
  /\ reserve' = [reserve EXCEPT ![c] =
                   IF block[c] < Upgrade THEN 0 ELSE Course[block[c]].reserve]
  /\ UNCHANGED <<block, balances, vaults, base, blind, during, rest>>

\* The read of the reserve fails: 0 as well.
MissReserve(c) ==
  /\ block[c] # 0 /\ reserve[c] = Pending
  /\ faults < MaxFaults /\ faults' = faults + 1
  /\ reserve' = [reserve EXCEPT ![c] = 0] /\ blind' = [blind EXCEPT ![c] = TRUE]
  /\ UNCHANGED <<block, balances, vaults, base, during, head, supported, stored, stores, cache>>

Surplus(balance, rewards) == IF balance - rewards > 0 THEN balance - rewards ELSE 0

\* What may be drained from the vaults, given the rewards of a frame.
Vaults(b, figures) == Surplus(Course[b].wv, figures.cl) + Surplus(Course[b].el, figures.el)

\* Slip: the rewards of each vault are subtracted as its balance comes in.
ReadVaultAndNet(c, v) ==
  LET rewards == IF v = "wv" THEN stored.cl ELSE stored.el
      read == [balances[c] EXCEPT ![v] = Surplus(Course[block[c]][v], rewards)]
  IN  /\ block[c] # 0 /\ balances[c][v] = Pending
      /\ balances' = [balances EXCEPT ![c] = read]
      /\ vaults' = [vaults EXCEPT ![c] =
                      IF Pending \in {read.wv, read.el} THEN Pending ELSE read.wv + read.el]
      /\ UNCHANGED <<block, reserve, base, blind, during, rest>>

\* One of the two getBalance calls; after the second, the stored rewards are read.
ReadVault(c, v) ==
  LET read == [balances[c] EXCEPT ![v] = Course[block[c]][v]]
  IN  /\ block[c] # 0 /\ balances[c][v] = Pending
      /\ balances' = [balances EXCEPT ![c] = read]
      /\ vaults' = [vaults EXCEPT ![c] =
                      IF Pending \in {read.wv, read.el} THEN Pending
                      ELSE Surplus(read.wv, stored.cl) + Surplus(read.el, stored.el)]
      /\ UNCHANGED <<block, reserve, base, blind, during, rest>>

Drainable(b, reserved) ==
  IF Course[b].total > reserved THEN Course[b].total - reserved ELSE 0

End(c) ==
  /\ block' = [block EXCEPT ![c] = 0] /\ reserve' = [reserve EXCEPT ![c] = Pending]
  /\ balances' = [balances EXCEPT ![c] = NoBalances]
  /\ vaults' = [vaults EXCEPT ![c] = Pending] /\ base' = [base EXCEPT ![c] = Pending]
  /\ blind' = [blind EXCEPT ![c] = FALSE] /\ during' = [during EXCEPT ![c] = {}]

\* All four are here: the state is built and cached.
Finish(c) ==
  /\ block[c] # 0 /\ Pending \notin {base[c], vaults[c], reserve[c]}
  /\ cache' = [block |-> block[c], unfinalized |-> Course[base[c]].unfinalized,
               buffer |-> Drainable(base[c], reserve[c]), vaults |-> vaults[c],
               blind |-> blind[c], during |-> during[c]]
  /\ End(c)
  /\ UNCHANGED <<head, supported, stored, stores, faults>>

\* Any other read fails and with it the question; the cache stays.
Fail(c) ==
  /\ block[c] # 0 /\ Pending \in {base[c], balances[c].wv, balances[c].el}
  /\ faults < MaxFaults /\ faults' = faults + 1
  /\ End(c)
  /\ UNCHANGED <<head, supported, stored, stores, cache>>

Question(c) == \/ Ask(c) \/ ReadBase(c) \/ ReadReserve(c) \/ MissReserve(c)
               \/ \E v \in {"wv", "el"} : ReadVault(c, v)
               \/ Finish(c) \/ Fail(c)

Next == Mine \/ Support \/ Store \/ \E c \in Clients : Question(c)

Spec == Init /\ [][Next]_vars

-----------------------------------------------------------------------------
(* Properties.                                                             *)

TypeOK ==
  /\ head \in 1..Len(Course) /\ supported \in BOOLEAN
  /\ stored \in Figures \cup {[cl |-> 0, el |-> 0]} /\ stores \in 0..MaxStores
  /\ \A c \in Clients :
       /\ block[c] \in 0..head
       /\ reserve[c] >= Pending /\ vaults[c] >= Pending /\ base[c] \in {Pending, block[c]}
       /\ balances[c].wv >= Pending /\ balances[c].el >= Pending
       /\ block[c] = 0 => base[c] = Pending /\ vaults[c] = Pending /\ reserve[c] = Pending
  /\ cache.block \in 0..head /\ faults \in 0..MaxFaults

\* "Only total - depositsReserve is actually drainable": the buffer is what is
\* drainable at the block of the state, whichever block the head is by then and
\* whichever side of the upgrade it is on - unless the service was blind to the
\* reserve when it asked, and then it is the larger total of the same block.
BufferIsDrainable ==
  cache # None =>
    /\ cache.unfinalized = Course[cache.block].unfinalized
    /\ cache.buffer = Drainable(cache.block,
                                IF cache.blind THEN 0 ELSE Course[cache.block].reserve)

\* The vaults' part is of the block and of the rewards of one update, which were
\* the stored ones at some moment of the question: never of two updates.
VaultsOfOneUpdate ==
  cache # None => \E f \in cache.during : cache.vaults = Vaults(cache.block, f)
=============================================================================
